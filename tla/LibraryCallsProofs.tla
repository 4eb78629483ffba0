------------------------- MODULE LibraryCallsProofs -------------------------
(***************************************************************************)
(* Proofs about LibraryCalls: what each of the functions returns, for      *)
(* every input that has its type.  The recursive functions of the models   *)
(* are unfolded by well-founded induction (Recursion, Iteration) first;    *)
(* then there is a part for each function, and the theorems follow at the  *)
(* end from an invariant that says which function was called with what.    *)
(***************************************************************************)
EXTENDS LibraryCalls, SequenceTheorems, FiniteSetTheorems, WellFoundedInduction, TLAPS

(* Induction and recursion over data. *)

\* A set of natural numbers has a least member.
LEMMA LeastElement ==
  ASSUME NEW T, T \subseteq Nat, T # {}
  PROVE  \E x \in T : \A y \in T : x <= y
<1>1. IsWellFoundedOn(OpToRel(<, Nat), Nat)
  BY NatLessThanWellFounded
<1>2. PICK x \in T : \A y \in T : ~(<<y, x>> \in OpToRel(<, Nat))
  BY <1>1, WFMin
<1>3. \A y \in T : ~(y < x)
  BY <1>2, Zenon DEF OpToRel
<1> QED
  BY <1>3

\* A set of numbers that has 0, and the next of each of its members, has all.
LEMMA Induction ==
  ASSUME NEW N \in Nat, NEW Good, 0 \in Good,
         \A n \in 0..N - 1 : n \in Good => n + 1 \in Good
  PROVE  \A n \in 0..N : n \in Good
<1> DEFINE Wrong == {n \in 0..N : n \notin Good}
<1> SUFFICES ASSUME Wrong # {} PROVE FALSE
  OBVIOUS
<1>1. PICK n \in Wrong : \A y \in Wrong : n <= y
  <2>1. Wrong \subseteq Nat
    OBVIOUS
  <2> HIDE DEF Wrong
  <2> QED
    BY <2>1, LeastElement
<1>2. n # 0 /\ n - 1 \in 0..N - 1 /\ ~(n <= n - 1) /\ n - 1 \in 0..N
  OBVIOUS
<1>3. n - 1 \in Good
  BY <1>1, <1>2
<1> QED
  BY <1>2, <1>3

\* What holds of a point when it holds of all points of smaller measure holds
\* of all points.
LEMMA MeasureInduction ==
  ASSUME NEW D, NEW m \in [D -> Nat], NEW Good,
         \A x \in D : (\A y \in D : m[y] < m[x] => y \in Good) => x \in Good
  PROVE  \A x \in D : x \in Good
<1> DEFINE Wrong == {m[x] : x \in {z \in D : z \notin Good}}
<1> SUFFICES ASSUME NEW x \in D, x \notin Good PROVE FALSE
  OBVIOUS
<1>1. Wrong \subseteq Nat /\ Wrong # {}
  OBVIOUS
<1>2. PICK k \in Wrong : \A y \in Wrong : k <= y
  <2> HIDE DEF Wrong
  <2> QED
    BY <1>1, LeastElement
<1>3. PICK z \in D : z \notin Good /\ m[z] = k
  OBVIOUS
<1>4. ASSUME NEW y \in D, m[y] < m[z], y \notin Good PROVE FALSE
  <2>1. m[y] \in Wrong /\ m[y] \in Nat /\ m[z] \in Nat
    BY <1>4
  <2> HIDE DEF Wrong
  <2>2. m[z] <= m[y]
    BY <1>2, <1>3, <2>1
  <2> QED
    BY <1>4, <2>1, <2>2
<1> QED
  BY <1>3, <1>4

\* What G gives for a point depends on the values at points of smaller measure
\* only, and is of the type of the values.
ByMeasure(D, T, bound, m, G) ==
  /\ T # {} /\ bound \in Nat /\ m \in [D -> 0..bound] /\ G \in [D -> [[D -> T] -> T]]
  /\ \A x \in D, f \in [D -> T], g \in [D -> T] :
       (\A y \in D : m[y] < m[x] => f[y] = g[y]) => G[x][f] = G[x][g]

\* Such a definition has a solution.
LEMMA Recursion ==
  ASSUME NEW D, NEW T, NEW bound, NEW m, NEW G, ByMeasure(D, T, bound, m, G)
  PROVE  \E f \in [D -> T] : \A x \in D : f[x] = G[x][f]
<1> USE DEF ByMeasure
<1> DEFINE Solves(k, f) == \A x \in D : m[x] < k => f[x] = G[x][f]
           Good == {k \in 0..bound + 1 : \E f \in [D -> T] : Solves(k, f)}
<1>1. 0 \in Good
  <2>0. PICK some \in T : TRUE
    OBVIOUS
  <2>1. Solves(0, [x \in D |-> some]) /\ [x \in D |-> some] \in [D -> T]
    OBVIOUS
  <2>2. 0 \in 0..bound + 1
    OBVIOUS
  <2> QED
    BY <2>1, <2>2
<1>2. ASSUME NEW k \in 0..(bound + 1) - 1, k \in Good PROVE k + 1 \in Good
  <2>1. PICK f \in [D -> T] : Solves(k, f)
    BY <1>2
  <2> DEFINE g == [x \in D |-> IF m[x] < k THEN f[x] ELSE G[x][f]]
  <2>2. g \in [D -> T]
    OBVIOUS
  <2>3. ASSUME NEW x \in D, m[x] < k + 1 PROVE g[x] = G[x][g]
    <3>1. ASSUME NEW y \in D, m[y] < m[x] PROVE f[y] = g[y]
      <4>1. m[x] \in Int /\ m[y] \in Int /\ k \in Int
        OBVIOUS
      <4>2. m[y] < k
        BY <2>3, <3>1, <4>1
      <4> QED
        BY <4>2
    <3>2. G[x][f] = G[x][g]
      <4> HIDE DEF g
      <4> QED
        BY <2>2, <3>1 
    <3>3. g[x] = G[x][f]
      BY <2>1
    <3> QED
      BY <3>2, <3>3
  <2>4. k + 1 \in 0..bound + 1
    OBVIOUS
  <2>5. Solves(k + 1, g)
    BY <2>3
  <2> HIDE DEF g
  <2> QED
    BY <2>2, <2>4, <2>5
<1>3. bound + 1 \in Good
  <2>1. bound + 1 \in Nat /\ bound + 1 \in 0..bound + 1
    OBVIOUS
  <2> HIDE DEF Good
  <2>2. \A n \in 0..bound + 1 : n \in Good
    BY <1>1, <1>2, <2>1, Induction
  <2> QED
    BY <2>1, <2>2
<1>4. PICK f \in [D -> T] : Solves(bound + 1, f)
  BY <1>3
<1>5. \A x \in D : m[x] < bound + 1
  OBVIOUS
<1> QED
  BY <1>4, <1>5

\* The same for a chain of steps, with the types of its values.
Iterative(N, T, start, step) == N \in Nat /\ start \in T /\ step \in [T -> [1..N -> T]]

\* Such a chain is what the recursive function that computes it says.
LEMMA Iteration ==
  ASSUME NEW N, NEW T, NEW start, NEW step, Iterative(N, T, start, step)
  PROVE  \E f \in [0..N -> T] :
           f = [n \in 0..N |-> IF n = 0 THEN start ELSE step[f[n - 1]][n]]
<1> DEFINE D == 0..N
           m == [n \in D |-> n]
           G == [n \in D |-> [f \in [D -> T] |-> IF n = 0 THEN start ELSE step[f[n - 1]][n]]]
<1>1. N \in Nat /\ T # {} /\ m \in [D -> 0..N]
  BY DEF Iterative
<1>2. ASSUME NEW n \in D, NEW f \in [D -> T]
      PROVE  /\ G[n][f] = IF n = 0 THEN start ELSE step[f[n - 1]][n]
             /\ G[n][f] \in T
  <2>1. G[n][f] = IF n = 0 THEN start ELSE step[f[n - 1]][n]
    OBVIOUS
  <2>2. n # 0 => f[n - 1] \in T /\ n \in 1..N
    BY <1>1
  <2> QED
    BY <2>1, <2>2 DEF Iterative
<1>3. G \in [D -> [[D -> T] -> T]]
  BY <1>2
<1>4. ASSUME NEW x \in D, NEW f \in [D -> T], NEW g \in [D -> T],
             \A y \in D : m[y] < m[x] => f[y] = g[y]
      PROVE  G[x][f] = G[x][g]
  <2>1. x # 0 => f[x - 1] = g[x - 1]
    BY <1>1, <1>4
  <2>2. G[x][f] = IF x = 0 THEN start ELSE step[f[x - 1]][x]
    BY <1>2
  <2>3. G[x][g] = IF x = 0 THEN start ELSE step[g[x - 1]][x]
    BY <1>2
  <2> HIDE DEF G
  <2> QED
    BY <2>1, <2>2, <2>3
<1> HIDE DEF G, m, D
<1>5. ByMeasure(D, T, N, m, G)
  BY <1>1, <1>3, <1>4 DEF ByMeasure
<1>6. PICK f \in [D -> T] : \A x \in D : f[x] = G[x][f]
  BY <1>5, Recursion
<1>7. \A n \in D : f[n] = IF n = 0 THEN start ELSE step[f[n - 1]][n]
  BY <1>2, <1>6
<1> QED
  BY <1>7 DEF D

\* The values of the chain, step by step.
LEMMA Chain ==
  ASSUME NEW N, NEW T, NEW start, NEW step, Iterative(N, T, start, step)
  PROVE  \E f \in [0..N -> T] : f[0] = start /\ \A n \in 1..N : f[n] = step[f[n - 1]][n]
<1>1. PICK f \in [0..N -> T] : f = [n \in 0..N |-> IF n = 0 THEN start ELSE step[f[n - 1]][n]]
  BY Iteration
<1>2. N \in Nat
  BY DEF Iterative
<1>3. \A n \in 0..N : f[n] = IF n = 0 THEN start ELSE step[f[n - 1]][n]
  BY <1>1, <1>2
<1>4. f[0] = start /\ \A n \in 1..N : f[n] = step[f[n - 1]][n]
  BY <1>2, <1>3
<1> QED
  BY <1>4

\* Quotient and remainder are what they are by these conditions alone.
LEMMA Division ==
  ASSUME NEW m \in Int, NEW k \in Nat \ {0}
  PROVE  /\ m \div k \in Int /\ m % k \in Nat /\ m % k < k
         /\ m = k * (m \div k) + (m % k)
         /\ m >= 0 => m \div k \in Nat
  OBVIOUS

\* The quotient and the remainder of a number by another, from how it is composed.
LEMMA DivisionIsUnique ==
  ASSUME NEW m \in Int, NEW k \in Nat \ {0}, NEW q \in Int, NEW r \in Nat,
         r < k, m = k * q + r
  PROVE  m \div k = q /\ m % k = r
<1> DEFINE p == m \div k
           s == m % k
<1>1. p \in Int /\ s \in Nat /\ s < k /\ m = k * p + s
  BY Division
<1> HIDE DEF p, s
<1>2. ASSUME p < q PROVE FALSE
  <2>1. k * q >= k * (p + 1) /\ k * (p + 1) = k * p + k
    BY <1>1, <1>2
  <2>2. k * p \in Int /\ k * q \in Int
    BY <1>1
  <2> QED
    BY <1>1, <2>1, <2>2
<1>3. ASSUME q < p PROVE FALSE
  <2>1. k * p >= k * (q + 1) /\ k * (q + 1) = k * q + k
    BY <1>1, <1>3
  <2>2. k * p \in Int /\ k * q \in Int
    BY <1>1
  <2> QED
    BY <1>1, <2>1, <2>2
<1>4. p = q
  BY <1>1, <1>2, <1>3
<1>5. s = r
  <2>1. k * q \in Int
    OBVIOUS
  <2> QED
    BY <1>1, <1>4, <2>1
<1> QED
  BY <1>4, <1>5 DEF p, s

\* FlattenSeq is what it says: the sequences one after the other.
LEMMA Flattening ==
  ASSUME NEW S, NEW seqs \in Seq(Seq(S))
  PROVE  \E f \in [0..Len(seqs) -> Seq(S)] :
           /\ f[0] = <<>>
           /\ \A n \in 1..Len(seqs) : f[n] = f[n - 1] \o seqs[n]
           /\ FlattenSeq(seqs) = f[Len(seqs)]
<1> DEFINE N == Len(seqs)
           T == Seq(S)
           step == [s \in T |-> [n \in 1..N |-> s \o seqs[n]]]
<1>1. N \in Nat /\ \A n \in 1..N : seqs[n] \in T
  OBVIOUS
<1>2. Iterative(N, T, <<>>, step)
  <2>1. <<>> \in T
    OBVIOUS
  <2>2. \A s \in T, n \in 1..N : s \o seqs[n] \in T
    BY <1>1
  <2>3. step \in [T -> [1..N -> T]]
    BY <2>2
  <2> HIDE DEF step, T, N
  <2> QED
    BY <1>1, <2>1, <2>3 DEF Iterative
<1> HIDE DEF step, T, N
<1>3. PICK f \in [0..N -> T] : f = [n \in 0..N |-> IF n = 0 THEN <<>> ELSE step[f[n - 1]][n]]
  BY <1>2, Iteration
<1>4. f[0] = <<>> /\ \A n \in 1..N : f[n] = f[n - 1] \o seqs[n]
  <2>1. f[0] = <<>>
    BY <1>1, <1>3
  <2>2. ASSUME NEW n \in 1..N PROVE f[n] = f[n - 1] \o seqs[n]
    <3>1. n # 0 /\ n \in 0..N /\ n - 1 \in 0..N /\ f[n - 1] \in T
      BY <1>1
    <3>2. f[n] = step[f[n - 1]][n]
      BY <1>3, <3>1
    <3> QED
      BY <3>1, <3>2 DEF step
  <2> QED
    BY <2>1, <2>2
<1>5. FlattenSeq(seqs) = f[N]
  <2>1. CASE N = 0
    <3>1. FlattenSeq(seqs) = seqs /\ seqs = <<>>
      BY <2>1 DEF FlattenSeq, N
    <3> QED
      BY <1>4, <2>1, <3>1
  <2>2. CASE N # 0
    <3> DEFINE Equation(g) == g = [i \in 1..N |-> IF i = 1 THEN seqs[i] ELSE g[i - 1] \o seqs[i]]
               flatten == CHOOSE g : Equation(g)
               h == [i \in 1..N |-> f[i]]
    <3>0. FlattenSeq(seqs) = flatten[N]
      BY <2>2 DEF FlattenSeq, N
    <3>1. Equation(h)
      <4>1. ASSUME NEW i \in 1..N PROVE f[i] = IF i = 1 THEN seqs[i] ELSE h[i - 1] \o seqs[i]
        <5>1. CASE i = 1
          <6>1. f[1] = f[1 - 1] \o seqs[1] /\ seqs[1] \in Seq(S)
            BY <1>4, <1>1, <5>1 DEF T
          <6>2. <<>> \o seqs[1] = seqs[1]
            BY <6>1, ConcatEmptySeq
          <6>3. f[1 - 1] = <<>>
            BY <1>4
          <6> QED
            BY <5>1, <6>1, <6>2, <6>3
        <5>2. CASE i # 1
          <6>1. i - 1 \in 1..N
            BY <5>2, <1>1
          <6> QED
            BY <1>4, <5>2, <6>1
        <5> QED
          BY <5>1, <5>2
      <4> QED
        BY <4>1
    <3>2. Equation(flatten)
      BY <3>1
    <3> HIDE DEF flatten
    <3> DEFINE Good == {n \in 0..N - 1 : flatten[n + 1] = f[n + 1]}
    <3>3. N - 1 \in Nat /\ 1 \in 1..N
      BY <1>1, <2>2
    <3>4. 0 \in Good
      <4>1. flatten[1] = seqs[1]
        BY <3>2, <3>3
      <4>2. f[1] = f[1 - 1] \o seqs[1] /\ seqs[1] \in Seq(S)
        BY <1>4, <1>1, <3>3 DEF T
      <4>3. <<>> \o seqs[1] = seqs[1] /\ f[1 - 1] = <<>>
        BY <4>2, <1>4, ConcatEmptySeq
      <4>4. f[1] = seqs[1]
        BY <4>2, <4>3
      <4> QED
        BY <3>3, <4>1, <4>4 DEF Good
    <3>5. ASSUME NEW n \in 0..(N - 1) - 1, n \in Good PROVE n + 1 \in Good
      <4>1. n + 2 \in 1..N /\ n + 2 # 1 /\ (n + 2) - 1 = n + 1 /\ n + 1 \in 0..N - 1 /\ (n + 1) + 1 = n + 2
        BY <1>1, <2>2
      <4>2. flatten[n + 2] = flatten[n + 1] \o seqs[n + 2]
        BY <3>2, <4>1
      <4>3. f[n + 2] = f[n + 1] \o seqs[n + 2]
        BY <1>4, <4>1
      <4>4. flatten[n + 1] = f[n + 1]
        BY <3>5
      <4> QED
        BY <4>1, <4>2, <4>3, <4>4
    <3> HIDE DEF Good
    <3>6. \A n \in 0..N - 1 : n \in Good
      BY <3>3, <3>4, <3>5, Induction
    <3>7. N - 1 \in 0..N - 1 /\ (N - 1) + 1 = N
      BY <1>1, <3>3
    <3>8. flatten[N] = f[N]
      BY <3>6, <3>7 DEF Good
    <3> QED
      BY <3>0, <3>8
  <2> QED
    BY <2>1, <2>2
<1> QED
  BY <1>4, <1>5 DEF T, N

\* The characters from a position on, one after the other.
LEMMA PrefixGrows ==
  ASSUME NEW S, NEW s \in Seq(S), NEW n \in 0..Len(s) - 1
  PROVE  SubSeq(s, 1, n + 1) = Append(SubSeq(s, 1, n), s[n + 1])
<1>1. 1 \in 1..Len(s) /\ n + 1 \in 1..Len(s) /\ (n + 1) - 1 = n /\ s[n + 1] \in S /\ n \in Int
  OBVIOUS
<1>2. SubSeq(s, 1, n + 1) = SubSeq(s, 1, n) \o <<s[n + 1]>>
  BY <1>1, SubSeqRecursiveSecond
<1>3. SubSeq(s, 1, n) \in Seq(S)
  BY <1>1, SubSeqProperties
<1> QED
  BY <1>1, <1>2, <1>3, AppendIsConcat

\* The positions of the search of match_wildcard, and its two strings.
Pairs(expr, str) == (1..Len(expr) + 1) \X (1..Len(str) + 1)
TwoStrings(expr, str) == expr \in Seq(Int) /\ str \in Seq(Int)

\* Character i of the expression may stand for the string from j to before k.
StandsFor(expr, str, i, j, k) ==
  \/ expr[i] = Star /\ j <= k
  \/ k = j + 1 /\ str[j] = expr[i]

\* The rest of the expression matches the rest of the string.
MatchesFrom(expr, str, i, j) ==
  \E cut \in [i..Len(expr) + 1 -> 1..Len(str) + 1] :
    /\ cut[i] = j /\ cut[Len(expr) + 1] = Len(str) + 1
    /\ \A n \in i..Len(expr) : StandsFor(expr, str, n, cut[n], cut[n + 1])

\* The reference of match_wildcard, one character of the expression at a time:
\* a match of the rest starts with what its first character stands for.
LEMMA MatchesUnfold ==
  ASSUME NEW expr, NEW str, TwoStrings(expr, str),
         NEW i \in 1..Len(expr) + 1, NEW j \in 1..Len(str) + 1
  PROVE  MatchesFrom(expr, str, i, j)
           <=> IF i > Len(expr) THEN j > Len(str)
               ELSE \E k \in 1..Len(str) + 1 :
                      StandsFor(expr, str, i, j, k) /\ MatchesFrom(expr, str, i + 1, k)
<1> DEFINE m == Len(expr) + 1
           n == Len(str) + 1
<1>0. m \in Nat /\ n \in Nat /\ Len(expr) = m - 1 /\ Len(str) = n - 1
  BY DEF TwoStrings
<1>1. CASE i > Len(expr)
  <2>1. i = m
    BY <1>0, <1>1
  <2>2. ASSUME j = n PROVE MatchesFrom(expr, str, i, j)
    <3> DEFINE cut == [l \in i..m |-> n]
    <3>1. cut \in [i..m -> 1..n] /\ cut[i] = j /\ cut[m] = n
      BY <1>0, <2>1, <2>2
    <3>2. i..Len(expr) = {}
      BY <1>0, <2>1
    <3> QED
      BY <3>1, <3>2 DEF MatchesFrom
  <2>3. ASSUME MatchesFrom(expr, str, i, j) PROVE j = n
    BY <2>1, <2>3 DEF MatchesFrom
  <2> QED
    BY <1>0, <1>1, <2>2, <2>3
<1>2. CASE ~(i > Len(expr))
  <2>0. i \in 1..m - 1 /\ i + 1 \in 1..m
    BY <1>0, <1>2
  <2>1. ASSUME MatchesFrom(expr, str, i, j)
        PROVE  \E k \in 1..n : StandsFor(expr, str, i, j, k) /\ MatchesFrom(expr, str, i + 1, k)
    <3>1. PICK cut \in [i..m -> 1..n] :
            /\ cut[i] = j /\ cut[m] = n
            /\ \A l \in i..Len(expr) : StandsFor(expr, str, l, cut[l], cut[l + 1])
      BY <2>1 DEF MatchesFrom
    <3> DEFINE rest == [l \in i + 1..m |-> cut[l]]
    <3>2. rest \in [i + 1..m -> 1..n] /\ rest[i + 1] = cut[i + 1] /\ rest[m] = n
      BY <1>0, <2>0, <3>1
    <3>3. ASSUME NEW l \in i + 1..Len(expr)
          PROVE  StandsFor(expr, str, l, rest[l], rest[l + 1])
      <4>1. l \in i..Len(expr) /\ l \in i + 1..m /\ l + 1 \in i + 1..m
        BY <1>0, <2>0
      <4>2. rest[l] = cut[l] /\ rest[l + 1] = cut[l + 1]
        BY <4>1
      <4> QED
        BY <3>1, <4>1, <4>2
    <3>4. MatchesFrom(expr, str, i + 1, cut[i + 1])
      <4> HIDE DEF rest
      <4> QED
        BY <3>2, <3>3 DEF MatchesFrom
    <3>5. StandsFor(expr, str, i, j, cut[i + 1]) /\ cut[i + 1] \in 1..n
      <4> HIDE DEF rest
      <4>1. i \in i..Len(expr) /\ i + 1 \in i..m
        BY <1>0, <2>0
      <4> QED
        BY <3>1, <4>1
    <3> QED
      BY <3>4, <3>5
  <2>2. ASSUME NEW k \in 1..n, StandsFor(expr, str, i, j, k), MatchesFrom(expr, str, i + 1, k)
        PROVE  MatchesFrom(expr, str, i, j)
    <3>1. PICK rest \in [i + 1..m -> 1..n] :
            /\ rest[i + 1] = k /\ rest[m] = n
            /\ \A l \in i + 1..Len(expr) : StandsFor(expr, str, l, rest[l], rest[l + 1])
      BY <2>2 DEF MatchesFrom
    <3> DEFINE cut == [l \in i..m |-> IF l = i THEN j ELSE rest[l]]
    <3>2. cut \in [i..m -> 1..n] /\ cut[i] = j /\ cut[m] = n
      BY <1>0, <2>0, <3>1
    <3>3. ASSUME NEW l \in i..Len(expr)
          PROVE  StandsFor(expr, str, l, cut[l], cut[l + 1])
      <4>1. l \in i..m /\ l + 1 \in i..m /\ l + 1 # i
        BY <1>0, <2>0
      <4>2. cut[l + 1] = rest[l + 1]
        BY <4>1
      <4>3. CASE l = i
        BY <2>2, <3>1, <3>2, <4>2, <4>3
      <4>4. CASE l # i
        <5>1. l \in i + 1..Len(expr) /\ cut[l] = rest[l]
          BY <4>1, <4>4, <1>0, <2>0
        <5> QED
          BY <3>1, <4>2, <5>1
      <4> QED
        BY <4>3, <4>4
    <3> HIDE DEF cut
    <3> QED
      BY <3>2, <3>3 DEF MatchesFrom
  <2> QED
    BY <1>0, <1>2, <2>1, <2>2
<1> QED
  BY <1>1, <1>2

\* A match of the whole is a match from the first characters on.
LEMMA MatchesFromStart ==
  ASSUME NEW expr, NEW str, TwoStrings(expr, str)
  PROVE  Matches(expr, str) <=> MatchesFrom(expr, str, 1, 1)
<1> DEFINE m == Len(expr) + 1
<1>1. m \in Nat /\ Len(expr) = m - 1
  BY DEF TwoStrings
<1>2. ASSUME NEW cut \in [1..m -> 1..Len(str) + 1], NEW i \in 1..m - 1
      PROVE  StandsFor(expr, str, i, cut[i], cut[i + 1])
               <=> \/ expr[i] = Star /\ cut[i] <= cut[i + 1]
                   \/ cut[i + 1] = cut[i] + 1 /\ str[cut[i]] = expr[i]
  BY DEF StandsFor
<1> QED
  BY <1>1, <1>2 DEF Matches, MatchesFrom

\* The pushed positions are positions, and closer to the ends.
Left(expr, str, at) == (Len(expr) + 1 - at[1]) + (Len(str) + 1 - at[2])

\* Each position that match_wildcard pushes is one of the two strings, and has
\* less of them left: the search ends.
LEMMA ProgressIsCloser ==
  ASSUME NEW expr, NEW str, TwoStrings(expr, str), NEW at \in Pairs(expr, str),
         NEW next \in Progress(expr, str, at[1], at[2])
  PROVE  /\ next \in Pairs(expr, str)
         /\ Left(expr, str, at) \in Nat /\ Left(expr, str, next) \in Nat
         /\ Left(expr, str, next) < Left(expr, str, at)
<1>1. /\ Len(expr) \in Nat /\ Len(str) \in Nat
      /\ at[1] \in 1..Len(expr) + 1 /\ at[2] \in 1..Len(str) + 1
  BY DEF TwoStrings, Pairs
<1> DEFINE i == at[1]
           j == at[2]
<1>2. /\ i <= Len(expr)
      /\ \/ next = <<i + 1, j>>
         \/ next = <<i + 1, j + 1>> /\ j <= Len(str)
         \/ next = <<i, j + 1>> /\ j <= Len(str)
  BY <1>1 DEF Progress
<1>3. Left(expr, str, at) = (Len(expr) + 1 - i) + (Len(str) + 1 - j)
  BY DEF Left
<1> HIDE DEF i, j
<1>4. CASE next = <<i + 1, j>>
  <2>1. next \in Pairs(expr, str) /\ Left(expr, str, next) = (Len(expr) + 1 - (i + 1)) + (Len(str) + 1 - j)
    BY <1>1, <1>2, <1>4 DEF Pairs, Left, i, j
  <2>2. i \in Int /\ j \in Int /\ i <= Len(expr) + 1 /\ j <= Len(str) + 1
    BY <1>1 DEF i, j
  <2> QED
    BY <1>1, <1>3, <2>1, <2>2, <1>2
<1>5. CASE next = <<i + 1, j + 1>> /\ j <= Len(str)
  <2>1. next \in Pairs(expr, str) /\ Left(expr, str, next) = (Len(expr) + 1 - (i + 1)) + (Len(str) + 1 - (j + 1))
    BY <1>1, <1>2, <1>5 DEF Pairs, Left, i, j
  <2>2. i \in Int /\ j \in Int /\ i <= Len(expr) + 1 /\ j <= Len(str) + 1
    BY <1>1 DEF i, j
  <2> QED
    BY <1>1, <1>2, <1>3, <1>5, <2>1, <2>2
<1>6. CASE next = <<i, j + 1>> /\ j <= Len(str)
  <2>1. next \in Pairs(expr, str) /\ Left(expr, str, next) = (Len(expr) + 1 - i) + (Len(str) + 1 - (j + 1))
    BY <1>1, <1>2, <1>6 DEF Pairs, Left, i, j
  <2>2. i \in Int /\ j \in Int /\ i <= Len(expr) + 1 /\ j <= Len(str) + 1
    BY <1>1 DEF i, j
  <2> QED
    BY <1>1, <1>3, <1>6, <2>1, <2>2
<1> QED
  BY <1>2, <1>4, <1>5, <1>6

\* What the search finds at a position.
Found(expr, str, finds, at) ==
  \/ at[1] > Len(expr) /\ at[2] > Len(str)
  \/ \E next \in Progress(expr, str, at[1], at[2]) : finds[next]

\* The search answers for a position what it answers for those it pushes.
LEMMA SearchUnfolds ==
  ASSUME NEW expr, NEW str, TwoStrings(expr, str)
  PROVE  \E finds \in [Pairs(expr, str) -> BOOLEAN] :
           /\ \A at \in Pairs(expr, str) : finds[at] <=> Found(expr, str, finds, at)
           /\ MatchWildcard(expr, str) = finds[<<1, 1>>]
<1> DEFINE D == Pairs(expr, str)
           T == BOOLEAN
           m == [at \in D |-> Left(expr, str, at)]
           bound == Len(expr) + Len(str)
           G == [at \in D |-> [f \in [D -> T] |-> Found(expr, str, f, at)]]
           Equation(f) == f = [at \in (1..Len(expr) + 1) \X (1..Len(str) + 1) |->
             \/ at[1] > Len(expr) /\ at[2] > Len(str)
             \/ \E next \in Progress(expr, str, at[1], at[2]) : f[next]]
<1>1. \E f \in [D -> T] : \A x \in D : f[x] = G[x][f]
  <2>1. bound \in Nat /\ m \in [D -> 0..bound]
    BY DEF TwoStrings, Pairs, Left
  <2>2. ASSUME NEW x \in D, NEW f \in [D -> T], NEW g \in [D -> T],
               \A y \in D : m[y] < m[x] => f[y] = g[y]
        PROVE  Found(expr, str, f, x) = Found(expr, str, g, x)
    <3>1. ASSUME NEW next \in Progress(expr, str, x[1], x[2]) PROVE f[next] = g[next]
      BY <2>2, ProgressIsCloser
    <3> QED
      BY <3>1 DEF Found
  <2>3. \A x \in D, f \in [D -> T] : Found(expr, str, f, x) \in BOOLEAN
    BY DEF Found
  <2>4. ByMeasure(D, T, bound, m, G)
    <3>1. G \in [D -> [[D -> T] -> T]]
      BY <2>3
    <3>2. \A x \in D, f \in [D -> T] : G[x][f] = Found(expr, str, f, x)
      OBVIOUS
    <3> HIDE DEF D, G, m, bound
    <3>3. T # {}
      OBVIOUS
    <3> HIDE DEF T
    <3>4. ASSUME NEW x \in D, NEW f \in [D -> T], NEW g \in [D -> T],
               \A y \in D : m[y] < m[x] => f[y] = g[y]
        PROVE  G[x][f] = G[x][g]
      <4>1. Found(expr, str, f, x) = Found(expr, str, g, x)
        BY <2>2, <3>4
      <4> QED
        BY <3>2, <4>1
    <3> QED
      BY <2>1, <3>1, <3>3, <3>4 DEF ByMeasure
  <2> HIDE DEF D, T, G, m, bound
  <2> QED
    BY <2>4, Recursion
<1>2. PICK f \in [D -> T] : \A x \in D : f[x] = G[x][f]
  BY <1>1
<1>3. \A x \in D : f[x] = Found(expr, str, f, x)
  BY <1>2
<1>4. Equation(f)
  BY <1>3 DEF Found, Pairs
<1>5. Equation(CHOOSE g : Equation(g))
  BY <1>4
<1> DEFINE finds == CHOOSE g : Equation(g)
<1>6. MatchWildcard(expr, str) = finds[<<1, 1>>]
  BY DEF MatchWildcard
<1> HIDE DEF finds
<1>7. \A x \in D : finds[x] = Found(expr, str, finds, x)
  BY <1>5 DEF Found, Pairs, finds
<1>8. finds \in [D -> BOOLEAN]
  BY <1>5, <1>7 DEF Found, Pairs, finds
<1> QED
  BY <1>6, <1>7, <1>8

\* match_wildcard finds a match only when there is one, and finds it when the
\* string has no '*' of its own (string_utils_wildcard.hpp).
LEMMA WildcardIsCorrect ==
  ASSUME NEW expr, NEW str, TwoStrings(expr, str)
  PROVE  /\ MatchWildcard(expr, str) => Matches(expr, str)
         /\ Matches(expr, str) /\ ~Contains(str, Star) => MatchWildcard(expr, str)
<1> DEFINE D == Pairs(expr, str)
           m == [at \in D |-> Left(expr, str, at)]
<1>1. PICK finds \in [D -> BOOLEAN] :
        /\ \A at \in D : finds[at] <=> Found(expr, str, finds, at)
        /\ MatchWildcard(expr, str) = finds[<<1, 1>>]
  BY SearchUnfolds
<1>2. m \in [D -> Nat] /\ <<1, 1>> \in D /\ Len(expr) \in Nat /\ Len(str) \in Nat
  BY DEF TwoStrings, Pairs, Left
<1>3. ASSUME NEW at \in D, finds[at],
             \A y \in D : m[y] < m[at] => (finds[y] => MatchesFrom(expr, str, y[1], y[2]))
      PROVE  MatchesFrom(expr, str, at[1], at[2])
  <2> DEFINE i == at[1]
             j == at[2]
  <2>0. i \in 1..Len(expr) + 1 /\ j \in 1..Len(str) + 1
    BY DEF Pairs
  <2>1. Found(expr, str, finds, at)
    BY <1>1, <1>3
  <2>2. ASSUME NEW next \in Progress(expr, str, i, j), finds[next]
        PROVE  next \in D /\ MatchesFrom(expr, str, next[1], next[2])
    BY <1>3, <2>2, ProgressIsCloser
  <2>3. CASE i > Len(expr)
    <3>1. Progress(expr, str, i, j) = {}
      BY <2>3 DEF Progress
    <3> QED
      BY <2>0, <2>1, <2>3, <3>1, MatchesUnfold DEF Found
  <2>4. CASE ~(i > Len(expr))
    <3>0. PICK next \in Progress(expr, str, i, j) : finds[next]
      BY <2>1, <2>4 DEF Found
    <3>1. next \in D /\ MatchesFrom(expr, str, next[1], next[2])
      BY <2>2, <3>0
    <3>2. CASE next[1] = i + 1
      <4>1. next[2] \in 1..Len(str) + 1 /\ StandsFor(expr, str, i, j, next[2])
        BY <1>2, <2>0, <2>4, <3>0, <3>1, <3>2 DEF Progress, StandsFor, Pairs
      <4> QED
        BY <2>0, <2>4, <3>1, <3>2, <4>1, MatchesUnfold
    <3>3. CASE next[1] # i + 1
      <4>1. next = <<i, j + 1>> /\ expr[i] = Star /\ j + 1 \in 1..Len(str) + 1
        <5>1. Progress(expr, str, i, j) \subseteq
                {<<i + 1, j>>, <<i + 1, j + 1>>} \cup
                {p \in {<<i, j + 1>>} : expr[i] = Star /\ ~(j > Len(str))}
          BY <2>4 DEF Progress
        <5>2. next = <<i, j + 1>> /\ expr[i] = Star /\ ~(j > Len(str))
          BY <3>0, <3>3, <5>1
        <5> QED
          BY <1>2, <2>0, <5>2
      <4>2. PICK k \in 1..Len(str) + 1 :
              StandsFor(expr, str, i, j + 1, k) /\ MatchesFrom(expr, str, i + 1, k)
        BY <2>0, <2>4, <3>1, <4>1, MatchesUnfold
      <4>3. StandsFor(expr, str, i, j, k)
        BY <2>0, <4>1, <4>2 DEF StandsFor
      <4> QED
        BY <2>0, <2>4, <4>2, <4>3, MatchesUnfold
    <3> QED
      BY <3>2, <3>3
  <2> QED
    BY <2>3, <2>4
<1>4. ASSUME ~Contains(str, Star), NEW at \in D, MatchesFrom(expr, str, at[1], at[2]),
             \A y \in D : m[y] < m[at] => (MatchesFrom(expr, str, y[1], y[2]) => finds[y])
      PROVE  finds[at]
  <2> DEFINE i == at[1]
             j == at[2]
  <2>0. i \in 1..Len(expr) + 1 /\ j \in 1..Len(str) + 1
    BY DEF Pairs
  <2>2. ASSUME NEW next \in Progress(expr, str, i, j), MatchesFrom(expr, str, next[1], next[2])
        PROVE  finds[at]
    <3>1. finds[next]
      BY <1>4, <2>2, ProgressIsCloser
    <3> QED
      BY <1>1, <3>1 DEF Found
  <2>3. CASE i > Len(expr)
    <3>1. j > Len(str)
      BY <1>4, <2>0, <2>3, MatchesUnfold
    <3> QED
      BY <1>1, <2>3, <3>1 DEF Found
  <2>4. CASE ~(i > Len(expr))
    <3>0. PICK k \in 1..Len(str) + 1 :
            StandsFor(expr, str, i, j, k) /\ MatchesFrom(expr, str, i + 1, k)
      BY <1>4, <2>0, <2>4, MatchesUnfold
    <3>1. CASE j > Len(str)
      <4>1. k = j /\ expr[i] = Star
        BY <1>2, <2>0, <3>0, <3>1 DEF StandsFor
      <4>2. <<i + 1, j>> \in Progress(expr, str, i, j)
        BY <2>4, <3>1, <4>1 DEF Progress
      <4> QED
        BY <2>2, <3>0, <4>1, <4>2
    <3>2. CASE ~(j > Len(str)) /\ expr[i] = str[j]
      <4>1. str[j] # Star
        BY <1>2, <1>4, <2>0, <3>2 DEF Contains
      <4>2. k = j + 1
        BY <3>0, <3>2, <4>1 DEF StandsFor
      <4>3. <<i + 1, j + 1>> \in Progress(expr, str, i, j)
        BY <2>4, <3>2 DEF Progress
      <4> QED
        BY <2>2, <3>0, <4>2, <4>3
    <3>3. CASE ~(j > Len(str)) /\ expr[i] # str[j]
      <4>1. expr[i] = Star /\ j <= k
        BY <3>0, <3>3 DEF StandsFor
      <4>2. <<i + 1, j>> \in Progress(expr, str, i, j) /\ <<i, j + 1>> \in Progress(expr, str, i, j)
        BY <2>4, <3>3, <4>1 DEF Progress
      <4>3. CASE k = j
        BY <2>2, <3>0, <4>2, <4>3
      <4>4. CASE k # j
        <5>1. j + 1 \in 1..Len(str) + 1 /\ StandsFor(expr, str, i, j + 1, k)
          BY <1>2, <2>0, <3>3, <4>1, <4>4 DEF StandsFor
        <5>2. MatchesFrom(expr, str, i, j + 1)
          BY <2>0, <2>4, <3>0, <5>1, MatchesUnfold
        <5> QED
          BY <2>2, <4>2, <5>2
      <4> QED
        BY <4>3, <4>4
    <3> QED
      BY <3>1, <3>2, <3>3
  <2> QED
    BY <2>3, <2>4
<1> DEFINE Sound == {at \in D : finds[at] => MatchesFrom(expr, str, at[1], at[2])}
           Complete == {at \in D : ~Contains(str, Star) => (MatchesFrom(expr, str, at[1], at[2]) => finds[at])}
<1>5. \A at \in D : (\A y \in D : m[y] < m[at] => y \in Sound) => at \in Sound
  BY <1>3
<1>6. \A at \in D : (\A y \in D : m[y] < m[at] => y \in Complete) => at \in Complete
  BY <1>4
<1>7. <<1, 1>> \in Sound /\ <<1, 1>> \in Complete
  <2> HIDE DEF D, m, Sound, Complete
  <2>1. \A at \in D : at \in Sound
    BY <1>2, <1>5, MeasureInduction
  <2>2. \A at \in D : at \in Complete
    BY <1>2, <1>6, MeasureInduction
  <2> QED
    BY <1>2, <2>1, <2>2
<1>8. Matches(expr, str) <=> MatchesFrom(expr, str, 1, 1)
  BY MatchesFromStart
<1> QED
  BY <1>1, <1>7, <1>8

\* The powers of two, up to that of a word.
LEMMA PowersOfTwo ==
  /\ \A n \in 0..WordBits : PowerOfTwo[n] \in Nat \ {0}
  /\ PowerOfTwo[0] = 1
  /\ \A n \in 1..WordBits : PowerOfTwo[n] = 2 * PowerOfTwo[n - 1]
<1> DEFINE T == Nat \ {0}
           step == [s \in T |-> [n \in 1..WordBits |-> 2 * s]]
           Equation(f) == f = [n \in 0..WordBits |-> IF n = 0 THEN 1 ELSE 2 * f[n - 1]]
<1>1. Iterative(WordBits, T, 1, step)
  <2>1. \A s \in T : 2 * s \in T
    OBVIOUS
  <2>2. step \in [T -> [1..WordBits -> T]]
    BY <2>1
  <2>3. WordBits \in Nat /\ 1 \in T
    BY WordBitsAssumption
  <2> HIDE DEF step, T
  <2> QED
    BY <2>2, <2>3 DEF Iterative
<1>2. PICK f \in [0..WordBits -> T] :
        f = [n \in 0..WordBits |-> IF n = 0 THEN 1 ELSE step[f[n - 1]][n]]
  <2> HIDE DEF step, T
  <2> QED
    BY <1>1, Iteration
<1>3. WordBits \in Nat
  BY WordBitsAssumption
<1>4. Equation(f)
  <2>0. \A n \in 0..WordBits : n # 0 => n - 1 \in 0..WordBits /\ n \in 1..WordBits
    BY <1>3
  <2>1. \A n \in 0..WordBits : n # 0 => f[n - 1] \in T /\ n \in 1..WordBits
    BY <2>0
  <2>2. \A n \in 0..WordBits : n # 0 => step[f[n - 1]][n] = 2 * f[n - 1]
    BY <2>1
  <2> HIDE DEF step, T
  <2> QED
    BY <1>2, <2>2
<1>5. Equation(PowerOfTwo)
  BY <1>4 DEF PowerOfTwo
<1> HIDE DEF T
<1>6. PowerOfTwo[0] = 1
  BY <1>3, <1>5
<1>7. \A n \in 1..WordBits : PowerOfTwo[n] = 2 * PowerOfTwo[n - 1]
  BY <1>3, <1>5
<1> DEFINE Good == {n \in 0..WordBits : PowerOfTwo[n] \in Nat \ {0}}
<1>8. 0 \in Good
  BY <1>3, <1>6
<1>9. ASSUME NEW n \in 0..WordBits - 1, n \in Good PROVE n + 1 \in Good
  <2>1. n + 1 \in 1..WordBits /\ (n + 1) - 1 = n
    BY <1>3
  <2>2. PowerOfTwo[n + 1] = 2 * PowerOfTwo[n]
    BY <1>7, <2>1
  <2> QED
    BY <1>9, <2>1, <2>2
<1>10. \A n \in 0..WordBits : n \in Good
  <2> HIDE DEF Good
  <2> QED
    BY <1>3, <1>8, <1>9, Induction
<1> QED
  BY <1>6, <1>7, <1>10

\* A word is cut in two at any bit.
LEMMA PowersMultiply ==
  ASSUME NEW s \in 0..WordBits
  PROVE  PowerOfTwo[WordBits - s] * PowerOfTwo[s] = PowerOfTwo[WordBits]
<1> DEFINE Good == {n \in 0..WordBits :
                      PowerOfTwo[WordBits - n] * PowerOfTwo[n] = PowerOfTwo[WordBits]}
<1>1. WordBits \in Nat
  BY WordBitsAssumption
<1>2. 0 \in Good
  <2>1. PowerOfTwo[WordBits] \in Nat /\ PowerOfTwo[0] = 1 /\ WordBits - 0 = WordBits
    BY <1>1, PowersOfTwo
  <2> QED
    BY <1>1, <2>1
<1>3. ASSUME NEW n \in 0..WordBits - 1, n \in Good PROVE n + 1 \in Good
  <2>1. n + 1 \in 1..WordBits /\ (n + 1) - 1 = n /\ WordBits - n \in 1..WordBits
        /\ (WordBits - n) - 1 = WordBits - (n + 1) /\ n \in 0..WordBits
        /\ WordBits - (n + 1) \in 0..WordBits
    BY <1>1
  <2>2. PowerOfTwo[n + 1] = 2 * PowerOfTwo[n] /\ PowerOfTwo[n] \in Nat
    BY <2>1, PowersOfTwo
  <2>3. PowerOfTwo[WordBits - n] = 2 * PowerOfTwo[WordBits - (n + 1)]
    BY <2>1, PowersOfTwo
  <2>4. PowerOfTwo[WordBits - (n + 1)] \in Nat
    BY <2>1, PowersOfTwo
  <2>5. \A a, b \in Nat : a * (2 * b) = (2 * a) * b
    OBVIOUS
  <2>6. PowerOfTwo[WordBits - (n + 1)] * PowerOfTwo[n + 1]
          = PowerOfTwo[WordBits - n] * PowerOfTwo[n]
    BY <2>2, <2>3, <2>4, <2>5
  <2> QED
    BY <1>3, <2>1, <2>6
<1> HIDE DEF Good
<1>4. \A n \in 0..WordBits : n \in Good
  BY <1>1, <1>2, <1>3, Induction
<1> QED
  BY <1>4 DEF Good

\* The exclusive or, bit by bit.
LEMMA XorOfWords ==
  /\ Word \subseteq Nat
  /\ \A x, y \in Word :
       /\ x \div 2 \in Word /\ y \div 2 \in Word /\ Xor[x][y] \in Nat
       /\ Xor[x][y] = ((x + y) % 2) + 2 * Xor[x \div 2][y \div 2]
<1> DEFINE T == [Word -> Nat]
           bound == PowerOfTwo[WordBits] - 1
           m == [x \in Word |-> x]
           G == [x \in Word |-> [f \in [Word -> T] |->
                  [y \in Word |-> IF x = 0 THEN y ELSE ((x + y) % 2) + 2 * f[x \div 2][y \div 2]]]]
           Equation(f) == f = [x \in Word |-> [y \in Word |->
                  IF x = 0 THEN y ELSE ((x + y) % 2) + 2 * f[x \div 2][y \div 2]]]
<1>1. bound \in Nat /\ Word = 0..bound
  BY WordBitsAssumption, PowersOfTwo DEF Word
<1>2. \A x \in Word : x \div 2 \in Word /\ (x # 0 => x \div 2 < x)
  BY <1>1
<1>3. ByMeasure(Word, T, bound, m, G)
  <2>1. ASSUME NEW x \in Word, NEW f \in [Word -> T]
        PROVE  G[x][f] \in T
    <3>1. ASSUME NEW y \in Word
          PROVE  (IF x = 0 THEN y ELSE ((x + y) % 2) + 2 * f[x \div 2][y \div 2]) \in Nat
      <4>0. f[x \div 2] \in [Word -> Nat] /\ y \div 2 \in Word
        BY <1>2
      <4>2. f[x \div 2][y \div 2] \in Nat
        BY <4>0
      <4>3. x \in Nat /\ y \in Nat
        <5> HIDE DEF bound
        <5> QED
          BY <1>1
      <4> QED
        BY <4>2, <4>3
    <3> QED
      BY <3>1
  <2>2. ASSUME NEW x \in Word, NEW f \in [Word -> T], NEW g \in [Word -> T],
               \A y \in Word : m[y] < m[x] => f[y] = g[y]
        PROVE  G[x][f] = G[x][g]
    <3>1. x # 0 => f[x \div 2] = g[x \div 2]
      BY <1>2, <2>2
    <3> QED
      BY <3>1
  <2>3. G \in [Word -> [[Word -> T] -> T]]
    BY <2>1
  <2>4. m \in [Word -> 0..bound] /\ T # {}
    <3>1. [y \in Word |-> 0] \in T
      OBVIOUS
    <3> QED
      BY <1>1, <3>1
  <2> HIDE DEF T, G, m, bound
  <2> QED
    BY <1>1, <2>2, <2>3, <2>4 DEF ByMeasure
<1>4. PICK f \in [Word -> T] : \A x \in Word : f[x] = G[x][f]
  <2> HIDE DEF T, G, m, bound
  <2> QED
    BY <1>3, Recursion
<1>5. Equation(f)
  BY <1>4
<1>6. Equation(Xor)
  BY <1>5 DEF Xor
<1>7. ASSUME NEW x \in Word, NEW y \in Word
      PROVE  Xor[x][y] = IF x = 0 THEN y ELSE ((x + y) % 2) + 2 * Xor[x \div 2][y \div 2]
  <2>1. Xor[x] = [z \in Word |-> IF x = 0 THEN z ELSE ((x + z) % 2) + 2 * Xor[x \div 2][z \div 2]]
    BY <1>6
  <2> QED
    BY <2>1
<1> DEFINE Good == {x \in Word : \A y \in Word : Xor[x][y] \in Nat}
<1>8. ASSUME NEW x \in Word, \A z \in Word : m[z] < m[x] => z \in Good PROVE x \in Good
  <2>1. ASSUME NEW y \in Word PROVE Xor[x][y] \in Nat
    <3>1. x # 0 => Xor[x \div 2][y \div 2] \in Nat
      BY <1>2, <1>8
    <3>2. x \in Nat /\ y \in Nat
      BY <1>1
    <3> QED
      BY <1>7, <3>1, <3>2
  <2> QED
    BY <2>1
<1>9. \A x \in Word : x \in Good
  <2>1. m \in [Word -> Nat]
    BY <1>1
  <2> HIDE DEF m, Good
  <2> QED
    BY <1>8, <2>1, MeasureInduction
<1>10. ASSUME NEW x \in Word, NEW y \in Word
       PROVE  Xor[x][y] = ((x + y) % 2) + 2 * Xor[x \div 2][y \div 2]
  <2>1. CASE x # 0
    BY <1>7, <2>1
  <2>2. CASE x = 0
    <3>1. y \div 2 \in Word /\ x \div 2 = 0 /\ y \in Nat /\ y = (y % 2) + 2 * (y \div 2)
      BY <1>1, <1>2, <2>2
    <3>2. Xor[x \div 2][y \div 2] = y \div 2 /\ Xor[x][y] = y
      BY <1>7, <2>2, <3>1
    <3> QED
      BY <2>2, <3>1, <3>2
  <2> QED
    BY <2>1, <2>2
<1>11. \A x, y \in Word : Xor[x][y] \in Nat
  BY <1>9
<1>12. Word \subseteq Nat
  BY <1>1
<1> QED
  BY <1>2, <1>10, <1>11, <1>12

\* It is a word, and from it and one of the words the other is known.
LEMMA XorIsWord ==
  ASSUME NEW x \in Word, NEW y \in Word
  PROVE  Xor[x][y] \in Word
<1> DEFINE P == PowerOfTwo
           Good == {n \in 0..WordBits :
                      \A a, b \in Word : a < P[n] /\ b < P[n] => Xor[a][b] < P[n]}
<1>1. WordBits \in Nat /\ Word \subseteq Nat
  BY WordBitsAssumption, XorOfWords
<1>2. 0 \in Good
  <2>1. ASSUME NEW a \in Word, NEW b \in Word, a < 1, b < 1 PROVE Xor[a][b] < 1
    <3>1. a = 0 /\ b = 0 /\ (a + b) % 2 = 0 /\ a \div 2 = 0 /\ b \div 2 = 0
      BY <1>1, <2>1
    <3>2. Xor[0][0] \in Nat /\ Xor[0][0] = 0 + 2 * Xor[0][0]
      BY <3>1, XorOfWords
    <3> QED
      BY <3>1, <3>2
  <2> QED
    BY <1>1, <2>1, PowersOfTwo
<1>3. ASSUME NEW n \in 0..WordBits - 1, n \in Good PROVE n + 1 \in Good
  <2>1. n + 1 \in 1..WordBits /\ (n + 1) - 1 = n /\ n + 1 \in 0..WordBits /\ n \in 0..WordBits
    BY <1>1
  <2>2. P[n + 1] = 2 * P[n] /\ P[n] \in Nat
    BY <2>1, PowersOfTwo
  <2>3. ASSUME NEW a \in Word, NEW b \in Word, a < 2 * P[n], b < 2 * P[n]
        PROVE  Xor[a][b] < 2 * P[n]
    <3>1. a \in Nat /\ b \in Nat /\ a \div 2 \in Word /\ b \div 2 \in Word
      BY <1>1, XorOfWords
    <3>2. a \div 2 < P[n] /\ b \div 2 < P[n] /\ (a + b) % 2 \in 0..1
      BY <2>2, <2>3, <3>1
    <3>3. Xor[a \div 2][b \div 2] < P[n] /\ Xor[a \div 2][b \div 2] \in Nat
      BY <1>3, <3>1, <3>2, XorOfWords
    <3>4. Xor[a][b] = ((a + b) % 2) + 2 * Xor[a \div 2][b \div 2]
      BY XorOfWords
    <3> HIDE DEF P
    <3> QED
      BY <2>2, <3>2, <3>3, <3>4
  <2> QED
    BY <2>1, <2>2, <2>3
<1>4. WordBits \in Good
  <2> HIDE DEF Good
  <2>1. \A n \in 0..WordBits : n \in Good
    BY <1>1, <1>2, <1>3, Induction
  <2> QED
    BY <1>1, <2>1
<1>5. x < P[WordBits] /\ y < P[WordBits] /\ P[WordBits] \in Nat
  BY <1>1, PowersOfTwo DEF Word
<1>6. Xor[x][y] < P[WordBits] /\ Xor[x][y] \in Nat
  BY <1>4, <1>5, XorOfWords
<1> QED
  BY <1>5, <1>6 DEF Word

\* The exclusive or with one word tells the other.
LEMMA XorIsInjective ==
  ASSUME NEW x \in Word, NEW z \in Word, NEW y \in Word, Xor[x][y] = Xor[z][y]
  PROVE  x = z
<1> DEFINE P == PowerOfTwo
           Good == {n \in 0..WordBits : \A a, b, c \in Word :
                      a < P[n] /\ b < P[n] /\ Xor[a][c] = Xor[b][c] => a = b}
<1>1. WordBits \in Nat /\ Word \subseteq Nat
  BY WordBitsAssumption, XorOfWords
<1>2. 0 \in Good
  BY <1>1, PowersOfTwo
<1>3. ASSUME NEW n \in 0..WordBits - 1, n \in Good PROVE n + 1 \in Good
  <2>1. n + 1 \in 1..WordBits /\ (n + 1) - 1 = n /\ n + 1 \in 0..WordBits /\ n \in 0..WordBits
    BY <1>1
  <2>2. P[n + 1] = 2 * P[n] /\ P[n] \in Nat
    BY <2>1, PowersOfTwo
  <2>3. ASSUME NEW a \in Word, NEW b \in Word, NEW c \in Word,
               a < 2 * P[n], b < 2 * P[n], Xor[a][c] = Xor[b][c]
        PROVE  a = b
    <3>1. /\ a \in Nat /\ b \in Nat /\ c \in Nat
          /\ a \div 2 \in Word /\ b \div 2 \in Word /\ c \div 2 \in Word
      BY <1>1, XorOfWords
    <3>2. a \div 2 < P[n] /\ b \div 2 < P[n]
      BY <2>2, <2>3, <3>1
    <3>3. /\ Xor[a][c] = ((a + c) % 2) + 2 * Xor[a \div 2][c \div 2]
          /\ Xor[b][c] = ((b + c) % 2) + 2 * Xor[b \div 2][c \div 2]
          /\ Xor[a \div 2][c \div 2] \in Nat /\ Xor[b \div 2][c \div 2] \in Nat
      BY <3>1, XorOfWords
    <3>4. /\ (a + c) % 2 = (b + c) % 2
          /\ Xor[a \div 2][c \div 2] = Xor[b \div 2][c \div 2]
      <4>1. (a + c) % 2 \in 0..1 /\ (b + c) % 2 \in 0..1
        BY <3>1
      <4> DEFINE u == Xor[a \div 2][c \div 2]
                 v == Xor[b \div 2][c \div 2]
                 g == (a + c) % 2
                 h == (b + c) % 2
      <4>2. u \in Nat /\ v \in Nat /\ g \in 0..1 /\ h \in 0..1 /\ g + 2 * u = h + 2 * v
        BY <2>3, <3>3, <4>1
      <4> HIDE DEF u, v, g, h
      <4>3. g = h /\ u = v
        BY <4>2
      <4> QED
        BY <4>3 DEF u, v, g, h
    <3>5. a \div 2 = b \div 2
      BY <1>3, <3>1, <3>2, <3>4
    <3> QED
      BY <3>1, <3>4, <3>5
  <2> QED
    BY <2>1, <2>2, <2>3
<1>4. WordBits \in Good
  <2> HIDE DEF Good
  <2>1. \A n \in 0..WordBits : n \in Good
    BY <1>1, <1>2, <1>3, Induction
  <2> QED
    BY <1>1, <2>1
<1>5. x < P[WordBits] /\ z < P[WordBits]
  BY <1>1, PowersOfTwo DEF Word
<1> QED
  BY <1>4, <1>5

\* A sum is a word, and from it and one term the other is known.
LEMMA PlusIsWord ==
  ASSUME NEW x \in Nat, NEW y \in Nat
  PROVE  Plus(x, y) \in Word
<1>1. PowerOfTwo[WordBits] \in Nat \ {0} /\ x + y \in Int
  BY WordBitsAssumption, PowersOfTwo
<1>2. (x + y) % PowerOfTwo[WordBits] \in 0..PowerOfTwo[WordBits] - 1
  BY <1>1, Division
<1> QED
  BY <1>2 DEF Plus, Word

\* The sum modulo 2^WordBits tells its first term from the second.
LEMMA PlusIsInjective ==
  ASSUME NEW x \in Word, NEW z \in Word, NEW y \in Nat, Plus(x, y) = Plus(z, y)
  PROVE  x = z
<1> DEFINE M == PowerOfTwo[WordBits]
           p == (x + y) \div M
           q == (z + y) \div M
           r == (x + y) % M
<1>1. M \in Nat \ {0} /\ x \in 0..M - 1 /\ z \in 0..M - 1
  BY WordBitsAssumption, PowersOfTwo DEF Word
<1> HIDE DEF M
<1>2. p \in Int /\ q \in Int /\ r \in Nat /\ x + y = M * p + r /\ z + y = M * q + r
  <2>1. (z + y) % M = r
    BY DEF Plus, M
  <2> HIDE DEF r
  <2>2. x + y \in Int /\ z + y \in Int
    BY <1>1
  <2>3. z + y = M * q + r /\ q \in Int
    BY <1>1, <2>1, <2>2, Division
  <2>4. x + y = M * p + r /\ p \in Int /\ r \in Nat
    BY <1>1, <2>2, Division DEF r
  <2> QED
    BY <2>3, <2>4
<1> HIDE DEF p, q, r
<1>3. ASSUME p < q PROVE FALSE
  <2>1. M * q >= M * (p + 1) /\ M * (p + 1) = M * p + M
    BY <1>1, <1>2, <1>3
  <2>2. M * p \in Int /\ M * q \in Int
    BY <1>1, <1>2
  <2> QED
    BY <1>1, <1>2, <2>1, <2>2
<1>4. ASSUME q < p PROVE FALSE
  <2>1. M * p >= M * (q + 1) /\ M * (q + 1) = M * q + M
    BY <1>1, <1>2, <1>4
  <2>2. M * p \in Int /\ M * q \in Int
    BY <1>1, <1>2
  <2> QED
    BY <1>1, <1>2, <2>1, <2>2
<1>5. p = q /\ M * p \in Int
  BY <1>1, <1>2, <1>3, <1>4
<1> QED
  BY <1>1, <1>2, <1>5

\* The sum modulo 2^WordBits tells its second term from the first.
LEMMA PlusIsInjectiveToo ==
  ASSUME NEW x \in Word, NEW y \in Word, NEW z \in Word, Plus(z, x) = Plus(z, y)
  PROVE  x = y
<1>1. x \in Int /\ y \in Int /\ z \in Int /\ z \in Nat
  BY XorOfWords
<1>2. z + x = x + z /\ z + y = y + z
  BY <1>1
<1>3. Plus(x, z) = Plus(y, z)
  BY <1>2 DEF Plus
<1> QED
  BY <1>1, <1>3, PlusIsInjective

\* What the bits of a word become when it is rotated.
LEMMA RotationOfParts ==
  ASSUME NEW x \in Word, NEW s \in 0..WordBits
  PROVE  LET high == x \div PowerOfTwo[WordBits - s]
             low == x % PowerOfTwo[WordBits - s]
         IN  /\ high \in 0..PowerOfTwo[s] - 1 /\ low \in 0..PowerOfTwo[WordBits - s] - 1
             /\ x = PowerOfTwo[WordBits - s] * high + low
             /\ Rotl(x, s) = PowerOfTwo[s] * low + high
<1> DEFINE H == PowerOfTwo[WordBits - s]
           L == PowerOfTwo[s]
           M == PowerOfTwo[WordBits]
           high == x \div H
           low == x % H
<1>1. WordBits \in Nat /\ WordBits - s \in 0..WordBits /\ WordBits \in 0..WordBits
  BY WordBitsAssumption
<1>2. H \in Nat \ {0} /\ L \in Nat \ {0} /\ M \in Nat \ {0} /\ x \in Nat /\ x < M /\ H * L = M
  BY <1>1, PowersOfTwo, PowersMultiply DEF Word
<1>3. Rotl(x, s) = ((x * L) % M) + high
  BY DEF Rotl
<1> HIDE DEF H, L, M
<1>4. high \in Nat /\ low \in Nat /\ low < H /\ x = H * high + low
  BY <1>2, Division
<1> HIDE DEF high, low
<1>5. high < L
  <2> SUFFICES ASSUME high >= L PROVE FALSE
    BY <1>2, <1>4
  <2>1. H * high >= H * L
    BY <1>2, <1>4
  <2>2. H * high \in Nat
    BY <1>2, <1>4
  <2> QED
    BY <1>2, <1>4, <2>1, <2>2
<1>6. x * L = M * high + low * L
  <2>1. \A a, b, c, d \in Nat : (a * b + c) * d = (a * d) * b + c * d
    OBVIOUS
  <2> QED
    BY <1>2, <1>4, <2>1
<1>7. low * L \in Nat /\ low * L < M
  <2>1. \A a, b, c \in Nat : a + 1 <= b => (a + 1) * c <= b * c
    OBVIOUS
  <2>2. (low + 1) * L <= H * L /\ (low + 1) * L = low * L + L
    BY <1>2, <1>4, <2>1
  <2>3. low * L \in Nat
    BY <1>2, <1>4
  <2> QED
    BY <1>2, <2>2, <2>3
<1>8. (x * L) % M = low * L
  <2>1. x * L \in Int
    BY <1>2
  <2> DEFINE product == x * L
             rest == low * L
  <2> HIDE DEF product, rest
  <2>2. product \in Int /\ rest \in Nat /\ rest < M /\ product = M * high + rest
    BY <1>6, <1>7, <2>1 DEF product, rest
  <2>3. product % M = rest
    BY <1>2, <1>4, <2>2, DivisionIsUnique
  <2> QED
    BY <2>3 DEF product, rest
<1>9. low * L = L * low
  BY <1>2, <1>4
<1>10. Rotl(x, s) = L * low + high
  BY <1>3, <1>8, <1>9
<1>11. high \in 0..L - 1 /\ low \in 0..H - 1
  BY <1>2, <1>4, <1>5
<1> QED
  BY <1>4, <1>10, <1>11 DEF H, L, high, low

\* A rotated word is a word, and tells which one was rotated.
LEMMA RotlIsWord ==
  ASSUME NEW x \in Word, NEW s \in 0..WordBits
  PROVE  Rotl(x, s) \in Word
<1> DEFINE H == PowerOfTwo[WordBits - s]
           L == PowerOfTwo[s]
           M == PowerOfTwo[WordBits]
<1>1. PICK high \in 0..L - 1, low \in 0..H - 1 : Rotl(x, s) = L * low + high
  BY RotationOfParts
<1>2. WordBits \in Nat /\ WordBits - s \in 0..WordBits /\ WordBits \in 0..WordBits
  BY WordBitsAssumption
<1>3. H \in Nat \ {0} /\ L \in Nat \ {0} /\ M \in Nat \ {0} /\ H * L = M
  BY <1>2, PowersOfTwo, PowersMultiply
<1> HIDE DEF H, L, M
<1>4. L * low \in Nat /\ L * low + L <= M
  <2>1. \A a, b, c \in Nat : a + 1 <= b => c * a + c <= b * c
    <3> SUFFICES ASSUME NEW a \in Nat, NEW b \in Nat, NEW c \in Nat, a + 1 <= b
                 PROVE  c * a + c <= b * c
      OBVIOUS
    <3>1. (a + 1) * c <= b * c /\ (a + 1) * c = c * a + c
      OBVIOUS
    <3> QED
      BY <3>1
  <2> QED
    BY <1>3, <2>1
<1>5. Rotl(x, s) \in 0..M - 1
  BY <1>1, <1>3, <1>4
<1> QED
  BY <1>5 DEF Word, M

\* Two words that rotate to the same one are the same.
LEMMA RotlIsInjective ==
  ASSUME NEW x \in Word, NEW z \in Word, NEW s \in 0..WordBits, Rotl(x, s) = Rotl(z, s)
  PROVE  x = z
<1> DEFINE H == PowerOfTwo[WordBits - s]
           L == PowerOfTwo[s]
<1>1. PICK high \in 0..L - 1, low \in 0..H - 1 :
        x = H * high + low /\ Rotl(x, s) = L * low + high
  BY RotationOfParts
<1>2. PICK high2 \in 0..L - 1, low2 \in 0..H - 1 :
        z = H * high2 + low2 /\ Rotl(z, s) = L * low2 + high2
  BY RotationOfParts
<1>3. H \in Nat \ {0} /\ L \in Nat \ {0}
  BY WordBitsAssumption, PowersOfTwo
<1> DEFINE R == Rotl(x, s)
<1> HIDE DEF H, L, R
<1>4. R \in Int /\ R = L * low + high /\ R = L * low2 + high2
  BY <1>1, <1>2, <1>3 DEF R
<1>5. R \div L = low /\ R % L = high
  BY <1>3, <1>4, DivisionIsUnique
<1>6. R \div L = low2 /\ R % L = high2
  BY <1>3, <1>4, DivisionIsUnique
<1> QED
  BY <1>1, <1>2, <1>5, <1>6

-----------------------------------------------------------------------------
(* The steps of the cipher. *)

\* The sum of two words is a word.
LEMMA PlusOfWords ==
  ASSUME NEW x \in Word, NEW y \in Word
  PROVE  x \in Nat /\ y \in Nat /\ Plus(x, y) \in Word
  BY PlusIsWord, XorOfWords

\* MIX changes the two words of its pair, and leaves the others.
LEMMA MixIsBlock ==
  ASSUME NEW n \in Nat, NEW c \in Blocks(n), NEW a \in 0..n - 1, NEW b \in 0..n - 1, a # b,
         NEW rotation \in 0..WordBits
  PROVE  /\ Mix(c, a, b, rotation) \in Blocks(n)
         /\ Mix(c, a, b, rotation)[a] = Plus(c[a], c[b])
         /\ Mix(c, a, b, rotation)[b] = Xor[Rotl(c[b], rotation)][Plus(c[a], c[b])]
         /\ \A i \in (0..n - 1) \ {a, b} : Mix(c, a, b, rotation)[i] = c[i]
<1>1. c \in [0..n - 1 -> Word] /\ c[a] \in Word /\ c[b] \in Word
  BY DEF Blocks
<1>2. Plus(c[a], c[b]) \in Word /\ Rotl(c[b], rotation) \in Word
  BY <1>1, PlusOfWords, RotlIsWord
<1>3. Xor[Rotl(c[b], rotation)][Plus(c[a], c[b])] \in Word
  BY <1>2, XorIsWord
<1> QED
  BY <1>1, <1>2, <1>3 DEF Mix, Blocks

\* The block that MIX was given is known from the one it makes: add, rotate and
\* exclusive or can each be taken back.
LEMMA MixIsInjective ==
  ASSUME NEW n \in Nat, NEW c \in Blocks(n), NEW d \in Blocks(n),
         NEW a \in 0..n - 1, NEW b \in 0..n - 1, a # b, NEW rotation \in 0..WordBits,
         Mix(c, a, b, rotation) = Mix(d, a, b, rotation)
  PROVE  c = d
<1>1. /\ c[a] \in Word /\ c[b] \in Word /\ d[a] \in Word /\ d[b] \in Word
      /\ c \in [0..n - 1 -> Word] /\ d \in [0..n - 1 -> Word]
  BY DEF Blocks
<1>2. /\ Plus(c[a], c[b]) = Plus(d[a], d[b])
      /\ Xor[Rotl(c[b], rotation)][Plus(c[a], c[b])] = Xor[Rotl(d[b], rotation)][Plus(d[a], d[b])]
      /\ \A i \in (0..n - 1) \ {a, b} : c[i] = d[i]
  BY MixIsBlock
<1>3. Rotl(c[b], rotation) = Rotl(d[b], rotation)
  <2>1. /\ Rotl(c[b], rotation) \in Word /\ Rotl(d[b], rotation) \in Word
        /\ Plus(c[a], c[b]) \in Word
    BY <1>1, RotlIsWord, PlusOfWords
  <2> QED
    BY <1>2, <2>1, XorIsInjective
<1>4. c[b] = d[b]
  BY <1>1, <1>3, RotlIsInjective
<1>5. c[a] = d[a]
  BY <1>1, <1>2, <1>4, PlusIsInjective, PlusOfWords
<1>6. \A i \in 0..n - 1 : c[i] = d[i]
  BY <1>2, <1>4, <1>5
<1> QED
  BY <1>1, <1>6

\* What the key schedule adds to word i.
Added(n, ks, r, i) ==
  ks[(((r + 1) \div 4) + i) % (n + 1)] + (IF i = n - 1 THEN (r + 1) \div 4 ELSE 0)

\* The key is injected after every fourth round: a number is added to each word.
LEMMA InjectAdds ==
  ASSUME NEW n \in Nat, NEW ks \in [0..n -> Word], NEW r \in Nat
  PROVE  /\ \A i \in 0..n - 1 : Added(n, ks, r, i) \in Nat
         /\ \A c : Inject(n, ks, c, r)
                    = IF (r + 1) % 4 # 0 THEN c
                      ELSE [i \in 0..n - 1 |-> Plus(c[i], Added(n, ks, r, i))]
<1>1. ASSUME NEW i \in 0..n - 1 PROVE Added(n, ks, r, i) \in Nat
  <2> DEFINE r4 == (r + 1) \div 4
             place == (r4 + i) % (n + 1)
  <2>1. r4 \in Nat
    OBVIOUS
  <2> HIDE DEF r4
  <2>2. place \in 0..n
    <3>1. r4 + i \in Int /\ n + 1 \in Nat \ {0}
      BY <2>1
    <3>2. place \in Nat /\ place < n + 1
      BY <3>1, Division
    <3> HIDE DEF place
    <3> QED
      BY <3>2
  <2> HIDE DEF place
  <2>3. ks[place] \in Nat
    BY <2>2, XorOfWords
  <2>4. Added(n, ks, r, i) = ks[place] + (IF i = n - 1 THEN r4 ELSE 0)
    BY DEF Added, place, r4
  <2> QED
    BY <2>1, <2>3, <2>4
<1> QED
  BY <1>1 DEF Inject, Added

\* The block that the key was injected into is known from the result.
LEMMA InjectIsInjective ==
  ASSUME NEW n \in Nat, NEW ks \in [0..n -> Word], NEW r \in Nat,
         NEW c \in Blocks(n), NEW d \in Blocks(n)
  PROVE  /\ Inject(n, ks, c, r) \in Blocks(n)
         /\ Inject(n, ks, c, r) = Inject(n, ks, d, r) => c = d
<1>1. c \in [0..n - 1 -> Word] /\ d \in [0..n - 1 -> Word]
  BY DEF Blocks
<1>2. CASE (r + 1) % 4 # 0
  BY <1>2, InjectAdds
<1>3. CASE (r + 1) % 4 = 0
  <2>1. \A e \in {c, d} : Inject(n, ks, e, r) = [i \in 0..n - 1 |-> Plus(e[i], Added(n, ks, r, i))]
    BY <1>3, InjectAdds
  <2>2. \A i \in 0..n - 1 :
          Added(n, ks, r, i) \in Nat /\ c[i] \in Nat /\ c[i] \in Word /\ d[i] \in Word
    BY <1>1, InjectAdds, XorOfWords
  <2>3. Inject(n, ks, c, r) \in Blocks(n)
    BY <2>1, <2>2, PlusIsWord DEF Blocks
  <2>4. ASSUME Inject(n, ks, c, r) = Inject(n, ks, d, r), NEW i \in 0..n - 1 PROVE c[i] = d[i]
    <3>1. Plus(c[i], Added(n, ks, r, i)) = Plus(d[i], Added(n, ks, r, i))
      BY <2>1, <2>4
    <3> QED
      BY <2>2, <3>1, PlusIsInjective
  <2> QED
    BY <1>1, <2>3, <2>4
<1> QED
  BY <1>2, <1>3

\* What the tables of rotations are for.
Tabulated(n, digits, r) == n \in {2, 4} /\ digits \in {32, 64} /\ r \in Nat

\* The rotations of the tables are taken modulo the width of a word.
LEMMA RotationInRange ==
  ASSUME NEW n, NEW digits, NEW r, Tabulated(n, digits, r)
  PROVE  \A pair \in 1..2 : (pair = 2 => n = 4) => Rotation(n, digits, pair, r) \in 0..WordBits
<1> SUFFICES ASSUME NEW pair \in 1..2, pair = 2 => n = 4
             PROVE  Rotation(n, digits, pair, r) \in 0..WordBits
  OBVIOUS
<1>0. n \in {2, 4} /\ digits \in {32, 64} /\ r \in Nat
  BY DEF Tabulated
<1> DEFINE place == (r % 8) + 1
<1>1. place \in 1..8
  BY <1>0
<1> HIDE DEF place
<1> DEFINE amount == RotationsTable(n, digits)[pair][place]
<1>2. amount \in Nat
  BY <1>0, <1>1 DEF RotationsTable
<1> HIDE DEF amount
<1>3. amount % WordBits \in 0..WordBits
  <2>1. amount \in Int /\ WordBits \in Nat \ {0}
    BY <1>2, WordBitsAssumption
  <2>2. amount % WordBits \in Nat /\ amount % WordBits < WordBits
    BY <2>1, Division
  <2> QED
    BY <2>1, <2>2
<1> QED
  BY <1>3 DEF Rotation, amount, place

\* A round is with the key schedule of some block.
Scheduled(n, digits, ks) == n \in {2, 4} /\ digits \in {32, 64} /\ ks \in [0..n -> Word]

\* A round of Threefry can be taken back: the counter of two results that are the
\* same is the same.
LEMMA RoundIsInjective ==
  ASSUME NEW n, NEW digits, NEW ks, Scheduled(n, digits, ks), NEW r \in Nat,
         NEW c \in Blocks(n), NEW d \in Blocks(n)
  PROVE  /\ Round(n, digits, ks, c, r) \in Blocks(n)
         /\ Round(n, digits, ks, c, r) = Round(n, digits, ks, d, r) => c = d
<1>0. n \in {2, 4} /\ digits \in {32, 64} /\ ks \in [0..n -> Word]
  BY DEF Scheduled
<1> DEFINE one == Rotation(n, digits, 1, r)
           two == Rotation(n, digits, 2, r)
<1>1. one \in 0..WordBits /\ (n = 4 => two \in 0..WordBits) /\ n \in Nat
  <2>1. \A pair \in 1..2 : (pair = 2 => n = 4) => Rotation(n, digits, pair, r) \in 0..WordBits
    <3>1. Tabulated(n, digits, r)
      BY <1>0 DEF Tabulated
    <3> QED
      BY <3>1, RotationInRange
  <2>2. 1 \in 1..2 /\ 2 \in 1..2 /\ 1 # 2 /\ n \in Nat
    BY <1>0
  <2> QED
    BY <2>1, <2>2
<1> HIDE DEF one, two
<1>2. CASE n = 2
  <2>1. \A e \in {c, d} : /\ Round(n, digits, ks, e, r) = Inject(n, ks, Mix(e, 0, 1, one), r)
                         /\ Mix(e, 0, 1, one) \in Blocks(n)
    BY <1>0, <1>1, <1>2, MixIsBlock DEF Round, one
  <2>2. Mix(c, 0, 1, one) = Mix(d, 0, 1, one) => c = d
    BY <1>0, <1>1, <1>2, MixIsInjective
  <2> QED
    BY <1>0, <1>1, <2>1, <2>2, InjectIsInjective
<1>3. CASE n = 4 /\ r % 2 = 1
  <2>0. n = 4 /\ two \in 0..WordBits /\ \A i \in 0..3 : i \in 0..n - 1
    BY <1>0, <1>1, <1>3
  <2>1. \A e \in {c, d} :
          /\ Round(n, digits, ks, e, r) = Inject(n, ks, Mix(Mix(e, 0, 3, one), 2, 1, two), r)
          /\ Mix(e, 0, 3, one) \in Blocks(n)
    <3>1. \A e : Round(n, digits, ks, e, r) = Inject(n, ks, Mix(Mix(e, 0, 3, one), 2, 1, two), r)
      BY <1>0, <1>3 DEF Round, one, two
    <3>2. 0 \in 0..n - 1 /\ 3 \in 0..n - 1 /\ 0 # 3
      BY <1>0, <2>0
    <3>3. \A e \in {c, d} : Mix(e, 0, 3, one) \in Blocks(n)
      BY <1>0, <1>1, <3>2, MixIsBlock
    <3> QED
      BY <1>0, <3>1, <3>3
  <2>2. \A e \in {c, d} : Mix(Mix(e, 0, 3, one), 2, 1, two) \in Blocks(n)
    <3>1. 2 \in 0..n - 1 /\ 1 \in 0..n - 1 /\ 2 # 1
      BY <1>0, <2>0
    <3> QED
      BY <1>0, <1>1, <2>0, <2>1, <3>1, MixIsBlock
  <2>3. Mix(c, 0, 3, one) = Mix(d, 0, 3, one) => c = d
    BY <1>0, <1>1, <1>3, MixIsInjective
  <2>4. Mix(Mix(c, 0, 3, one), 2, 1, two) = Mix(Mix(d, 0, 3, one), 2, 1, two)
          => Mix(c, 0, 3, one) = Mix(d, 0, 3, one)
    BY <1>0, <1>1, <1>3, <2>1, MixIsInjective
  <2> QED
    BY <1>0, <1>1, <2>1, <2>2, <2>3, <2>4, InjectIsInjective
<1>4. CASE n = 4 /\ r % 2 # 1
  <2>0. n = 4 /\ two \in 0..WordBits /\ \A i \in 0..3 : i \in 0..n - 1
    BY <1>0, <1>1, <1>4
  <2>1. \A e \in {c, d} :
          /\ Round(n, digits, ks, e, r) = Mix(Mix(e, 0, 1, one), 2, 3, two)
          /\ Mix(e, 0, 1, one) \in Blocks(n)
    <3>1. \A e : Round(n, digits, ks, e, r) = Mix(Mix(e, 0, 1, one), 2, 3, two)
      BY <1>0, <1>4 DEF Round, one, two
    <3>2. 0 \in 0..n - 1 /\ 1 \in 0..n - 1 /\ 0 # 1
      BY <1>0, <2>0
    <3>3. \A e \in {c, d} : Mix(e, 0, 1, one) \in Blocks(n)
      BY <1>0, <1>1, <3>2, MixIsBlock
    <3> QED
      BY <1>0, <3>1, <3>3
  <2>2. \A e \in {c, d} : Mix(Mix(e, 0, 1, one), 2, 3, two) \in Blocks(n)
    <3>1. 2 \in 0..n - 1 /\ 3 \in 0..n - 1 /\ 2 # 3
      BY <1>0, <2>0
    <3> QED
      BY <1>0, <1>1, <2>0, <2>1, <3>1, MixIsBlock
  <2>3. Mix(c, 0, 1, one) = Mix(d, 0, 1, one) => c = d
    BY <1>0, <1>1, <1>4, MixIsInjective
  <2>4. Mix(Mix(c, 0, 1, one), 2, 3, two) = Mix(Mix(d, 0, 1, one), 2, 3, two)
          => Mix(c, 0, 1, one) = Mix(d, 0, 1, one)
    BY <1>0, <1>1, <1>4, <2>1, MixIsInjective
  <2> QED
    BY <1>0, <2>1, <2>2, <2>3, <2>4
<1> QED
  BY <1>0, <1>2, <1>3, <1>4

\* The key schedule is made of words.
ParityNext(parts, s, n) == (65536 * s + parts[n]) % PowerOfTwo[WordBits]

\* The parity word of the key schedule is a word.
LEMMA ParityIsWord ==
  ASSUME NEW digits \in {32, 64}
  PROVE  KsParity(digits) \in Word
<1> DEFINE parts == IF digits = 32 THEN <<7121, 7130>> ELSE <<7121, 7130, 43516, 6690>>
           M == PowerOfTwo[WordBits]
           N == Len(parts)
           step == [s \in Word |-> [n \in 1..N |-> ParityNext(parts, s, n)]]
           Equation(f) == f = [n \in 0..N |-> IF n = 0 THEN 0 ELSE ParityNext(parts, f[n - 1], n)]
<1>1. N \in Nat /\ \A n \in 1..N : parts[n] \in Nat
  <2>1. CASE digits = 32
    <3>1. parts = <<7121, 7130>>
      BY <2>1
    <3> QED
      BY <3>1
  <2>2. CASE digits # 32
    <3>1. parts = <<7121, 7130, 43516, 6690>>
      BY <2>2
    <3> QED
      BY <3>1
  <2> QED
    BY <2>1, <2>2
<1> HIDE DEF parts
<1>2. M \in Nat \ {0} /\ Word = 0..M - 1 /\ 0 \in Word
  BY WordBitsAssumption, PowersOfTwo DEF Word
<1> HIDE DEF M, N
<1>3. Iterative(N, Word, 0, step)
  <2>1. ASSUME NEW s \in Word, NEW n \in 1..N PROVE (65536 * s + parts[n]) % M \in Word
    <3>1. 65536 * s + parts[n] \in Int
      BY <1>1, <1>2
    <3> QED
      BY <1>2, <3>1, Division
  <2>2. step \in [Word -> [1..N -> Word]]
    BY <2>1 DEF ParityNext, M
  <2> HIDE DEF step
  <2> QED
    BY <1>1, <1>2, <2>2 DEF Iterative
<1>4. PICK f \in [0..N -> Word] : f = [n \in 0..N |-> IF n = 0 THEN 0 ELSE step[f[n - 1]][n]]
  <2> HIDE DEF step
  <2> QED
    BY <1>3, Iteration
<1>5. Equation(f)
  <2>1. ASSUME NEW n \in 0..N, n # 0 PROVE step[f[n - 1]][n] = ParityNext(parts, f[n - 1], n)
    <3>1. n - 1 \in 0..N /\ n \in 1..N
      BY <1>1, <2>1
    <3> QED
      BY <3>1
  <2> HIDE DEF step
  <2> QED
    BY <1>4, <2>1
<1> DEFINE parity == CHOOSE f_1 : Equation(f_1)
<1>6. KsParity(digits) = parity[N]
  BY DEF KsParity, parts, M, N, ParityNext
<1>7. Equation(parity)
  <2> HIDE DEF Equation
  <2> QED
    BY <1>5
<1> HIDE DEF parity
<1> DEFINE Good == {n \in 0..N : parity[n] \in Word}
<1>8. 0 \in Good
  BY <1>1, <1>2, <1>7
<1>9. ASSUME NEW n \in 0..N - 1, n \in Good PROVE n + 1 \in Good
  <2>1. n + 1 \in 0..N /\ n + 1 # 0 /\ (n + 1) - 1 = n /\ n + 1 \in 1..N
    BY <1>1
  <2>2. parity[n + 1] = (65536 * parity[n] + parts[n + 1]) % M
    <3>1. parity[n + 1] = ParityNext(parts, parity[n], n + 1)
      <4>a. parity = [i \in 0..N |-> IF i = 0 THEN 0 ELSE ParityNext(parts, parity[i - 1], i)]
        BY <1>7, Zenon
      <4>0. \A i \in 0..N : parity[i] = IF i = 0 THEN 0 ELSE ParityNext(parts, parity[i - 1], i)
        BY <1>1, <4>a
      <4>1. parity[n + 1] = ParityNext(parts, parity[(n + 1) - 1], n + 1)
        BY <2>1, <4>0, Zenon
      <4> QED
        BY <2>1, <4>1
    <3> QED
      BY <3>1 DEF ParityNext, M
  <2>3. 65536 * parity[n] + parts[n + 1] \in Int
    BY <1>1, <1>2, <1>9, <2>1
  <2> QED
    BY <1>2, <2>1, <2>2, <2>3, Division
<1>10. N \in Good
  <2> HIDE DEF Good
  <2>1. \A n \in 0..N : n \in Good
    BY <1>1, <1>8, <1>9, Induction
  <2> QED
    BY <1>1, <2>1
<1> QED
  BY <1>6, <1>10

\* A chain of steps that is computed by a recursive function stays in its type.
LEMMA ScheduleIsOfWords ==
  ASSUME NEW n \in {2, 4}, NEW digits \in {32, 64}, NEW k \in Blocks(n)
  PROVE  KeySchedule(n, digits, k) \in [0..n -> Word]
<1> DEFINE step == [s \in Word |-> [i \in 1..n |-> Xor[s][k[i - 1]]]]
           start == KsParity(digits)
           Equation(f) == f = [i \in 0..n |-> IF i = 0 THEN start ELSE Xor[f[i - 1]][k[i - 1]]]
<1>1. n \in Nat /\ start \in Word /\ k \in [0..n - 1 -> Word]
  BY ParityIsWord DEF Blocks
<1> HIDE DEF start
<1>2. Iterative(n, Word, start, step)
  <2>1. ASSUME NEW s \in Word, NEW i \in 1..n PROVE Xor[s][k[i - 1]] \in Word
    <3>1. k[i - 1] \in Word
      BY <1>1
    <3> QED
      BY <3>1, XorIsWord
  <2>2. step \in [Word -> [1..n -> Word]]
    BY <2>1
  <2> HIDE DEF step
  <2> QED
    BY <1>1, <2>2 DEF Iterative
<1>3. PICK f \in [0..n -> Word] : f[0] = start /\ \A i \in 1..n : f[i] = step[f[i - 1]][i]
  <2> DEFINE N == n
  <2>1. Iterative(N, Word, start, step)
    BY <1>2
  <2> HIDE DEF step, N
  <2>2. \E f \in [0..N -> Word] : f[0] = start /\ \A i \in 1..N : f[i] = step[f[i - 1]][i]
    BY <2>1, Chain
  <2> QED
    BY <2>2 DEF N
<1>4. Equation(f)
  <2>1. ASSUME NEW i \in 0..n, i # 0 PROVE f[i] = Xor[f[i - 1]][k[i - 1]]
    <3>1. i - 1 \in 0..n /\ i \in 1..n
      BY <1>1, <2>1
    <3> QED
      BY <1>3, <3>1
  <2> HIDE DEF step
  <2> QED
    BY <1>3, <2>1
<1> DEFINE mixed == CHOOSE g : Equation(g)
<1>5. KeySchedule(n, digits, k) = [i \in 0..n |-> IF i < n THEN k[i] ELSE mixed[n]]
  BY DEF KeySchedule, start
<1>6. Equation(mixed)
  BY <1>4
<1> HIDE DEF mixed
<1> DEFINE Good == {i \in 0..n : mixed[i] \in Word}
<1>7. \A i \in 0..n : mixed[i] = IF i = 0 THEN start ELSE Xor[mixed[i - 1]][k[i - 1]]
  BY <1>1, <1>6
<1>8. 0 \in Good
  BY <1>1, <1>7
<1>9. ASSUME NEW i \in 0..n - 1, i \in Good PROVE i + 1 \in Good
  <2>1. i + 1 \in 0..n /\ i + 1 # 0 /\ (i + 1) - 1 = i
    BY <1>1
  <2>2. mixed[i + 1] = Xor[mixed[i]][k[i]] /\ k[i] \in Word /\ mixed[i] \in Word
    BY <1>1, <1>7, <1>9, <2>1
  <2> QED
    BY <2>1, <2>2, XorIsWord
<1>10. n \in Good
  <2> HIDE DEF Good
  <2>1. \A i \in 0..n : i \in Good
    BY <1>1, <1>8, <1>9, Induction
  <2> QED
    BY <1>1, <2>1
<1>11. \A i \in 0..n : (IF i < n THEN k[i] ELSE mixed[n]) \in Word
  BY <1>1, <1>10
<1> HIDE DEF mixed, Good
<1> QED
  BY <1>5, <1>11

\* The rounds that lead from a counter to its block.
Rounds(n, digits, ks, k, counter, R, c) ==
  /\ c \in [0..R -> Blocks(n)]
  /\ c[0] = [i \in 0..n - 1 |-> Plus(k[i], counter[i])]
  /\ \A r \in 1..R : c[r] = Round(n, digits, ks, c[r - 1], r - 1)

\* operator() computes the rounds one after the other.
LEMMA RoundsOfBlock ==
  ASSUME NEW n \in {2, 4}, NEW digits \in {32, 64}, NEW k \in Blocks(n),
         NEW counter \in Blocks(n), NEW R \in Nat
  PROVE  \E c : /\ Rounds(n, digits, KeySchedule(n, digits, k), k, counter, R, c)
               /\ Block(n, digits, k, counter, R) = c[R]
<1> DEFINE ks == KeySchedule(n, digits, k)
           B == Blocks(n)
           start == [i \in 0..n - 1 |-> Plus(k[i], counter[i])]
           step == [s \in B |-> [r \in 1..R |-> Round(n, digits, ks, s, r - 1)]]
           Equation(f) ==
             f = [r \in 0..R |-> IF r = 0 THEN start ELSE Round(n, digits, ks, f[r - 1], r - 1)]
<1>1. ks \in [0..n -> Word]
  BY ScheduleIsOfWords
<1>2. start \in B
  <2>1. \A i \in 0..n - 1 : k[i] \in Word /\ counter[i] \in Word
    BY DEF Blocks
  <2>2. \A i \in 0..n - 1 : Plus(k[i], counter[i]) \in Word
    BY <2>1, PlusOfWords
  <2> QED
    BY <2>2 DEF Blocks
<1>3. ASSUME NEW s \in B, NEW r \in 1..R PROVE Round(n, digits, ks, s, r - 1) \in B
  <2>1. r - 1 \in Nat
    OBVIOUS
  <2>2. Scheduled(n, digits, ks)
    BY <1>1 DEF Scheduled
  <2> HIDE DEF ks
  <2> QED
    BY <2>1, <2>2, RoundIsInjective
<1> DEFINE c == CHOOSE g : Equation(g)
<1>4. Block(n, digits, k, counter, R) = c[R]
  BY DEF Block
<1> HIDE DEF ks, start, B
<1>5. Iterative(R, B, start, step)
  <2>1. step \in [B -> [1..R -> B]]
    BY <1>3
  <2> HIDE DEF step
  <2> QED
    BY <1>2, <2>1 DEF Iterative
<1>6. PICK f \in [0..R -> B] : f[0] = start /\ \A r \in 1..R : f[r] = step[f[r - 1]][r]
  <2> HIDE DEF step
  <2> QED
    BY <1>5, Chain
<1>7. Equation(f)
  <2>1. ASSUME NEW r \in 0..R, r # 0
        PROVE  f[r] = Round(n, digits, ks, f[r - 1], r - 1)
    <3>1. r - 1 \in 0..R /\ r \in 1..R
      BY <2>1
    <3> QED
      BY <1>6, <3>1
  <2> HIDE DEF step
  <2> QED
    BY <1>6, <2>1
<1>8. Equation(c)
  <2> HIDE DEF Equation
  <2> QED
    BY <1>7
<1> HIDE DEF c
<1>9. \A r \in 0..R : c[r] = IF r = 0 THEN start ELSE Round(n, digits, ks, c[r - 1], r - 1)
  BY <1>8
<1> DEFINE Good == {r \in 0..R : c[r] \in B}
<1>10. 0 \in Good
  BY <1>2, <1>9
<1>11. ASSUME NEW r \in 0..R - 1, r \in Good PROVE r + 1 \in Good
  <2>1. r + 1 \in 0..R /\ r + 1 # 0 /\ (r + 1) - 1 = r /\ r + 1 \in 1..R
    OBVIOUS
  <2>2. c[r + 1] = Round(n, digits, ks, c[r], r) /\ c[r] \in B
    BY <1>9, <1>11, <2>1
  <2>3. Round(n, digits, ks, c[r], (r + 1) - 1) \in B
    BY <1>3, <2>1, <2>2
  <2> QED
    BY <2>1, <2>2, <2>3
<1>12. \A r \in 0..R : c[r] \in B
  <2> HIDE DEF Good
  <2>1. \A r \in 0..R : r \in Good
    BY <1>10, <1>11, Induction
  <2> QED
    BY <2>1 DEF Good
<1>13. c \in [0..R -> B]
  BY <1>8, <1>12
<1>14. c[0] = start /\ \A r \in 1..R : c[r] = Round(n, digits, ks, c[r - 1], r - 1)
  BY <1>9
<1> QED
  BY <1>4, <1>13, <1>14 DEF ks, start, B, Rounds

\* The counter is known from its block.
LEMMA BlockIsInjective ==
  ASSUME NEW n \in {2, 4}, NEW digits \in {32, 64}, NEW k \in Blocks(n), NEW R \in Nat,
         NEW x \in Blocks(n), NEW y \in Blocks(n),
         Block(n, digits, k, x, R) = Block(n, digits, k, y, R)
  PROVE  x = y
<1> DEFINE ks == KeySchedule(n, digits, k)
<1>0. /\ ks \in [0..n -> Word]
      /\ \A r \in Nat, u, v \in Blocks(n) :
           Round(n, digits, ks, u, r) = Round(n, digits, ks, v, r) => u = v
  <2>1. ks \in [0..n -> Word]
    BY ScheduleIsOfWords
  <2> HIDE DEF ks
  <2>2. Scheduled(n, digits, ks)
    BY <2>1 DEF Scheduled
  <2> QED
    BY <2>1, <2>2, RoundIsInjective
<1>1. PICK c : Rounds(n, digits, ks, k, x, R, c) /\ Block(n, digits, k, x, R) = c[R]
  BY RoundsOfBlock
<1>2. PICK d : Rounds(n, digits, ks, k, y, R, d) /\ Block(n, digits, k, y, R) = d[R]
  BY RoundsOfBlock
<1> HIDE DEF ks
<1> DEFINE Good == {r \in 0..R : c[R - r] = d[R - r]}
<1>3. 0 \in Good
  <2>1. c[R] = d[R]
    BY <1>1, <1>2
  <2>2. R - 0 = R /\ 0 \in 0..R
    OBVIOUS
  <2> QED
    BY <2>1, <2>2
<1>4. ASSUME NEW r \in 0..R - 1, r \in Good PROVE r + 1 \in Good
  <2> DEFINE p == R - (r + 1)
  <2>1. p \in Nat /\ p \in 0..R /\ p + 1 \in 1..R /\ (p + 1) - 1 = p /\ R - r = p + 1
    OBVIOUS
  <2> HIDE DEF p
  <2>2. c[p] \in Blocks(n) /\ d[p] \in Blocks(n) /\ c[p + 1] = d[p + 1]
    BY <1>1, <1>2, <1>4, <2>1 DEF Rounds
  <2>3. Round(n, digits, ks, c[p], p) = Round(n, digits, ks, d[p], p)
    BY <1>1, <1>2, <2>1, <2>2 DEF Rounds
  <2>4. c[p] = d[p]
    <3>1. p \in Nat /\ c[p] \in Blocks(n) /\ d[p] \in Blocks(n)
      BY <2>1, <2>2
    <3> QED
      BY <1>0, <2>3, <3>1
  <2> QED
    BY <2>4 DEF p
<1>5. c[0] = d[0]
  <2> HIDE DEF Good
  <2>1. \A r \in 0..R : r \in Good
    BY <1>3, <1>4, Induction
  <2>2. R \in 0..R /\ R - R = 0
    OBVIOUS
  <2>3. R \in Good
    BY <2>1, <2>2
  <2> QED
    BY <2>2, <2>3 DEF Good
<1>6. ASSUME NEW i \in 0..n - 1 PROVE x[i] = y[i]
  <2>1. Plus(k[i], x[i]) = Plus(k[i], y[i])
    BY <1>1, <1>2, <1>5 DEF Rounds
  <2>2. k[i] \in Word /\ x[i] \in Word /\ y[i] \in Word
    BY DEF Blocks
  <2>3. \A p, a, b \in Word : Plus(p, a) = Plus(p, b) => a = b
    BY PlusIsInjectiveToo
  <2> QED
    BY <2>1, <2>2, <2>3
<1> QED
  BY <1>6 DEF Blocks

\* There are only so many blocks.
LEMMA BlocksAreFinite ==
  ASSUME NEW n \in {2, 4}
  PROVE  IsFiniteSet(Blocks(n))
<1>1. IsFiniteSet(Word)
  <2>1. 0 \in Int /\ PowerOfTwo[WordBits] - 1 \in Int
    BY WordBitsAssumption, PowersOfTwo
  <2> QED
    BY <2>1, FS_Interval DEF Word
<1>2. CASE n = 2
  <2> DEFINE f == [b \in Blocks(n) |-> <<b[0], b[1]>>]
  <2>1. IsFiniteSet(Word \X Word)
    BY <1>1, FS_Product
  <2>2. f \in Injection(Blocks(n), Word \X Word)
    <3>1. \A b \in Blocks(n) : b \in [0..1 -> Word]
      BY <1>2 DEF Blocks
    <3>2. f \in [Blocks(n) -> Word \X Word]
      BY <3>1
    <3>3. \A a, b \in Blocks(n) : f[a] = f[b] => a = b
      <4> SUFFICES ASSUME NEW a \in Blocks(n), NEW b \in Blocks(n), f[a] = f[b] PROVE a = b
        OBVIOUS
      <4>1. a[0] = b[0] /\ a[1] = b[1]
        OBVIOUS
      <4> QED
        BY <3>1, <4>1
    <3> HIDE DEF f
    <3> QED
      BY <3>2, <3>3 DEF Injection, IsInjective
  <2> QED
    BY <2>1, <2>2, FS_Injection
<1>3. CASE n = 4
  <2> DEFINE f == [b \in Blocks(n) |-> << <<b[0], b[1]>>, <<b[2], b[3]>> >>]
             T == (Word \X Word) \X (Word \X Word)
  <2>1. IsFiniteSet(T)
    BY <1>1, FS_Product
  <2>2. f \in Injection(Blocks(n), T)
    <3>1. \A b \in Blocks(n) : b \in [0..3 -> Word]
      BY <1>3 DEF Blocks
    <3>2. f \in [Blocks(n) -> T]
      BY <3>1
    <3>3. \A a, b \in Blocks(n) : f[a] = f[b] => a = b
      <4> SUFFICES ASSUME NEW a \in Blocks(n), NEW b \in Blocks(n), f[a] = f[b] PROVE a = b
        OBVIOUS
      <4>1. a[0] = b[0] /\ a[1] = b[1] /\ a[2] = b[2] /\ a[3] = b[3]
        OBVIOUS
      <4> QED
        BY <3>1, <4>1
    <3> HIDE DEF f, T
    <3> QED
      BY <3>2, <3>3 DEF Injection, IsInjective
  <2> QED
    BY <2>1, <2>2, FS_Injection
<1> QED
  BY <1>2, <1>3

\* With any key and any number of rounds, two counters never have the same block:
\* counter_engine goes through as many blocks as there are counters.
LEMMA CipherIsCorrect ==
  ASSUME NEW n \in {2, 4}, NEW digits \in {32, 64}, NEW k \in Blocks(n), NEW R \in Nat
  PROVE  LET table == [counter \in Blocks(n) |-> Block(n, digits, k, counter, R)]
         IN  Cardinality({table[c] : c \in DOMAIN table}) = Cardinality(DOMAIN table)
<1> DEFINE table == [counter \in Blocks(n) |-> Block(n, digits, k, counter, R)]
           image == {table[c] : c \in Blocks(n)}
<1>1. table \in [Blocks(n) -> image]
  OBVIOUS
<1>2. \A a, b \in Blocks(n) : table[a] = table[b] => a = b
  BY BlockIsInjective
<1>3. \A z \in image : \E a \in Blocks(n) : table[a] = z
  OBVIOUS
<1>4. DOMAIN table = Blocks(n)
  OBVIOUS
<1> HIDE DEF table, image
<1>5. table \in Bijection(Blocks(n), image)
  BY <1>1, <1>2, <1>3 DEF Bijection, Injection, Surjection, IsInjective
<1>6. Cardinality(image) = Cardinality(Blocks(n))
  BY <1>5, BlocksAreFinite, FS_Bijection DEF ExistsBijection
<1> QED
  BY <1>4, <1>6 DEF image, table

(* sha1: what is in the object after some bytes. *)
FullBlock == [1..BlockSize -> Int]

\* The objects of sha1.
Objects ==
  [m_digest : Seq(FullBlock), m_block : FullBlock, m_blockByteIndex : 0..BlockSize - 1,
   m_byteCount : Nat, completed : BOOLEAN]

\* The full blocks of the message are compressed, the rest is in the block.
Loaded(h, m) ==
  /\ h \in Objects /\ m \in Seq(Int) /\ ~h.completed /\ h.m_byteCount = Len(m)
  /\ Len(m) = BlockSize * Len(h.m_digest) + h.m_blockByteIndex
  /\ \A n \in 1..Len(h.m_digest) : \A i \in 1..BlockSize :
       h.m_digest[n][i] = m[BlockSize * (n - 1) + i]
  /\ \A i \in 1..h.m_blockByteIndex : h.m_block[i] = m[BlockSize * Len(h.m_digest) + i]

\* process_byte puts its byte into the block, and compresses the block when it is
\* full.
LEMMA ByteIsObject ==
  ASSUME NEW h \in Objects, NEW b \in Int
  PROVE  LET block == [h.m_block EXCEPT ![h.m_blockByteIndex + 1] = b]
             full == h.m_blockByteIndex + 1 = BlockSize
             g == ProcessByte(h, b)
         IN  /\ g \in Objects /\ block \in FullBlock
             /\ g.m_block = block /\ g.m_byteCount = h.m_byteCount + 1 /\ g.completed = h.completed
             /\ g.m_blockByteIndex = (IF full THEN 0 ELSE h.m_blockByteIndex + 1)
             /\ g.m_digest = (IF full THEN Append(h.m_digest, block) ELSE h.m_digest)
<1> DEFINE block == [h.m_block EXCEPT ![h.m_blockByteIndex + 1] = b]
           full == h.m_blockByteIndex + 1 = BlockSize
           index == IF full THEN 0 ELSE h.m_blockByteIndex + 1
           digest == IF full THEN Append(h.m_digest, block) ELSE h.m_digest
           g == ProcessByte(h, b)
<1>1. block \in FullBlock
  BY DEF Objects, FullBlock, BlockSize
<1>2. g = [h EXCEPT !.m_block = block, !.m_byteCount = @ + 1,
                    !.m_blockByteIndex = IF full THEN 0 ELSE @ + 1,
                    !.m_digest = IF full THEN Append(@, block) ELSE @]
  BY DEF ProcessByte
<1>3. index \in 0..BlockSize - 1
  <2>1. h.m_blockByteIndex \in 0..BlockSize - 1
    BY DEF Objects
  <2> QED
    BY <2>1 DEF BlockSize
<1>4. digest \in Seq(FullBlock)
  <2>1. h.m_digest \in Seq(FullBlock)
    BY DEF Objects
  <2> HIDE DEF block
  <2>2. Append(h.m_digest, block) \in Seq(FullBlock)
    BY <1>1, <2>1
  <2> QED
    BY <2>1, <2>2
<1>5. h.m_byteCount + 1 \in Nat
  BY DEF Objects
<1> HIDE DEF block, g
<1>6. g = [m_digest |-> digest, m_block |-> block, m_blockByteIndex |-> index,
           m_byteCount |-> h.m_byteCount + 1, completed |-> h.completed]
  BY <1>2 DEF Objects
<1> HIDE DEF full, index, digest
<1>7. g \in Objects
  BY <1>1, <1>3, <1>4, <1>5, <1>6 DEF Objects
<1>8. /\ g.m_block = block /\ g.m_byteCount = h.m_byteCount + 1 /\ g.completed = h.completed
      /\ g.m_blockByteIndex = index /\ g.m_digest = digest
  BY <1>6
<1> QED
  BY <1>1, <1>7, <1>8 DEF block, full, index, digest, g

\* process_byte adds its byte to the message.
LEMMA ByteLoaded ==
  ASSUME NEW m \in Seq(Int), NEW b \in Int, NEW h, Loaded(h, m)
  PROVE  Loaded(ProcessByte(h, b), Append(m, b))
<1> DEFINE block == [h.m_block EXCEPT ![h.m_blockByteIndex + 1] = b]
           g == ProcessByte(h, b)
           L == Len(m)
           q == Len(h.m_digest)
           r == h.m_blockByteIndex
           a == Append(m, b)
           digest == h.m_digest
           old == h.m_block
<1>0. h \in Objects
  BY DEF Loaded
<1>1. L \in Nat /\ q \in Nat /\ r \in 0..63 /\ L = 64 * q + r
  BY DEF Loaded, Objects, BlockSize, FullBlock
<1>2. /\ h.m_byteCount = L /\ ~h.completed /\ digest \in Seq(FullBlock)
      /\ old \in [1..64 -> Int]
  BY DEF Loaded, Objects, BlockSize, FullBlock
<1>3. /\ a \in Seq(Int) /\ Len(a) = L + 1 /\ a[L + 1] = b
      /\ \A i \in 1..L : a[i] = m[i]
  BY AppendProperties
<1>4. block = [old EXCEPT ![r + 1] = b]
  OBVIOUS
<1>6. /\ \A n \in 1..q : \A i \in 1..64 : digest[n][i] = m[64 * (n - 1) + i]
      /\ \A i \in 1..r : old[i] = m[64 * q + i]
  BY DEF Loaded, BlockSize
<1>7. q = Len(digest)
  OBVIOUS
<1>4a. /\ g \in Objects /\ block \in FullBlock
       /\ g.m_block = block /\ g.m_byteCount = h.m_byteCount + 1 /\ g.completed = h.completed
       /\ g.m_blockByteIndex = (IF r + 1 = BlockSize THEN 0 ELSE r + 1)
       /\ g.m_digest = IF r + 1 = BlockSize THEN Append(digest, block) ELSE digest
  BY <1>0, ByteIsObject, Zenon
<1> HIDE DEF block, L, g, r, digest
<1>5. /\ g \in Objects /\ block \in FullBlock
      /\ g.m_block = block /\ g.m_byteCount = L + 1 /\ ~g.completed
      /\ g.m_blockByteIndex = (IF r + 1 = 64 THEN 0 ELSE r + 1)
      /\ g.m_digest = IF r + 1 = 64 THEN Append(digest, block) ELSE digest
  BY <1>2, <1>4a DEF BlockSize
<1> HIDE DEF q, r, a, digest, old
<1>8. \A i \in 1..r + 1 : block[i] = a[64 * q + i]
  <2> SUFFICES ASSUME NEW i \in 1..r + 1 PROVE block[i] = a[64 * q + i]
    OBVIOUS
  <2>1. i \in 1..64 /\ r + 1 \in 1..64
    BY <1>1
  <2>2. block[i] = IF i = r + 1 THEN b ELSE old[i]
    BY <1>2, <1>4, <2>1
  <2>3. CASE i = r + 1
    <3>1. 64 * q + i = L + 1
      BY <1>1, <2>3
    <3> QED
      BY <1>3, <2>2, <2>3, <3>1
  <2>4. CASE i # r + 1
    <3>1. i \in 1..r /\ 64 * q + i \in 1..L
      BY <1>1, <2>4
    <3> QED
      BY <1>3, <1>6, <2>2, <2>4, <3>1
  <2> QED
    BY <2>3, <2>4
<1>9. \A n \in 1..q : \A i \in 1..64 : digest[n][i] = a[64 * (n - 1) + i]
  <2> SUFFICES ASSUME NEW n \in 1..q, NEW i \in 1..64
               PROVE  digest[n][i] = a[64 * (n - 1) + i]
    OBVIOUS
  <2>1. 64 * (n - 1) + i \in 1..L
    BY <1>1
  <2> QED
    BY <1>3, <1>6, <2>1
<1>10. CASE r + 1 = 64
  <2>1. g.m_digest = Append(digest, block) /\ g.m_blockByteIndex = 0
    BY <1>5, <1>10
  <2> DEFINE after == Append(digest, block)
  <2>2. /\ Len(after) = q + 1 /\ after[q + 1] = block
        /\ \A n \in 1..q : after[n] = digest[n]
    BY <1>2, <1>5, <1>7, AppendProperties
  <2> HIDE DEF after
  <2>3. ASSUME NEW n \in 1..q + 1, NEW i \in 1..64
        PROVE  after[n][i] = a[64 * (n - 1) + i]
    <3>1. CASE n = q + 1
      <4>1. n - 1 = q /\ i \in 1..r + 1
        BY <1>1, <1>10, <3>1
      <4>2. after[n] = block
        BY <2>2, <3>1
      <4>3. block[i] = a[64 * q + i]
        BY <1>8, <4>1
      <4> QED
        BY <4>1, <4>2, <4>3
    <3>2. CASE n # q + 1
      <4>1. n \in 1..q
        BY <1>1, <3>2
      <4>2. after[n] = digest[n]
        BY <2>2, <4>1
      <4>3. digest[n][i] = a[64 * (n - 1) + i]
        BY <1>9, <4>1
      <4> QED
        BY <4>2, <4>3
    <3> QED
      BY <3>1, <3>2
  <2>4. L + 1 = 64 * (q + 1) + 0 /\ q + 1 \in Nat
    BY <1>1, <1>10
  <2>5. g.m_digest = after
    BY <2>1 DEF after
  <2>6. \A i \in 1..0 : g.m_block[i] = a[64 * (q + 1) + i]
    OBVIOUS
  <2>7. Loaded(g, a)
    <3>1. Len(g.m_digest) = q + 1 /\ g.m_blockByteIndex = 0
      BY <2>1, <2>2, <2>5
    <3>2. \A n \in 1..q + 1 : \A i \in 1..64 : g.m_digest[n][i] = a[64 * (n - 1) + i]
      BY <2>3, <2>5
    <3>3. Len(a) = 64 * (q + 1) + 0 /\ a \in Seq(Int) /\ Len(a) = g.m_byteCount
      BY <1>3, <1>5, <2>4
    <3>4. g \in Objects /\ ~g.completed
      BY <1>5
    <3> HIDE DEF a, g
    <3>5. Len(a) = BlockSize * Len(g.m_digest) + g.m_blockByteIndex
      BY <3>1, <3>3 DEF BlockSize
    <3>6. \A n \in 1..Len(g.m_digest) : \A i \in 1..BlockSize :
            g.m_digest[n][i] = a[BlockSize * (n - 1) + i]
      <4> SUFFICES ASSUME NEW n \in 1..Len(g.m_digest), NEW i \in 1..BlockSize
                   PROVE  g.m_digest[n][i] = a[BlockSize * (n - 1) + i]
        OBVIOUS
      <4>1. n \in 1..q + 1 /\ i \in 1..64
        BY <3>1 DEF BlockSize
      <4>2. BlockSize = 64
        BY DEF BlockSize
      <4> QED
        BY <3>2, <4>1, <4>2
    <3>7. \A i \in 1..g.m_blockByteIndex : g.m_block[i] = a[BlockSize * Len(g.m_digest) + i]
      BY <2>6, <3>1
    <3> QED
      BY <3>3, <3>4, <3>5, <3>6, <3>7 DEF Loaded
  <2> QED
    BY <2>7 DEF g, a
<1>11. CASE r + 1 # 64
  <2>1. g.m_digest = digest /\ g.m_blockByteIndex = r + 1
    BY <1>5, <1>11
  <2>2. L + 1 = 64 * q + (r + 1)
    BY <1>1
  <2> QED
    BY <1>3, <1>5, <1>7, <1>8, <1>9, <2>1, <2>2 DEF Loaded, BlockSize, g, a
<1> QED
  BY <1>10, <1>11

\* process_block processes its bytes one after the other.
LEMMA BytesProcessed ==
  ASSUME NEW h \in Objects, NEW bytes \in Seq(Int)
  PROVE  \E after \in [0..Len(bytes) -> Objects] :
           /\ after[0] = h
           /\ \A n \in 1..Len(bytes) : after[n] = ProcessByte(after[n - 1], bytes[n])
           /\ ProcessBlock(h, bytes) = after[Len(bytes)]
<1> DEFINE N == Len(bytes)
           step == [g \in Objects |-> [n \in 1..N |-> ProcessByte(g, bytes[n])]]
           Equation(f) == f = [n \in 0..N |-> IF n = 0 THEN h ELSE ProcessByte(f[n - 1], bytes[n])]
           computed == CHOOSE f : Equation(f)
<1>1. N \in Nat /\ \A n \in 1..N : bytes[n] \in Int
  OBVIOUS
<1>2. ASSUME NEW g \in Objects, NEW n \in 1..N
      PROVE  step[g][n] = ProcessByte(g, bytes[n]) /\ step[g][n] \in Objects
  BY <1>1, ByteIsObject
<1>3. Iterative(N, Objects, h, step)
  <2>1. step \in [Objects -> [1..N -> Objects]]
    BY <1>2
  <2> HIDE DEF step, N
  <2> QED
    BY <1>1, <2>1 DEF Iterative
<1>4. ProcessBlock(h, bytes) = computed[N]
  BY DEF ProcessBlock
<1> HIDE DEF step, N
<1>5. PICK f \in [0..N -> Objects] :
        f = [n \in 0..N |-> IF n = 0 THEN h ELSE step[f[n - 1]][n]]
  BY <1>3, Iteration
<1>6. Equation(f)
  <2>1. ASSUME NEW n \in 0..N, n # 0 PROVE step[f[n - 1]][n] = ProcessByte(f[n - 1], bytes[n])
    <3>1. n - 1 \in 0..N /\ n \in 1..N
      BY <1>1, <2>1
    <3> QED
      BY <1>2, <3>1
  <2> QED
    BY <1>5, <2>1
<1>7. Equation(computed)
  BY <1>6
<1> HIDE DEF computed
<1> DEFINE Good == {n \in 0..N : computed[n] = f[n]}
<1>8. \A n \in 1..N : f[n] = ProcessByte(f[n - 1], bytes[n])
  <2> SUFFICES ASSUME NEW n \in 1..N PROVE f[n] = ProcessByte(f[n - 1], bytes[n])
    OBVIOUS
  <2>1. n \in 0..N /\ n # 0
    BY <1>1
  <2> QED
    BY <1>6, <2>1
<1>9. f[0] = h /\ 0 \in 0..N
  BY <1>1, <1>6
<1>10. 0 \in Good
  BY <1>7, <1>9
<1>11. ASSUME NEW n \in 0..N - 1, n \in Good PROVE n + 1 \in Good
  <2>1. n + 1 \in 0..N /\ n + 1 # 0 /\ (n + 1) - 1 = n /\ n + 1 \in 1..N
    BY <1>1
  <2>2. computed[n + 1] = ProcessByte(computed[n], bytes[n + 1])
    BY <1>7, <2>1
  <2> QED
    BY <1>8, <1>11, <2>1, <2>2
<1> HIDE DEF Good
<1>12. \A n \in 0..N : n \in Good
  BY <1>1, <1>10, <1>11, Induction
<1>13. computed[N] = f[N]
  BY <1>1, <1>12 DEF Good
<1> QED
  BY <1>4, <1>8, <1>9, <1>13 DEF N

\* The hypothesis of the next two lemmas.
ThreeStrings(a, b, c) == a \in Seq(Int) /\ b \in Seq(Int) /\ c \in Seq(Int)

\* Three strings one after the other.
LEMMA ConcatOfThree ==
  ASSUME NEW a, NEW b, NEW c, ThreeStrings(a, b, c)
  PROVE  (a \o b) \o c = a \o (b \o c)
<1>1. a \in Seq(Int) /\ b \in Seq(Int) /\ c \in Seq(Int)
  BY DEF ThreeStrings
<1> QED
  BY <1>1, ConcatAssociative

\* One more byte of the second string is one more byte of the whole.
LEMMA AppendToConcat ==
  ASSUME NEW m, NEW x, NEW b, ThreeStrings(m, x, <<b>>)
  PROVE  m \o Append(x, b) = Append(m \o x, b)
<1> DEFINE last == <<b>>
<1>0. b \in Int
  <2>1. Len(last) = 1 /\ last[1] = b
    OBVIOUS
  <2>2. last \in Seq(Int)
    BY DEF ThreeStrings
  <2> HIDE DEF last
  <2> QED
    BY <2>1, <2>2
<1>1. m \in Seq(Int) /\ x \in Seq(Int) /\ m \o x \in Seq(Int) /\ last \in Seq(Int)
  BY DEF ThreeStrings
<1>2. Append(x, b) = x \o last /\ Append(m \o x, b) = (m \o x) \o last
  BY <1>0, <1>1, AppendIsConcat
<1> HIDE DEF last
<1>3. m \o (x \o last) = (m \o x) \o last
  <2>1. ThreeStrings(m, x, last)
    BY <1>1 DEF ThreeStrings
  <2> QED
    BY <2>1, ConcatOfThree
<1> QED
  BY <1>2, <1>3

\* process_block adds its bytes to the message.
LEMMA BytesLoaded ==
  ASSUME NEW m \in Seq(Int), NEW bytes \in Seq(Int), NEW h, Loaded(h, m)
  PROVE  Loaded(ProcessBlock(h, bytes), m \o bytes)
<1> DEFINE N == Len(bytes)
           prefix(n) == m \o SubSeq(bytes, 1, n)
<1>0. h \in Objects /\ N \in Nat
  BY DEF Loaded
<1>1. PICK after \in [0..N -> Objects] :
           /\ after[0] = h
           /\ \A n \in 1..N : after[n] = ProcessByte(after[n - 1], bytes[n])
           /\ ProcessBlock(h, bytes) = after[N]
  BY <1>0, BytesProcessed
<1> DEFINE Good == {n \in 0..N : Loaded(after[n], prefix(n))}
<1>2. 0 \in Good
  <2>1. SubSeq(bytes, 1, 0) = <<>>
    BY SubSeqEmpty
  <2>2. prefix(0) = m
    BY <2>1, ConcatEmptySeq
  <2> HIDE DEF prefix
  <2> QED
    BY <1>0, <1>1, <2>2
<1>3. ASSUME NEW n \in 0..N - 1, n \in Good PROVE n + 1 \in Good
  <2>1. n + 1 \in 0..N /\ (n + 1) - 1 = n /\ n + 1 \in 1..N /\ n \in 0..N /\ n \in Int
    BY <1>0
  <2>2. bytes[n + 1] \in Int
    BY <2>1
  <2>3. SubSeq(bytes, 1, n) \in Seq(Int)
    BY <2>1, SubSeqProperties
  <2>4. prefix(n) \in Seq(Int)
    BY <2>3
  <2>5. prefix(n + 1) = Append(prefix(n), bytes[n + 1])
    <3>1. SubSeq(bytes, 1, n + 1) = Append(SubSeq(bytes, 1, n), bytes[n + 1])
      BY PrefixGrows
    <3>2. m \o Append(SubSeq(bytes, 1, n), bytes[n + 1]) = Append(m \o SubSeq(bytes, 1, n), bytes[n + 1])
      <4> DEFINE some == SubSeq(bytes, 1, n)
                 byte == bytes[n + 1]
      <4>1. some \in Seq(Int) /\ byte \in Int
        BY <2>2, <2>3
      <4> HIDE DEF some, byte
      <4>2. m \o Append(some, byte) = Append(m \o some, byte)
        <5>1. ThreeStrings(m, some, <<byte>>)
          BY <4>1 DEF ThreeStrings
        <5> QED
          BY <5>1, AppendToConcat
      <4> QED
        BY <4>2 DEF some, byte
    <3> QED
      BY <3>1, <3>2
  <2> HIDE DEF prefix
  <2>6. after[n + 1] = ProcessByte(after[n], bytes[n + 1])
    BY <1>1, <2>1
  <2>7. Loaded(after[n], prefix(n))
    BY <1>3
  <2>8. Loaded(ProcessByte(after[n], bytes[n + 1]), Append(prefix(n), bytes[n + 1]))
    BY <2>2, <2>4, <2>7, ByteLoaded
  <2> QED
    BY <2>1, <2>5, <2>6, <2>8
<1> HIDE DEF Good
<1>4. \A n \in 0..N : n \in Good
  BY <1>0, <1>2, <1>3, Induction
<1>5. SubSeq(bytes, 1, N) = bytes
  BY SubSeqFull
<1>6. N \in Good
  BY <1>0, <1>4
<1>7. Loaded(after[N], prefix(N))
  BY <1>6 DEF Good
<1> QED
  BY <1>1, <1>5, <1>7

\* A new object has the empty message.
LEMMA FreshIsLoaded == Loaded(Fresh, <<>>)
<1> DEFINE block == [i \in 1..BlockSize |-> Unwritten]
           h == [m_digest |-> <<>>, m_block |-> block, m_blockByteIndex |-> 0, m_byteCount |-> 0,
                 completed |-> FALSE]
<1>0. Fresh = Reset(h)
  BY DEF Fresh
<1>1. Fresh = [m_digest |-> <<>>, m_block |-> [i \in 1..BlockSize |-> Unwritten],
               m_blockByteIndex |-> 0, m_byteCount |-> 0, completed |-> FALSE]
  <2>0. h \in Objects
    BY DEF Objects, FullBlock, BlockSize, Unwritten
  <2> DEFINE g == Reset(h)
  <2>1. g = [h EXCEPT !.m_digest = <<>>, !.m_blockByteIndex = 0, !.m_byteCount = 0]
    BY DEF Reset
  <2>2. h.m_block = block /\ h.completed = FALSE
    OBVIOUS
  <2> HIDE DEF g, h
  <2>3. g = [m_digest |-> <<>>, m_block |-> h.m_block, m_blockByteIndex |-> 0, m_byteCount |-> 0,
             completed |-> h.completed]
    BY <2>0, <2>1 DEF Objects
  <2> QED
    BY <1>0, <2>2, <2>3 DEF g, block
<1>2. Fresh \in Objects
  BY <1>1 DEF Objects, FullBlock, BlockSize, Unwritten
<1> HIDE DEF Fresh
<1>3. Len(Fresh.m_digest) = 0 /\ Fresh.m_blockByteIndex = 0 /\ Fresh.m_byteCount = 0 /\ ~Fresh.completed
  BY <1>1
<1>4. <<>> \in Seq(Int) /\ Len(<<>>) = 0
  OBVIOUS
<1>5. 1..0 = {} /\ 0 = BlockSize * 0 + 0
  BY DEF BlockSize
<1> QED
  BY <1>2, <1>3, <1>4, <1>5 DEF Loaded

\* A number is written as four bytes.
LEMMA BytesOfNumber ==
  ASSUME NEW value \in Nat
  PROVE  BigEndian(value) \in Seq(Int) /\ Len(BigEndian(value)) = 4
<1>1. ASSUME NEW k \in Nat \ {0} PROVE (value \div k) % 256 \in Int /\ value % 256 \in Int
  <2>1. value \div k \in Int
    BY Division
  <2> HIDE DEF BigEndian
  <2> QED
    BY <2>1, Division
<1>2. /\ (value \div 16777216) % 256 \in Int /\ (value \div 65536) % 256 \in Int
      /\ (value \div 256) % 256 \in Int /\ value % 256 \in Int
  BY <1>1
<1> DEFINE a == (value \div 16777216) % 256
           b == (value \div 65536) % 256
           c == (value \div 256) % 256
           d == value % 256
<1>3. BigEndian(value) = <<a, b, c, d>>
  BY DEF BigEndian
<1>4. a \in Int /\ b \in Int /\ c \in Int /\ d \in Int
  BY <1>2
<1> HIDE DEF a, b, c, d
<1> QED
  BY <1>3, <1>4

\* The padding is as long as it says.
LEMMA ZerosAreZero ==
  ASSUME NEW n \in Nat
  PROVE  Zeros(n) \in Seq(Int) /\ Len(Zeros(n)) = n
  BY DEF Zeros

\* The blocks of a string of whole blocks.
Cut(padded) ==
  [n \in 1..(Len(padded) \div BlockSize) |-> SubSeq(padded, (n - 1) * BlockSize + 1, n * BlockSize)]

\* When the message ends with a block, all of it has been compressed.
LEMMA WholeBlocks ==
  ASSUME NEW p \in Seq(Int), NEW h, Loaded(h, p), Len(p) % BlockSize = 0
  PROVE  h.m_digest = Cut(p)
<1> DEFINE q == Len(h.m_digest)
           D == h.m_digest
<1>1. h \in Objects /\ Len(p) = 64 * q + h.m_blockByteIndex /\ Len(p) % 64 = 0
  BY DEF Loaded, BlockSize
<1>2. h.m_digest \in Seq(FullBlock) /\ h.m_blockByteIndex \in 0..63
  BY <1>1 DEF Objects, BlockSize
<1>3. q \in Nat /\ Len(p) \in Nat
  BY <1>2
<1>4. \A n \in 1..q : \A i \in 1..64 : D[n][i] = p[64 * (n - 1) + i]
  BY DEF Loaded, BlockSize
<1>5. D = [n \in 1..q |-> D[n]] /\ \A n \in 1..q : D[n] \in [1..64 -> Int]
  <2>1. D \in Seq(FullBlock) /\ q = Len(D)
    BY <1>2
  <2> HIDE DEF D, q
  <2>2. D \in [1..q -> FullBlock]
    BY <2>1
  <2> QED
    BY <2>2 DEF FullBlock, BlockSize
<1> DEFINE r == h.m_blockByteIndex
<1>5a. r \in 0..63 /\ Len(p) = 64 * q + r /\ Len(p) % 64 = 0
  BY <1>1, <1>2
<1> HIDE DEF q, D, r
<1>6. Len(p) \div 64 = q /\ Len(p) % 64 = r
  <2>1. Len(p) \in Int /\ 64 \in Nat \ {0} /\ q \in Int /\ r \in Nat /\ r < 64 /\ Len(p) = 64 * q + r
    BY <1>3, <1>5a
  <2> QED
    BY <2>1, DivisionIsUnique
<1>7. r = 0 /\ Len(p) = 64 * q
  BY <1>3, <1>5a, <1>6
<1>8. ASSUME NEW n \in 1..q PROVE SubSeq(p, (n - 1) * 64 + 1, n * 64) = D[n]
  <2> DEFINE from == (n - 1) * 64 + 1
             to == n * 64
             s == SubSeq(p, from, to)
  <2>1. from \in 1..Len(p) /\ to \in 1..Len(p) /\ from <= to /\ to - from + 1 = 64
    BY <1>3, <1>7
  <2>1a. \A i \in 1..64 : from + i - 1 = 64 * (n - 1) + i
    BY <1>3
  <2> HIDE DEF from, to
  <2>2. s \in Seq(Int) /\ Len(s) = 64 /\ \A i \in 1..64 : s[i] = p[from + i - 1]
    <3>1. /\ s \in Seq(Int) /\ Len(s) = to - from + 1
          /\ \A i \in 1..to - from + 1 : s[i] = p[from + i - 1]
      <4>1. \A a \in 1..Len(p), b \in 1..Len(p) :
              a <= b => /\ SubSeq(p, a, b) \in Seq(Int) /\ Len(SubSeq(p, a, b)) = b - a + 1
                        /\ \A i \in 1..b - a + 1 : SubSeq(p, a, b)[i] = p[a + i - 1]
        BY SubSeqProperties
      <4> QED
        BY <2>1, <4>1
    <3> QED
      BY <2>1, <3>1
  <2> HIDE DEF s
  <2>3. \A i \in 1..64 : s[i] = D[n][i]
    <3> SUFFICES ASSUME NEW i \in 1..64 PROVE s[i] = D[n][i]
      OBVIOUS
    <3>1. D[n][i] = p[64 * (n - 1) + i]
      BY <1>4
    <3> QED
      <4>1. s[i] = p[from + i - 1]
        BY <2>2
      <4>2. from + i - 1 = 64 * (n - 1) + i
        BY <2>1a
      <4> QED
        BY <3>1, <4>1, <4>2
  <2>4. s = [i \in 1..64 |-> s[i]] /\ D[n] = [i \in 1..64 |-> D[n][i]]
    <3>1. D[n] \in [1..64 -> Int]
      BY <1>5
    <3>2. s \in [1..Len(s) -> Int]
      BY <2>2, LenProperties
    <3>3. s \in [1..64 -> Int]
      BY <2>2, <3>2
    <3> QED
      BY <3>1, <3>3
  <2>5. s = D[n]
    BY <2>3, <2>4
  <2> QED
    BY <2>5 DEF s, from, to
<1>9. Cut(p) = [n \in 1..q |-> SubSeq(p, (n - 1) * 64 + 1, n * 64)]
  BY <1>6 DEF Cut, BlockSize
<1>10. Cut(p) = [n \in 1..q |-> D[n]]
  BY <1>8, <1>9
<1> QED
  BY <1>5, <1>10 DEF D

\* finalize writes as many zeros as the padding of the standard has.
LEMMA PaddingIsStandard ==
  ASSUME NEW L \in Nat, NEW q \in Nat, NEW index \in 0..BlockSize - 1,
         L + 1 = BlockSize * q + index
  PROVE  LET padding == IF index > 56 THEN BlockSize - index + 56 ELSE 56 - index
         IN  /\ padding \in 0..BlockSize - 1
             /\ padding = CHOOSE n \in 0..BlockSize - 1 : (L + 1 + n) % BlockSize = BlockSize - 8
             /\ (L + 1 + padding + 8) % BlockSize = 0
<1> DEFINE padding == IF index > 56 THEN 64 - index + 56 ELSE 56 - index
           P(n) == (L + 1 + n) % 64 = 56
<1>1. index \in 0..63 /\ L + 1 = 64 * q + index
  BY DEF BlockSize
<1>2. padding \in 0..63
  BY <1>1
<1>3. \E k \in Nat : L + 1 + padding = 64 * k + 56
  <2>1. CASE index > 56
    <3>1. L + 1 + padding = 64 * (q + 1) + 56 /\ q + 1 \in Nat
      BY <1>1, <2>1
    <3> QED
      BY <3>1
  <2>2. CASE ~(index > 56)
    <3>1. L + 1 + padding = 64 * q + 56
      BY <1>1, <2>2
    <3> QED
      BY <3>1
  <2> QED
    BY <2>1, <2>2
<1> HIDE DEF padding
<1>4. PICK k \in Nat : L + 1 + padding = 64 * k + 56
  BY <1>3
<1>5. P(padding)
  <2>1. L + 1 + padding \in Int /\ 64 \in Nat \ {0} /\ k \in Int /\ 56 \in Nat /\ 56 < 64
    BY <1>2
  <2> QED
    BY <1>4, <2>1, DivisionIsUnique
<1>6. (L + 1 + padding + 8) % 64 = 0
  <2>1. L + 1 + padding + 8 \in Int /\ 64 \in Nat \ {0} /\ k + 1 \in Int /\ 0 \in Nat /\ 0 < 64
    BY <1>2
  <2>2. L + 1 + padding + 8 = 64 * (k + 1) + 0
    BY <1>2, <1>4
  <2> QED
    BY <2>1, <2>2, DivisionIsUnique
<1>7. ASSUME NEW n \in 0..63, P(n) PROVE n = padding
  <2> DEFINE j == (L + 1 + n) \div 64
  <2>1. j \in Int /\ L + 1 + n = 64 * j + 56
    <3>1. L + 1 + n \in Int /\ 64 \in Nat \ {0}
      OBVIOUS
    <3>2. j \in Int /\ L + 1 + n = 64 * j + ((L + 1 + n) % 64)
      BY <3>1, Division
    <3> QED
      BY <1>7, <3>2
  <2> HIDE DEF j
  <2>2. n - padding = 64 * (j - k)
    BY <1>2, <1>4, <2>1
  <2>3. n - padding < 64 /\ padding - n < 64
    BY <1>2
  <2>4. j - k = 0
    BY <2>1, <2>2, <2>3, <1>2
  <2> QED
    BY <1>2, <2>2, <2>4
<1> DEFINE chosen == CHOOSE n \in 0..63 : P(n)
<1>8. chosen \in 0..63 /\ P(chosen)
  BY <1>2, <1>5
<1> HIDE DEF chosen
<1>9. padding = chosen
  BY <1>7, <1>8
<1>10. BlockSize = 64 /\ BlockSize - 1 = 63 /\ BlockSize - 8 = 56
  BY DEF BlockSize
<1>11. padding = CHOOSE n \in 0..BlockSize - 1 : (L + 1 + n) % BlockSize = BlockSize - 8
  BY <1>9 DEF chosen, BlockSize
<1>12. padding = IF index > 56 THEN BlockSize - index + 56 ELSE 56 - index
  BY DEF padding, BlockSize
<1> QED
  BY <1>2, <1>6, <1>10, <1>11, <1>12 DEF padding

\* The zeros that the standard puts before the length.
PaddingOf(L) == CHOOSE n \in 0..BlockSize - 1 : (L + 1 + n) % BlockSize = BlockSize - 8

LEMMA PaddingChosen == ASSUME NEW L \in Nat PROVE PaddingOf(L) \in 0..BlockSize - 1
<1> DEFINE index == (L + 1) % 64
           q == (L + 1) \div 64
<1>1. index \in 0..63 /\ q \in Nat /\ L + 1 = BlockSize * q + index
  <2>1. L + 1 \in Nat /\ 64 \in Nat \ {0}
    OBVIOUS
  <2>2. q \in Nat /\ index \in Nat /\ index < 64 /\ L + 1 = 64 * q + index
    BY <2>1, Division
  <2> QED
    BY <2>2 DEF BlockSize
<1> HIDE DEF index, q
<1> DEFINE padding == IF index > 56 THEN BlockSize - index + 56 ELSE 56 - index
           chosen == CHOOSE n \in 0..BlockSize - 1 : (L + 1 + n) % BlockSize = BlockSize - 8
<1>2. index \in 0..BlockSize - 1
  BY <1>1 DEF BlockSize
<1>3. padding \in 0..BlockSize - 1 /\ padding = chosen
  BY <1>1, <1>2, PaddingIsStandard
<1>4. PaddingOf(L) = chosen
  BY DEF PaddingOf
<1> HIDE DEF padding, chosen
<1> QED
  BY <1>3, <1>4

\* The upper half of the length of a message that is short enough.
LEMMA UpperHalfIsZero ==
  ASSUME NEW L \in Nat, L < 536870912
  PROVE  ((8 * L) \div 65536) \div 65536 = 0
<1> DEFINE n == 8 * L
           h == n \div 65536
<1>1. h \in Nat /\ h < 65536
  <2>1. n \in Nat /\ n < 65536 * 65536 /\ 65536 \in Nat \ {0}
    OBVIOUS
  <2> HIDE DEF n
  <2>2. h \in Nat /\ n % 65536 \in Nat /\ n = 65536 * h + (n % 65536)
    BY <2>1, Division
  <2> HIDE DEF h
  <2> QED
    BY <2>1, <2>2
<1> HIDE DEF n, h
<1>2. h \div 65536 = 0
  <2>1. h = 65536 * 0 + h /\ 65536 \in Nat \ {0}
    BY <1>1
  <2> QED
    BY <1>1, <2>1, DivisionIsUnique
<1> QED
  BY <1>2 DEF n, h

\* Four zeros more.
LEMMA ZerosAfterZeros ==
  ASSUME NEW k \in Nat PROVE Zeros(k) \o BigEndian(0) = Zeros(k + 4)
<1>1. BigEndian(0) = <<0, 0, 0, 0>>
  <2>1. /\ 0 \div 16777216 = 0 /\ 0 \div 65536 = 0 /\ 0 \div 256 = 0 /\ 0 % 256 = 0
    OBVIOUS
  <2> QED
    BY <2>1 DEF BigEndian
<1>2. Zeros(k) \o BigEndian(0) = Zeros(k + 4)
  <2> DEFINE z == Zeros(k)
             b == BigEndian(0)
             w == Zeros(k + 4)
  <2>1. /\ z \in Seq(Int) /\ Len(z) = k /\ \A i \in 1..k : z[i] = 0
        /\ w \in Seq(Int) /\ Len(w) = k + 4 /\ \A i \in 1..k + 4 : w[i] = 0
    <3>1. k + 4 \in Nat
      OBVIOUS
    <3>2. \A j \in Nat : Zeros(j) \in Seq(Int) /\ Len(Zeros(j)) = j
      BY ZerosAreZero
    <3> QED
      BY <3>1, <3>2 DEF Zeros
  <2>2. b \in Seq(Int) /\ Len(b) = 4 /\ \A i \in 1..4 : b[i] = 0
    <3>1. b \in Seq(Int) /\ Len(b) = 4
      BY BytesOfNumber
    <3>2. b[1] = 0 /\ b[2] = 0 /\ b[3] = 0 /\ b[4] = 0
      BY <1>1
    <3> HIDE DEF b
    <3>3. \A i \in 1..4 : i = 1 \/ i = 2 \/ i = 3 \/ i = 4
      OBVIOUS
    <3> QED
      BY <3>1, <3>2, <3>3
  <2> HIDE DEF z, b, w
  <2>3. /\ z \o b \in Seq(Int) /\ Len(z \o b) = k + 4
        /\ \A i \in 1..k + 4 : (z \o b)[i] = IF i <= k THEN z[i] ELSE b[i - k]
    <3>1. /\ z \o b \in Seq(Int) /\ Len(z \o b) = Len(z) + Len(b)
          /\ \A i \in 1..Len(z) + Len(b) :
               (z \o b)[i] = IF i <= Len(z) THEN z[i] ELSE b[i - Len(z)]
      <4>1. z \in Seq(Int) /\ b \in Seq(Int)
        BY <2>1, <2>2
      <4> QED
        BY <4>1, ConcatProperties
    <3>2. Len(z) = k /\ Len(b) = 4
      BY <2>1, <2>2
    <3> QED
      BY <3>1, <3>2
  <2>4. ASSUME NEW i \in 1..k + 4 PROVE (z \o b)[i] = w[i]
    <3>1. w[i] = 0 /\ (i <= k => i \in 1..k) /\ (~(i <= k) => i - k \in 1..4)
      BY <2>1
    <3>2. (z \o b)[i] = IF i <= k THEN z[i] ELSE b[i - k]
      BY <2>3
    <3>3. z[i] = 0 \/ ~(i <= k)
      BY <2>1, <3>1
    <3>4. b[i - k] = 0 \/ i <= k
      BY <2>2, <3>1
    <3> QED
      BY <3>1, <3>2, <3>3, <3>4
  <2>5. z \o b = w
    <3>1. Len(z \o b) = Len(w) /\ \A i \in 1..Len(z \o b) : (z \o b)[i] = w[i]
      BY <2>1, <2>3, <2>4
    <3> QED
      BY <2>1, <2>3, <3>1, SeqEqual
  <2> QED
    BY <2>5 DEF z, b, w
<1> QED
  BY <1>2

\* The upper half of the length of a short message is four zeros more.
LEMMA ShortIsPadded ==
  ASSUME NEW m \in Seq(Int), Short(m)
  PROVE  Padded(m) = ((m \o <<128>>) \o Zeros(PaddingOf(Len(m)) + 4)) \o BigEndian(8 * Len(m))
<1> DEFINE L == Len(m)
           zeros == PaddingOf(L)
           upper == BigEndian(((8 * L) \div 65536) \div 65536)
           lower == BigEndian(8 * L)
           head == m \o <<128>>
<1>1. L \in Nat /\ L < 536870912
  BY DEF Short
<1>2. Padded(m) = ((head \o Zeros(zeros)) \o upper) \o lower
  BY DEF Padded, PaddingOf
<1>3. head \in Seq(Int)
  OBVIOUS
<1> HIDE DEF L, head, lower
<1>4. zeros \in Nat
  <2>1. zeros \in 0..BlockSize - 1
    BY <1>1, PaddingChosen
  <2> HIDE DEF zeros
  <2> QED
    BY <2>1 DEF BlockSize
<1> HIDE DEF zeros
<1>5. Zeros(zeros) \o upper = Zeros(zeros + 4)
  <2>1. ((8 * L) \div 65536) \div 65536 = 0
    BY <1>1, UpperHalfIsZero
  <2>2. Zeros(zeros) \o BigEndian(0) = Zeros(zeros + 4)
    BY <1>4, ZerosAfterZeros
  <2>3. upper = BigEndian(0)
    BY <2>1
  <2> HIDE DEF upper
  <2> QED
    BY <2>2, <2>3
<1>6. upper \in Seq(Int) /\ Zeros(zeros) \in Seq(Int)
  <2>1. ((8 * L) \div 65536) \div 65536 = 0
    BY <1>1, UpperHalfIsZero
  <2>2. BigEndian(0) \in Seq(Int)
    BY BytesOfNumber
  <2> QED
    BY <1>4, <2>1, <2>2, ZerosAreZero
<1> HIDE DEF upper
<1>7. (head \o Zeros(zeros)) \o upper = head \o (Zeros(zeros) \o upper)
  <2>1. ThreeStrings(head, Zeros(zeros), upper)
    BY <1>3, <1>6 DEF ThreeStrings
  <2> QED
    BY <2>1, ConcatOfThree
<1>8. Padded(m) = (head \o Zeros(zeros + 4)) \o lower
  BY <1>2, <1>5, <1>7
<1> QED
  BY <1>8 DEF head, lower, zeros, L

\* get_digest compresses the padded message of the standard.
LEMMA DigestIsPadded ==
  ASSUME NEW m \in Seq(Int), NEW h, Loaded(h, m), Short(m)
  PROVE  GetDigest(h) = Cut(Padded(m))
<1> DEFINE L == Len(m)
           t == ProcessByte(h, 128)
           index == t.m_blockByteIndex
           padding == IF index > 56 THEN BlockSize - index + 56 ELSE 56 - index
           zeros == CHOOSE n \in 0..BlockSize - 1 : (L + 1 + n) % BlockSize = BlockSize - 8
           bits == BigEndian(h.m_byteCount * 8)
           bytes == Zeros(padding + 4) \o bits
           g == ProcessBlock(t, bytes)
           q == Len(t.m_digest)
<1>1. h \in Objects /\ ~h.completed /\ h.m_byteCount = L /\ L \in Nat
  BY DEF Loaded
<1>2. GetDigest(h) = [g EXCEPT !.completed = TRUE].m_digest
  BY <1>1 DEF GetDigest, Finalize
<1>3. Padded(m) = ((m \o <<128>>) \o Zeros(zeros + 4)) \o BigEndian(8 * L)
  <2>1. zeros = PaddingOf(L)
    BY DEF PaddingOf
  <2> HIDE DEF zeros, L
  <2>2. Padded(m) = ((m \o <<128>>) \o Zeros(PaddingOf(L) + 4)) \o BigEndian(8 * L)
    BY ShortIsPadded DEF L
  <2> QED
    BY <2>1, <2>2
<1> HIDE DEF t, L
<1>4. Loaded(t, Append(m, 128))
  BY ByteLoaded DEF t
<1>5. Append(m, 128) = m \o <<128>> /\ Append(m, 128) \in Seq(Int) /\ Len(Append(m, 128)) = L + 1
  BY AppendIsConcat, AppendProperties DEF L
<1>6. t \in Objects /\ L + 1 = BlockSize * q + index
  BY <1>4, <1>5 DEF Loaded
<1>7. index \in 0..BlockSize - 1 /\ q \in Nat
  <2>1. index \in 0..BlockSize - 1 /\ t.m_digest \in Seq(FullBlock)
    BY <1>6 DEF Objects
  <2> QED
    BY <2>1
<1> HIDE DEF index, q, zeros, padding
<1>8. /\ padding \in 0..BlockSize - 1 /\ padding = zeros
      /\ (L + 1 + padding + 8) % BlockSize = 0
  BY <1>1, <1>6, <1>7, PaddingIsStandard DEF padding, zeros
<1>9. padding + 4 \in Nat /\ h.m_byteCount * 8 \in Nat /\ h.m_byteCount * 8 = 8 * L
  BY <1>1, <1>8 DEF BlockSize
<1>10. /\ Zeros(padding + 4) \in Seq(Int) /\ Len(Zeros(padding + 4)) = padding + 4
       /\ bits \in Seq(Int) /\ Len(bits) = 4
  BY <1>9, BytesOfNumber, ZerosAreZero
<1> DEFINE z == Zeros(padding + 4)
           first == Append(m, 128)
           padded == first \o bytes
<1>11. bytes \in Seq(Int) /\ bytes = z \o bits /\ Len(bytes) = padding + 8
  <2>1. z \in Seq(Int) /\ Len(z) = padding + 4 /\ bits \in Seq(Int) /\ Len(bits) = 4
    BY <1>10
  <2>2. bytes = z \o bits
    OBVIOUS
  <2>3. padding \in Int
    BY <1>8 DEF BlockSize
  <2> HIDE DEF z, bits, bytes
  <2>4. z \o bits \in Seq(Int) /\ Len(z \o bits) = Len(z) + Len(bits)
    BY <2>1, ConcatProperties
  <2>5. (padding + 4) + 4 = padding + 8
    BY <2>3
  <2> QED
    BY <2>1, <2>2, <2>4, <2>5
<1>12. Padded(m) = first \o bytes
  <2>1. Padded(m) = (first \o z) \o bits
    BY <1>3, <1>5, <1>8, <1>9
  <2>2. z \in Seq(Int) /\ bits \in Seq(Int) /\ first \in Seq(Int)
    BY <1>5, <1>10
  <2> HIDE DEF z, bits, first
  <2>3. (first \o z) \o bits = first \o (z \o bits)
    <3>1. ThreeStrings(first, z, bits)
      BY <2>2 DEF ThreeStrings
    <3> QED
      BY <3>1, ConcatOfThree
  <2> QED
    BY <1>11, <2>1, <2>3
<1> HIDE DEF bytes, z, bits, first
<1>13. Loaded(g, padded)
  <2>1. Loaded(t, first) /\ first \in Seq(Int)
    BY <1>4, <1>5 DEF first
  <2> QED
    BY <1>11, <2>1, BytesLoaded
<1>14. Len(padded) % BlockSize = 0 /\ padded \in Seq(Int)
  <2>1. first \in Seq(Int) /\ Len(first) = L + 1
    BY <1>5 DEF first
  <2>2. Len(padded) = Len(first) + Len(bytes) /\ padded \in Seq(Int)
    BY <1>11, <2>1, ConcatProperties
  <2>3. (L + 1) + (padding + 8) = L + 1 + padding + 8
    BY <1>1, <1>8 DEF BlockSize
  <2> QED
    BY <1>8, <1>11, <2>1, <2>2, <2>3
<1> HIDE DEF g, padded
<1>15. g.m_digest = Cut(padded)
  BY <1>13, <1>14, WholeBlocks
<1>16. [g EXCEPT !.completed = TRUE].m_digest = g.m_digest
  <2>1. g \in Objects
    BY <1>13 DEF Loaded
  <2> QED
    BY <2>1 DEF Objects
<1> QED
  BY <1>2, <1>12, <1>15, <1>16 DEF padded

\* The messages of the calls of process, one after the other.
LEMMA CallsLoaded ==
  ASSUME NEW calls \in Seq(Seq(Int))
  PROVE  LET processed[n \in 0..Len(calls)] ==
               IF n = 0 THEN Fresh ELSE ProcessBlock(processed[n - 1], calls[n])
         IN  Loaded(processed[Len(calls)], FlattenSeq(calls))
<1> DEFINE N == Len(calls)
           Equation(f) == f = [n \in 0..N |-> IF n = 0 THEN Fresh ELSE ProcessBlock(f[n - 1], calls[n])]
           computed == CHOOSE f : Equation(f)
           step == [g \in Objects |-> [n \in 1..N |-> ProcessBlock(g, calls[n])]]
<1>1. N \in Nat /\ \A n \in 1..N : calls[n] \in Seq(Int)
  OBVIOUS
<1>2. ASSUME NEW g \in Objects, NEW bytes \in Seq(Int) PROVE ProcessBlock(g, bytes) \in Objects
  <2>1. PICK after \in [0..Len(bytes) -> Objects] : ProcessBlock(g, bytes) = after[Len(bytes)]
    BY BytesProcessed
  <2>2. Len(bytes) \in 0..Len(bytes)
    OBVIOUS
  <2> QED
    BY <2>1, <2>2
<1>3. Iterative(N, Objects, Fresh, step)
  <2>1. step \in [Objects -> [1..N -> Objects]]
    BY <1>1, <1>2
  <2>2. Fresh \in Objects
    BY FreshIsLoaded DEF Loaded
  <2> HIDE DEF step, N
  <2> QED
    BY <1>1, <2>1, <2>2 DEF Iterative
<1>4. \A g \in Objects : \A n \in 1..N : step[g][n] = ProcessBlock(g, calls[n])
  OBVIOUS
<1> HIDE DEF step
<1> SUFFICES Loaded(computed[N], FlattenSeq(calls))
  OBVIOUS
<1>5. PICK f \in [0..N -> Objects] :
        f = [n \in 0..N |-> IF n = 0 THEN Fresh ELSE step[f[n - 1]][n]]
  <2> HIDE DEF N
  <2> QED
    BY <1>3, Iteration
<1> HIDE DEF N
<1>6. Equation(f)
  <2>1. ASSUME NEW n \in 0..N, n # 0 PROVE step[f[n - 1]][n] = ProcessBlock(f[n - 1], calls[n])
    <3>1. n - 1 \in 0..N /\ n \in 1..N
      BY <1>1, <2>1
    <3>2. f[n - 1] \in Objects
      BY <3>1
    <3> QED
      BY <1>4, <3>1, <3>2
  <2> QED
    BY <1>5, <2>1
<1>7. Equation(computed)
  BY <1>6
<1> HIDE DEF computed
<1>8. PICK whole \in [0..N -> Seq(Int)] :
        /\ whole[0] = <<>> /\ \A n \in 1..N : whole[n] = whole[n - 1] \o calls[n]
        /\ FlattenSeq(calls) = whole[N]
  BY Flattening DEF N
<1> DEFINE Good == {n \in 0..N : Loaded(computed[n], whole[n])}
<1>9. 0 \in Good
  <2>1. 0 \in 0..N
    BY <1>1
  <2>2. computed[0] = Fresh
    BY <1>7, <2>1
  <2> QED
    BY <1>8, <2>1, <2>2, FreshIsLoaded
<1>10. ASSUME NEW n \in 0..N - 1, n \in Good PROVE n + 1 \in Good
  <2>1. n + 1 \in 0..N /\ n + 1 # 0 /\ (n + 1) - 1 = n /\ n + 1 \in 1..N /\ n \in 0..N
    BY <1>1
  <2>2. computed[n + 1] = ProcessBlock(computed[n], calls[n + 1])
    BY <1>7, <2>1
  <2>3. whole[n + 1] = whole[n] \o calls[n + 1] /\ whole[n] \in Seq(Int) /\ calls[n + 1] \in Seq(Int)
    BY <1>1, <1>8, <2>1
  <2>4. Loaded(computed[n], whole[n])
    BY <1>10
  <2>5. Loaded(ProcessBlock(computed[n], calls[n + 1]), whole[n] \o calls[n + 1])
    BY <2>3, <2>4, BytesLoaded
  <2> QED
    BY <2>1, <2>2, <2>3, <2>5
<1> HIDE DEF Good
<1>11. \A n \in 0..N : n \in Good
  BY <1>1, <1>9, <1>10, Induction
<1>12. Loaded(computed[N], whole[N])
  BY <1>1, <1>11 DEF Good
<1> QED
  BY <1>8, <1>12

\* generate_deterministic_seed hashes the salt, the key and the seed.
LEMMA SeedIsLoaded ==
  ASSUME NEW seed \in Nat, NEW key \in Nat
  PROVE  GenerateDeterministicSeed(seed, key)
           = Cut(Padded(Salt \o BigEndian(key) \o BigEndian(seed)))
<1> DEFINE k == BigEndian(key)
           s == BigEndian(seed)
<1>1. Salt \in Seq(Int)
  BY DEF Salt
<1>2. k \in Seq(Int) /\ s \in Seq(Int)
  BY BytesOfNumber
<1>3. GenerateDeterministicSeed(seed, key) = GetDigest(ProcessBlock(ProcessBlock(ProcessBlock(Fresh, Salt), k), s))
  BY DEF GenerateDeterministicSeed
<1> HIDE DEF k, s
<1>4. Loaded(ProcessBlock(Fresh, Salt), Salt)
  <2>1. <<>> \in Seq(Int)
    OBVIOUS
  <2>2. Loaded(ProcessBlock(Fresh, Salt), <<>> \o Salt)
    BY <1>1, <2>1, FreshIsLoaded, BytesLoaded
  <2> QED
    BY <1>1, <2>2, ConcatEmptySeq
<1>5. Loaded(ProcessBlock(ProcessBlock(Fresh, Salt), k), Salt \o k)
  BY <1>1, <1>2, <1>4, BytesLoaded
<1>6. Salt \o k \in Seq(Int)
  BY <1>1, <1>2
<1>7. Loaded(ProcessBlock(ProcessBlock(ProcessBlock(Fresh, Salt), k), s), (Salt \o k) \o s)
  BY <1>2, <1>5, <1>6, BytesLoaded
<1>8. (Salt \o k) \o s \in Seq(Int) /\ Short((Salt \o k) \o s)
  <2>1. Len(Salt) = 16 /\ Len(k) = 4 /\ Len(s) = 4
    BY BytesOfNumber DEF Salt, k, s
  <2>2. Len(Salt \o k) = Len(Salt) + Len(k) /\ Salt \o k \in Seq(Int)
    BY <1>1, <1>2, ConcatProperties
  <2>3. Len((Salt \o k) \o s) = Len(Salt \o k) + Len(s) /\ (Salt \o k) \o s \in Seq(Int)
    BY <1>2, <2>2, ConcatProperties
  <2> QED
    BY <2>1, <2>2, <2>3 DEF Short
<1> QED
  BY <1>3, <1>7, <1>8, DigestIsPadded DEF k, s

(* Strings that are made of pieces. *)

\* A function of the first numbers is a sequence.
LEMMA FunctionIsSequence ==
  ASSUME NEW N \in Nat, NEW T, NEW g \in [1..N -> T]
  PROVE  g \in Seq(T) /\ Len(g) = N
<1>1. g \in Seq(T)
  BY SeqDef
<1>2. DOMAIN g = 1..N /\ DOMAIN g = 1..Len(g) /\ Len(g) \in Nat
  BY <1>1, LenProperties
<1>3. Len(g) = N
  BY <1>2
<1> QED
  BY <1>1, <1>3

\* What is known of the characters of a string.
LEMMA Characters ==
  ASSUME NEW S, NEW s \in Seq(S)
  PROVE  Len(s) \in Nat /\ DOMAIN s = 1..Len(s) /\ \A i \in 1..Len(s) : s[i] \in S
  OBVIOUS

\* f[n] is the first n pieces, one after the other.
Flattened(seqs, f) ==
  /\ seqs \in Seq(Seq(Int)) /\ f \in [0..Len(seqs) -> Seq(Int)] /\ f[0] = <<>>
  /\ \A n \in 1..Len(seqs) : f[n] = f[n - 1] \o seqs[n]

\* FlattenSeq puts the pieces one after the other.
LEMMA Pieces ==
  ASSUME NEW seqs \in Seq(Seq(Int))
  PROVE  \E f : Flattened(seqs, f) /\ FlattenSeq(seqs) = f[Len(seqs)]
  BY Flattening DEF Flattened

\* A string is what it was when more pieces are put behind it.
LEMMA PiecesInPlace ==
  ASSUME NEW seqs, NEW f, Flattened(seqs, f), NEW n \in 0..Len(seqs)
  PROVE  /\ Len(f[n]) <= Len(f[Len(seqs)])
         /\ \A i \in 1..Len(f[n]) : f[Len(seqs)][i] = f[n][i]
<1> DEFINE N == Len(seqs)
           whole == f[N]
           Good == {k \in 0..N : /\ Len(f[N - k]) <= Len(whole)
                                 /\ \A i \in 1..Len(f[N - k]) : whole[i] = f[N - k][i]}
<1>0. N \in Nat /\ \A k \in 0..N : f[k] \in Seq(Int) /\ Len(f[k]) \in Nat
  <2>1. N \in Nat
    BY DEF Flattened
  <2> HIDE DEF N
  <2>2. \A k \in 0..N : f[k] \in Seq(Int)
    BY DEF Flattened, N
  <2> QED
    BY <2>1, <2>2
<1>a. \A k \in 1..N : f[k] = f[k - 1] \o seqs[k] /\ seqs[k] \in Seq(Int)
  <2> SUFFICES ASSUME NEW k \in 1..N PROVE f[k] = f[k - 1] \o seqs[k] /\ seqs[k] \in Seq(Int)
    OBVIOUS
  <2>1. f[k] = f[k - 1] \o seqs[k]
    BY DEF Flattened
  <2>2. seqs \in Seq(Seq(Int))
    BY DEF Flattened
  <2> QED
    BY <2>1, <2>2, ElementOfSeq
<1> HIDE DEF N, whole
<1>1. 0 \in Good
  BY <1>0 DEF whole
<1>2. ASSUME NEW k \in 0..N - 1, k \in Good PROVE k + 1 \in Good
  <2> DEFINE j == N - (k + 1)
             x == f[j]
             piece == seqs[j + 1]
             y == f[j + 1]
  <2>1. j \in 0..N /\ j + 1 \in 1..N /\ (j + 1) - 1 = j /\ N - k = j + 1 /\ k + 1 \in 0..N /\ j + 1 \in 0..N
    BY <1>0
  <2>2. x \in Seq(Int) /\ piece \in Seq(Int) /\ y = x \o piece
    BY <1>0, <1>a, <2>1
  <2>3. Len(y) <= Len(whole) /\ \A i \in 1..Len(y) : whole[i] = y[i]
    BY <1>2, <2>1
  <2> HIDE DEF x, y, piece
  <2>4. /\ Len(y) = Len(x) + Len(piece) /\ Len(x) \in Nat /\ Len(piece) \in Nat
        /\ \A i \in 1..Len(x) + Len(piece) : y[i] = IF i <= Len(x) THEN x[i] ELSE piece[i - Len(x)]
    BY <2>2, ConcatProperties
  <2>5. Len(whole) \in Nat
    BY <1>0 DEF whole
  <2>6. Len(x) <= Len(whole) /\ \A i \in 1..Len(x) : whole[i] = x[i]
    BY <2>3, <2>4, <2>5
  <2> QED
    BY <2>1, <2>6 DEF x
<1> HIDE DEF Good
<1>3. \A k \in 0..N : k \in Good
  BY <1>0, <1>1, <1>2, Induction
<1>4. N - n \in 0..N /\ N - (N - n) = n
  BY <1>0 DEF N
<1>5. N - n \in Good
  BY <1>3, <1>4
<1> QED
  BY <1>4, <1>5 DEF Good, whole, N

\* The hypothesis about a piece and the others.
Pieced(a, r) == a \in Seq(Int) /\ r \in Seq(Seq(Int))

\* A piece in front of the others.
LEMMA Consed ==
  ASSUME NEW a, NEW r, Pieced(a, r)
  PROVE  /\ Cons(a, r) \in Seq(Seq(Int)) /\ Len(Cons(a, r)) = Len(r) + 1
         /\ Cons(a, r)[1] = a /\ \A n \in 1..Len(r) : Cons(a, r)[n + 1] = r[n]
         /\ FlattenSeq(r) \in Seq(Int)
         /\ FlattenSeq(Cons(a, r)) = a \o FlattenSeq(r)
<1> DEFINE T == Seq(Int)
           first == <<a>>
           seqs == first \o r
           N == Len(r)
<1>0. a \in T /\ r \in Seq(T)
  BY DEF Pieced
<1>1. first \in Seq(T) /\ Len(first) = 1 /\ first[1] = a
  BY <1>0
<1>2. r \in Seq(T) /\ N \in Nat
  BY <1>0
<1> HIDE DEF first, T, N
<1>3. /\ seqs \in Seq(T) /\ Len(seqs) = Len(first) + Len(r)
      /\ \A i \in 1..Len(first) + Len(r) : seqs[i] = IF i <= Len(first) THEN first[i] ELSE r[i - Len(first)]
  BY <1>1, <1>2, ConcatProperties
<1>4. Len(seqs) = N + 1 /\ seqs[1] = a /\ \A n \in 1..N : seqs[n + 1] = r[n]
  <2>1. Len(seqs) = N + 1
    BY <1>1, <1>2, <1>3 DEF N
  <2>2. seqs[1] = a
    BY <1>1, <1>2, <1>3 DEF N
  <2>3. ASSUME NEW n \in 1..N PROVE seqs[n + 1] = r[n]
    <3>1. n + 1 \in 1..Len(first) + Len(r) /\ ~(n + 1 <= Len(first)) /\ (n + 1) - Len(first) = n
      BY <1>1, <1>2 DEF N
    <3> QED
      BY <1>3, <3>1
  <2> QED
    BY <2>1, <2>2, <2>3
<1> HIDE DEF seqs
<1>5. PICK g : Flattened(r, g) /\ FlattenSeq(r) = g[N]
  BY <1>0, Pieces DEF N, T
<1>6. PICK f : Flattened(seqs, f) /\ FlattenSeq(seqs) = f[N + 1]
  BY <1>3, <1>4, Pieces DEF T
<1>7. \A n \in 0..N : g[n] \in Seq(Int)
  BY <1>5 DEF Flattened, N
<1>8. /\ f[0] = <<>> /\ g[0] = <<>> /\ \A n \in 1..N + 1 : f[n] = f[n - 1] \o seqs[n]
      /\ \A n \in 1..N : g[n] = g[n - 1] \o r[n]
  BY <1>4, <1>5, <1>6 DEF Flattened, N
<1> DEFINE Good == {n \in 0..N : f[n + 1] = a \o g[n]}
<1>9. 0 \in Good
  <2>1. f[1] = f[0] \o seqs[1]
    <3>1. 1 \in 1..N + 1 /\ 1 - 1 = 0
      BY <1>2
    <3> QED
      BY <1>8, <3>1
  <2>2. f[1] = <<>> \o a
    BY <1>4, <1>8, <2>1
  <2>3. <<>> \o a = a /\ a \o <<>> = a
    BY <1>0, ConcatEmptySeq DEF T
  <2>4. 0 \in 0..N /\ 0 + 1 = 1
    BY <1>2
  <2> QED
    BY <1>8, <2>2, <2>3, <2>4
<1>10. ASSUME NEW n \in 0..N - 1, n \in Good PROVE n + 1 \in Good
  <2>1. /\ n + 1 \in 1..N /\ (n + 1) - 1 = n /\ n + 2 \in 1..N + 1 /\ (n + 2) - 1 = n + 1
        /\ (n + 1) + 1 = n + 2 /\ n \in 0..N /\ n + 1 \in 0..N
    BY <1>2
  <2>2. f[n + 2] = f[n + 1] \o seqs[n + 2] /\ seqs[n + 2] = r[n + 1]
    BY <1>4, <1>8, <2>1
  <2>3. g[n + 1] = g[n] \o r[n + 1]
    BY <1>8, <2>1
  <2>4. f[n + 1] = a \o g[n]
    BY <1>10
  <2>5. r[n + 1] \in Seq(Int) /\ g[n] \in Seq(Int)
    <3>1. r[n + 1] \in T
      BY <1>0, <2>1, Characters DEF N
    <3>2. g[n] \in Seq(Int)
      BY <1>7, <2>1
    <3> QED
      BY <3>1, <3>2 DEF T
  <2>6. (a \o g[n]) \o r[n + 1] = a \o (g[n] \o r[n + 1])
    <3> DEFINE b == g[n]
               c == r[n + 1]
    <3>1. a \in Seq(Int) /\ b \in Seq(Int) /\ c \in Seq(Int)
      BY <1>0, <2>5 DEF T
    <3> HIDE DEF b, c
    <3>2. ThreeStrings(a, b, c)
      BY <3>1 DEF ThreeStrings
    <3>3. (a \o b) \o c = a \o (b \o c)
      BY <3>2, ConcatOfThree
    <3> QED
      BY <3>3 DEF b, c
  <2> QED
    BY <2>1, <2>2, <2>3, <2>4, <2>6
<1> HIDE DEF Good
<1>11. \A n \in 0..N : n \in Good
  BY <1>2, <1>9, <1>10, Induction
<1>12. N \in Good /\ N \in 0..N
  BY <1>2, <1>11
<1>13. FlattenSeq(seqs) = a \o FlattenSeq(r) /\ FlattenSeq(r) \in Seq(Int)
  BY <1>5, <1>6, <1>7, <1>12 DEF Good
<1> QED
  BY <1>3, <1>4, <1>13 DEF seqs, first, T, N, Cons

\* Nothing is made of no pieces.
LEMMA FlattenedNothing == FlattenSeq(<<>>) = <<>>
  BY DEF FlattenSeq

(* percent_encode and percent_decode. *)

\* What a character is encoded as.
CharEncoded(c) ==
  IF c \in PercentUnreserved THEN <<c>>
  ELSE <<Percent, HexmapUppercase((c \div 16) % 16), HexmapUppercase(c % 16)>>

\* The decoder between two encoded characters.
Between(res) == [res |-> res, c |-> 0, pos |-> 0]

Decoders == [res : Seq(Int), c : Int, pos : 0..2]

\* A hexadecimal digit is decoded to its value, and needs no encoding.
LEMMA HexDigits ==
  ASSUME NEW x \in 0..15
  PROVE  /\ HexmapUppercase(x) \in PercentUnreserved /\ HexmapUppercase(x) \in Int
         /\ DecodeHalfHex(HexmapUppercase(x)) = x /\ x # Invalid
<1> DEFINE h == HexmapUppercase(x)
<1>1. CASE x < 10
  <2>1. h = 48 + x
    BY <1>1 DEF HexmapUppercase
  <2>2. h \in Digits
    BY <1>1, <2>1 DEF Digits
  <2>3. DecodeHalfHex(h) = h - 48
    BY <2>2 DEF DecodeHalfHex, Digits
  <2> QED
    BY <2>1, <2>2, <2>3 DEF PercentUnreserved, Invalid
<1>2. CASE ~(x < 10)
  <2>1. h = 55 + x
    BY <1>2 DEF HexmapUppercase
  <2>2. h \in 65..70
    BY <1>2, <2>1
  <2>3. DecodeHalfHex(h) = h - 65 + 10
    BY <2>2 DEF DecodeHalfHex, Digits
  <2> QED
    BY <2>1, <2>2, <2>3 DEF PercentUnreserved, Invalid
<1> QED
  BY <1>1, <1>2

\* A decoder that has read a part of a sequence.
LEMMA DecoderWaits ==
  ASSUME NEW d \in Decoders, NEW v \in Int, NEW p \in 0..2
  PROVE  [d EXCEPT !.pos = p, !.c = v] = [res |-> d.res, c |-> v, pos |-> p]
<1> DEFINE g == [d EXCEPT !.pos = p, !.c = v]
<1>1. g = [d EXCEPT !.pos = p, !.c = v]
  OBVIOUS
<1> HIDE DEF g
<1>2. g = [res |-> d.res, c |-> v, pos |-> p]
  BY <1>1 DEF Decoders
<1> QED
  BY <1>2 DEF g

\* A call of decode_percent_rec, written out.
LEMMA DecodeStepWritten ==
  ASSUME NEW d \in Decoders, NEW x \in Int
  PROVE  /\ DecodeStep(d, x) \in Decoders
         /\ DecodeStep(d, x) = IF d.pos = 1 /\ DecodeHalfHex(x) # Invalid
             THEN [res |-> d.res, c |-> DecodeHalfHex(x) * 16, pos |-> 2]
             ELSE IF d.pos = 2 /\ DecodeHalfHex(x) # Invalid
             THEN [res |-> Append(d.res, d.c + DecodeHalfHex(x)), c |-> 0, pos |-> 0]
             ELSE IF x = Percent THEN [res |-> d.res, c |-> 0, pos |-> 1]
             ELSE [res |-> Append(d.res, x), c |-> 0, pos |-> 0]
<1> DEFINE half == DecodeHalfHex(x)
           g == DecodeStep(d, x)
<1>1. d.res \in Seq(Int) /\ d.c \in Int /\ d.pos \in 0..2
  BY DEF Decoders
<1>2. half \in Int
  BY DEF DecodeHalfHex, Digits, Invalid
<1>3. g = CASE d.pos = 1 /\ half # Invalid -> [d EXCEPT !.pos = 2, !.c = half * 16]
            [] d.pos = 2 /\ half # Invalid -> [res |-> Append(d.res, d.c + half), c |-> 0, pos |-> 0]
            [] OTHER -> IF x = Percent THEN [d EXCEPT !.pos = 1, !.c = 0]
                        ELSE [res |-> Append(d.res, x), c |-> 0, pos |-> 0]
  BY DEF DecodeStep
<1> HIDE DEF half, g
<1>4. /\ [d EXCEPT !.pos = 2, !.c = half * 16] = [res |-> d.res, c |-> half * 16, pos |-> 2]
      /\ [d EXCEPT !.pos = 1, !.c = 0] = [res |-> d.res, c |-> 0, pos |-> 1]
  <2>1. half * 16 \in Int /\ 0 \in Int /\ 2 \in 0..2 /\ 1 \in 0..2
    BY <1>2
  <2> QED
    BY <2>1, DecoderWaits
<1>5. g = IF d.pos = 1 /\ half # Invalid
          THEN [res |-> d.res, c |-> half * 16, pos |-> 2]
          ELSE IF d.pos = 2 /\ half # Invalid
          THEN [res |-> Append(d.res, d.c + half), c |-> 0, pos |-> 0]
          ELSE IF x = Percent THEN [res |-> d.res, c |-> 0, pos |-> 1]
          ELSE [res |-> Append(d.res, x), c |-> 0, pos |-> 0]
  <2>1. CASE d.pos = 1 /\ half # Invalid
    <3>1. ~(d.pos = 2 /\ half # Invalid)
      BY <2>1
    <3> QED
      BY <1>3, <1>4, <2>1, <3>1, Zenon
  <2>2. CASE d.pos = 2 /\ half # Invalid
    <3>1. ~(d.pos = 1 /\ half # Invalid)
      BY <2>2
    <3> QED
      BY <1>3, <2>2, <3>1, Zenon
  <2>3. CASE ~(d.pos = 1 /\ half # Invalid) /\ ~(d.pos = 2 /\ half # Invalid)
    BY <1>3, <1>4, <2>3, Zenon
  <2> QED
    BY <2>1, <2>2, <2>3
<1>6. \A t \in Seq(Int), y \in Int, p \in 0..2 : [res |-> t, c |-> y, pos |-> p] \in Decoders
  BY DEF Decoders
<1>7. g \in Decoders
  <2>1. Append(d.res, x) \in Seq(Int) /\ half * 16 \in Int /\ d.c + half \in Int
    BY <1>1, <1>2
  <2>2. Append(d.res, d.c + half) \in Seq(Int)
    BY <1>1, <2>1
  <2>3. 0 \in 0..2 /\ 1 \in 0..2 /\ 2 \in 0..2 /\ 0 \in Int
    OBVIOUS
  <2> QED
    BY <1>1, <1>5, <1>6, <2>1, <2>2, <2>3, Zenon
<1> QED
  BY <1>5, <1>7 DEF half, g

\* A character that was encoded is decoded to itself.
LEMMA CharDecoded ==
  ASSUME NEW res \in Seq(Int), NEW c \in 0..255
  PROVE  \/ /\ c \in PercentUnreserved /\ CharEncoded(c) = <<c>>
            /\ DecodeStep(Between(res), c) = Between(Append(res, c))
         \/ \E h, l \in PercentUnreserved :
              /\ CharEncoded(c) = <<Percent, h, l>>
              /\ DecodeStep(DecodeStep(DecodeStep(Between(res), Percent), h), l)
                   = Between(Append(res, c))
<1>1. CASE c \in PercentUnreserved
  <2>1. CharEncoded(c) = <<c>>
    BY <1>1 DEF CharEncoded
  <2>2. c # Percent
    BY <1>1 DEF PercentUnreserved, Percent, Digits
  <2>3. DecodeStep(Between(res), c) = Between(Append(res, c))
    <3>1. Between(res) \in Decoders /\ Between(res).pos = 0 /\ Between(res).res = res /\ c \in Int
      BY DEF Between, Decoders
    <3>2. DecodeStep(Between(res), c) = [res |-> Append(res, c), c |-> 0, pos |-> 0]
      BY <2>2, <3>1, DecodeStepWritten, SMTT(30)
    <3> QED
      BY <3>2 DEF Between
  <2> QED
    BY <1>1, <2>1, <2>3
<1>2. CASE c \notin PercentUnreserved
  <2> DEFINE x == (c \div 16) % 16
             y == c % 16
             h == HexmapUppercase(x)
             l == HexmapUppercase(y)
             one == [res |-> res, c |-> 0, pos |-> 1]
             two == [res |-> res, c |-> x * 16, pos |-> 2]
  <2>1. x \in 0..15 /\ y \in 0..15 /\ x * 16 + y = c
    OBVIOUS
  <2>2. CharEncoded(c) = <<Percent, h, l>>
    BY <1>2 DEF CharEncoded
  <2> HIDE DEF x, y
  <2>3. /\ h \in Int /\ l \in Int /\ h \in PercentUnreserved /\ DecodeHalfHex(h) = x /\ x # Invalid
        /\ l \in PercentUnreserved /\ DecodeHalfHex(l) = y /\ y # Invalid
    BY <2>1, HexDigits
  <2> HIDE DEF h, l
  <2>4. DecodeStep(Between(res), Percent) = one
    <3>1. Between(res) \in Decoders /\ Between(res).pos = 0 /\ Between(res).res = res /\ Percent \in Int
      BY DEF Between, Decoders, Percent
    <3> QED
      BY <3>1, DecodeStepWritten
  <2>5. DecodeStep(one, h) = two
    <3>1. one \in Decoders /\ one.pos = 1 /\ one.res = res /\ x * 16 \in Int
      BY <2>1 DEF Decoders
    <3> HIDE DEF one
    <3> QED
      BY <2>3, <3>1, DecodeStepWritten
  <2>6. DecodeStep(two, l) = Between(Append(res, c))
    <3>1. two \in Decoders /\ two.pos = 2 /\ two.res = res /\ two.c = x * 16
      BY <2>1 DEF Decoders
    <3> HIDE DEF two
    <3>2. DecodeStep(two, l) = [res |-> Append(two.res, two.c + y), c |-> 0, pos |-> 0]
      <4>1. two.pos # 1 /\ DecodeHalfHex(l) # Invalid
        BY <2>3, <3>1
      <4>2. DecodeStep(two, l) = [res |-> Append(two.res, two.c + DecodeHalfHex(l)), c |-> 0, pos |-> 0]
        BY <2>3, <3>1, <4>1, DecodeStepWritten
      <4> QED
        BY <2>3, <4>2
    <3>3. two.c + y = c
      BY <2>1, <3>1
    <3> QED
      BY <3>1, <3>2, <3>3 DEF Between
  <2> HIDE DEF one, two
  <2> QED
    BY <2>2, <2>3, <2>4, <2>5, <2>6
<1> QED
  BY <1>1, <1>2

\* percent_decode makes one step for each character.
LEMMA DecodesStepwise ==
  ASSUME NEW t \in Seq(Int)
  PROVE  \E d : /\ d[0] = Between(<<>>)
                /\ \A n \in 1..Len(t) : d[n] = DecodeStep(d[n - 1], t[n])
                /\ PercentDecode(t) = d[Len(t)].res
<1> DEFINE N == Len(t)
           Equation(f) ==
             f = [n \in 0..N |-> IF n = 0 THEN [res |-> <<>>, c |-> 0, pos |-> 0]
                                 ELSE DecodeStep(f[n - 1], t[n])]
           d == CHOOSE f : Equation(f)
           step == [x \in Decoders |-> [n \in 1..N |-> DecodeStep(x, t[n])]]
<1>0. N \in Nat /\ \A n \in 1..N : t[n] \in Int
  OBVIOUS
<1>1. PercentDecode(t) = d[N].res
  BY DEF PercentDecode
<1> HIDE DEF N
<1>2. Iterative(N, Decoders, Between(<<>>), step)
  <2>1. \A x \in Decoders, n \in 1..N : DecodeStep(x, t[n]) \in Decoders
    BY <1>0, DecodeStepWritten
  <2>2. step \in [Decoders -> [1..N -> Decoders]]
    BY <2>1
  <2>3. Between(<<>>) \in Decoders
    BY DEF Between, Decoders
  <2> HIDE DEF step
  <2> QED
    BY <1>0, <2>2, <2>3 DEF Iterative
<1>3. PICK f \in [0..N -> Decoders] :
        f = [n \in 0..N |-> IF n = 0 THEN Between(<<>>) ELSE step[f[n - 1]][n]]
  <2> HIDE DEF step
  <2> QED
    BY <1>2, Iteration
<1>4. Equation(f)
  <2>1. ASSUME NEW n \in 0..N, n # 0 PROVE step[f[n - 1]][n] = DecodeStep(f[n - 1], t[n])
    <3>1. n - 1 \in 0..N /\ n \in 1..N
      BY <1>0, <2>1
    <3> QED
      BY <3>1
  <2> QED
    BY <1>3, <2>1 DEF Between
<1>5. Equation(d)
  BY <1>4
<1> HIDE DEF d
<1>6. d[0] = Between(<<>>)
  BY <1>0, <1>5 DEF Between
<1>7. \A n \in 1..N : d[n] = DecodeStep(d[n - 1], t[n])
  BY <1>0, <1>5
<1> QED
  BY <1>1, <1>6, <1>7 DEF N


\* percent_decode undoes percent_encode, which leaves no character that it escapes.
LEMMA PercentUndone ==
  ASSUME NEW s \in Seq(0..255)
  PROVE  /\ PercentDecode(PercentEncode(s)) = s
         /\ \A i \in DOMAIN PercentEncode(s) : PercentEncode(s)[i] \in PercentUnreserved \cup {Percent}
<1> DEFINE N == Len(s)
           seqs == [i \in DOMAIN s |-> CharEncoded(s[i])]
           t == PercentEncode(s)
           Clean == PercentUnreserved \cup {Percent}
<1>0. N \in Nat /\ DOMAIN s = 1..N /\ \A i \in 1..N : s[i] \in 0..255
  <2> DEFINE Byte == 0..255
  <2>1. s \in Seq(Byte)
    OBVIOUS
  <2> HIDE DEF Byte
  <2>2. N \in Nat /\ DOMAIN s = 1..N /\ \A i \in 1..N : s[i] \in Byte
    BY <2>1, Characters
  <2> QED
    BY <2>2 DEF Byte
<1>1. t = FlattenSeq(seqs)
  BY DEF PercentEncode, CharEncoded
<1> HIDE DEF N, t
<1>2. ASSUME NEW c \in 0..255
      PROVE  /\ CharEncoded(c) \in Seq(Int)
             /\ \A j \in 1..Len(CharEncoded(c)) : CharEncoded(c)[j] \in Clean
  <2>1. <<>> \in Seq(Int)
    OBVIOUS
  <2>2. CASE c \in PercentUnreserved /\ CharEncoded(c) = <<c>>
    BY <2>2
  <2>3. ASSUME NEW h \in PercentUnreserved, NEW l \in PercentUnreserved,
               CharEncoded(c) = <<Percent, h, l>>
        PROVE  /\ CharEncoded(c) \in Seq(Int)
               /\ \A j \in 1..Len(CharEncoded(c)) : CharEncoded(c)[j] \in Clean
    <3>1. Percent \in Int /\ h \in Int /\ l \in Int
      BY DEF Percent, PercentUnreserved, Digits
    <3> QED
      BY <2>3, <3>1
  <2> QED
    BY <2>1, <2>2, <2>3, CharDecoded
<1>3. seqs \in Seq(Seq(Int)) /\ Len(seqs) = N /\ \A i \in 1..N : seqs[i] = CharEncoded(s[i])
  <2> DEFINE T == Seq(Int)
  <2>1. seqs \in [1..N -> T]
    <3>1. \A i \in 1..N : CharEncoded(s[i]) \in T
      BY <1>0, <1>2
    <3> HIDE DEF T
    <3> QED
      BY <1>0, <3>1
  <2>2. \A i \in 1..N : seqs[i] = CharEncoded(s[i])
    BY <1>0
  <2> HIDE DEF seqs, T
  <2>3. seqs \in Seq(T) /\ Len(seqs) = N
    BY <1>0, <2>1, FunctionIsSequence
  <2> QED
    BY <2>2, <2>3 DEF T
<1> HIDE DEF seqs
<1>4. PICK f : Flattened(seqs, f) /\ t = f[N]
  BY <1>1, <1>3, Pieces
<1>5. /\ f[0] = <<>> /\ \A n \in 0..N : f[n] \in Seq(Int)
      /\ \A n \in 1..N : f[n] = f[n - 1] \o seqs[n]
  BY <1>3, <1>4 DEF Flattened
<1>6. t \in Seq(Int)
  BY <1>0, <1>4, <1>5
<1>7. PICK d : /\ d[0] = Between(<<>>)
               /\ \A n \in 1..Len(t) : d[n] = DecodeStep(d[n - 1], t[n])
               /\ PercentDecode(t) = d[Len(t)].res
  BY <1>6, DecodesStepwise
<1> DEFINE read(n) == SubSeq(s, 1, n)
           Good == {n \in 0..N : /\ d[Len(f[n])] = Between(read(n))
                                 /\ \A i \in 1..Len(f[n]) : f[n][i] \in Clean}
<1>8. 0 \in Good
  <2>1. read(0) = <<>> /\ Len(<<>>) = 0
    BY SubSeqEmpty
  <2>2. Len(f[0]) = 0 /\ 0 \in 0..N
    BY <1>0, <1>5, <2>1
  <2> HIDE DEF read
  <2>3. d[Len(f[0])] = Between(read(0))
    BY <1>7, <2>1, <2>2
  <2> QED
    BY <2>2, <2>3
<1>9. ASSUME NEW n \in 0..N - 1, n \in Good PROVE n + 1 \in Good
  <2> DEFINE x == f[n]
             y == f[n + 1]
             c == s[n + 1]
             e == CharEncoded(c)
             L == Len(x)
             res == read(n)
  <2>1. n \in 0..N /\ n + 1 \in 1..N /\ n + 1 \in 0..N /\ (n + 1) - 1 = n
    BY <1>0
  <2>2. c \in 0..255
    BY <1>0, <2>1
  <2> HIDE DEF c
  <2>3. x \in Seq(Int) /\ e \in Seq(Int) /\ y = x \o e
    BY <1>2, <1>3, <1>5, <2>1, <2>2 DEF c
  <2>4. \A j \in 1..Len(e) : e[j] \in Clean
    BY <1>2, <2>2
  <2>5. d[L] = Between(res) /\ \A i \in 1..L : x[i] \in Clean
    BY <1>9
  <2>6. Len(y) <= Len(t) /\ \A i \in 1..Len(y) : t[i] = y[i]
    <3>1. n + 1 \in 0..Len(seqs) /\ Len(seqs) = N
      BY <1>3, <2>1
    <3>2. /\ Len(f[n + 1]) <= Len(f[Len(seqs)])
          /\ \A i \in 1..Len(f[n + 1]) : f[Len(seqs)][i] = f[n + 1][i]
      BY <1>4, <3>1, PiecesInPlace
    <3> QED
      BY <1>4, <3>1, <3>2
  <2>7. res \in Seq(Int) /\ read(n + 1) = Append(res, c)
    <3>1. s \in Seq(0..255) /\ n \in 0..Len(s) - 1
      BY DEF N
    <3>2. read(n + 1) = Append(res, c)
      BY <3>1, PrefixGrows DEF c
    <3>3. \A i \in 1..n : s[i] \in Int
      <4> SUFFICES ASSUME NEW i \in 1..n PROVE s[i] \in Int
        OBVIOUS
      <4>1. i \in 1..N
        BY <1>0, <2>1
      <4> DEFINE c0 == s[i]
      <4>2. c0 \in 0..255
        BY <1>0, <4>1
      <4> HIDE DEF c0
      <4>3. c0 \in Int
        BY <4>2
      <4> QED
        BY <4>3 DEF c0
    <3>4. n \in Int /\ 1 \in Int
      BY <2>1
    <3>5. res \in Seq(Int)
      BY <3>3, <3>4, SubSeqProperties
    <3> QED
      BY <3>2, <3>5
  <2> HIDE DEF x, y, e, res, read
  <2>8. /\ Len(y) = L + Len(e) /\ L \in Nat /\ Len(e) \in Nat
        /\ \A i \in 1..L + Len(e) : y[i] = IF i <= L THEN x[i] ELSE e[i - L]
    BY <2>3, ConcatProperties
  <2> HIDE DEF L
  <2>9. \A j \in 1..Len(e) : y[L + j] = e[j] /\ t[L + j] = e[j] /\ L + j \in 1..Len(t)
    <3> SUFFICES ASSUME NEW j \in 1..Len(e)
                 PROVE  y[L + j] = e[j] /\ t[L + j] = e[j] /\ L + j \in 1..Len(t)
      OBVIOUS
    <3>1. L + j \in 1..L + Len(e) /\ ~(L + j <= L) /\ (L + j) - L = j
      BY <2>8
    <3>2. y[L + j] = e[j]
      BY <2>8, <3>1
    <3>3. Len(t) \in Nat /\ L + j \in 1..Len(y) /\ L + j \in 1..Len(t)
      BY <1>6, <2>6, <2>8, <3>1
    <3> QED
      BY <2>6, <3>2, <3>3
  <2>10. \A j \in 1..Len(e) : d[L + j] = DecodeStep(d[(L + j) - 1], e[j])
    <3> SUFFICES ASSUME NEW j \in 1..Len(e) PROVE d[L + j] = DecodeStep(d[(L + j) - 1], e[j])
      OBVIOUS
    <3> DEFINE k == L + j
    <3>1. k \in 1..Len(t) /\ t[k] = e[j]
      BY <2>9
    <3> HIDE DEF k
    <3>2. d[k] = DecodeStep(d[k - 1], e[j])
      BY <1>7, <3>1
    <3> QED
      BY <3>2 DEF k
  <2>11. d[L + Len(e)] = Between(Append(res, c))
    <3>1. CASE e = <<c>> /\ DecodeStep(Between(res), c) = Between(Append(res, c))
      <4>1. Len(e) = 1 /\ e[1] = c /\ (L + 1) - 1 = L
        BY <2>8, <3>1
      <4>2. d[L + 1] = DecodeStep(d[L], c)
        BY <2>8, <2>10, <4>1
      <4> QED
        BY <2>5, <3>1, <4>1, <4>2
    <3>2. ASSUME NEW h, NEW l, e = <<Percent, h, l>>,
                 DecodeStep(DecodeStep(DecodeStep(Between(res), Percent), h), l)
                   = Between(Append(res, c))
          PROVE  d[L + Len(e)] = Between(Append(res, c))
      <4>1. Len(e) = 3 /\ e[1] = Percent /\ e[2] = h /\ e[3] = l
        BY <3>2
      <4>2. 1 \in 1..Len(e) /\ 2 \in 1..Len(e) /\ 3 \in 1..Len(e)
            /\ (L + 1) - 1 = L /\ (L + 2) - 1 = L + 1 /\ (L + 3) - 1 = L + 2
        BY <2>8, <4>1
      <4>3. d[L + 1] = DecodeStep(d[L], Percent)
        BY <2>10, <4>1, <4>2
      <4>4. d[L + 2] = DecodeStep(d[L + 1], h)
        BY <2>10, <4>1, <4>2
      <4>5. d[L + 3] = DecodeStep(d[L + 2], l)
        BY <2>10, <4>1, <4>2
      <4> QED
        BY <2>5, <3>2, <4>1, <4>3, <4>4, <4>5
    <3>3. \/ e = <<c>> /\ DecodeStep(Between(res), c) = Between(Append(res, c))
          \/ \E h, l \in PercentUnreserved :
               /\ e = <<Percent, h, l>>
               /\ DecodeStep(DecodeStep(DecodeStep(Between(res), Percent), h), l)
                    = Between(Append(res, c))
      BY <2>2, <2>7, CharDecoded DEF e
    <3> QED
      BY <3>1, <3>2, <3>3
  <2>12. \A i \in 1..Len(y) : y[i] \in Clean
    <3> HIDE DEF Clean
    <3> SUFFICES ASSUME NEW i \in 1..Len(y) PROVE y[i] \in Clean
      OBVIOUS
    <3>1. CASE i <= L
      BY <2>5, <2>8, <3>1
    <3>2. CASE ~(i <= L)
      <4>1. i - L \in 1..Len(e) /\ i \in 1..L + Len(e)
        BY <2>8, <3>2
      <4> QED
        BY <2>4, <2>8, <3>2, <4>1
    <3> QED
      BY <3>1, <3>2
  <2> QED
    BY <2>1, <2>7, <2>8, <2>11, <2>12 DEF y
<1> HIDE DEF Good
<1>10. \A n \in 0..N : n \in Good
  BY <1>0, <1>8, <1>9, Induction
<1>11. N \in Good
  BY <1>0, <1>10
<1>12. read(N) = s
  BY SubSeqFull DEF N
<1>13. d[Len(t)] = Between(s) /\ \A i \in 1..Len(t) : t[i] \in Clean
  BY <1>4, <1>11, <1>12 DEF Good
<1>14. PercentDecode(t) = s
  BY <1>7, <1>13 DEF Between
<1>15. DOMAIN t = 1..Len(t)
  BY <1>6
<1> QED
  BY <1>13, <1>14, <1>15 DEF t

(* split_string and join. *)

\* Induction from the end of a string to its start.
LEMMA Backwards ==
  ASSUME NEW N \in Nat, NEW Good, N + 1 \in Good,
         \A it \in 1..N : it + 1 \in Good => it \in Good
  PROVE  \A it \in 1..N + 1 : it \in Good
<1> DEFINE Passed == {k \in 0..N : (N + 1) - k \in Good}
<1>1. 0 \in Passed
  OBVIOUS
<1>2. ASSUME NEW k \in 0..N - 1, k \in Passed PROVE k + 1 \in Passed
  <2>1. (N + 1) - (k + 1) \in 1..N /\ ((N + 1) - (k + 1)) + 1 = (N + 1) - k /\ k + 1 \in 0..N
    OBVIOUS
  <2> QED
    BY <1>2, <2>1
<1> HIDE DEF Passed
<1>3. \A k \in 0..N : k \in Passed
  BY <1>1, <1>2, Induction
<1> SUFFICES ASSUME NEW it \in 1..N + 1 PROVE it \in Good
  OBVIOUS
<1>4. (N + 1) - it \in 0..N /\ (N + 1) - ((N + 1) - it) = it
  OBVIOUS
<1>5. (N + 1) - it \in Passed
  BY <1>3, <1>4
<1> QED
  BY <1>4, <1>5 DEF Passed

\* The smallest of some numbers.
LEMMA Smallest ==
  ASSUME NEW S, S \subseteq Nat, S # {}
  PROVE  Min(S) \in S /\ \A x \in S : Min(S) <= x
<1>1. \E x \in S : \A y \in S : x <= y
  BY LeastElement
<1> QED
  BY <1>1 DEF Min

\* Where the first character of a set is.
First(s, from, D, e) ==
  /\ e \in from..Len(s) + 1 /\ \A i \in from..e - 1 : s[i] \notin D
  /\ e <= Len(s) => s[e] \in D

\* There is only one such place.
LEMMA FirstIsUnique ==
  ASSUME NEW s \in Seq(Int), NEW from \in 1..Len(s) + 1, NEW D, NEW e, NEW g,
         First(s, from, D, e), First(s, from, D, g)
  PROVE  e = g
<1>0. Len(s) \in Nat
  OBVIOUS
<1>1. e \in from..Len(s) + 1 /\ g \in from..Len(s) + 1
  BY DEF First
<1>2. ~(e < g)
  <2> SUFFICES ASSUME e < g PROVE FALSE
    OBVIOUS
  <2>1. e \in from..g - 1 /\ e <= Len(s)
    BY <1>0, <1>1
  <2> QED
    BY <2>1 DEF First
<1>3. ~(g < e)
  <2> SUFFICES ASSUME g < e PROVE FALSE
    OBVIOUS
  <2>1. g \in from..e - 1 /\ g <= Len(s)
    BY <1>0, <1>1
  <2> QED
    BY <2>1 DEF First
<1> QED
  BY <1>0, <1>1, <1>2, <1>3

\* find_first_of finds it.
LEMMA FindsFirst ==
  ASSUME NEW s \in Seq(Int), NEW from \in 1..Len(s) + 1, NEW D
  PROVE  First(s, from, D, FindFirstOf(s, from, D))
<1> DEFINE S == {i \in from..Len(s) : s[i] \in D} \cup {Len(s) + 1}
           e == FindFirstOf(s, from, D)
<1>0. Len(s) \in Nat
  OBVIOUS
<1>1. S \subseteq Nat /\ S # {} /\ S \subseteq from..Len(s) + 1
  BY <1>0
<1>2. e = Min(S)
  BY DEF FindFirstOf
<1>3. \A i \in from..Len(s) : s[i] \in D => i \in S
  OBVIOUS
<1>4. \A i \in S : i <= Len(s) => s[i] \in D
  BY <1>0
<1> HIDE DEF S, e
<1>5. e \in S /\ \A x \in S : e <= x
  BY <1>1, <1>2, Smallest
<1>6. ASSUME NEW i \in from..e - 1 PROVE s[i] \notin D
  <2>1. i \in from..Len(s) /\ ~(e <= i)
    BY <1>0, <1>1, <1>5
  <2> QED
    BY <1>3, <1>5, <2>1
<1> QED
  BY <1>1, <1>4, <1>5, <1>6 DEF First, e

\* The fragments from a position on.
Fragment(s, it_prev, it_cur) ==
  IF it_prev # it_cur THEN <<SubSeq(s, it_prev, it_cur - 1)>> ELSE <<>>
Unsplit(s, d, f, it) ==
  LET cur == FindFirstOf(s, it, {d})
  IN  f[it] = IF cur > Len(s) THEN Fragment(s, it, cur) ELSE Fragment(s, it, cur) \o f[cur + 1]

\* A part of a string is a string.
LEMMA PartIsString ==
  ASSUME NEW s \in Seq(Int), NEW a \in 1..Len(s) + 1, NEW b \in 0..Len(s)
  PROVE  /\ SubSeq(s, a, b) \in Seq(Int) /\ Len(SubSeq(s, a, b)) = IF a <= b THEN (b - a) + 1 ELSE 0
         /\ \A i \in 1..(b - a) + 1 : SubSeq(s, a, b)[i] = s[(a + i) - 1]
<1>1. Len(s) \in Nat /\ \A i \in 1..Len(s) : s[i] \in Int
  BY Characters
<1>2. a \in Int /\ b \in Int /\ \A i \in a..b : s[i] \in Int
  BY <1>1
<1> HIDE <1>1
<1>3. /\ SubSeq(s, a, b) \in Seq(Int)
      /\ Len(SubSeq(s, a, b)) = IF a <= b THEN b - a + 1 ELSE 0
      /\ \A i \in 1 .. b - a + 1 : SubSeq(s, a, b)[i] = s[a + i - 1]
  BY <1>2, SubSeqProperties
<1>4. b - a + 1 = (b - a) + 1 /\ \A i \in Int : a + i - 1 = (a + i) - 1
  BY <1>2
<1> QED
  BY <1>2, <1>3, <1>4

\* split_string computes the fragments from right to left.
LEMMA SplitUnfolds ==
  ASSUME NEW s \in Seq(Int), NEW d \in Int
  PROVE  \E f \in [1..Len(s) + 1 -> Seq(Seq(Int))] :
           /\ SplitString(s, {d}) = f[1]
           /\ \A it \in 1..Len(s) + 1 : Unsplit(s, d, f, it)
<1> DEFINE N == Len(s)
           D == 1..N + 1
           T == Seq(Seq(Int))
           m == [it \in D |-> (N + 1) - it]
           Next1(it, f) == LET cur == FindFirstOf(s, it, {d})
                           IN  IF cur > N THEN Fragment(s, it, cur) ELSE Fragment(s, it, cur) \o f[cur + 1]
           G == [it \in D |-> [f \in [D -> T] |-> Next1(it, f)]]
           Equation(f) == f = [it \in D |-> Next1(it, f)]
           frag == CHOOSE f : Equation(f)
<1>0. N \in Nat
  OBVIOUS
<1>1. SplitString(s, {d}) = frag[1]
  BY DEF SplitString, Fragment
<1>2. ASSUME NEW it \in D
      PROVE  /\ FindFirstOf(s, it, {d}) \in it..N + 1 
             /\ Fragment(s, it, FindFirstOf(s, it, {d})) \in T
  <2> DEFINE cur == FindFirstOf(s, it, {d})
  <2>1. cur \in it..N + 1
    BY FindsFirst DEF First
  <2> HIDE DEF cur
  <2>2. SubSeq(s, it, cur - 1) \in Seq(Int)
    BY <1>0, <2>1, PartIsString
  <2>3. Fragment(s, it, cur) \in T
    <3> DEFINE p == SubSeq(s, it, cur - 1)
               U == Seq(Int)
    <3>1. p \in U
      BY <2>2
    <3> HIDE DEF p, U
    <3>2. <<p>> \in Seq(U) /\ <<>> \in Seq(U)
      BY <3>1
    <3> QED
      BY <3>2 DEF Fragment, p, U
  <2> QED
    BY <2>1, <2>3 DEF cur
<1> HIDE DEF T
<1>3. ASSUME NEW it \in D, NEW f \in [D -> T] PROVE Next1(it, f) \in T
  <2> DEFINE cur == FindFirstOf(s, it, {d})
             p == Fragment(s, it, cur)
  <2>1. cur \in it..N + 1 /\ p \in T
    BY <1>2
  <2>2. Next1(it, f) = IF cur > N THEN p ELSE p \o f[cur + 1]
    OBVIOUS
  <2> HIDE DEF p, cur, Next1
  <2>3. CASE cur > N
    BY <2>1, <2>2, <2>3
  <2>4. CASE ~(cur > N)
    <3>1. cur + 1 \in D
      BY <1>0, <2>1, <2>4
    <3>2. f[cur + 1] \in T
      BY <3>1
    <3> DEFINE q == f[cur + 1]
    <3> HIDE DEF q
    <3>3. p \o q \in T
      BY <2>1, <3>2, ConcatProperties DEF T, q
    <3> QED
      BY <2>2, <2>4, <3>3 DEF q
  <2> QED
    BY <2>3, <2>4
<1>4. G \in [D -> [[D -> T] -> T]]
  BY <1>3
<1>5. m \in [D -> 0..N] /\ T # {}
  BY <1>0, <1>2
<1>6. ASSUME NEW it \in D, NEW f \in [D -> T], NEW g \in [D -> T],
             \A y \in D : m[y] < m[it] => f[y] = g[y]
      PROVE  G[it][f] = G[it][g]
  <2> DEFINE cur == FindFirstOf(s, it, {d})
  <2>1. cur \in it..N + 1
    BY <1>2
  <2>2. cur <= N => f[cur + 1] = g[cur + 1]
    <3> HIDE DEF cur
    <3> SUFFICES ASSUME cur <= N PROVE f[cur + 1] = g[cur + 1]
      OBVIOUS
    <3>1. cur + 1 \in D /\ m[cur + 1] < m[it]
      BY <1>0, <2>1
    <3> QED
      BY <1>6, <3>1
  <2>3. cur \in Int /\ (cur > N \/ cur <= N)
    BY <1>0, <2>1
  <2>4. Next1(it, f) = Next1(it, g)
    BY <2>2, <2>3
  <2> HIDE DEF Next1
  <2> QED
    BY <2>4
<1>7. ByMeasure(D, T, N, m, G)
  <2> HIDE DEF D, m, G, N
  <2> QED
    BY <1>0, <1>4, <1>5, <1>6 DEF ByMeasure
<1>8. PICK f \in [D -> T] : \A it \in D : f[it] = G[it][f]
  <2> HIDE DEF D, m, G, N
  <2> QED
    BY <1>7, Recursion
<1>9. \A it \in D : f[it] = Next1(it, f)
  <2> HIDE DEF Next1
  <2> QED
    BY <1>8
<1> HIDE DEF Next1, G
<1>10. Equation(f)
  BY <1>9
<1>11. Equation(frag)
  BY <1>10
<1> HIDE DEF frag
<1>12. frag = [it \in D |-> Next1(it, frag)]
  BY <1>11
<1> DEFINE Good == {it \in D : frag[it] = f[it]}
<1>13. ASSUME NEW it \in D, \A y \in D : m[y] < m[it] => y \in Good PROVE it \in Good
  <2> DEFINE cur == FindFirstOf(s, it, {d})
  <2>1. cur \in it..N + 1
    BY <1>2
  <2>2. cur <= N => frag[cur + 1] = f[cur + 1]
    <3> HIDE DEF cur
    <3> SUFFICES ASSUME cur <= N PROVE frag[cur + 1] = f[cur + 1]
      OBVIOUS
    <3>1. cur + 1 \in D /\ m[cur + 1] < m[it]
      BY <1>0, <2>1
    <3> QED
      BY <1>13, <3>1
  <2>3. cur \in Int /\ (cur > N \/ cur <= N)
    BY <1>0, <2>1
  <2>4. Next1(it, frag) = Next1(it, f)
    BY <2>2, <2>3 DEF Next1
  <2>5. frag[it] = Next1(it, frag)
    BY <1>12
  <2> QED
    BY <1>9, <2>4, <2>5
<1>14. \A it \in D : it \in Good
  <2>1. m \in [D -> Nat]
    BY <1>5
  <2> HIDE DEF Good, m, D
  <2> QED
    BY <1>13, <2>1, MeasureInduction
<1>15. frag = f
  <2>1. \A it \in D : frag[it] = f[it]
    BY <1>14
  <2>2. DOMAIN frag = D
    BY <1>12
  <2>3. DOMAIN f = D /\ f = [it \in D |-> f[it]]
    OBVIOUS
  <2>4. frag = [it \in D |-> frag[it]]
    BY <1>12
  <2> QED
    BY <2>1, <2>3, <2>4
<1>16. \A it \in D : Unsplit(s, d, f, it)
  BY <1>9 DEF Unsplit, Next1
<1> QED
  BY <1>1, <1>15, <1>16 DEF T

\* What the next character does to the fragments of the rest: a delimiter is
\* dropped, the last character before one starts a fragment, any other goes in
\* front of the first fragment.
Drops(s, d, f, it) == s[it] = d /\ f[it] = f[it + 1]
Starts(s, d, f, it) ==
  /\ s[it] # d /\ (it = Len(s) \/ s[it + 1] = d)
  /\ f[it] = Cons(<<s[it]>>, f[it + 1])
Joins(s, d, f, it) ==
  /\ s[it] # d /\ it < Len(s) /\ s[it + 1] # d
  /\ \E p \in Seq(Int), r \in Seq(Seq(Int)) :
       p # <<>> /\ f[it + 1] = Cons(p, r) /\ f[it] = Cons(<<s[it]>> \o p, r)
SplitSteps(s, d, f) ==
  /\ s \in Seq(Int) /\ d \in Int /\ f \in [1..Len(s) + 1 -> Seq(Seq(Int))]
  /\ f[Len(s) + 1] = <<>>
  /\ \A it \in 1..Len(s) : Drops(s, d, f, it) \/ Starts(s, d, f, it) \/ Joins(s, d, f, it)

\* split_string, character by character.
LEMMA SplitStepwise ==
  ASSUME NEW s \in Seq(Int), NEW d \in Int
  PROVE  \E f : SplitSteps(s, d, f) /\ SplitString(s, {d}) = f[1]
<1> DEFINE N == Len(s)
           Cur(it) == FindFirstOf(s, it, {d})
<1>0. N \in Nat /\ \A i \in 1..N : s[i] \in Int
  BY Characters
<1>1. PICK f \in [1..N + 1 -> Seq(Seq(Int))] :
        SplitString(s, {d}) = f[1] /\ \A it \in 1..N + 1 : Unsplit(s, d, f, it)
  BY SplitUnfolds
<1>2. \A it \in 1..N + 1 : First(s, it, {d}, Cur(it))
  BY FindsFirst
<1> HIDE DEF N
<1>3. \A it \in 1..N + 1 : /\ Cur(it) \in it..N + 1 /\ \A i \in it..Cur(it) - 1 : s[i] # d
                           /\ Cur(it) <= N => s[Cur(it)] = d
  BY <1>2 DEF First, N
<1>4. \A it \in 1..N + 1 : f[it] = IF Cur(it) > N THEN Fragment(s, it, Cur(it))
                                   ELSE Fragment(s, it, Cur(it)) \o f[Cur(it) + 1]
  BY <1>1 DEF Unsplit, N
<1>5. f[N + 1] = <<>>
  <2> DEFINE cur == Cur(N + 1)
  <2>1. N + 1 \in 1..N + 1
    BY <1>0
  <2>2. cur \in N + 1..N + 1
    BY <1>3, <2>1
  <2>3. f[N + 1] = IF cur > N THEN Fragment(s, N + 1, cur) ELSE Fragment(s, N + 1, cur) \o f[cur + 1]
    BY <1>4, <2>1
  <2> HIDE DEF cur
  <2>4. cur = N + 1 /\ cur > N
    BY <1>0, <2>2
  <2> QED
    BY <2>3, <2>4 DEF Fragment
<1>6. ASSUME NEW it \in 1..N
      PROVE  Drops(s, d, f, it) \/ Starts(s, d, f, it) \/ Joins(s, d, f, it)
  <2> DEFINE cur == Cur(it)
             after == Cur(it + 1)
             rest == IF cur > N THEN <<>> ELSE f[cur + 1]
             c == s[it]
             T == Seq(Int)
  <2>1. it \in 1..N + 1 /\ it + 1 \in 1..N + 1
    BY <1>0
  <2>2. /\ cur \in it..N + 1 /\ \A i \in it..cur - 1 : s[i] # d
        /\ cur <= N => s[cur] = d
    BY <1>3, <2>1
  <2>3. /\ after \in it + 1..N + 1 /\ \A i \in it + 1..after - 1 : s[i] # d
        /\ after <= N => s[after] = d
    BY <1>3, <2>1
  <2>4. /\ f[it] = IF cur > N THEN Fragment(s, it, cur) ELSE Fragment(s, it, cur) \o f[cur + 1]
        /\ f[it + 1] = IF after > N THEN Fragment(s, it + 1, after)
                       ELSE Fragment(s, it + 1, after) \o f[after + 1]
    BY <1>4, <2>1
  <2>5. c \in Int
    BY <1>0
  <2> HIDE DEF cur, after
  <2>6. rest \in Seq(T)
    <3>1. CASE cur > N
      BY <3>1
    <3>2. CASE ~(cur > N)
      <4>1. cur + 1 \in 1..N + 1
        BY <1>0, <2>2, <3>2
      <4>2. f[cur + 1] \in Seq(T)
        BY <1>1, <4>1 DEF N
      <4> QED
        BY <3>2, <4>2
    <3> QED
      BY <3>1, <3>2
  <2>7. CASE c = d
    <3>1. cur = it /\ cur <= N
      BY <1>0, <2>2, <2>7
    <3>2. Fragment(s, it, cur) = <<>>
      BY <3>1 DEF Fragment
    <3>3. f[it] = <<>> \o f[it + 1]
      BY <1>0, <2>4, <3>1, <3>2
    <3>4. f[it + 1] \in Seq(T)
      BY <1>1, <2>1 DEF N
    <3>5. <<>> \o f[it + 1] = f[it + 1]
      <4> DEFINE q == f[it + 1]
      <4> HIDE DEF q, T
      <4>1. q \in Seq(T)
        BY <3>4 DEF q
      <4>2. <<>> \o q = q
        BY <4>1, ConcatEmptySeq
      <4> QED
        BY <4>2 DEF q
    <3> QED
      BY <2>7, <3>3, <3>5 DEF Drops
  <2>8. CASE c # d
    <3>1. cur \in it + 1..N + 1 /\ cur # it
      BY <1>0, <2>2, <2>8
    <3>2. cur = after
      <4>1. ~(cur < after)
        <5>1. cur < after => cur \in it + 1..after - 1 /\ cur <= N
          BY <1>0, <2>3, <3>1
        <5> QED
          BY <2>2, <2>3, <5>1
      <4>2. ~(after < cur)
        <5>1. after < cur => after \in it..cur - 1 /\ after <= N
          BY <1>0, <2>2, <2>3
        <5> QED
          BY <2>2, <2>3, <5>1
      <4> QED
        BY <2>2, <2>3, <4>1, <4>2
    <3> DEFINE whole == SubSeq(s, it, cur - 1)
               p == SubSeq(s, it + 1, cur - 1)
               first == <<c>>
    <3>3. whole = first \o p /\ p \in T /\ Len(p) = cur - (it + 1) /\ first \in T /\ whole \in T
      <4>1. it \in 1..Len(s) /\ cur - 1 \in it..Len(s) /\ it + 1 \in 1..Len(s) + 1 /\ cur - 1 \in 0..Len(s)
        BY <1>0, <3>1 DEF N
      <4>2. whole = first \o p
        BY <4>1, SubSeqRecursiveFirst
      <4>3. p \in Seq(Int) /\ Len(p) = IF it + 1 <= cur - 1 THEN ((cur - 1) - (it + 1)) + 1 ELSE 0
        BY <4>1, PartIsString
      <4>4. Len(p) = cur - (it + 1)
        BY <1>0, <3>1, <4>3
      <4>5. first \in T
        BY <2>5
      <4>6. whole \in T
        BY <4>1, PartIsString
      <4> QED
        BY <4>2, <4>3, <4>4, <4>5, <4>6
    <3> HIDE DEF whole, p, first, T
    <3>4. f[it] = <<whole>> \o rest
      <4>1. Fragment(s, it, cur) = <<whole>>
        BY <3>1 DEF Fragment, whole
      <4>2. <<whole>> \o <<>> = <<whole>>
        <5> DEFINE w == <<whole>>
        <5>1. w \in Seq(T)
          BY <3>3
        <5> HIDE DEF w
        <5>2. w \o <<>> = w
          BY <5>1, ConcatEmptySeq
        <5> QED
          BY <5>2 DEF w
      <4> QED
        BY <2>4, <4>1, <4>2
    <3>5. f[it + 1] = Fragment(s, it + 1, cur) \o rest
      <4>1. Fragment(s, it + 1, cur) \in Seq(T)
        BY <3>3 DEF Fragment, p
      <4> DEFINE w == Fragment(s, it + 1, cur)
      <4> HIDE DEF w
      <4>2. w \o <<>> = w
        BY <4>1, ConcatEmptySeq DEF w
      <4> QED
        BY <2>4, <3>2, <4>2 DEF w
    <3>6. CASE cur = it + 1
      <4>1. Len(p) = 0
        BY <2>2, <3>3, <3>6
      <4>2. p = <<>>
        BY <3>3, <4>1, EmptySeq DEF T
      <4>3. whole = first
        BY <3>3, <4>2, ConcatEmptySeq DEF T
      <4>4. f[it + 1] = rest
        <5>1. Fragment(s, it + 1, cur) = <<>>
          BY <3>6 DEF Fragment
        <5> HIDE DEF rest
        <5>2. <<>> \o rest = rest
          BY <2>6, ConcatEmptySeq
        <5> QED
          BY <3>5, <5>1, <5>2
      <4>5. it = N \/ s[it + 1] = d
        BY <1>0, <2>2, <3>6
      <4> QED
        BY <2>8, <3>4, <4>3, <4>4, <4>5 DEF Starts, N, first, Cons
    <3>7. CASE cur # it + 1
      <4>1. it < N /\ s[it + 1] # d
        <5>1. it + 1 \in it..cur - 1 /\ it < N
          BY <1>0, <3>1, <3>7
        <5> QED
          BY <2>2, <5>1
      <4>2. f[it + 1] = <<p>> \o rest
        BY <3>5, <3>7 DEF Fragment, p
      <4>3. Len(p) # 0
        BY <2>2, <3>3, <3>1, <3>7
      <4>4. p # <<>>
        BY <4>3
      <4> HIDE DEF rest
      <4>5. f[it] = << <<c>> \o p >> \o rest
        BY <3>3, <3>4 DEF first
      <4> QED
        BY <2>6, <2>8, <3>3, <4>1, <4>2, <4>4, <4>5 DEF Joins, N, T, Cons
    <3> QED
      BY <3>6, <3>7
  <2> QED
    BY <2>7, <2>8
<1>7. SplitSteps(s, d, f)
  BY <1>1, <1>5, <1>6 DEF SplitSteps, N
<1> QED
  BY <1>1, <1>7

\* Strings with one more in front of each.
Linked(r, link) == [i \in DOMAIN r |-> link \o r[i]]

\* The hypothesis about fragments and what links them.
Linkable(a, r, link) == a \in Seq(Int) /\ r \in Seq(Seq(Int)) /\ link \in Seq(Int)

\* What is linked are strings.
LEMMA LinkedStrings ==
  ASSUME NEW a, NEW r, NEW link, Linkable(a, r, link)
  PROVE  Linked(r, link) \in Seq(Seq(Int)) /\ Len(Linked(r, link)) = Len(r)
<1> DEFINE T == Seq(Int)
           N == Len(r)
           t == Linked(r, link)
<1>1. r \in Seq(T) /\ link \in T
  BY DEF Linkable
<1> HIDE DEF T
<1>2. N \in Nat /\ DOMAIN r = 1..N /\ \A i \in 1..N : r[i] \in T
  BY <1>1, Characters
<1> HIDE DEF N
<1>3. ASSUME NEW i \in 1..N PROVE link \o r[i] \in T
  <2> DEFINE b == r[i]
  <2>1. b \in T
    BY <1>2
  <2> HIDE DEF b
  <2>2. link \o b \in T
    BY <1>1, <2>1, ConcatProperties DEF T
  <2> QED
    BY <2>2 DEF b
<1>4. t \in [1..N -> T]
  BY <1>2, <1>3 DEF Linked
<1> HIDE DEF t
<1>5. t \in Seq(T) /\ Len(t) = N
  BY <1>2, <1>4, FunctionIsSequence
<1> QED
  BY <1>5 DEF t, T, N

\* The first fragment, and the others with links in front of them.
LEMMA JoinUnfolds ==
  ASSUME NEW a, NEW r, NEW link, Linkable(a, r, link)
  PROVE  /\ Join(Cons(a, r), link) = a \o FlattenSeq(Linked(r, link))
         /\ FlattenSeq(Linked(Cons(a, r), link)) = (link \o a) \o FlattenSeq(Linked(r, link))
         /\ FlattenSeq(Linked(r, link)) \in Seq(Int)
<1> DEFINE T == Seq(Int)
           N == Len(r)
           q == Cons(a, r)
           t == Linked(r, link)
           x == link \o a
           u == Cons(a, t)
           v == Cons(x, t)
           joined == [i \in DOMAIN q |-> IF i = 1 THEN q[i] ELSE link \o q[i]]
           linked == Linked(q, link)
<1>1. a \in T /\ r \in Seq(T) /\ link \in T
  BY DEF Linkable
<1>2. N \in Nat /\ DOMAIN r = 1..N
  BY <1>1, Characters
<1>3. q \in Seq(T) /\ Len(q) = N + 1 /\ q[1] = a /\ \A n \in 1..N : q[n + 1] = r[n]
  <2>1. Pieced(a, r)
    BY <1>1 DEF Pieced
  <2> QED
    BY <2>1, Consed
<1>4. t \in Seq(T) /\ Len(t) = N /\ \A n \in 1..N : t[n] = link \o r[n]
  <2>1. t \in Seq(T) /\ Len(t) = N
    BY LinkedStrings
  <2>2. \A n \in 1..N : t[n] = link \o r[n]
    BY <1>2 DEF Linked
  <2> QED
    BY <2>1, <2>2
<1>5. x \in T
  BY <1>1, ConcatProperties
<1> HIDE DEF t, x
<1>6. /\ u \in Seq(T) /\ Len(u) = N + 1 /\ u[1] = a /\ \A n \in 1..N : u[n + 1] = t[n]
      /\ FlattenSeq(u) = a \o FlattenSeq(t) /\ FlattenSeq(t) \in T
  <2>1. Pieced(a, t)
    BY <1>1, <1>4 DEF Pieced
  <2>2. Len(t) = N
    BY <1>4
  <2> HIDE DEF N
  <2> QED
    BY <2>1, <2>2, Consed, SMTT(30)
<1>7. /\ v \in Seq(T) /\ Len(v) = N + 1 /\ v[1] = x /\ \A n \in 1..N : v[n + 1] = t[n]
      /\ FlattenSeq(v) = x \o FlattenSeq(t)
  <2>1. Pieced(x, t)
    BY <1>5, <1>4 DEF Pieced
  <2>2. Len(t) = N
    BY <1>4
  <2> HIDE DEF N
  <2> QED
    BY <2>1, <2>2, Consed, SMTT(30)
<1> HIDE DEF q, u, v, T, N
<1>8. DOMAIN q = 1..N + 1 /\ DOMAIN u = 1..N + 1 /\ DOMAIN v = 1..N + 1
  BY <1>3, <1>6, <1>7, Characters
<1>9. ASSUME NEW i \in 1..N + 1, i # 1
      PROVE  u[i] = link \o q[i] /\ v[i] = link \o q[i]
  <2> DEFINE n == i - 1
  <2>1. n \in 1..N /\ i = n + 1
    BY <1>2, <1>9
  <2> HIDE DEF n
  <2>2. u[n + 1] = link \o r[n] /\ v[n + 1] = link \o r[n] /\ q[n + 1] = r[n]
    BY <1>3, <1>4, <1>6, <1>7, <2>1
  <2> QED
    BY <2>1, <2>2
<1>10. joined = u
  <2>1. \A i \in 1..N + 1 : joined[i] = u[i]
    BY <1>3, <1>6, <1>8, <1>9
  <2>2. DOMAIN joined = 1..N + 1 /\ joined = [i \in 1..N + 1 |-> joined[i]]
    BY <1>8
  <2>3. u = [i \in 1..N + 1 |-> u[i]]
    BY <1>6, <1>8
  <2> HIDE DEF joined
  <2> QED
    BY <2>1, <2>2, <2>3
<1>11. linked = v
  <2>1. \A i \in 1..N + 1 : linked[i] = v[i]
    BY <1>3, <1>7, <1>8, <1>9 DEF x, Linked
  <2>2. DOMAIN linked = 1..N + 1 /\ linked = [i \in 1..N + 1 |-> linked[i]]
    BY <1>8 DEF Linked
  <2>3. v = [i \in 1..N + 1 |-> v[i]]
    BY <1>7, <1>8
  <2> HIDE DEF linked
  <2> QED
    BY <2>1, <2>2, <2>3
<1>12. Join(q, link) = FlattenSeq(joined)
  BY DEF Join
<1> HIDE DEF joined, linked
<1>13. Join(q, link) = a \o FlattenSeq(t) /\ FlattenSeq(linked) = x \o FlattenSeq(t)
  BY <1>6, <1>7, <1>10, <1>11, <1>12
<1> QED
  BY <1>6, <1>13 DEF q, linked, t, x, T

\* A sequence that is not empty has a first member.
LEMMA FirstAndRest ==
  ASSUME NEW q \in Seq(Seq(Int)), q # <<>>
  PROVE  \E a \in Seq(Int), r \in Seq(Seq(Int)) : q = Cons(a, r)
<1> DEFINE T == Seq(Int)
           N == Len(q)
           r == SubSeq(q, 2, N)
<1>1. q \in Seq(T)
  OBVIOUS
<1> HIDE DEF T
<1>2. N \in Nat \ {0} /\ q[1] \in T
  BY <1>1, EmptySeq, ElementOfSeq
<1>3. q = Cons(q[1], r)
  <2>1. 1 \in 1..Len(q) /\ Len(q) \in 1..Len(q)
    BY <1>2
  <2>2. SubSeq(q, 1, Len(q)) = <<q[1]>> \o SubSeq(q, 1 + 1, Len(q))
    BY <1>1, <2>1, SubSeqRecursiveFirst
  <2>3. SubSeq(q, 1, Len(q)) = q
    BY <1>1, SubSeqFull
  <2> QED
    BY <2>2, <2>3 DEF Cons
<1>4. r \in Seq(T)
  <2>1. \A i \in 2..N : q[i] \in T
    BY <1>1, <1>2, ElementOfSeq
  <2>2. 2 \in Int /\ N \in Int
    BY <1>2
  <2> QED
    BY <2>1, <2>2, SubSeqProperties
<1> QED
  BY <1>2, <1>3, <1>4 DEF T

\* join, fragment by fragment.
LEMMA JoinOfMore ==
  ASSUME NEW a, NEW r, NEW link, Linkable(a, r, link)
  PROVE  /\ Join(Cons(a, r), link) \in Seq(Int)
         /\ r = <<>> => Join(Cons(a, r), link) = a
         /\ r # <<>> => Join(r, link) \in Seq(Int) /\ Join(Cons(a, r), link) = a \o (link \o Join(r, link))
<1> DEFINE rest == FlattenSeq(Linked(r, link))
           q == Cons(a, r)
<1>1. a \in Seq(Int) /\ r \in Seq(Seq(Int)) /\ link \in Seq(Int)
  BY DEF Linkable
<1>2. Join(q, link) = a \o rest /\ rest \in Seq(Int)
  BY JoinUnfolds
<1> HIDE DEF rest, q
<1>3. Join(q, link) \in Seq(Int)
  BY <1>1, <1>2, ConcatProperties
<1>4. ASSUME r = <<>> PROVE Join(q, link) = a
  <2>1. Len(Linked(r, link)) = 0
    <3>1. Len(r) = 0
      BY <1>4
    <3> QED
      BY <3>1, LinkedStrings
  <2>2. Linked(r, link) \in Seq(Seq(Int))
    BY LinkedStrings
  <2> DEFINE t == Linked(r, link)
  <2> HIDE DEF t
  <2>3. t = <<>>
    BY <2>1, <2>2, EmptySeq DEF t
  <2>4. rest = <<>>
    BY <2>3, FlattenedNothing DEF rest, t
  <2> QED
    BY <1>1, <1>2, <2>4, ConcatEmptySeq
<1>5. ASSUME r # <<>> PROVE Join(r, link) \in Seq(Int) /\ Join(q, link) = a \o (link \o Join(r, link))
  <2>1. PICK b \in Seq(Int), z \in Seq(Seq(Int)) : r = Cons(b, z)
    BY <1>1, <1>5, FirstAndRest
  <2> DEFINE w == FlattenSeq(Linked(z, link))
  <2>2. Linkable(b, z, link)
    BY <1>1, <2>1 DEF Linkable
  <2>3. Join(r, link) = b \o w /\ rest = (link \o b) \o w /\ w \in Seq(Int)
    <3>1. /\ Join(Cons(b, z), link) = b \o w
          /\ FlattenSeq(Linked(Cons(b, z), link)) = (link \o b) \o w
          /\ w \in Seq(Int)
      BY <2>2, JoinUnfolds
    <3> HIDE DEF w
    <3> QED
      BY <2>1, <3>1 DEF rest
  <2> HIDE DEF w
  <2>4. ThreeStrings(link, b, w)
    BY <1>1, <2>1, <2>3 DEF ThreeStrings
  <2>5. rest = link \o (b \o w)
    <3>1. (link \o b) \o w = link \o (b \o w)
      BY <2>4, ConcatOfThree
    <3> QED
      BY <2>3, <3>1
  <2>6. b \o w \in Seq(Int)
    BY <2>1, <2>3, ConcatProperties
  <2> QED
    BY <1>2, <2>3, <2>5, <2>6
<1> QED
  BY <1>3, <1>4, <1>5 DEF q

\* What is in front of the first fragment is in front of all.
LEMMA JoinInFront ==
  ASSUME NEW c \in Seq(Int), NEW a, NEW r, NEW link, Linkable(a, r, link)
  PROVE  Join(Cons(c \o a, r), link) = c \o Join(Cons(a, r), link)
<1> DEFINE rest == FlattenSeq(Linked(r, link))
           b == c \o a
<1>1. a \in Seq(Int) /\ r \in Seq(Seq(Int)) /\ link \in Seq(Int)
  BY DEF Linkable
<1>2. b \in Seq(Int)
  BY <1>1, ConcatProperties
<1> HIDE DEF b
<1>3. Linkable(b, r, link)
  BY <1>1, <1>2 DEF Linkable
<1>4. Join(Cons(b, r), link) = b \o rest
  BY <1>3, JoinUnfolds
<1>5. Join(Cons(a, r), link) = a \o rest /\ rest \in Seq(Int)
  BY JoinUnfolds
<1> HIDE DEF rest
<1>6. ThreeStrings(c, a, rest)
  BY <1>1, <1>5 DEF ThreeStrings
<1>7. (c \o a) \o rest = c \o (a \o rest)
  BY <1>6, ConcatOfThree
<1> QED
  BY <1>4, <1>5, <1>7 DEF b

\* What remains of a character.
Letter(s, d, it) == IF s[it] = d THEN <<>> ELSE <<s[it]>>

\* The fragments are strings.
LEMMA FragmentsAreStrings ==
  ASSUME NEW s, NEW d, NEW f, SplitSteps(s, d, f)
  PROVE  /\ Len(s) \in Nat /\ \A i \in 1..Len(s) : s[i] \in Int
         /\ \A it \in 1..Len(s) + 1 : /\ f[it] \in Seq(Seq(Int)) /\ Len(f[it]) \in Nat
                                      /\ FlattenSeq(f[it]) \in Seq(Int)
<1>1. s \in Seq(Int) /\ f \in [1..Len(s) + 1 -> Seq(Seq(Int))]
  BY DEF SplitSteps
<1>2. Len(s) \in Nat /\ \A i \in 1..Len(s) : s[i] \in Int
  BY <1>1, Characters
<1>3. ASSUME NEW it \in 1..Len(s) + 1
      PROVE  /\ f[it] \in Seq(Seq(Int)) /\ Len(f[it]) \in Nat
             /\ FlattenSeq(f[it]) \in Seq(Int)
  <2> DEFINE r == f[it]
             T == Seq(Int)
  <2>1. r \in Seq(T)
    BY <1>1
  <2>2. <<>> \in T
    OBVIOUS
  <2> HIDE DEF r, T
  <2>3. Len(r) \in Nat
    BY <2>1, Characters
  <2>4. Pieced(<<>>, r)
    BY <2>1, <2>2 DEF Pieced, T
  <2>5. FlattenSeq(r) \in Seq(Int)
    BY <2>4, Consed
  <2> QED
    BY <2>1, <2>3, <2>5 DEF r, T
<1> QED
  BY <1>2, <1>3

\* The next character in front of the first fragment, in one piece or as a new one.
LEMMA LetterInFront ==
  ASSUME NEW s, NEW d, NEW f, SplitSteps(s, d, f), NEW it \in 1..Len(s)
  PROVE  FlattenSeq(f[it]) = Letter(s, d, it) \o FlattenSeq(f[it + 1])
<1> DEFINE c == <<s[it]>>
           q == f[it + 1]
           rest == FlattenSeq(q)
<1>0. Drops(s, d, f, it) \/ Starts(s, d, f, it) \/ Joins(s, d, f, it)
  BY DEF SplitSteps
<1>1. q \in Seq(Seq(Int)) /\ rest \in Seq(Int) /\ c \in Seq(Int)
  <2>1. it + 1 \in 1..Len(s) + 1 /\ s[it] \in Int
    BY FragmentsAreStrings
  <2>2. c \in Seq(Int)
    BY <2>1
  <2> HIDE DEF c
  <2> QED
    BY <2>1, <2>2, FragmentsAreStrings
<1>2. CASE Drops(s, d, f, it)
  <2>1. f[it] = q /\ Letter(s, d, it) = <<>>
    BY <1>2 DEF Drops, Letter
  <2> HIDE DEF q, rest
  <2>2. <<>> \o rest = rest
    BY <1>1, ConcatEmptySeq
  <2> QED
    BY <2>1, <2>2 DEF q, rest
<1>3. CASE Starts(s, d, f, it)
  <2>1. f[it] = Cons(c, q) /\ Letter(s, d, it) = c
    BY <1>3 DEF Starts, Letter
  <2> HIDE DEF c, q, rest
  <2>2. Pieced(c, q)
    BY <1>1 DEF Pieced
  <2>3. FlattenSeq(Cons(c, q)) = c \o FlattenSeq(q)
    BY <2>2, Consed
  <2> QED
    BY <2>1, <2>3 DEF q, rest
<1>4. CASE Joins(s, d, f, it)
  <2>1. PICK p \in Seq(Int), r \in Seq(Seq(Int)) : q = Cons(p, r) /\ f[it] = Cons(c \o p, r)
    BY <1>4 DEF Joins
  <2>2. Letter(s, d, it) = c
    BY <1>4 DEF Joins, Letter
  <2> HIDE DEF c, q, rest
  <2> DEFINE x == c \o p
             w == FlattenSeq(r)
  <2>3. x \in Seq(Int)
    BY <1>1, ConcatProperties
  <2> HIDE DEF x
  <2>4. Pieced(p, r) /\ Pieced(x, r)
    BY <2>3 DEF Pieced
  <2>5. FlattenSeq(Cons(p, r)) = p \o w /\ FlattenSeq(Cons(x, r)) = x \o w /\ w \in Seq(Int)
    BY <2>4, Consed
  <2> HIDE DEF w
  <2>6. ThreeStrings(c, p, w)
    BY <1>1, <2>5 DEF ThreeStrings
  <2>7. (c \o p) \o w = c \o (p \o w)
    BY <2>6, ConcatOfThree
  <2> QED
    BY <2>1, <2>2, <2>5, <2>7 DEF x, q, rest
<1> QED
  BY <1>0, <1>2, <1>3, <1>4

\* The fragments are what remains of all characters.
LEMMA FragmentsKeepLetters ==
  ASSUME NEW s, NEW d, NEW f, SplitSteps(s, d, f)
  PROVE  FlattenSeq(f[1]) = FlattenSeq([i \in DOMAIN s |-> IF s[i] = d THEN <<>> ELSE <<s[i]>>])
<1> DEFINE N == Len(s)
           seqs == [i \in DOMAIN s |-> IF s[i] = d THEN <<>> ELSE <<s[i]>>]
           rest(it) == FlattenSeq(f[it])
<1>0. N \in Nat /\ \A i \in 1..N : s[i] \in Int
  BY FragmentsAreStrings
<1>1. \A it \in 1..N + 1 : rest(it) \in Seq(Int)
  BY FragmentsAreStrings
<1>2. \A it \in 1..N : rest(it) = Letter(s, d, it) \o rest(it + 1)
  BY LetterInFront
<1>3. DOMAIN s = 1..N /\ f[N + 1] = <<>>
  <2>1. s \in Seq(Int) /\ f[N + 1] = <<>>
    BY DEF SplitSteps
  <2> QED
    BY <2>1, Characters
<1>4. \A i \in 1..N : Letter(s, d, i) \in Seq(Int)
  <2> SUFFICES ASSUME NEW i \in 1..N PROVE Letter(s, d, i) \in Seq(Int)
    OBVIOUS
  <2> DEFINE c == s[i]
  <2>1. c \in Int
    BY <1>0
  <2> HIDE DEF c
  <2>2. <<c>> \in Seq(Int) /\ <<>> \in Seq(Int)
    BY <2>1
  <2> QED
    BY <2>2 DEF Letter, c
<1> HIDE DEF N
<1>5. seqs \in Seq(Seq(Int)) /\ Len(seqs) = N /\ \A i \in 1..N : seqs[i] = Letter(s, d, i)
  <2>1. \A i \in 1..N : seqs[i] = Letter(s, d, i)
    BY <1>3 DEF Letter
  <2> DEFINE T == Seq(Int)
  <2>2. \A i \in 1..N : Letter(s, d, i) \in T
    BY <1>4
  <2>3. seqs = [i \in 1..N |-> Letter(s, d, i)]
    BY <1>3 DEF Letter
  <2> HIDE DEF seqs, T
  <2>4. seqs \in [1..N -> T]
    BY <2>2, <2>3
  <2>5. seqs \in Seq(T) /\ Len(seqs) = N
    BY <1>0, <2>4, FunctionIsSequence
  <2> QED
    BY <2>1, <2>5 DEF T
<1> HIDE DEF seqs
<1>6. PICK g : Flattened(seqs, g) /\ FlattenSeq(seqs) = g[N]
  BY <1>5, Pieces
<1>7. /\ g[0] = <<>> /\ \A n \in 0..N : g[n] \in Seq(Int)
      /\ \A n \in 1..N : g[n] = g[n - 1] \o Letter(s, d, n)
  <2>1. g[0] = <<>> /\ \A n \in 0..N : g[n] \in Seq(Int)
    BY <1>5, <1>6 DEF Flattened
  <2>2. \A n \in 1..N : g[n] = g[n - 1] \o seqs[n]
    BY <1>5, <1>6 DEF Flattened
  <2> QED
    BY <1>5, <2>1, <2>2
<1> HIDE DEF rest
<1> DEFINE Good == {it \in 1..N + 1 : g[it - 1] \o rest(it) = g[N]}
<1>8. N + 1 \in Good
  <2>1. rest(N + 1) = <<>>
    BY <1>3, FlattenedNothing DEF rest
  <2> DEFINE x == g[N]
  <2>2. x \in Seq(Int) /\ (N + 1) - 1 = N /\ N + 1 \in 1..N + 1
    BY <1>0, <1>7
  <2> HIDE DEF x
  <2>3. x \o <<>> = x
    BY <2>2, ConcatEmptySeq
  <2> QED
    BY <2>1, <2>2, <2>3 DEF x
<1>9. ASSUME NEW it \in 1..N, it + 1 \in Good PROVE it \in Good
  <2> DEFINE x == g[it - 1]
             l == Letter(s, d, it)
             w == rest(it + 1)
  <2>1. it - 1 \in 0..N /\ it + 1 \in 1..N + 1 /\ (it + 1) - 1 = it /\ it \in 1..N + 1
    BY <1>0
  <2>2. x \in Seq(Int) /\ l \in Seq(Int) /\ w \in Seq(Int)
    BY <1>1, <1>4, <1>7, <2>1
  <2>3. g[it] = x \o l /\ rest(it) = l \o w /\ g[it] \o w = g[N]
    BY <1>2, <1>7, <1>9, <2>1
  <2> HIDE DEF x, l, w
  <2>4. ThreeStrings(x, l, w)
    BY <2>2 DEF ThreeStrings
  <2>5. (x \o l) \o w = x \o (l \o w)
    BY <2>4, ConcatOfThree
  <2> QED
    BY <2>1, <2>3, <2>5 DEF x
<1> HIDE DEF Good
<1>10. \A it \in 1..N + 1 : it \in Good
  BY <1>0, <1>8, <1>9, Backwards
<1>11. 1 \in Good /\ 1 \in 1..N + 1
  BY <1>0, <1>10
<1>12. <<>> \o rest(1) = rest(1)
  <2> DEFINE w == rest(1)
  <2>1. w \in Seq(Int)
    BY <1>1, <1>11
  <2> HIDE DEF w
  <2>2. <<>> \o w = w
    BY <2>1, ConcatEmptySeq
  <2> QED
    BY <2>2 DEF w
<1>13. rest(1) = g[N]
  <2>1. g[1 - 1] = <<>>
    BY <1>7
  <2>2. g[1 - 1] \o rest(1) = g[N]
    BY <1>11 DEF Good
  <2> QED
    BY <1>12, <2>1, <2>2
<1> QED
  BY <1>6, <1>13 DEF rest, seqs

\* No fragment is empty.
LEMMA FragmentsAreFull ==
  ASSUME NEW s, NEW d, NEW f, SplitSteps(s, d, f)
  PROVE  \A n \in DOMAIN f[1] : f[1][n] # <<>>
<1> DEFINE N == Len(s)
           Full(q) == \A n \in 1..Len(q) : q[n] # <<>>
           Good == {it \in 1..N + 1 : Full(f[it])}
<1>0. N \in Nat /\ \A i \in 1..N : s[i] \in Int
  BY FragmentsAreStrings
<1>1. N + 1 \in Good
  <2>1. f[N + 1] = <<>> /\ N + 1 \in 1..N + 1
    BY <1>0 DEF SplitSteps
  <2>2. Len(<<>>) = 0
    OBVIOUS
  <2> QED
    BY <2>1, <2>2
<1>2. ASSUME NEW a, NEW r, Pieced(a, r), a # <<>>, Full(r) PROVE Full(Cons(a, r))
  <2> DEFINE q == Cons(a, r)
             K == Len(r)
  <2>1. Len(q) = K + 1 /\ q[1] = a /\ \A n \in 1..K : q[n + 1] = r[n]
    BY <1>2, Consed
  <2>2. K \in Nat
    BY <1>2 DEF Pieced
  <2> HIDE DEF q
  <2>3. ASSUME NEW n \in 1..Len(q) PROVE q[n] # <<>>
    <3> DEFINE k == n - 1
    <3>1. CASE n = 1
      BY <1>2, <2>1, <3>1
    <3>2. CASE n # 1
      <4>1. k \in 1..K /\ n = k + 1
        BY <2>1, <2>2, <3>2
      <4> HIDE DEF k
      <4>2. q[n] = r[k]
        BY <2>1, <4>1
      <4> QED
        BY <1>2, <4>1, <4>2
    <3> QED
      BY <3>1, <3>2
  <2> QED
    BY <2>3 DEF q
<1>3. ASSUME NEW a, NEW r, Pieced(a, r), Full(Cons(a, r)) PROVE Full(r)
  <2> DEFINE q == Cons(a, r)
             K == Len(r)
  <2>1. Len(q) = K + 1 /\ q[1] = a /\ \A n \in 1..K : q[n + 1] = r[n]
    BY <1>3, Consed
  <2>2. K \in Nat
    BY <1>3 DEF Pieced
  <2> HIDE DEF q
  <2>3. ASSUME NEW n \in 1..K PROVE r[n] # <<>>
    <3>1. n + 1 \in 1..Len(q) /\ q[n + 1] = r[n]
      BY <2>1, <2>2
    <3> QED
      BY <1>3, <3>1 DEF q
  <2> QED
    BY <2>3
<1>4. ASSUME NEW it \in 1..N, it + 1 \in Good PROVE it \in Good
  <2> DEFINE c == <<s[it]>>
             q == f[it + 1]
  <2>0. Drops(s, d, f, it) \/ Starts(s, d, f, it) \/ Joins(s, d, f, it)
    BY DEF SplitSteps
  <2>1. q \in Seq(Seq(Int)) /\ c \in Seq(Int) /\ c # <<>> /\ it \in 1..N + 1 /\ Full(q)
    <3>1. it + 1 \in 1..N + 1 /\ it \in 1..N + 1 /\ s[it] \in Int
      BY <1>0
    <3>2. c \in Seq(Int) /\ Len(c) = 1
      BY <3>1
    <3> HIDE DEF c
    <3>3. c # <<>>
      BY <3>2
    <3> QED
      BY <1>4, <3>1, <3>2, <3>3, FragmentsAreStrings
  <2> HIDE DEF Full
  <2>2. CASE Drops(s, d, f, it)
    BY <2>1, <2>2 DEF Drops
  <2>3. CASE Starts(s, d, f, it)
    <3>1. f[it] = Cons(c, q)
      BY <2>3 DEF Starts
    <3> HIDE DEF c, q
    <3>2. Pieced(c, q)
      BY <2>1 DEF Pieced
    <3>3. Full(Cons(c, q))
      BY <1>2, <2>1, <3>2
    <3> QED
      BY <2>1, <3>1, <3>3
  <2>4. CASE Joins(s, d, f, it)
    <3>1. PICK p \in Seq(Int), r \in Seq(Seq(Int)) : q = Cons(p, r) /\ f[it] = Cons(c \o p, r)
      BY <2>4 DEF Joins
    <3> HIDE DEF c, q
    <3> DEFINE x == c \o p
    <3>2. x \in Seq(Int) /\ x # <<>>
      BY <2>1, ConcatProperties, ConcatEqualIffEmpty
    <3> HIDE DEF x
    <3>3. Pieced(p, r) /\ Pieced(x, r)
      BY <3>2 DEF Pieced
    <3>4. Full(r)
      BY <1>3, <2>1, <3>1, <3>3
    <3>5. Full(Cons(x, r))
      BY <1>2, <3>2, <3>3, <3>4
    <3> QED
      BY <2>1, <3>1, <3>5 DEF x
  <2> QED
    BY <2>0, <2>2, <2>3, <2>4
<1> HIDE DEF Good
<1>5. \A it \in 1..N + 1 : it \in Good
  BY <1>0, <1>1, <1>4, Backwards
<1>6. 1 \in Good /\ 1 \in 1..N + 1
  BY <1>0, <1>5
<1>7. DOMAIN f[1] = 1..Len(f[1])
  <2> DEFINE q == f[1]
             T == Seq(Int)
  <2>1. q \in Seq(T)
    BY <1>6, FragmentsAreStrings
  <2> HIDE DEF q, T
  <2>2. DOMAIN q = 1..Len(q)
    BY <2>1, Characters
  <2> QED
    BY <2>2 DEF q
<1> QED
  BY <1>6, <1>7 DEF Good

\* The runs of other characters that start behind a position.
RunsAfter(s, d, it) == {i \in it + 1..Len(s) : s[i] # d /\ s[i - 1] = d}
\* Whether one starts here, when nothing is in front of it.
RunHere(s, d, it) == IF it <= Len(s) /\ s[it] # d THEN 1 ELSE 0

\* The number of fragments that a further character makes.
LEMMA FragmentsGrow ==
  ASSUME NEW s, NEW d, NEW f, SplitSteps(s, d, f), NEW it \in 1..Len(s)
  PROVE  /\ Drops(s, d, f, it) => Len(f[it]) = Len(f[it + 1])
         /\ Starts(s, d, f, it) => Len(f[it]) = Len(f[it + 1]) + 1
         /\ Joins(s, d, f, it) => Len(f[it]) = Len(f[it + 1]) /\ f[it + 1] # <<>>
<1> DEFINE c == <<s[it]>>
           q == f[it + 1]
<1>1. q \in Seq(Seq(Int)) /\ c \in Seq(Int)
  <2>1. it + 1 \in 1..Len(s) + 1 /\ s[it] \in Int
    BY FragmentsAreStrings
  <2>2. c \in Seq(Int)
    BY <2>1
  <2> HIDE DEF c
  <2> QED
    BY <2>1, <2>2, FragmentsAreStrings
<1>2. CASE Drops(s, d, f, it)
  BY <1>2 DEF Drops, Starts, Joins
<1>3. CASE Starts(s, d, f, it)
  <2>1. f[it] = Cons(c, q) /\ ~Drops(s, d, f, it) /\ ~Joins(s, d, f, it)
    BY <1>3 DEF Starts, Drops, Joins
  <2> HIDE DEF c, q
  <2>2. Pieced(c, q)
    BY <1>1 DEF Pieced
  <2>3. Len(Cons(c, q)) = Len(q) + 1
    BY <2>2, Consed
  <2> QED
    BY <2>1, <2>3 DEF q
<1>4. CASE Joins(s, d, f, it)
  <2>1. PICK p \in Seq(Int), r \in Seq(Seq(Int)) : q = Cons(p, r) /\ f[it] = Cons(c \o p, r)
    BY <1>4 DEF Joins
  <2>2. ~Drops(s, d, f, it) /\ ~Starts(s, d, f, it)
    BY <1>4 DEF Starts, Drops, Joins
  <2> HIDE DEF c, q
  <2> DEFINE x == c \o p
             K == Len(r)
  <2>3. x \in Seq(Int)
    BY <1>1, ConcatProperties
  <2>4. K \in Nat
    OBVIOUS
  <2> HIDE DEF x
  <2>5. Pieced(p, r) /\ Pieced(x, r)
    BY <2>3 DEF Pieced
  <2>6. Len(Cons(p, r)) = K + 1 /\ Len(Cons(x, r)) = K + 1
    BY <2>5, Consed
  <2> HIDE DEF K
  <2>7. Len(q) = K + 1 /\ Len(f[it]) = K + 1
    BY <2>1, <2>6 DEF x
  <2>8. Len(<<>>) = 0
    OBVIOUS
  <2>9. q # <<>>
    BY <2>4, <2>7, <2>8
  <2> QED
    BY <2>2, <2>7, <2>9 DEF q
<1>5. CASE ~Drops(s, d, f, it) /\ ~Starts(s, d, f, it) /\ ~Joins(s, d, f, it)
  BY <1>5
<1> QED
  BY <1>2, <1>3, <1>4, <1>5

\* There are as many fragments as runs.
LEMMA FragmentsAreRuns ==
  ASSUME NEW s, NEW d, NEW f, SplitSteps(s, d, f)
  PROVE  Len(f[1]) = Cardinality({i \in DOMAIN s : s[i] # d /\ (i = 1 \/ s[i - 1] = d)})
<1> DEFINE N == Len(s)
           Runs(it) == RunsAfter(s, d, it)
           Here(it) == RunHere(s, d, it)
           Good == {it \in 1..N + 1 : /\ IsFiniteSet(Runs(it))
                                      /\ Len(f[it]) = Cardinality(Runs(it)) + Here(it)}
<1>0. N \in Nat /\ \A it \in 1..N + 1 : Len(f[it]) \in Nat
  BY FragmentsAreStrings
<1>1. DOMAIN s = 1..N /\ f[N + 1] = <<>>
  <2>1. s \in Seq(Int) /\ f[N + 1] = <<>>
    BY DEF SplitSteps
  <2> QED
    BY <2>1, Characters
<1>2. N + 1 \in Good
  <2>1. Runs(N + 1) = {} /\ Here(N + 1) = 0
    BY <1>0 DEF RunsAfter, RunHere
  <2>2. Len(<<>>) = 0 /\ N + 1 \in 1..N + 1
    BY <1>0
  <2>3. IsFiniteSet({}) /\ Cardinality({}) = 0
    BY FS_EmptySet
  <2> HIDE DEF Runs, Here
  <2>4. Len(f[N + 1]) = 0 /\ 0 = 0 + 0
    BY <1>1, <2>2
  <2> QED
    BY <2>1, <2>2, <2>3, <2>4
<1>3. ASSUME NEW it \in 1..N, it + 1 \in Good PROVE it \in Good
  <2>0. Drops(s, d, f, it) \/ Starts(s, d, f, it) \/ Joins(s, d, f, it)
    BY DEF SplitSteps
  <2> DEFINE K == Cardinality(Runs(it + 1))
  <2>1. IsFiniteSet(Runs(it + 1)) /\ Len(f[it + 1]) = K + Here(it + 1)
    BY <1>3
  <2>2. it \in 1..N + 1 /\ K \in Nat
    BY <1>0, <2>1, FS_CardinalityType
  <2>3. CASE s[it] # d
    <3>1. Runs(it) = Runs(it + 1)
      <4>1. \A i \in Int : i \in it + 1..N /\ s[i - 1] = d => i \in (it + 1) + 1..N
        <5> SUFFICES ASSUME NEW i \in it + 1..N, s[i - 1] = d PROVE i \in (it + 1) + 1..N
          OBVIOUS
        <5>1. i # it + 1
          <6>1. (it + 1) - 1 = it
            BY <1>0
          <6> QED
            BY <2>3, <6>1
        <5> QED
          BY <1>0, <5>1
      <4>2. (it + 1) + 1..N \subseteq it + 1..N
        BY <1>0
      <4> QED
        BY <4>1, <4>2 DEF RunsAfter
    <3>2. Here(it) = 1
      BY <1>0, <2>3 DEF RunHere
    <3>3. CASE Starts(s, d, f, it)
      <4>1. Here(it + 1) = 0
        BY <1>0, <3>3 DEF Starts, RunHere
      <4>2. Len(f[it]) = Len(f[it + 1]) + 1
        BY <3>3, FragmentsGrow
      <4> HIDE DEF Runs, Here
      <4>3. Len(f[it]) = K + 1
        BY <2>1, <2>2, <4>1, <4>2
      <4> HIDE DEF K
      <4>4. Len(f[it]) = Cardinality(Runs(it)) + Here(it)
        BY <3>1, <3>2, <4>3 DEF K
      <4> QED
        BY <2>1, <2>2, <3>1, <4>4
    <3>4. CASE Joins(s, d, f, it)
      <4>1. Here(it + 1) = 1
        BY <1>0, <3>4 DEF Joins, RunHere
      <4>2. Len(f[it]) = Len(f[it + 1])
        BY <3>4, FragmentsGrow
      <4> HIDE DEF Runs, Here
      <4>3. Len(f[it]) = K + 1
        BY <2>1, <2>2, <4>1, <4>2
      <4> HIDE DEF K
      <4>4. Len(f[it]) = Cardinality(Runs(it)) + Here(it)
        BY <3>1, <3>2, <4>3 DEF K
      <4> QED
        BY <2>1, <2>2, <3>1, <4>4
    <3> QED
      BY <2>0, <2>3, <3>3, <3>4 DEF Drops
  <2>4. CASE s[it] = d
    <3>1. Here(it) = 0
      BY <2>4 DEF RunHere
    <3>2. Len(f[it]) = Len(f[it + 1])
      <4>1. Drops(s, d, f, it)
        BY <2>0, <2>4 DEF Starts, Joins
      <4> QED
        BY <4>1, FragmentsGrow
    <3>3. CASE it + 1 <= N /\ s[it + 1] # d
      <4>1. Runs(it) = Runs(it + 1) \cup {it + 1}
        <5>1. it + 1 \in it + 1..N /\ (it + 1) - 1 = it
          BY <1>0, <3>3
        <5>2. \A i \in it + 1..N : i = it + 1 \/ i \in (it + 1) + 1..N
          BY <1>0
        <5>3. (it + 1) + 1..N \subseteq it + 1..N
          BY <1>0
        <5> QED
          BY <2>4, <3>3, <5>1, <5>2, <5>3 DEF RunsAfter
      <4>2. it + 1 \notin Runs(it + 1)
        BY <1>0 DEF RunsAfter
      <4>3. Here(it + 1) = 1
        BY <3>3 DEF RunHere
      <4> HIDE DEF Runs, Here
      <4>4. IsFiniteSet(Runs(it)) /\ Cardinality(Runs(it)) = K + 1
        BY <2>1, <4>1, <4>2, FS_AddElement
      <4> HIDE DEF K
      <4>5. Len(f[it]) = Cardinality(Runs(it)) + Here(it)
        BY <2>1, <2>2, <3>1, <3>2, <4>3, <4>4
      <4> QED
        BY <2>2, <4>4, <4>5
    <3>4. CASE ~(it + 1 <= N /\ s[it + 1] # d)
      <4>1. Runs(it) = Runs(it + 1)
        <5>1. \A i \in it + 1..N : i = it + 1 \/ i \in (it + 1) + 1..N
          BY <1>0
        <5>2. (it + 1) + 1..N \subseteq it + 1..N
          BY <1>0
        <5>3. \A i \in it + 1..N : i = it + 1 => s[i] = d
          BY <1>0, <3>4
        <5> QED
          BY <5>1, <5>2, <5>3 DEF RunsAfter
      <4>2. Here(it + 1) = 0
        BY <3>4 DEF RunHere
      <4> HIDE DEF Runs, Here
      <4>3. Len(f[it]) = K + 0
        BY <2>1, <2>2, <3>2, <4>2
      <4> HIDE DEF K
      <4>4. Len(f[it]) = Cardinality(Runs(it)) + Here(it)
        BY <3>1, <4>1, <4>3 DEF K
      <4> QED
        BY <2>1, <2>2, <4>1, <4>4
    <3> QED
      BY <3>3, <3>4
  <2> QED
    BY <2>3, <2>4
<1> HIDE DEF Good
<1>4. \A it \in 1..N + 1 : it \in Good
  BY <1>0, <1>2, <1>3, Backwards
<1>5. 1 \in Good /\ 1 \in 1..N + 1
  BY <1>0, <1>4
<1>6. IsFiniteSet(Runs(1)) /\ Len(f[1]) = Cardinality(Runs(1)) + Here(1)
  BY <1>5 DEF Good
<1> DEFINE All == {i \in DOMAIN s : s[i] # d /\ (i = 1 \/ s[i - 1] = d)}
<1> SUFFICES Len(f[1]) = Cardinality(All)
  OBVIOUS
<1>7. CASE 1 <= N /\ s[1] # d
  <2>1. All = Runs(1) \cup {1}
    <3>1. \A i \in 1..N : i = 1 \/ i \in 1 + 1..N
      BY <1>0
    <3>2. 1 + 1..N \subseteq 1..N /\ 1 \in 1..N
      BY <1>0, <1>7
    <3> QED
      BY <1>1, <1>7, <3>1, <3>2 DEF RunsAfter
  <2>2. 1 \notin Runs(1) /\ Here(1) = 1
    BY <1>7 DEF RunsAfter, RunHere
  <2> HIDE DEF Runs, Here, All
  <2>3. Cardinality(All) = Cardinality(Runs(1)) + 1
    BY <1>6, <2>1, <2>2, FS_AddElement
  <2> QED
    BY <1>6, <2>2, <2>3
<1>8. CASE ~(1 <= N /\ s[1] # d)
  <2>1. All = Runs(1)
    <3>1. \A i \in 1..N : (i = 1 => s[i] = d) /\ (i = 1 \/ i \in 1 + 1..N)
      BY <1>0, <1>8
    <3>2. 1 + 1..N \subseteq 1..N
      BY <1>0
    <3> QED
      BY <1>1, <3>1, <3>2 DEF RunsAfter
  <2>2. Here(1) = 0
    BY <1>8 DEF RunHere
  <2> HIDE DEF Runs, Here, All
  <2>3. Cardinality(Runs(1)) \in Nat
    BY <1>6, FS_CardinalityType
  <2> QED
    BY <1>6, <2>1, <2>2, <2>3
<1> HIDE DEF All
<1> QED
  BY <1>7, <1>8

\* The room that some fragments take, a delimiter behind each.
Room(q) == Len(FlattenSeq(q)) + Len(q)

\* A split that has dropped one delimiter between two fragments, and none else,
\* from a position on.
Slack(s, d, it) == IF s[it] = d THEN 1 ELSE 2
Dense(s, d, f, it) ==
  Room(f[it]) = (Len(s) - it) + Slack(s, d, it)
Undone(s, d, f, it) ==
  /\ f[it] # <<>>
  /\ IF s[it] = d THEN <<d>> \o Join(f[it], <<d>>) = SubSeq(s, it, Len(s))
                  ELSE Join(f[it], <<d>>) = SubSeq(s, it, Len(s))
Bounded(s, d, f, it) ==
  /\ Room(f[it]) <= (Len(s) - it) + Slack(s, d, it)
  /\ Dense(s, d, f, it) => Undone(s, d, f, it)

\* The sizes of the fragments with one more character.
LEMMA SizesGrow ==
  ASSUME NEW s, NEW d, NEW f, SplitSteps(s, d, f), NEW it \in 1..Len(s)
  PROVE  Len(FlattenSeq(f[it])) = Len(FlattenSeq(f[it + 1])) + (IF s[it] = d THEN 0 ELSE 1)
<1> DEFINE l == Letter(s, d, it)
           w == FlattenSeq(f[it + 1])
           c == s[it]
<1>1. c \in Int /\ w \in Seq(Int)
  <2>1. it + 1 \in 1..Len(s) + 1
    BY FragmentsAreStrings
  <2> QED
    BY <2>1, FragmentsAreStrings
<1>2. FlattenSeq(f[it]) = l \o w
  BY LetterInFront
<1> HIDE DEF c, w
<1>3. l \in Seq(Int) /\ Len(l) = IF c = d THEN 0 ELSE 1
  <2>1. <<>> \in Seq(Int) /\ <<c>> \in Seq(Int) /\ Len(<<c>>) = 1 /\ Len(<<>>) = 0
    BY <1>1
  <2> QED
    BY <2>1 DEF Letter, c
<1> HIDE DEF l
<1>4. Len(l \o w) = Len(l) + Len(w)
  BY <1>1, <1>3, ConcatProperties
<1>5. Len(w) \in Nat
  BY <1>1
<1>6. Len(l \o w) = Len(w) + (IF c = d THEN 0 ELSE 1)
  BY <1>3, <1>4, <1>5
<1> QED
  BY <1>2, <1>6 DEF c, w

\* The rest of a string begins with its first character.
LEMMA RestOfString ==
  ASSUME NEW s \in Seq(Int), NEW it \in 1..Len(s)
  PROVE  /\ SubSeq(s, it, Len(s)) = <<s[it]>> \o SubSeq(s, it + 1, Len(s))
         /\ <<s[it]>> \in Seq(Int) /\ SubSeq(s, it + 1, Len(s)) \in Seq(Int)
         /\ it = Len(s) => SubSeq(s, it, Len(s)) = <<s[it]>>
<1> DEFINE c == <<s[it]>>
           N == Len(s)
<1>1. N \in Nat /\ s[it] \in Int
  OBVIOUS
<1>2. c \in Seq(Int)
  BY <1>1
<1>3. SubSeq(s, it, N) = c \o SubSeq(s, it + 1, N)
  <2>1. N \in it..Len(s)
    OBVIOUS
  <2> QED
    BY <2>1, SubSeqRecursiveFirst
<1>4. SubSeq(s, it + 1, N) \in Seq(Int)
  <2>1. it + 1 \in 1..Len(s) + 1 /\ N \in 0..Len(s)
    BY <1>1
  <2> QED
    BY <2>1, PartIsString
<1> HIDE DEF c
<1>5. it = N => SubSeq(s, it, N) = c
  <2>1. it = N => SubSeq(s, it + 1, N) = <<>>
    <3>1. it = N => N < it + 1 /\ it + 1 \in Int /\ N \in Int
      BY <1>1
    <3> QED
      BY <3>1, SubSeqEmpty
  <2>2. c \o <<>> = c
    BY <1>2, ConcatEmptySeq
  <2> QED
    BY <1>3, <2>1, <2>2
<1> QED
  BY <1>2, <1>3, <1>4, <1>5 DEF c

\* The room grows with one more character.
LEMMA RoomGrows ==
  ASSUME NEW s, NEW d, NEW f, SplitSteps(s, d, f), NEW it \in 1..Len(s)
  PROVE  /\ Room(f[it + 1]) \in Nat
         /\ Drops(s, d, f, it) => Room(f[it]) = Room(f[it + 1])
         /\ Starts(s, d, f, it) => Room(f[it]) = Room(f[it + 1]) + 2
         /\ Joins(s, d, f, it) => Room(f[it]) = Room(f[it + 1]) + 1
<1> DEFINE a == Len(FlattenSeq(f[it + 1]))
           b == Len(f[it + 1])
           x == Len(FlattenSeq(f[it]))
           y == Len(f[it])
           w == FlattenSeq(f[it + 1])
<1>1. it + 1 \in 1..Len(s) + 1
  BY FragmentsAreStrings
<1>2. b \in Nat /\ w \in Seq(Int)
  BY <1>1, FragmentsAreStrings
<1>3. a \in Nat
  <2> HIDE DEF w
  <2>1. Len(w) \in Nat
    BY <1>2
  <2> QED
    BY <2>1 DEF w
<1>4. x = a + (IF s[it] = d THEN 0 ELSE 1)
  BY SizesGrow
<1>5. /\ Drops(s, d, f, it) => f[it] = f[it + 1]
      /\ Starts(s, d, f, it) => s[it] # d /\ y = b + 1
      /\ Joins(s, d, f, it) => s[it] # d /\ y = b
  <2>1. Starts(s, d, f, it) => y = b + 1
    BY FragmentsGrow
  <2>2. Joins(s, d, f, it) => y = b
    BY FragmentsGrow
  <2> QED
    BY <2>1, <2>2 DEF Drops, Starts, Joins
<1>6. Room(f[it + 1]) = a + b /\ Room(f[it]) = x + y
  BY DEF Room
<1> HIDE DEF a, b, x, y
<1>7. Starts(s, d, f, it) => x + y = (a + b) + 2
  BY <1>2, <1>3, <1>4, <1>5
<1>8. Joins(s, d, f, it) => x + y = (a + b) + 1
  BY <1>2, <1>3, <1>4, <1>5
<1>9. a + b \in Nat
  BY <1>2, <1>3
<1> QED
  BY <1>5, <1>6, <1>7, <1>8, <1>9

\* The bound holds with one more character.
LEMMA BoundGrows ==
  ASSUME NEW s, NEW d, NEW f, SplitSteps(s, d, f), NEW it \in 1..Len(s),
         it < Len(s) => Bounded(s, d, f, it + 1)
  PROVE  Bounded(s, d, f, it)
<1> DEFINE N == Len(s)
           c == <<s[it]>>
           q == f[it + 1]
           link == <<d>>
           rest == SubSeq(s, it + 1, N)
           size == Room(q)
           grown == Room(f[it])
<1>0. s \in Seq(Int) /\ d \in Int /\ f[N + 1] = <<>>
  BY DEF SplitSteps
<1>1. /\ N \in Nat /\ it \in Int /\ it + 1 \in Int /\ it + 1 \in 1..N + 1
      /\ q \in Seq(Seq(Int)) /\ Len(q) \in Nat /\ FlattenSeq(q) \in Seq(Int) /\ Len(FlattenSeq(q)) \in Nat
  <2>1. it + 1 \in 1..N + 1 /\ N \in Nat
    BY FragmentsAreStrings
  <2>2. q \in Seq(Seq(Int)) /\ Len(q) \in Nat /\ FlattenSeq(q) \in Seq(Int)
    BY <2>1, FragmentsAreStrings
  <2>3. Len(FlattenSeq(q)) \in Nat
    BY <2>2
  <2> QED
    BY <2>1, <2>2, <2>3
<1>2. /\ SubSeq(s, it, N) = c \o rest /\ c \in Seq(Int) /\ rest \in Seq(Int)
      /\ it = N => SubSeq(s, it, N) = c
  BY <1>0, RestOfString
<1>3. link \in Seq(Int)
  BY <1>0
<1>4. Drops(s, d, f, it) \/ Starts(s, d, f, it) \/ Joins(s, d, f, it)
  BY DEF SplitSteps
<1>5. it = N => q = <<>> /\ size = 0
  <2> SUFFICES ASSUME it = N PROVE q = <<>> /\ size = 0
    OBVIOUS
  <2>1. q = <<>>
    BY <1>0
  <2>2. Len(<<>>) = 0 /\ FlattenSeq(<<>>) = <<>>
    BY FlattenedNothing
  <2> QED
    BY <2>1, <2>2 DEF Room
<1>6. size \in Nat
  BY RoomGrows
<1>7. it < N => /\ size <= (N - (it + 1)) + Slack(s, d, it + 1)
                /\ size = (N - (it + 1)) + Slack(s, d, it + 1) =>
                     /\ q # <<>>
                     /\ s[it + 1] = d => link \o Join(q, link) = rest
                     /\ s[it + 1] # d => Join(q, link) = rest
  BY DEF Bounded, Dense, Undone
<1>9. it = N \/ it < N
  BY <1>1
<1> SUFFICES /\ grown <= (N - it) + Slack(s, d, it)
             /\ grown = (N - it) + Slack(s, d, it) => Undone(s, d, f, it)
  BY DEF Bounded, Dense
<1>10. CASE Drops(s, d, f, it)
  <2>1. s[it] = d /\ f[it] = q /\ grown = size /\ Slack(s, d, it) = 1
    BY <1>10, RoomGrows DEF Drops, Slack
  <2> HIDE DEF size, grown, link, rest, c
  <2>2. CASE it = N
    BY <1>1, <1>5, <2>1, <2>2
  <2>3. CASE it < N /\ s[it + 1] = d
    <3>1. size <= (N - (it + 1)) + 1
      BY <1>7, <2>3 DEF Slack
    <3> QED
      BY <1>1, <1>6, <2>1, <3>1
  <2>4. CASE it < N /\ s[it + 1] # d
    <3>1. Slack(s, d, it + 1) = 2
      BY <2>4 DEF Slack
    <3>2. size <= (N - (it + 1)) + 2
      BY <1>7, <2>4, <3>1
    <3>3. size = (N - (it + 1)) + 2 => q # <<>> /\ Join(q, link) = rest
      BY <1>7, <2>4, <3>1
    <3>4. (N - (it + 1)) + 2 = (N - it) + 1
      BY <1>1
    <3>5. c = link
      BY <2>1 DEF c, link
    <3>6. Join(q, link) = rest => link \o Join(q, link) = SubSeq(s, it, N)
      BY <1>2, <3>5
    <3> QED
      BY <2>1, <3>2, <3>3, <3>4, <3>6 DEF Undone, link
  <2> QED
    BY <1>9, <2>2, <2>3, <2>4
<1>11. CASE Starts(s, d, f, it)
  <2>2. grown = size + 2
    BY <1>11, RoomGrows
  <2>a. s[it] # d /\ f[it] = Cons(c, q) /\ Slack(s, d, it) = 2
    BY <1>11 DEF Starts, Slack
  <2>b. it = N \/ s[it + 1] = d
    BY <1>11 DEF Starts
  <2>3. f[it] # <<>>
    <3>1. Len(f[it]) = Len(q) + 1 /\ Len(<<>>) = 0
      BY <1>11, FragmentsGrow
    <3> QED
      BY <1>1, <3>1
  <2> HIDE DEF size, grown, link, rest, c
  <2>4. Linkable(c, q, link)
    BY <1>1, <1>2, <1>3 DEF Linkable
  <2>5. /\ q = <<>> => Join(Cons(c, q), link) = c
        /\ q # <<>> => Join(Cons(c, q), link) = c \o (link \o Join(q, link))
    BY <2>4, JoinOfMore, SMTT(30)
  <2>6. CASE it = N
    <3>1. grown = (N - it) + 2
      BY <1>1, <1>5, <2>2, <2>6
    <3>2. Join(f[it], link) = SubSeq(s, it, N)
      BY <1>2, <1>5, <2>5, <2>6, <2>a
    <3>3. grown <= (N - it) + 2
      BY <1>1, <3>1
    <3> QED
      BY <2>3, <2>a, <3>2, <3>3 DEF Undone, link
  <2>7. CASE it < N
    <3>1. s[it + 1] = d /\ Slack(s, d, it + 1) = 1
      BY <1>1, <2>7, <2>b DEF Slack
    <3>2. size <= (N - (it + 1)) + 1
      BY <1>7, <2>7, <3>1
    <3>3. size = (N - (it + 1)) + 1 => q # <<>> /\ link \o Join(q, link) = rest
      BY <1>7, <2>7, <3>1
    <3>4. grown <= (N - it) + 2 /\ (grown = (N - it) + 2 => size = (N - (it + 1)) + 1)
      BY <1>1, <1>6, <2>2, <3>2
    <3>5. q # <<>> /\ link \o Join(q, link) = rest => Join(f[it], link) = SubSeq(s, it, N)
      BY <1>2, <2>5, <2>a
    <3> QED
      BY <2>3, <2>a, <3>3, <3>4, <3>5 DEF Undone, link
  <2> QED
    BY <1>9, <2>6, <2>7
<1>12. CASE Joins(s, d, f, it)
  <2>1. s[it] # d /\ it < N /\ s[it + 1] # d /\ Slack(s, d, it) = 2 /\ Slack(s, d, it + 1) = 2
    BY <1>12 DEF Joins, Slack
  <2>2. grown = size + 1
    BY <1>12, RoomGrows
  <2>3. PICK p \in Seq(Int), r \in Seq(Seq(Int)) : q = Cons(p, r) /\ f[it] = Cons(c \o p, r)
    BY <1>12 DEF Joins
  <2>4. f[it] # <<>>
    <3>1. Len(f[it]) = Len(q) /\ q # <<>>
      BY <1>12, FragmentsGrow
    <3>2. Len(q) # 0
      <4> DEFINE T == Seq(Int)
      <4>1. q \in Seq(T)
        BY <1>1
      <4> HIDE DEF T, q
      <4> QED
        BY <3>1, <4>1, EmptySeq
    <3>3. Len(<<>>) = 0
      OBVIOUS
    <3> QED
      BY <3>1, <3>2, <3>3
  <2> HIDE DEF size, grown, link, rest, c
  <2>5. Linkable(p, r, link)
    BY <1>3 DEF Linkable
  <2>6. Join(Cons(c \o p, r), link) = c \o Join(Cons(p, r), link)
    BY <1>2, <2>5, JoinInFront, SMTT(30)
  <2>7. size <= (N - (it + 1)) + 2
    BY <1>7, <2>1
  <2>8. size = (N - (it + 1)) + 2 => Join(q, link) = rest
    BY <1>7, <2>1
  <2>9. grown <= (N - it) + 2 /\ (grown = (N - it) + 2 => size = (N - (it + 1)) + 2)
    <3> HIDE DEF N
    <3>1. N \in Int /\ it \in Int /\ size \in Int
      BY <1>1, <1>6
    <3> HIDE <1>1, <1>6
    <3> QED
      BY <2>2, <2>7, <3>1
  <2>10. Join(q, link) = rest => Join(f[it], link) = SubSeq(s, it, N)
    BY <1>2, <2>3, <2>6
  <2> QED
    BY <2>1, <2>4, <2>8, <2>9, <2>10 DEF Undone, link
<1> QED
  BY <1>4, <1>10, <1>11, <1>12

\* join undoes a split that has dropped nothing but one delimiter between two fragments.
LEMMA JoinRestores ==
  ASSUME NEW s, NEW d, NEW f, SplitSteps(s, d, f),
         Room(f[1]) = Len(s) + 1
  PROVE  Join(f[1], <<d>>) = s
<1> DEFINE N == Len(s)
           Good == {it \in 1..N + 1 : it <= N => Bounded(s, d, f, it)}
<1>0. N \in Nat /\ s \in Seq(Int) /\ f[N + 1] = <<>>
  BY DEF SplitSteps
<1>1. N + 1 \in Good
  BY <1>0
<1>2. ASSUME NEW it \in 1..N, it + 1 \in Good PROVE it \in Good
  <2>1. it < N => Bounded(s, d, f, it + 1)
    <3>1. it < N => it + 1 <= N
      BY <1>0
    <3> QED
      BY <1>2, <3>1
  <2>2. Bounded(s, d, f, it)
    BY <2>1, BoundGrows
  <2> QED
    BY <1>0, <2>2
<1> HIDE DEF Good
<1>3. \A it \in 1..N + 1 : it \in Good
  BY <1>0, <1>1, <1>2, Backwards
<1>4. N # 0
  <2> SUFFICES ASSUME N = 0 PROVE FALSE
    OBVIOUS
  <2>1. f[1] = <<>> /\ Len(<<>>) = 0 /\ FlattenSeq(<<>>) = <<>>
    BY <1>0, FlattenedNothing
  <2>2. Room(f[1]) = 0
    BY <2>1 DEF Room
  <2> QED
    BY <2>2
<1>5. Bounded(s, d, f, 1)
  <2>1. 1 \in 1..N + 1 /\ 1 <= N
    BY <1>0, <1>4
  <2> QED
    BY <1>3, <2>1 DEF Good
<1>6. s[1] # d /\ Dense(s, d, f, 1)
  <2> DEFINE room == Room(f[1])
  <2>1. room <= (N - 1) + Slack(s, d, 1) /\ room = N + 1
    BY <1>5 DEF Bounded
  <2> HIDE DEF room, N
  <2>2. s[1] # d
    <3> SUFFICES ASSUME s[1] = d PROVE FALSE
      OBVIOUS
    <3>1. Slack(s, d, 1) = 1
      BY DEF Slack
    <3>2. N + 1 <= (N - 1) + 1
      BY <2>1, <3>1
    <3>3. N \in Nat
      BY <1>0
    <3> HIDE <1>0
    <3> QED
      BY <3>2, <3>3
  <2>3. Slack(s, d, 1) = 2
    BY <2>2 DEF Slack
  <2>4. room = (N - 1) + Slack(s, d, 1)
    BY <1>0, <2>1, <2>3
  <2> QED
    BY <2>2, <2>4 DEF Dense, room, N
<1>7. Undone(s, d, f, 1)
  BY <1>5, <1>6 DEF Bounded
<1>8. SubSeq(s, 1, N) = s
  BY <1>0, SubSeqFull
<1> QED
  BY <1>6, <1>7, <1>8 DEF Undone

(* The parser of URIs. *)

\* The characters from a to before b, as string_from_view takes them.
Span(s, a, b) == SubSeq(s, a, b - 1)
Within(s, a, b) == s \in Seq(Int) /\ a \in 1..Len(s) + 1 /\ b \in a..Len(s) + 1

\* The characters of a part of a string.
LEMMA SpanIsString ==
  ASSUME NEW s, NEW a, NEW b, Within(s, a, b)
  PROVE  /\ Span(s, a, b) \in Seq(Int) /\ Len(Span(s, a, b)) = b - a
         /\ \A i \in 1..b - a : Span(s, a, b)[i] = s[(a + i) - 1]
<1>1. /\ s \in Seq(Int) /\ Len(s) \in Nat /\ a \in 1..Len(s) + 1 /\ b \in a..Len(s) + 1
      /\ b - 1 \in 0..Len(s)
  BY DEF Within
<1>2. /\ Span(s, a, b) \in Seq(Int)
      /\ Len(Span(s, a, b)) = IF a <= b - 1 THEN ((b - 1) - a) + 1 ELSE 0
      /\ \A i \in 1..((b - 1) - a) + 1 : Span(s, a, b)[i] = s[(a + i) - 1]
  BY <1>1, PartIsString DEF Span
<1>3. ((b - 1) - a) + 1 = b - a /\ (~(a <= b - 1) => b - a = 0)
  BY <1>1
<1> HIDE <1>1
<1> QED
  BY <1>2, <1>3

\* A part can be cut in two.
LEMMA SpanCut ==
  ASSUME NEW s, NEW a, NEW m, NEW b, Within(s, a, m), Within(s, m, b)
  PROVE  Span(s, a, b) = Span(s, a, m) \o Span(s, m, b)
<1> DEFINE x == Span(s, a, b)
           y == Span(s, a, m)
           z == Span(s, m, b)
           N == Len(s)
<1>1. N \in Nat /\ a \in 1..N + 1 /\ b \in a..N + 1 /\ m \in a..b /\ s \in Seq(Int)
  BY DEF Within
<1>2. Within(s, a, b)
  BY <1>1 DEF Within
<1>3. x \in Seq(Int) /\ Len(x) = b - a /\ \A i \in 1..b - a : x[i] = s[(a + i) - 1]
  BY <1>2, SpanIsString
<1>4. y \in Seq(Int) /\ Len(y) = m - a /\ \A i \in 1..m - a : y[i] = s[(a + i) - 1]
  BY SpanIsString
<1>5. z \in Seq(Int) /\ Len(z) = b - m /\ \A i \in 1..b - m : z[i] = s[(m + i) - 1]
  BY SpanIsString
<1> HIDE DEF x, y, z, N
<1>6. /\ y \o z \in Seq(Int) /\ Len(y \o z) = Len(y) + Len(z)
      /\ \A i \in 1..Len(y) + Len(z) : (y \o z)[i] = IF i <= Len(y) THEN y[i] ELSE z[i - Len(y)]
  BY <1>4, <1>5, ConcatProperties
<1>7. Len(y) + Len(z) = b - a
  BY <1>1, <1>4, <1>5
<1>8. ASSUME NEW i \in 1..b - a PROVE x[i] = (y \o z)[i]
  <2>1. (y \o z)[i] = IF i <= m - a THEN y[i] ELSE z[i - (m - a)]
    BY <1>4, <1>6, <1>7
  <2>2. x[i] = s[(a + i) - 1]
    BY <1>3
  <2>3. CASE i <= m - a
    <3>1. i \in 1..m - a
      BY <1>1, <2>3
    <3> QED
      BY <1>4, <2>1, <2>2, <2>3, <3>1
  <2>4. CASE ~(i <= m - a)
    <3>1. i - (m - a) \in 1..b - m /\ (m + (i - (m - a))) - 1 = (a + i) - 1
      BY <1>1, <2>4
    <3>2. z[i - (m - a)] = s[(m + (i - (m - a))) - 1]
      BY <1>5, <3>1
    <3> QED
      BY <2>1, <2>2, <2>4, <3>1, <3>2
  <2> QED
    BY <2>3, <2>4
<1>9. x = y \o z
  <2> DEFINE w == y \o z
  <2>1. w \in Seq(Int) /\ Len(w) = Len(x) /\ \A i \in 1..Len(x) : x[i] = w[i]
    BY <1>3, <1>6, <1>7, <1>8
  <2> HIDE DEF w
  <2>2. x = w
    BY <1>3, <2>1, SeqEqual
  <2> QED
    BY <2>2 DEF w
<1> QED
  BY <1>9 DEF x, y, z

\* Parts of no character, of one and of all.
LEMMA Spans ==
  ASSUME NEW s \in Seq(Int)
  PROVE  /\ \A a \in 1..Len(s) + 1 : Span(s, a, a) = <<>>
         /\ \A m \in 1..Len(s) : Span(s, m, m + 1) = <<s[m]>>
         /\ Span(s, 1, Len(s) + 1) = s
<1>0. Len(s) \in Nat
  OBVIOUS
<1>1. ASSUME NEW a \in 1..Len(s) + 1 PROVE Span(s, a, a) = <<>>
  <2>1. Within(s, a, a)
    BY <1>0 DEF Within
  <2>2. Span(s, a, a) \in Seq(Int) /\ Len(Span(s, a, a)) = a - a
    BY <2>1, SpanIsString
  <2> DEFINE x == Span(s, a, a)
  <2>3. a - a = 0
    BY <1>0
  <2> HIDE DEF x
  <2>4. x \in Seq(Int) /\ Len(x) = 0
    BY <2>2, <2>3 DEF x
  <2>5. x = <<>>
    BY <2>4, EmptySeq
  <2> QED
    BY <2>5 DEF x
<1>2. ASSUME NEW m \in 1..Len(s) PROVE Span(s, m, m + 1) = <<s[m]>>
  <2> DEFINE k == m + 1
             x == Span(s, m, k)
             y == <<s[m]>>
  <2>1. Within(s, m, k) /\ k - m = 1 /\ (m + 1) - 1 = m /\ s[m] \in Int
    BY <1>0 DEF Within
  <2> HIDE DEF k
  <2>2. x \in Seq(Int) /\ Len(x) = k - m /\ \A i \in 1..k - m : x[i] = s[(m + i) - 1]
    BY <2>1, SpanIsString
  <2>3. Len(x) = 1 /\ x[1] = s[m]
    BY <2>1, <2>2
  <2>4. y \in Seq(Int) /\ Len(y) = 1 /\ y[1] = s[m]
    BY <2>1
  <2> HIDE DEF x, y
  <2>5. \A i \in 1..Len(x) : x[i] = y[i]
    BY <2>3, <2>4
  <2>6. x = y
    BY <2>2, <2>3, <2>4, <2>5, SeqEqual
  <2> QED
    BY <2>6 DEF x, y, k
<1>3. Span(s, 1, Len(s) + 1) = s
  <2>1. (Len(s) + 1) - 1 = Len(s)
    BY <1>0
  <2> QED
    BY <2>1, SubSeqFull DEF Span
<1> QED
  BY <1>1, <1>2, <1>3

\* A character as a string, and the next position.
One(s, a) == <<s[a]>>
Follows(a, m) == m = a + 1

\* A character of a string, in front of the rest of a part.
LEMMA SpanBegins ==
  ASSUME NEW s, NEW a, NEW m, NEW b, Within(s, a, m), Within(s, m, b), Follows(a, m)
  PROVE  Span(s, a, b) = One(s, a) \o Span(s, m, b)
<1>1. a \in 1..Len(s) /\ s \in Seq(Int)
  BY DEF Within, Follows
<1>2. Span(s, a, b) = Span(s, a, m) \o Span(s, m, b)
  BY SpanCut
<1>3. Span(s, a, m) = One(s, a)
  BY <1>1, Spans DEF Follows, One
<1> QED
  BY <1>2, <1>3

\* What an iterator points at is a character, unless it is 0.
LEMMA CharAtIsChar ==
  ASSUME NEW s \in Seq(Int), NEW i \in Nat, NEW c \in Int, c # 0, CharAt(s, i) = c
  PROVE  i <= Len(s) /\ s[i] = c
<1>1. Len(s) \in Nat
  OBVIOUS
<1> QED
  BY <1>1 DEF CharAt

\* The view of a part.
LEMMA ViewIsSpan == \A s, a, b : StringFromView(s, View(a, b)) = Span(s, a, b)
  BY DEF StringFromView, View, Span

\* The first character that is not in a set.
LEMMA FindsFirstOther ==
  ASSUME NEW s \in Seq(Int), NEW from \in 1..Len(s) + 1, NEW D
  PROVE  LET e == Min({i \in from..Len(s) : s[i] \notin D} \cup {Len(s) + 1})
         IN  /\ e \in from..Len(s) + 1 /\ \A i \in from..e - 1 : s[i] \in D
             /\ e <= Len(s) => s[e] \notin D
<1> DEFINE S == {i \in from..Len(s) : s[i] \notin D} \cup {Len(s) + 1}
           e == Min(S)
<1>0. Len(s) \in Nat
  OBVIOUS
<1>1. S \subseteq Nat /\ S # {} /\ S \subseteq from..Len(s) + 1
  BY <1>0
<1>2. \A i \in from..Len(s) : s[i] \notin D => i \in S
  OBVIOUS
<1>3. \A i \in S : i <= Len(s) => s[i] \notin D
  BY <1>0
<1> HIDE DEF S
<1>4. e \in S /\ \A x \in S : e <= x
  BY <1>1, Smallest
<1> HIDE DEF e
<1>5. ASSUME NEW i \in from..e - 1 PROVE s[i] \in D
  <2>1. i \in from..Len(s) /\ ~(e <= i)
    BY <1>0, <1>1, <1>4
  <2> QED
    BY <1>2, <1>4, <2>1
<1>6. e \in from..Len(s) + 1 /\ (\A i \in from..e - 1 : s[i] \in D) /\ (e <= Len(s) => s[e] \notin D)
  BY <1>1, <1>3, <1>4, <1>5
<1> QED
  BY <1>6 DEF e, S

\* A part of the characters of a set holds no others.
LEMMA SpanOfSome ==
  ASSUME NEW s, NEW a, NEW b, Within(s, a, b), NEW D, \A i \in a..b - 1 : s[i] \in D
  PROVE  \A i \in DOMAIN Span(s, a, b) : Span(s, a, b)[i] \in D
<1> DEFINE x == Span(s, a, b)
<1>1. x \in Seq(Int) /\ Len(x) = b - a /\ \A i \in 1..b - a : x[i] = s[(a + i) - 1]
  BY SpanIsString
<1>2. a \in Nat /\ b \in Nat /\ \A i \in 1..b - a : (a + i) - 1 \in a..b - 1
  BY DEF Within
<1>3. DOMAIN x = 1..b - a
  BY <1>1
<1> HIDE DEF x
<1> QED
  BY <1>1, <1>2, <1>3 DEF x

\* The names of the parts, and those of them that a function leaves alone.
PartNames == {"scheme", "userinfo", "host", "port", "path", "query", "fragment"}
Nothing(s) == View(Len(s) + 1, Len(s) + 1)
Keeps(r, parts, names) ==
  DOMAIN parts = PartNames /\ DOMAIN r = PartNames /\ \A name \in names : r[name] = parts[name]

\* Where parse_uri cuts: the path ends at e and the query at h.
PathCut(s, r, begin, e, h) ==
  /\ begin \in 1..Len(s) + 1 /\ e \in begin..Len(s) + 1 /\ h \in e..Len(s) + 1
  /\ r["path"] = View(begin, e) /\ \A i \in begin..e - 1 : s[i] \notin {Question, Hash}
  /\ \/ /\ e <= Len(s) /\ s[e] = Question /\ r["query"] = View(e + 1, h)
        /\ h \in e + 1..Len(s) + 1 /\ \A i \in e + 1..h - 1 : s[i] # Hash
     \/ h = e /\ r["query"] = Nothing(s)
  /\ \/ h <= Len(s) /\ s[h] = Hash /\ r["fragment"] = View(h + 1, Len(s) + 1)
     \/ h = Len(s) + 1 /\ r["fragment"] = Nothing(s)

\* The host ends at he and the port at pe.
HostCut(s, r, begin, he, pe) ==
  /\ begin \in 1..Len(s) + 1 /\ he \in begin..Len(s) + 1 /\ pe \in he..Len(s) + 1
  /\ r["host"] = View(begin, he) /\ \A i \in begin..he - 1 : s[i] \notin {Colon, Slash}
  /\ \/ /\ he <= Len(s) /\ s[he] = Colon /\ r["port"] = View(he + 1, pe)
        /\ pe \in he + 1..Len(s) + 1 /\ \A i \in he + 1..pe - 1 : s[i] \in Digits
     \/ pe = he /\ r["port"] = Nothing(s)

\* The host starts at hb.
UserCut(s, r, begin, hb) ==
  /\ begin \in 1..Len(s) + 1 /\ hb \in begin..Len(s) + 1
  /\ \/ /\ r["userinfo"] = View(begin, hb - 1) /\ hb - 1 \in begin..Len(s) /\ s[hb - 1] = At
        /\ \A i \in begin..hb - 2 : s[i] # At
     \/ hb = begin /\ r["userinfo"] = Nothing(s)

\* Parsing the path cuts off path, query and fragment.
LEMMA PathIsCut ==
  ASSUME NEW s \in Seq(Int), NEW parts, DOMAIN parts = PartNames,
         parts["query"] = Nothing(s), parts["fragment"] = Nothing(s), NEW begin \in 1..Len(s) + 1
  PROVE  /\ Keeps(ParsePath(s, parts, begin), parts, {"scheme", "userinfo", "host", "port"})
         /\ \E e, h : PathCut(s, ParsePath(s, parts, begin), begin, e, h)
<1> DEFINE N == Len(s)
           r == ParsePath(s, parts, begin)
           e == FindFirstOf(s, begin, {Question, Hash})
           asked == CharAt(s, e) = Question
           h == IF asked THEN Find(s, e + 1, Hash) ELSE e
<1>1. N \in Nat /\ \A i \in 1..N : s[i] \in Int
  OBVIOUS
<1>2. e \in begin..N + 1 /\ (\A i \in begin..e - 1 : s[i] \notin {Question, Hash})
      /\ (e <= N => s[e] \in {Question, Hash})
  BY FindsFirst DEF First
<1>3. /\ Keeps(r, parts, {"scheme", "userinfo", "host", "port"})
      /\ r["path"] = View(begin, e)
      /\ r["query"] = IF asked THEN View(e + 1, h) ELSE parts["query"]
      /\ r["fragment"] = IF CharAt(s, h) = Hash THEN View(h + 1, N + 1) ELSE parts["fragment"]
  BY DEF ParsePath, Keeps, PartNames
<1>4. asked => e <= N /\ s[e] = Question
  BY <1>1, <1>2, CharAtIsChar DEF Question
<1>5. ~asked /\ e <= N => s[e] = Hash
  BY <1>1, <1>2 DEF CharAt
<1>6. asked => /\ h \in e + 1..N + 1 /\ (\A i \in e + 1..h - 1 : s[i] # Hash)
               /\ (h <= N => s[h] = Hash)
  <2> SUFFICES ASSUME asked PROVE /\ h \in e + 1..N + 1 /\ (\A i \in e + 1..h - 1 : s[i] # Hash)
                                  /\ (h <= N => s[h] = Hash)
    OBVIOUS
  <2>1. e + 1 \in 1..N + 1 /\ h = FindFirstOf(s, e + 1, {Hash})
    BY <1>1, <1>2, <1>4 DEF Find
  <2> HIDE DEF h, e, N
  <2>2. First(s, e + 1, {Hash}, h)
    BY <2>1, FindsFirst DEF N
  <2> QED
    BY <2>2 DEF First, N
<1> HIDE DEF e, h, r, asked
<1>7. h \in e..N + 1 /\ (h <= N => s[h] = Hash)
  <2>1. CASE asked
    BY <1>1, <1>2, <1>6, <2>1
  <2>2. CASE ~asked
    BY <1>1, <1>2, <1>5, <2>2 DEF h
  <2> QED
    BY <2>1, <2>2
<1>8. \/ /\ e <= N /\ s[e] = Question /\ r["query"] = View(e + 1, h)
         /\ h \in e + 1..N + 1 /\ \A i \in e + 1..h - 1 : s[i] # Hash
      \/ h = e /\ r["query"] = Nothing(s)
  <2>1. CASE asked
    BY <1>3, <1>4, <1>6, <2>1
  <2>2. CASE ~asked
    BY <1>3, <2>2 DEF h
  <2> QED
    BY <2>1, <2>2
<1>9. \/ h <= N /\ s[h] = Hash /\ r["fragment"] = View(h + 1, N + 1)
      \/ h = N + 1 /\ r["fragment"] = Nothing(s)
  <2>1. CASE h <= N
    <3>1. CharAt(s, h) = Hash
      BY <1>1, <1>2, <1>7, <2>1 DEF CharAt
    <3> QED
      BY <1>3, <1>7, <2>1, <3>1
  <2>2. CASE ~(h <= N)
    <3>1. h = N + 1
      BY <1>1, <1>2, <1>7, <2>2
    <3>2. CharAt(s, h) # Hash
      BY <1>1, <3>1 DEF CharAt, Hash
    <3> QED
      BY <1>3, <3>1, <3>2
  <2> QED
    BY <2>1, <2>2
<1>10. PathCut(s, r, begin, e, h)
  BY <1>2, <1>3, <1>7, <1>8, <1>9 DEF PathCut
<1> QED
  BY <1>3, <1>10 DEF r

\* Parsing what follows // cuts off host and port in front of that.
LEMMA HostIsCut ==
  ASSUME NEW s \in Seq(Int), NEW parts, DOMAIN parts = PartNames, parts["port"] = Nothing(s),
         parts["query"] = Nothing(s), parts["fragment"] = Nothing(s), NEW begin \in 1..Len(s) + 1
  PROVE  /\ Keeps(ParseHost(s, parts, begin), parts, {"scheme", "userinfo"})
         /\ \E he, pe, e, h : /\ HostCut(s, ParseHost(s, parts, begin), begin, he, pe)
                              /\ PathCut(s, ParseHost(s, parts, begin), pe, e, h)
<1> DEFINE N == Len(s)
           r == ParseHost(s, parts, begin)
           he == FindFirstOf(s, begin, {Colon, Slash})
           pe == EndOfPort(s, he + 1)
           q == IF CharAt(s, he) = Colon
                THEN [parts EXCEPT !["host"] = View(begin, he), !["port"] = View(he + 1, pe)]
                ELSE [parts EXCEPT !["host"] = View(begin, he)]
           path == IF CharAt(s, he) = Colon THEN pe ELSE he
<1>1. N \in Nat /\ \A i \in 1..N : s[i] \in Int
  OBVIOUS
<1>2. he \in begin..N + 1 /\ (\A i \in begin..he - 1 : s[i] \notin {Colon, Slash})
  BY FindsFirst DEF First
<1>3. r = ParsePath(s, q, path)
  BY DEF ParseHost
<1>4. /\ DOMAIN q = PartNames /\ q["query"] = Nothing(s) /\ q["fragment"] = Nothing(s)
      /\ q["scheme"] = parts["scheme"] /\ q["userinfo"] = parts["userinfo"]
      /\ q["host"] = View(begin, he)
      /\ q["port"] = IF CharAt(s, he) = Colon THEN View(he + 1, pe) ELSE Nothing(s)
  BY DEF PartNames
<1>5. ASSUME CharAt(s, he) = Colon
      PROVE  /\ he <= N /\ s[he] = Colon
             /\ pe \in he + 1..N + 1 /\ \A i \in he + 1..pe - 1 : s[i] \in Digits
  <2>1. he <= N /\ s[he] = Colon
    BY <1>1, <1>2, <1>5, CharAtIsChar DEF Colon
  <2>2. he + 1 \in 1..N + 1
    BY <1>1, <1>2, <2>1
  <2>3. pe = Min({i \in he + 1..Len(s) : s[i] \notin Digits} \cup {Len(s) + 1})
    BY DEF EndOfPort
  <2> HIDE DEF he, pe, N
  <2>4. /\ pe \in he + 1..N + 1 /\ \A i \in he + 1..pe - 1 : s[i] \in Digits
    BY <2>2, <2>3, FindsFirstOther DEF N
  <2> QED
    BY <2>1, <2>4
<1> HIDE DEF he, pe, q, r
<1>6. path \in he..N + 1 /\ path \in 1..N + 1
  BY <1>1, <1>2, <1>5
<1>7. \/ /\ he <= N /\ s[he] = Colon /\ q["port"] = View(he + 1, path)
         /\ path \in he + 1..N + 1 /\ \A i \in he + 1..path - 1 : s[i] \in Digits
      \/ path = he /\ q["port"] = Nothing(s)
  BY <1>4, <1>5
<1> HIDE DEF path
<1>8. /\ Keeps(r, q, {"scheme", "userinfo", "host", "port"}) /\ \E e, h : PathCut(s, r, path, e, h)
  BY <1>3, <1>4, <1>6, PathIsCut
<1>9. r["host"] = q["host"] /\ r["port"] = q["port"]
  BY <1>8 DEF Keeps
<1>10. HostCut(s, r, begin, he, path)
  BY <1>2, <1>4, <1>6, <1>7, <1>9 DEF HostCut, N
<1>11. Keeps(r, parts, {"scheme", "userinfo"})
  BY <1>4, <1>8 DEF Keeps
<1> QED
  BY <1>8, <1>10, <1>11 DEF r

\* And the userinfo in front of these.
LEMMA UserinfoIsCut ==
  ASSUME NEW s \in Seq(Int), NEW parts, DOMAIN parts = PartNames, NEW begin \in 1..Len(s) + 1,
         \A name \in {"userinfo", "port", "query", "fragment"} : parts[name] = Nothing(s)
  PROVE  /\ Keeps(ParseUserinfo(s, parts, begin), parts, {"scheme"})
         /\ \E hb, he, pe, e, h : /\ UserCut(s, ParseUserinfo(s, parts, begin), begin, hb)
                                  /\ HostCut(s, ParseUserinfo(s, parts, begin), hb, he, pe)
                                  /\ PathCut(s, ParseUserinfo(s, parts, begin), pe, e, h)
<1> DEFINE N == Len(s)
           r == ParseUserinfo(s, parts, begin)
           at == Find(s, begin, At)
           q == IF at > N THEN parts ELSE [parts EXCEPT !["userinfo"] = View(begin, at)]
           hb == IF at > N THEN begin ELSE at + 1
<1>1. N \in Nat /\ \A i \in 1..N : s[i] \in Int
  OBVIOUS
<1>2. at \in begin..N + 1 /\ (\A i \in begin..at - 1 : s[i] # At) /\ (at <= N => s[at] = At)
  BY FindsFirst DEF First, Find
<1>3. r = ParseHost(s, q, hb)
  BY DEF ParseUserinfo
<1>4. /\ DOMAIN q = PartNames /\ q["query"] = Nothing(s) /\ q["fragment"] = Nothing(s)
      /\ q["port"] = Nothing(s) /\ q["scheme"] = parts["scheme"]
      /\ q["userinfo"] = IF at > N THEN Nothing(s) ELSE View(begin, at)
  BY DEF PartNames
<1> HIDE DEF at, q, r
<1>5. hb \in begin..N + 1 /\ hb \in 1..N + 1
  BY <1>1, <1>2
<1>6. \/ /\ q["userinfo"] = View(begin, hb - 1) /\ hb - 1 \in begin..N /\ s[hb - 1] = At
         /\ \A i \in begin..hb - 2 : s[i] # At
      \/ hb = begin /\ q["userinfo"] = Nothing(s)
  <2>1. CASE at > N
    BY <1>4, <2>1
  <2>2. CASE ~(at > N)
    <3>1. hb - 1 = at /\ hb - 2 = at - 1 /\ at \in begin..N
      BY <1>1, <1>2, <2>2
    <3> HIDE DEF hb
    <3> QED
      BY <1>2, <1>4, <2>2, <3>1
  <2> QED
    BY <2>1, <2>2
<1> HIDE DEF hb
<1>7. /\ Keeps(r, q, {"scheme", "userinfo"})
      /\ \E he, pe, e, h : HostCut(s, r, hb, he, pe) /\ PathCut(s, r, pe, e, h)
  BY <1>3, <1>4, <1>5, HostIsCut
<1>8. r["userinfo"] = q["userinfo"]
  BY <1>7 DEF Keeps
<1>9. UserCut(s, r, begin, hb)
  BY <1>5, <1>6, <1>8 DEF UserCut, N
<1>10. Keeps(r, parts, {"scheme"})
  BY <1>4, <1>7 DEF Keeps
<1> QED
  BY <1>7, <1>9, <1>10 DEF r

\* The scheme ends at a colon; // starts what is cut off between it and the path.
Authority(s, begin) == begin + 1 <= Len(s) /\ s[begin] = Slash /\ s[begin + 1] = Slash
SchemeCut(s, r, colon) ==
  /\ colon \in 1..Len(s) /\ s[colon] = Colon
  /\ r["scheme"] = View(1, colon) /\ \A i \in 1..colon - 1 : s[i] \in SchemeChars
AuthorityCut(s, r, begin) ==
  \E hb, he, pe, e, h :
    UserCut(s, r, begin + 2, hb) /\ HostCut(s, r, hb, he, pe) /\ PathCut(s, r, pe, e, h)
NoAuthorityCut(s, r, begin) ==
  /\ \A name \in {"userinfo", "host", "port"} : r[name] = Nothing(s)
  /\ \E e, h : PathCut(s, r, begin, e, h)

\* The parts of a valid URI.
LEMMA UriIsCut ==
  ASSUME NEW s \in Seq(Int), ParseUri(s).valid
  PROVE  \E colon, begin :
           /\ SchemeCut(s, ParseUri(s).parts, colon) /\ begin = colon + 1
           /\ Authority(s, begin) => AuthorityCut(s, ParseUri(s).parts, begin)
           /\ ~Authority(s, begin) => NoAuthorityCut(s, ParseUri(s).parts, begin)
<1> DEFINE N == Len(s)
           r == ParseUri(s).parts
           colon == EndOfScheme(s)
           begin == colon + 1
           parts == [NoParts(s) EXCEPT !["scheme"] = View(1, colon)]
           slashes == CharAt(s, begin) = Slash /\ CharAt(s, colon + 2) = Slash
<1>1. N \in Nat /\ \A i \in 1..N : s[i] \in Int
  OBVIOUS
<1>2. /\ CharAt(s, colon) = Colon
      /\ r = IF slashes THEN ParseUserinfo(s, parts, colon + 3) ELSE ParsePath(s, parts, begin)
  BY DEF ParseUri
<1>3. /\ colon \in 1..N + 1 /\ \A i \in 1..colon - 1 : s[i] \in SchemeChars
  <2>1. 1 \in 1..Len(s) + 1
    BY <1>1
  <2>2. colon = Min({i \in 1..Len(s) : s[i] \notin SchemeChars} \cup {Len(s) + 1})
    BY DEF EndOfScheme
  <2> HIDE DEF colon
  <2> QED
    BY <2>1, <2>2, FindsFirstOther, ZenonT(30)
<1>4. /\ DOMAIN parts = PartNames /\ parts["scheme"] = View(1, colon)
      /\ \A name \in {"userinfo", "host", "port", "path", "query", "fragment"} : parts[name] = Nothing(s)
  BY DEF PartNames, NoParts, Nothing
<1> HIDE DEF r, colon, parts
<1>5. colon \in 1..N /\ s[colon] = Colon /\ begin \in 1..N + 1
  <2>1. colon \in Nat
    BY <1>1, <1>3
  <2>2. colon <= N /\ s[colon] = Colon
    BY <1>2, <2>1, CharAtIsChar DEF Colon
  <2> QED
    BY <1>1, <1>3, <2>2
<1>6. slashes <=> Authority(s, begin)
  <2>1. begin \in Nat /\ colon + 2 \in Nat /\ begin + 1 = colon + 2
    BY <1>1, <1>5
  <2>2. CharAt(s, begin) = Slash <=> begin <= N /\ s[begin] = Slash
    BY <1>1, <2>1, CharAtIsChar DEF Slash, CharAt
  <2>3. CharAt(s, colon + 2) = Slash <=> colon + 2 <= N /\ s[colon + 2] = Slash
    BY <1>1, <2>1, CharAtIsChar DEF Slash, CharAt
  <2> QED
    BY <1>1, <1>5, <2>1, <2>2, <2>3 DEF Authority
<1>7. r["scheme"] = View(1, colon) /\ (Authority(s, begin) => AuthorityCut(s, r, begin))
      /\ (~Authority(s, begin) => NoAuthorityCut(s, r, begin))
  <2>1. CASE slashes
    <3>1. colon + 3 \in 1..N + 1 /\ begin + 2 = colon + 3
      BY <1>1, <1>5, <1>6, <2>1 DEF Authority
    <3> DEFINE start == begin + 2
    <3>2. r = ParseUserinfo(s, parts, start) /\ start \in 1..N + 1
      BY <1>2, <2>1, <3>1
    <3> HIDE DEF start, begin
    <3>3. /\ Keeps(r, parts, {"scheme"})
          /\ \E hb, he, pe, e, h :
               UserCut(s, r, start, hb) /\ HostCut(s, r, hb, he, pe) /\ PathCut(s, r, pe, e, h)
      BY <1>4, <3>2, UserinfoIsCut
    <3>4. r["scheme"] = View(1, colon)
      BY <1>4, <3>3 DEF Keeps
    <3>5. AuthorityCut(s, r, begin)
      BY <3>3 DEF AuthorityCut, start
    <3> QED
      BY <1>6, <2>1, <3>4, <3>5
  <2>2. CASE ~slashes
    <3>1. r = ParsePath(s, parts, begin)
      BY <1>2, <2>2
    <3> HIDE DEF begin
    <3>2. /\ Keeps(r, parts, {"scheme", "userinfo", "host", "port"})
          /\ \E e, h : PathCut(s, r, begin, e, h)
      BY <1>4, <1>5, <3>1, PathIsCut
    <3>3. r["scheme"] = View(1, colon) /\ \A name \in {"userinfo", "host", "port"} : r[name] = Nothing(s)
      BY <1>4, <3>2 DEF Keeps
    <3> QED
      BY <1>6, <2>2, <3>2, <3>3 DEF NoAuthorityCut
  <2> QED
    BY <2>1, <2>2
<1>8. SchemeCut(s, r, colon)
  BY <1>3, <1>5, <1>7 DEF SchemeCut
<1> QED
  BY <1>7, <1>8 DEF r

\* A part and the character in front of it or behind it.
LEMMA SpanBetween ==
  ASSUME NEW s, NEW a, NEW b, Within(s, a, b)
  PROVE  /\ a < b => Span(s, a, b) \in With(Span(s, a + 1, b), <<s[a]>>, <<>>)
         /\ a < b => Span(s, a, b) \in With(Span(s, a, b - 1), <<>>, <<s[b - 1]>>)
         /\ a = b => \A part, before, after : Span(s, a, b) \in With(part, before, after)
<1>1. /\ s \in Seq(Int) /\ Len(s) \in Nat /\ a \in 1..Len(s) + 1 /\ b \in a..Len(s) + 1
      /\ \A i \in 1..Len(s) : s[i] \in Int
  BY DEF Within
<1>2. CASE a < b
  <2> DEFINE x == Span(s, a + 1, b)
             y == Span(s, a, b - 1)
             m == b - 1
  <2>1. /\ Within(s, a + 1, b) /\ Within(s, a, m) /\ Within(s, m, b) /\ m \in a..b /\ m \in 1..Len(s)
        /\ b = m + 1
    BY <1>1, <1>2 DEF Within
  <2>2. x \in Seq(Int) /\ y \in Seq(Int) /\ <<s[a]>> \in Seq(Int) /\ <<s[m]>> \in Seq(Int)
    <3>1. x \in Seq(Int) /\ y \in Seq(Int)
      BY <2>1, SpanIsString
    <3> QED
      BY <1>1, <1>2, <2>1, <3>1
  <2>3. Span(s, a, b) = <<s[a]>> \o x
    <3> DEFINE next == a + 1
    <3>1. Follows(a, next) /\ Within(s, a, next) /\ Within(s, next, b)
      BY <1>1, <1>2 DEF Within, Follows
    <3> HIDE DEF next
    <3>2. Span(s, a, b) = One(s, a) \o Span(s, next, b)
      BY <3>1, SpanBegins
    <3> QED
      BY <3>2 DEF next, One
  <2>4. Span(s, m, b) = <<s[m]>>
    BY <1>1, <2>1, Spans
  <2> HIDE DEF m
  <2>5. Span(s, a, b) = Span(s, a, m) \o <<s[m]>>
    BY <2>1, <2>4, SpanCut
  <2>6. y = Span(s, a, m)
    BY DEF m
  <2> HIDE DEF x, y
  <2> DEFINE before == <<s[a]>>
             after == <<s[m]>>
  <2>7. before \in Seq(Int) /\ after \in Seq(Int)
    BY <2>2
  <2> HIDE DEF before, after
  <2>8. before \o x \in Seq(Int)
    BY <2>2, <2>7, ConcatProperties
  <2>9. (before \o x) \o <<>> = before \o x /\ <<>> \o y = y
    BY <2>2, <2>8, ConcatEmptySeq
  <2>10. Span(s, a, b) = (before \o x) \o <<>> /\ Span(s, a, b) = (<<>> \o y) \o after
    BY <2>3, <2>5, <2>6, <2>9 DEF before, after
  <2>11. before = <<s[a]>> /\ after = <<s[b - 1]>>
    BY DEF before, after, m
  <2>12. Span(s, a, b) \in With(x, before, <<>>) /\ Span(s, a, b) \in With(y, <<>>, after)
    BY <2>10 DEF With
  <2>13. ~(a = b)
    BY <1>1, <1>2
  <2> QED
    BY <2>11, <2>12, <2>13 DEF x, y
<1>3. CASE a = b
  <2>1. Span(s, a, b) = <<>>
    BY <1>1, <1>3, Spans
  <2> QED
    BY <1>1, <1>3, <2>1 DEF With
<1> QED
  BY <1>1, <1>2, <1>3

\* A part without a character.
LEMMA SpanWithout ==
  ASSUME NEW s, NEW a, NEW b, Within(s, a, b), NEW c, \A i \in a..b - 1 : s[i] # c
  PROVE  ~Contains(Span(s, a, b), c)
<1>1. /\ Len(Span(s, a, b)) = b - a
      /\ \A i \in 1..b - a : Span(s, a, b)[i] = s[(a + i) - 1]
  BY SpanIsString
<1>2. a \in Nat /\ b \in Nat /\ \A i \in 1..b - a : (a + i) - 1 \in a..b - 1
  BY DEF Within
<1> QED
  BY <1>1, <1>2 DEF Contains

\* The characters of a part are in a set.
LEMMA SpanAllIn ==
  ASSUME NEW s, NEW a, NEW b, Within(s, a, b), NEW D, \A i \in a..b - 1 : s[i] \in D
  PROVE  \A c \in ToSet(Span(s, a, b)) : c \in D
<1>1. \A i \in DOMAIN Span(s, a, b) : Span(s, a, b)[i] \in D
  BY SpanOfSome
<1> QED
  BY <1>1 DEF ToSet

\* The text of a part.
Text(s, r, name) == StringFromView(s, r[name])

\* A part that is not there.
LEMMA NothingIsEmpty ==
  ASSUME NEW s \in Seq(Int), NEW r, NEW name, r[name] = Nothing(s)
  PROVE  Text(s, r, name) = <<>> /\ \A c : ~Contains(Text(s, r, name), c)
<1>1. Len(s) \in Nat /\ Len(s) + 1 \in 1..Len(s) + 1
  OBVIOUS
<1>2. Text(s, r, name) = Span(s, Len(s) + 1, Len(s) + 1)
  BY ViewIsSpan DEF Nothing, Text
<1>3. Text(s, r, name) = <<>>
  BY <1>1, <1>2, Spans
<1> QED
  BY <1>3 DEF Contains

\* Path, query and fragment, as they stand in the string.
LEMMA PathTexts ==
  ASSUME NEW s \in Seq(Int), NEW r, NEW begin, NEW e, NEW h, PathCut(s, r, begin, e, h)
  PROVE  /\ Text(s, r, "path") = Span(s, begin, e) /\ Text(s, r, "query") \in Seq(Int)
         /\ Span(s, e, h) \in With(Text(s, r, "query"), <<Question>>, <<>>)
         /\ Span(s, h, Len(s) + 1) \in With(Text(s, r, "fragment"), <<Hash>>, <<>>)
         /\ \A c \in {Question, Hash} : ~Contains(Text(s, r, "path"), c)
         /\ ~Contains(Text(s, r, "query"), Hash)
<1> DEFINE N == Len(s)
<1>1. /\ N \in Nat /\ begin \in 1..N + 1 /\ e \in begin..N + 1 /\ h \in e..N + 1 /\ N + 1 \in h..N + 1
      /\ h \in Nat /\ e \in Nat /\ begin \in Nat /\ (h = N + 1 \/ h < N + 1) /\ (e <= N => e + 1 \in 1..N + 1)
  BY DEF PathCut
<1>2. Within(s, begin, e) /\ Within(s, e, h) /\ Within(s, h, N + 1)
  BY <1>1 DEF Within
<1>3. Text(s, r, "path") = Span(s, begin, e)
  BY ViewIsSpan DEF Text, PathCut
<1>4. \A c \in {Question, Hash} : ~Contains(Text(s, r, "path"), c)
  <2>1. ASSUME NEW c \in {Question, Hash} PROVE \A i \in begin..e - 1 : s[i] # c
    BY DEF PathCut
  <2> QED
    BY <1>2, <1>3, <2>1, SpanWithout
<1>5. /\ Text(s, r, "query") \in Seq(Int)
      /\ Span(s, e, h) \in With(Text(s, r, "query"), <<Question>>, <<>>)
      /\ ~Contains(Text(s, r, "query"), Hash)
  <2>1. CASE /\ e <= N /\ s[e] = Question /\ r["query"] = View(e + 1, h)
             /\ h \in e + 1..N + 1 /\ \A i \in e + 1..h - 1 : s[i] # Hash
    <3> DEFINE q == e + 1
    <3>1. Text(s, r, "query") = Span(s, q, h)
      BY <2>1, ViewIsSpan DEF Text
    <3>2. Within(s, q, h) /\ e < h
      BY <1>1, <2>1 DEF Within
    <3>3. Span(s, e, h) \in With(Span(s, q, h), <<Question>>, <<>>)
      BY <1>2, <2>1, <3>2, SpanBetween
    <3>4. \A i \in q..h - 1 : s[i] # Hash
      BY <2>1
    <3> HIDE DEF q
    <3>5. Span(s, q, h) \in Seq(Int) /\ ~Contains(Span(s, q, h), Hash)
      BY <3>2, <3>4, SpanIsString, SpanWithout
    <3> QED
      BY <3>1, <3>3, <3>5
  <2>2. CASE h = e /\ r["query"] = Nothing(s)
    <3>1. Text(s, r, "query") = <<>> /\ ~Contains(Text(s, r, "query"), Hash)
      BY <2>2, NothingIsEmpty
    <3> DEFINE before == <<Question>>
    <3> HIDE DEF before
    <3>2. Span(s, e, h) \in With(Text(s, r, "query"), before, <<>>)
      BY <1>2, <2>2, SpanBetween
    <3>3. <<>> \in Seq(Int)
      OBVIOUS
    <3>4. Text(s, r, "query") \in Seq(Int)
      BY <3>1, <3>3
    <3> QED
      BY <3>1, <3>2, <3>4 DEF before
  <2> QED
    BY <2>1, <2>2 DEF PathCut
<1>6. Span(s, h, N + 1) \in With(Text(s, r, "fragment"), <<Hash>>, <<>>)
  <2> DEFINE n == N + 1
  <2>0. Within(s, h, n) /\ (h <= N => h < n)
    BY <1>1, <1>2
  <2>1. CASE h <= N /\ s[h] = Hash /\ r["fragment"] = View(h + 1, N + 1)
    <3>1. Text(s, r, "fragment") = Span(s, h + 1, n)
      BY <2>1, ViewIsSpan DEF Text
    <3> HIDE DEF n
    <3>2. Span(s, h, n) \in With(Span(s, h + 1, n), <<s[h]>>, <<>>)
      BY <2>0, <2>1, SpanBetween
    <3> QED
      BY <2>1, <3>1, <3>2 DEF n
  <2>2. CASE h = N + 1 /\ r["fragment"] = Nothing(s)
    <3> DEFINE before == <<Hash>>
    <3>1. h = n
      BY <2>2
    <3> HIDE DEF before, n
    <3>2. Span(s, h, n) \in With(Text(s, r, "fragment"), before, <<>>)
      BY <2>0, <3>1, SpanBetween
    <3> QED
      BY <3>2 DEF before, n
  <2> QED
    BY <2>1, <2>2 DEF PathCut
<1> QED
  BY <1>3, <1>4, <1>5, <1>6

\* Host and port.
LEMMA HostTexts ==
  ASSUME NEW s \in Seq(Int), NEW r, NEW begin, NEW he, NEW pe, HostCut(s, r, begin, he, pe)
  PROVE  /\ Text(s, r, "host") = Span(s, begin, he)
         /\ Span(s, he, pe) \in With(Text(s, r, "port"), <<Colon>>, <<>>)
         /\ \A c \in {Colon, Slash} : ~Contains(Text(s, r, "host"), c)
         /\ \A c \in ToSet(Text(s, r, "port")) : c \in Digits
<1> DEFINE N == Len(s)
<1>1. /\ N \in Nat /\ begin \in 1..N + 1 /\ he \in begin..N + 1 /\ pe \in he..N + 1
      /\ he \in Nat /\ begin \in Nat /\ (he <= N => he + 1 \in 1..N + 1)
  BY DEF HostCut
<1>2. Within(s, begin, he) /\ Within(s, he, pe)
  BY <1>1 DEF Within
<1>3. Text(s, r, "host") = Span(s, begin, he)
  BY ViewIsSpan DEF Text, HostCut
<1>4. \A c \in {Colon, Slash} : ~Contains(Text(s, r, "host"), c)
  <2>1. ASSUME NEW c \in {Colon, Slash} PROVE \A i \in begin..he - 1 : s[i] # c
    BY DEF HostCut
  <2> QED
    BY <1>2, <1>3, <2>1, SpanWithout
<1>5. /\ Span(s, he, pe) \in With(Text(s, r, "port"), <<Colon>>, <<>>)
      /\ \A c \in ToSet(Text(s, r, "port")) : c \in Digits
  <2>1. CASE /\ he <= N /\ s[he] = Colon /\ r["port"] = View(he + 1, pe)
             /\ pe \in he + 1..N + 1 /\ \A i \in he + 1..pe - 1 : s[i] \in Digits
    <3> DEFINE q == he + 1
    <3>1. Text(s, r, "port") = Span(s, q, pe)
      BY <2>1, ViewIsSpan DEF Text
    <3>2. Within(s, q, pe) /\ he < pe
      BY <1>1, <2>1 DEF Within
    <3>3. Span(s, he, pe) \in With(Span(s, q, pe), <<Colon>>, <<>>)
      BY <1>2, <2>1, <3>2, SpanBetween
    <3>4. \A i \in q..pe - 1 : s[i] \in Digits
      BY <2>1
    <3> HIDE DEF q
    <3>5. \A c \in ToSet(Span(s, q, pe)) : c \in Digits
      BY <3>2, <3>4, SpanAllIn
    <3> QED
      BY <3>1, <3>3, <3>5
  <2>2. CASE pe = he /\ r["port"] = Nothing(s)
    <3>1. Text(s, r, "port") = <<>>
      BY <2>2, NothingIsEmpty
    <3> DEFINE before == <<Colon>>
    <3> HIDE DEF before
    <3>2. Span(s, he, pe) \in With(Text(s, r, "port"), before, <<>>)
      BY <1>2, <2>2, SpanBetween
    <3>3. ToSet(Text(s, r, "port")) = {}
      BY <3>1 DEF ToSet
    <3> QED
      BY <3>2, <3>3 DEF before
  <2> QED
    BY <2>1, <2>2 DEF HostCut
<1> QED
  BY <1>3, <1>4, <1>5

\* The userinfo.
LEMMA UserTexts ==
  ASSUME NEW s \in Seq(Int), NEW r, NEW begin, NEW hb, UserCut(s, r, begin, hb)
  PROVE  /\ Span(s, begin, hb) \in With(Text(s, r, "userinfo"), <<>>, <<At>>)
         /\ ~Contains(Text(s, r, "userinfo"), At)
<1> DEFINE N == Len(s)
           a == hb - 1
<1>1. N \in Nat /\ begin \in 1..N + 1 /\ hb \in begin..N + 1 /\ hb \in Nat /\ begin \in Nat
  BY DEF UserCut
<1>2. Within(s, begin, hb)
  BY <1>1 DEF Within
<1>3. CASE /\ r["userinfo"] = View(begin, hb - 1) /\ hb - 1 \in begin..Len(s) /\ s[hb - 1] = At
           /\ \A i \in begin..hb - 2 : s[i] # At
  <2>1. Within(s, begin, a) /\ begin < hb
    BY <1>1, <1>3 DEF Within
  <2>2. Text(s, r, "userinfo") = Span(s, begin, a)
    BY <1>3, ViewIsSpan DEF Text
  <2>3. Span(s, begin, hb) \in With(Span(s, begin, a), <<>>, <<At>>)
    BY <1>2, <1>3, <2>1, SpanBetween
  <2>4. \A i \in begin..a - 1 : s[i] # At
    BY <1>1, <1>3
  <2> HIDE DEF a
  <2> QED
    BY <2>1, <2>2, <2>3, <2>4, SpanWithout
<1>4. CASE hb = begin /\ r["userinfo"] = Nothing(s)
  <2> DEFINE after == <<At>>
  <2> HIDE DEF after
  <2>1. Span(s, begin, hb) \in With(Text(s, r, "userinfo"), <<>>, after)
    BY <1>2, <1>4, SpanBetween
  <2> QED
    BY <1>4, <2>1, NothingIsEmpty DEF after
<1> QED
  BY <1>3, <1>4 DEF UserCut

\* Where a string begins with two characters.
LEMMA BeginsWithTwo ==
  ASSUME NEW t \in Seq(Int), NEW c \in Int
  PROVE  IsPrefix(<<c, c>>, t) <=> Len(t) >= 2 /\ t[1] = c /\ t[2] = c
<1> DEFINE p == <<c, c>>
           n == Len(p)
<1>1. p \in Seq(Int) /\ n = 2 /\ p[1] = c /\ p[2] = c /\ Len(t) \in Nat
  OBVIOUS
<1>2. SubSeq(p, 1, n) = p
  BY <1>1, SubSeqFull
<1> DEFINE q == SubSeq(t, 1, 2)
<1>3. ASSUME Len(t) >= 2 PROVE q = <<t[1], t[2]>>
  <2>1. 2 \in 0..Len(t) /\ 1 \in 1..Len(t) + 1
    BY <1>1, <1>3
  <2>2. q \in Seq(Int) /\ Len(q) = (IF 1 <= 2 THEN (2 - 1) + 1 ELSE 0)
        /\ \A i \in 1..(2 - 1) + 1 : q[i] = t[(1 + i) - 1]
    BY <2>1, PartIsString
  <2>3. Len(q) = 2 /\ q[1] = t[1] /\ q[2] = t[2]
    BY <2>2
  <2> HIDE DEF q
  <2>4. <<t[1], t[2]>> \in Seq(Int)
    BY <1>3
  <2> QED
    BY <2>2, <2>3, <2>4, SeqEqual
<1>4. IsPrefix(p, t) <=> Len(t) >= 2 /\ p = q
  BY <1>1, <1>2 DEF IsPrefix
<1>5. ASSUME Len(t) >= 2 PROVE p = q <=> t[1] = c /\ t[2] = c
  BY <1>3, <1>5
<1> QED
  BY <1>4, <1>5

\* A part that is cut further and further on.
LEMMA CutInThree ==
  ASSUME NEW s, NEW a, NEW e, NEW h, NEW n, Within(s, a, e), Within(s, e, h), Within(s, h, n)
  PROVE  Span(s, a, n) = (Span(s, a, e) \o Span(s, e, h)) \o Span(s, h, n)
<1>2. Within(s, a, h)
  BY DEF Within
<1>3. Span(s, a, n) = Span(s, a, h) \o Span(s, h, n)
  BY <1>2, SpanCut
<1>4. Span(s, a, h) = Span(s, a, e) \o Span(s, e, h)
  BY SpanCut
<1> QED
  BY <1>3, <1>4

\* Where a string ends.
Ends(s, n) == n = Len(s) + 1

\* A part in front of a path: where the path ends, and the query.
LEMMA CutFromPath ==
  ASSUME NEW s \in Seq(Int), NEW r, NEW a, NEW begin, NEW e, NEW h, NEW n,
         PathCut(s, r, begin, e, h), Ends(s, n), Within(s, a, begin)
  PROVE  Span(s, a, n) = (Span(s, a, e) \o Span(s, e, h)) \o Span(s, h, n)
<1>1. /\ Len(s) \in Nat /\ begin \in 1..n /\ e \in begin..n /\ h \in e..n
  BY DEF PathCut, Ends
<1>2. Within(s, a, begin) /\ Within(s, begin, e) /\ Within(s, a, e) /\ Within(s, e, h) /\ Within(s, h, n)
  BY <1>1 DEF Within, Ends
<1> QED
  BY <1>2, CutInThree

\* A part in front of a host.
LEMMA CutFromHost ==
  ASSUME NEW s \in Seq(Int), NEW r, NEW a, NEW begin, NEW he, NEW pe,
         HostCut(s, r, begin, he, pe), Within(s, a, begin)
  PROVE  /\ Span(s, a, pe) = (Span(s, a, begin) \o Span(s, begin, he)) \o Span(s, he, pe)
         /\ Within(s, a, pe)
<1>1. /\ Len(s) \in Nat /\ begin \in 1..Len(s) + 1 /\ he \in begin..Len(s) + 1 /\ pe \in he..Len(s) + 1
  BY DEF HostCut
<1>2. Within(s, a, begin) /\ Within(s, begin, he) /\ Within(s, he, pe) /\ Within(s, a, pe)
  BY <1>1 DEF Within
<1> QED
  BY <1>2, CutInThree

\* What the parts of a URI must satisfy, when rest is what follows its scheme.
AuthorityRest(s, r, rest) ==
  \E user \in With(Text(s, r, "userinfo"), <<>>, <<At>>),
     port \in With(Text(s, r, "port"), <<Colon>>, <<>>),
     search \in With(Text(s, r, "query"), <<Question>>, <<>>),
     anchor \in With(Text(s, r, "fragment"), <<Hash>>, <<>>) :
    rest = <<Slash, Slash>> \o user \o Text(s, r, "host") \o port \o Text(s, r, "path")
             \o search \o anchor
PathRest(s, r, rest) ==
  \E search \in With(Text(s, r, "query"), <<Question>>, <<>>),
     anchor \in With(Text(s, r, "fragment"), <<Hash>>, <<>>) :
    rest = Text(s, r, "path") \o search \o anchor

\* What follows the scheme, when no // does.
LEMMA RestWithoutAuthority ==
  ASSUME NEW s \in Seq(Int), NEW r, NEW begin, NEW n, Ends(s, n), NoAuthorityCut(s, r, begin)
  PROVE  /\ PathRest(s, r, Span(s, begin, n))
         /\ \A name \in {"userinfo", "host", "port"} : Text(s, r, name) = <<>>
         /\ \A c \in {Question, Hash} : ~Contains(Text(s, r, "path"), c)
         /\ Text(s, r, "query") \in Seq(Int) /\ ~Contains(Text(s, r, "query"), Hash)
<1>1. PICK e, h : PathCut(s, r, begin, e, h)
  BY DEF NoAuthorityCut
<1>2. Within(s, begin, begin)
  BY <1>1 DEF PathCut, Within
<1>3. Span(s, begin, n) = (Span(s, begin, e) \o Span(s, e, h)) \o Span(s, h, n)
  BY <1>1, <1>2, CutFromPath
<1>4. /\ Text(s, r, "path") = Span(s, begin, e) /\ Text(s, r, "query") \in Seq(Int)
      /\ Span(s, e, h) \in With(Text(s, r, "query"), <<Question>>, <<>>)
      /\ Span(s, h, n) \in With(Text(s, r, "fragment"), <<Hash>>, <<>>)
      /\ \A c \in {Question, Hash} : ~Contains(Text(s, r, "path"), c)
      /\ ~Contains(Text(s, r, "query"), Hash)
  BY <1>1, PathTexts DEF Ends
<1>5. \A name \in {"userinfo", "host", "port"} : Text(s, r, name) = <<>>
  BY NothingIsEmpty DEF NoAuthorityCut
<1> QED
  BY <1>3, <1>4, <1>5 DEF PathRest

\* What follows the scheme, when // does.
LEMMA RestWithAuthority ==
  ASSUME NEW s \in Seq(Int), NEW r, NEW begin \in Nat \ {0}, NEW n, Ends(s, n),
         Authority(s, begin), AuthorityCut(s, r, begin)
  PROVE  /\ AuthorityRest(s, r, Span(s, begin, n))
         /\ ~Contains(Text(s, r, "userinfo"), At)
         /\ \A c \in {Colon, Slash} : ~Contains(Text(s, r, "host"), c)
         /\ \A c \in ToSet(Text(s, r, "port")) : c \in Digits
         /\ \A c \in {Question, Hash} : ~Contains(Text(s, r, "path"), c)
         /\ Text(s, r, "query") \in Seq(Int) /\ ~Contains(Text(s, r, "query"), Hash)
<1> DEFINE start == begin + 2
           next == begin + 1
           slashes == <<Slash, Slash>>
           slash == <<Slash>>
<1>1. PICK hb, he, pe, e, h :
        UserCut(s, r, start, hb) /\ HostCut(s, r, hb, he, pe) /\ PathCut(s, r, pe, e, h)
  BY DEF AuthorityCut
<1>2. /\ Len(s) \in Nat /\ start \in 1..Len(s) + 1 /\ next \in 1..Len(s) /\ start = next + 1
      /\ s[begin] = Slash /\ s[next] = Slash /\ begin \in 1..start
  BY DEF Authority
<1>3. Within(s, begin, next) /\ Within(s, next, start) /\ Within(s, begin, start) /\ Follows(begin, next)
  BY <1>2 DEF Within, Follows
<1> HIDE DEF start, next, slashes, slash
<1>4. Span(s, begin, start) = slashes
  <2>1. Span(s, begin, start) = One(s, begin) \o Span(s, next, start)
    BY <1>3, SpanBegins
  <2>2. Span(s, next, start) = slash
    <3>1. Span(s, next, next + 1) = <<s[next]>>
      BY <1>2, Spans
    <3> QED
      BY <1>2, <3>1 DEF slash
  <2>3. One(s, begin) = slash
    BY <1>2 DEF One, slash
  <2>4. slash \o slash = slashes
    <3>1. slash \in Seq(Int) /\ Len(slash) = 1 /\ slash[1] = Slash
      BY DEF slash, Slash
    <3>2. slashes \in Seq(Int) /\ Len(slashes) = 2 /\ slashes[1] = Slash /\ slashes[2] = Slash
      BY DEF slashes, Slash
    <3>3. /\ slash \o slash \in Seq(Int) /\ Len(slash \o slash) = Len(slash) + Len(slash)
          /\ \A i \in 1..Len(slash) + Len(slash) :
               (slash \o slash)[i] = IF i <= Len(slash) THEN slash[i] ELSE slash[i - Len(slash)]
      BY <3>1, ConcatProperties
    <3>4. (slash \o slash)[1] = Slash /\ (slash \o slash)[2] = Slash
      BY <3>1, <3>3
    <3> DEFINE both == slash \o slash
    <3>5. both \in Seq(Int) /\ Len(both) = 2 /\ both[1] = Slash /\ both[2] = Slash
      BY <3>1, <3>3, <3>4
    <3> HIDE DEF both
    <3>6. \A i \in 1..2 : both[i] = slashes[i]
      BY <3>2, <3>5
    <3>7. both = slashes
      BY <3>2, <3>5, <3>6, SeqEqual
    <3> QED
      BY <3>7 DEF both
  <2> QED
    BY <2>1, <2>2, <2>3, <2>4
<1>5. hb \in start..Len(s) + 1
  BY <1>1 DEF UserCut
<1>6. Within(s, begin, hb) /\ Within(s, start, hb)
  BY <1>2, <1>5 DEF Within
<1>7. Span(s, begin, hb) = slashes \o Span(s, start, hb)
  <2>1. Span(s, begin, hb) = Span(s, begin, start) \o Span(s, start, hb)
    BY <1>3, <1>6, SpanCut
  <2> QED
    BY <1>4, <2>1
<1>8. Span(s, begin, pe) = (Span(s, begin, hb) \o Span(s, hb, he)) \o Span(s, he, pe)
  BY <1>1, <1>6, CutFromHost
<1>9. Within(s, begin, pe)
  BY <1>1, <1>6, CutFromHost
<1>10. Span(s, begin, n) = (Span(s, begin, e) \o Span(s, e, h)) \o Span(s, h, n)
  BY <1>1, <1>9, CutFromPath
<1>11. Span(s, begin, e) = Span(s, begin, pe) \o Span(s, pe, e)
  <2>1. Within(s, pe, e)
    BY <1>1 DEF PathCut, Within
  <2> QED
    BY <1>9, <2>1, SpanCut
<1>12. /\ Span(s, start, hb) \in With(Text(s, r, "userinfo"), <<>>, <<At>>)
       /\ ~Contains(Text(s, r, "userinfo"), At)
  BY <1>1, UserTexts
<1>13. /\ Text(s, r, "host") = Span(s, hb, he)
       /\ Span(s, he, pe) \in With(Text(s, r, "port"), <<Colon>>, <<>>)
       /\ \A c \in {Colon, Slash} : ~Contains(Text(s, r, "host"), c)
       /\ \A c \in ToSet(Text(s, r, "port")) : c \in Digits
  BY <1>1, HostTexts
<1>14. /\ Text(s, r, "path") = Span(s, pe, e) /\ Text(s, r, "query") \in Seq(Int)
       /\ Span(s, e, h) \in With(Text(s, r, "query"), <<Question>>, <<>>)
       /\ Span(s, h, n) \in With(Text(s, r, "fragment"), <<Hash>>, <<>>)
       /\ \A c \in {Question, Hash} : ~Contains(Text(s, r, "path"), c)
       /\ ~Contains(Text(s, r, "query"), Hash)
  BY <1>1, PathTexts DEF Ends
<1>15. Span(s, begin, n) = slashes \o Span(s, start, hb) \o Text(s, r, "host") \o Span(s, he, pe)
                             \o Text(s, r, "path") \o Span(s, e, h) \o Span(s, h, n)
  BY <1>7, <1>8, <1>10, <1>11, <1>13, <1>14
<1> QED
  BY <1>12, <1>13, <1>14, <1>15 DEF slashes, AuthorityRest

\* The smaller of two lengths.
LEMMA SmallerOfTwo ==
  ASSUME NEW a \in Nat, NEW b \in Nat
  PROVE  Min({a, b}) = IF a <= b THEN a ELSE b
<1> DEFINE S == {a, b}
<1>1. S \subseteq Nat /\ S # {}
  OBVIOUS
<1> HIDE DEF S
<1>2. Min(S) \in S /\ \A x \in S : Min(S) <= x
  BY <1>1, Smallest
<1> QED
  BY <1>2 DEF S

\* compare tells whether two strings are the same.
LEMMA CompareEqual ==
  ASSUME NEW s \in Seq(Int), NEW t \in Seq(Int)
  PROVE  Compare(s, t) = 0 <=> s = t
<1> DEFINE n == Min({Len(s), Len(t)})
           differ == {i \in 1..n : s[i] # t[i]}
<1>1. Len(s) \in Nat /\ Len(t) \in Nat
  OBVIOUS
<1>2. n = IF Len(s) <= Len(t) THEN Len(s) ELSE Len(t)
  BY <1>1, SmallerOfTwo
<1> HIDE DEF n
<1>3. Compare(s, t) = IF differ # {}
                      THEN IF s[Min(differ)] < t[Min(differ)] THEN -1 ELSE 1
                      ELSE CASE Len(s) < Len(t) -> -1
                             [] Len(s) > Len(t) -> 1
                             [] Len(s) = Len(t) -> 0
  BY DEF Compare, n
<1>4. ASSUME s = t PROVE Compare(s, t) = 0
  <2>1. differ = {}
    BY <1>4
  <2> QED
    BY <1>1, <1>3, <1>4, <2>1
<1>5. ASSUME Compare(s, t) = 0 PROVE s = t
  <2>1. differ = {}
    BY <1>3, <1>5
  <2> HIDE DEF differ
  <2>2. Len(s) = Len(t)
    BY <1>1, <1>3, <1>5, <2>1
  <2>3. \A i \in 1..Len(s) : s[i] = t[i]
    BY <1>2, <2>1, <2>2 DEF differ
  <2> QED
    BY <2>2, <2>3, SeqEqual
<1> QED
  BY <1>4, <1>5

\* Comparing the first characters tells whether a string begins with another.
LEMMA CompareIsPrefix ==
  ASSUME NEW x \in Seq(Int), NEW k \in Seq(Int)
  PROVE  CompareAt(x, 0, Len(k), k) = 0 <=> IsPrefix(k, x)
<1> DEFINE n == Len(x)
           l == Len(k)
           m == Min({n, l})
<1>1. n \in Nat /\ l \in Nat /\ SubSeq(k, 1, l) = k /\ SubSeq(x, 1, n) = x
  BY SubSeqFull
<1> HIDE DEF n, l
<1>2. m = IF n <= l THEN n ELSE l
  BY <1>1, SmallerOfTwo
<1>3. Substr(x, 0, l) = SubSeq(x, 1, m)
  <2>1. 0 + l = l /\ 0 + 1 = 1
    BY <1>1
  <2> QED
    BY <2>1 DEF Substr, n
<1> HIDE DEF m
<1>4. SubSeq(x, 1, m) \in Seq(Int)
  <2>1. 1 \in 1..Len(x) + 1 /\ m \in 0..Len(x)
    BY <1>1, <1>2 DEF n
  <2> QED
    BY <2>1, PartIsString
<1>5. CompareAt(x, 0, l, k) = 0 <=> SubSeq(x, 1, m) = k
  BY <1>3, <1>4, CompareEqual DEF CompareAt
<1>6. IsPrefix(k, x) <=> l <= n /\ k = SubSeq(x, 1, l)
  BY <1>1 DEF IsPrefix, l, n
<1>7. CASE l <= n
  <2>1. m = l
    BY <1>1, <1>2, <1>7
  <2> QED
    BY <1>5, <1>6, <1>7, <2>1 DEF l
<1>8. CASE ~(l <= n)
  <2>1. m = n /\ n # l
    BY <1>1, <1>2, <1>8
  <2>2. x # k
    BY <2>1 DEF n, l
  <2> QED
    BY <1>1, <1>5, <1>6, <1>8, <2>1, <2>2 DEF l
<1> QED
  BY <1>7, <1>8

\* The last of some fragments that is in a set.
LastIn(r, H, n) ==
  n \in 1..Len(r) /\ r[n] \in H /\ \A j \in 1..Len(r) : j > n => r[j] \notin H

\* What the loop over the fragments finds, when what it takes of one is g.
Lookup(r, H, g, res) ==
  /\ res[0] = <<>>
  /\ \A n \in 1..Len(r) : res[n] = IF r[n] \in H THEN <<g[n]>> ELSE res[n - 1]

\* It is that of the last.
LEMMA LookupFindsLast ==
  ASSUME NEW r \in Seq(Seq(Int)), NEW H, NEW g, NEW res, Lookup(r, H, g, res)
  PROVE  /\ (\A n \in 1..Len(r) : r[n] \notin H) => res[Len(r)] = <<>>
         /\ \A n \in 1..Len(r) : LastIn(r, H, n) => res[Len(r)] = <<g[n]>>
<1> DEFINE N == Len(r)
           None(k) == \A n \in 1..k : r[n] \notin H
           Only(n, k) == r[n] \in H /\ \A j \in n + 1..k : r[j] \notin H
           Good == {k \in 0..N : /\ None(k) => res[k] = <<>>
                                 /\ \A n \in 1..k : Only(n, k) => res[k] = <<g[n]>>}
<1>1. N \in Nat
  OBVIOUS
<1>2. 0 \in Good
  BY <1>1 DEF Lookup
<1>3. ASSUME NEW k \in 0..N - 1, k \in Good PROVE k + 1 \in Good
  <2>1. k + 1 \in 1..N /\ k + 1 \in 0..N /\ (k + 1) - 1 = k /\ k \in Nat
    BY <1>1
  <2>2. res[k + 1] = IF r[k + 1] \in H THEN <<g[k + 1]>> ELSE res[k]
    BY <2>1 DEF Lookup
  <2>3. None(k + 1) => res[k + 1] = <<>>
    <3> SUFFICES ASSUME None(k + 1) PROVE res[k + 1] = <<>>
      OBVIOUS
    <3>1. r[k + 1] \notin H /\ None(k)
      BY <2>1
    <3> QED
      BY <1>3, <2>2, <3>1
  <2>4. ASSUME NEW n \in 1..k + 1, Only(n, k + 1) PROVE res[k + 1] = <<g[n]>>
    <3>1. CASE n = k + 1
      BY <2>2, <2>4, <3>1
    <3>2. CASE n # k + 1
      <4>1. n \in 1..k /\ r[k + 1] \notin H /\ Only(n, k)
        BY <2>1, <2>4, <3>2
      <4> QED
        BY <1>3, <2>2, <4>1
    <3> QED
      BY <3>1, <3>2
  <2> QED
    BY <2>1, <2>3, <2>4
<1> HIDE DEF Good
<1>4. N \in Good
  <2>1. \A k \in 0..N : k \in Good
    BY <1>1, <1>2, <1>3, Induction
  <2> QED
    BY <1>1, <2>1
<1>5. None(N) => res[N] = <<>>
  BY <1>4 DEF Good
<1>6. ASSUME NEW n \in 1..N, LastIn(r, H, n) PROVE res[N] = <<g[n]>>
  <2>1. Only(n, N)
    BY <1>1, <1>6 DEF LastIn
  <2> QED
    BY <1>4, <2>1 DEF Good
<1> QED
  BY <1>5, <1>6

\* The longest part from a position on without a delimiter, and where those in
\* a set start.
Run(q, d, i) == Span(q, i, FindFirstOf(q, i, {d}))
Occurrences(q, d, H, it) ==
  {i \in it..Len(q) : (i = 1 \/ q[i - 1] = d) /\ Run(q, d, i) \in H}

\* The last of the fragments that is in the set is the one that starts last.
Tells(q, d, H, r, o) ==
  /\ o = {} => \A n \in 1..Len(r) : r[n] \notin H
  /\ \A m \in o : (\A i \in o : i <= m) => \E n \in 1..Len(r) : LastIn(r, H, n) /\ r[n] = Run(q, d, m)

\* It is so with a further fragment in front.
LEMMA TellsOfMore ==
  ASSUME NEW q, NEW d, NEW H, NEW r, NEW o, Tells(q, d, H, r, o), r \in Seq(Seq(Int)),
         NEW it \in Nat, \A i \in o : i \in Nat /\ i > it, Run(q, d, it) \in Seq(Int),
         NEW more, more = <<Run(q, d, it)>> \o r
  PROVE  Tells(q, d, H, more, (IF Run(q, d, it) \in H THEN {it} ELSE {}) \cup o)
<1> DEFINE x == Run(q, d, it)
           first == <<x>>
           p == (IF x \in H THEN {it} ELSE {}) \cup o
           N == Len(r)
<1>1. N \in Nat /\ x \in Seq(Int)
  OBVIOUS
<1> HIDE DEF x
<1>2. first \in Seq(Seq(Int)) /\ Len(first) = 1 /\ first[1] = x
  BY <1>1
<1>3. /\ more \in Seq(Seq(Int)) /\ Len(more) = Len(first) + Len(r)
      /\ \A i \in 1..Len(first) + Len(r) :
           more[i] = IF i <= Len(first) THEN first[i] ELSE r[i - Len(first)]
  <2>1. more = first \o r
    BY DEF x
  <2> HIDE DEF first
  <2> QED
    BY <1>2, <2>1, ConcatProperties
<1> HIDE DEF first
<1>4. Len(more) = N + 1 /\ more[1] = x /\ \A n \in 1..N : n + 1 \in 1..Len(more) /\ more[n + 1] = r[n]
  <2>1. Len(more) = N + 1
    BY <1>1, <1>2, <1>3
  <2>2. more[1] = x
    BY <1>1, <1>2, <1>3
  <2>3. ASSUME NEW n \in 1..N PROVE n + 1 \in 1..Len(more) /\ more[n + 1] = r[n]
    BY <1>1, <1>2, <1>3, <2>1
  <2> QED
    BY <2>1, <2>2, <2>3
<1>5. \A j \in 1..Len(more) : j = 1 \/ (j - 1 \in 1..N /\ more[j] = r[j - 1])
  <2> SUFFICES ASSUME NEW j \in 1..Len(more), j # 1 PROVE j - 1 \in 1..N /\ more[j] = r[j - 1]
    OBVIOUS
  <2>1. j - 1 \in 1..N /\ (j - 1) + 1 = j
    BY <1>1, <1>4
  <2> QED
    BY <1>4, <2>1
<1>6. p = {} => \A n \in 1..Len(more) : more[n] \notin H
  <2> SUFFICES ASSUME p = {} PROVE \A n \in 1..Len(more) : more[n] \notin H
    OBVIOUS
  <2>1. x \notin H /\ o = {}
    OBVIOUS
  <2> QED
    BY <1>4, <1>5, <2>1 DEF Tells
<1>7. ASSUME NEW m \in p, \A i \in p : i <= m
      PROVE  \E n \in 1..Len(more) : LastIn(more, H, n) /\ more[n] = Run(q, d, m)
  <2>1. CASE m \in o
    <3>1. PICK n \in 1..N : LastIn(r, H, n) /\ r[n] = Run(q, d, m)
      BY <1>7, <2>1 DEF Tells
    <3>2. n + 1 \in 1..Len(more) /\ more[n + 1] = r[n]
      BY <1>4
    <3>3. ASSUME NEW j \in 1..Len(more), j > n + 1 PROVE more[j] \notin H
      <4>0. j # 1 /\ j - 1 > n
        BY <1>1, <1>4, <3>3
      <4>1. j - 1 \in 1..N /\ j - 1 > n /\ more[j] = r[j - 1]
        BY <1>5, <4>0
      <4> QED
        BY <3>1, <4>1 DEF LastIn
    <3>4. LastIn(more, H, n + 1)
      BY <3>1, <3>2, <3>3 DEF LastIn
    <3> QED
      BY <3>1, <3>2, <3>4
  <2>2. CASE m \notin o
    <3>1. m = it /\ x \in H
      BY <1>7, <2>2
    <3>2. o = {}
      BY <1>7, <3>1
    <3>3. \A n \in 1..N : r[n] \notin H
      BY <3>2 DEF Tells
    <3>4. 1 \in 1..Len(more) /\ more[1] \in H /\ more[1] = Run(q, d, m)
      BY <1>1, <1>4, <3>1 DEF x
    <3>5. ASSUME NEW j \in 1..Len(more), j > 1 PROVE more[j] \notin H
      BY <1>5, <3>3, <3>5
    <3>6. LastIn(more, H, 1)
      BY <3>4, <3>5 DEF LastIn
    <3> QED
      BY <3>4, <3>6
  <2> QED
    BY <2>1, <2>2
<1>8. Tells(q, d, H, more, p)
  BY <1>6, <1>7 DEF Tells
<1> QED
  BY <1>8 DEF x

\* The fragments of a split.
LEMMA FragmentsTell ==
  ASSUME NEW q \in Seq(Int), NEW d \in Int, NEW H, <<>> \notin H,
         NEW f \in [1..Len(q) + 1 -> Seq(Seq(Int))],
         \A it \in 1..Len(q) + 1 : Unsplit(q, d, f, it)
  PROVE  Tells(q, d, H, f[1], Occurrences(q, d, H, 1))
<1> DEFINE N == Len(q)
           Begins(it) == it = 1 \/ q[it - 1] = d
           Told(it) == Tells(q, d, H, f[it], Occurrences(q, d, H, it))
           Good == {it \in 1..N + 1 : \A j \in it..N + 1 : Begins(j) => Told(j)}
<1>1. N \in Nat /\ \A i \in 1..N : q[i] \in Int
  OBVIOUS
<1>2. ASSUME NEW it \in 1..N + 1, Begins(it), \A j \in it + 1..N + 1 : Begins(j) => Told(j)
      PROVE  Told(it)
  <2> DEFINE cur == FindFirstOf(q, it, {d})
             rest == IF cur > N THEN <<>> ELSE f[cur + 1]
             next == cur + 1
             o == Occurrences(q, d, H, next)
             x == Run(q, d, it)
  <2>1. First(q, it, {d}, cur)
    BY FindsFirst
  <2>2. cur \in it..N + 1 /\ (\A i \in it..cur - 1 : q[i] # d) /\ (cur <= N => q[cur] = d)
    BY <2>1 DEF First
  <2>3. x = Span(q, it, cur) /\ x = SubSeq(q, it, cur - 1)
    BY DEF Run, Span
  <2>4. f[it] = IF cur > N THEN Fragment(q, it, cur) ELSE Fragment(q, it, cur) \o f[cur + 1]
    BY DEF Unsplit
  <2>5. x \in Seq(Int) /\ (it = cur => x = <<>>)
    <3>1. Within(q, it, cur)
      BY <1>1, <2>2 DEF Within
    <3> HIDE DEF cur, x
    <3>2. x \in Seq(Int)
      BY <2>3, <3>1, SpanIsString
    <3>3. it = cur => x = <<>>
      BY <2>3, Spans
    <3> QED
      BY <3>2, <3>3
  <2> HIDE DEF cur, x
  <2>6. Tells(q, d, H, rest, o) /\ rest \in Seq(Seq(Int))
    <3>1. CASE cur > N
      <4>1. o = {} /\ rest = <<>>
        BY <1>1, <2>2, <3>1 DEF Occurrences
      <4>2. <<>> \in Seq(Seq(Int)) /\ Len(<<>>) = 0
        OBVIOUS
      <4> HIDE DEF o, rest
      <4> QED
        BY <4>1, <4>2 DEF Tells
    <3>2. CASE ~(cur > N)
      <4>1. next \in it + 1..N + 1 /\ next - 1 = cur /\ q[cur] = d /\ next \in 1..N + 1
        BY <1>1, <2>2, <3>2
      <4>2. rest = f[next]
        BY <3>2
      <4> HIDE DEF next
      <4>3. Told(next)
        BY <1>2, <4>1
      <4> QED
        BY <4>1, <4>2, <4>3
    <3> QED
      BY <3>1, <3>2
  <2>7. Occurrences(q, d, H, it) = (IF x \in H THEN {it} ELSE {}) \cup o
    <3>1. ASSUME NEW i \in Occurrences(q, d, H, it) PROVE i \in (IF x \in H THEN {it} ELSE {}) \cup o
      <4>1. i \in it..N /\ Begins(i) /\ Run(q, d, i) \in H /\ i \in Nat
        BY <1>1, <3>1 DEF Occurrences
      <4>2. CASE i = it
        BY <4>1, <4>2 DEF x
      <4>3. CASE i # it
        <5>1. i - 1 \in it..N /\ q[i - 1] = d
          BY <1>1, <4>1, <4>3
        <5>2. ~(i - 1 \in it..cur - 1)
          BY <2>2, <5>1
        <5>3. i \in next..N
          BY <1>1, <2>2, <4>1, <5>1, <5>2
        <5> QED
          BY <4>1, <5>3 DEF Occurrences
      <4> QED
        BY <4>2, <4>3
    <3>2. ASSUME NEW i \in o PROVE i \in Occurrences(q, d, H, it)
      <4>1. i \in it..N
        BY <1>1, <2>2, <3>2 DEF Occurrences
      <4> QED
        BY <3>2, <4>1 DEF Occurrences
    <3>3. ASSUME x \in H PROVE it \in Occurrences(q, d, H, it)
      <4>1. it # cur
        BY <2>5, <3>3
      <4>2. it \in it..N
        BY <1>1, <2>2, <4>1
      <4> QED
        BY <1>2, <3>3, <4>2 DEF Occurrences, x
    <3> HIDE DEF o
    <3> QED
      BY <3>1, <3>2, <3>3
  <2>8. \A i \in o : i \in Nat /\ i > it
    BY <1>1, <2>2 DEF Occurrences
  <2>9. CASE it # cur
    <3>1. Fragment(q, it, cur) = <<x>>
      BY <2>3, <2>9 DEF Fragment
    <3> DEFINE first == <<x>>
    <3>2. first \in Seq(Seq(Int))
      BY <2>5
    <3>3. f[it] = first \o rest
      <4> HIDE DEF first
      <4>1. first \o <<>> = first
        BY <3>2, ConcatEmptySeq
      <4>2. Fragment(q, it, cur) = first
        BY <3>1 DEF first
      <4> QED
        BY <2>4, <4>1, <4>2
    <3> HIDE DEF o, rest
    <3>4. f[it] = <<Run(q, d, it)>> \o rest /\ Run(q, d, it) \in Seq(Int) /\ it \in Nat
      BY <1>1, <2>5, <3>3 DEF x
    <3>5. Tells(q, d, H, f[it], (IF Run(q, d, it) \in H THEN {it} ELSE {}) \cup o)
      BY <2>6, <2>8, <3>4, TellsOfMore
    <3> QED
      BY <2>7, <3>5 DEF x
  <2>10. CASE it = cur
    <3>1. x \notin H
      BY <2>5, <2>10
    <3>2. f[it] = rest
      <4>1. Fragment(q, it, cur) = <<>>
        BY <2>10 DEF Fragment
      <4>2. cur <= N => <<>> \o f[cur + 1] = f[cur + 1]
        <5> DEFINE y == f[next]
        <5> SUFFICES ASSUME cur <= N PROVE <<>> \o y = y
          OBVIOUS
        <5>1. next \in 1..N + 1
          BY <1>1, <2>2
        <5>2. y \in Seq(Seq(Int))
          BY <5>1
        <5> HIDE DEF y
        <5> QED
          BY <5>2, ConcatEmptySeq
      <4> QED
        BY <1>1, <2>2, <2>4, <4>1, <4>2
    <3>3. Occurrences(q, d, H, it) = o
      BY <2>7, <3>1
    <3> QED
      BY <2>6, <3>2, <3>3
  <2> QED
    BY <2>9, <2>10
<1> HIDE DEF Told
<1>3. N + 1 \in Good
  <2>1. \A j \in N + 1..N + 1 : j = N + 1
    BY <1>1
  <2>2. Begins(N + 1) => Told(N + 1)
    <3> DEFINE n == N + 1
    <3>1. n \in 1..N + 1 /\ \A j \in n + 1..N + 1 : Begins(j) => Told(j)
      BY <1>1
    <3> HIDE DEF n, Begins
    <3>2. Begins(n) => Told(n)
      BY <1>2, <3>1
    <3> QED
      BY <3>2 DEF n
  <2> QED
    BY <1>1, <2>1, <2>2
<1> HIDE DEF Begins
<1>4. ASSUME NEW it \in 1..N, it + 1 \in Good PROVE it \in Good
  <2>1. it \in 1..N + 1 /\ \A j \in it..N + 1 : j = it \/ j \in it + 1..N + 1
    BY <1>1
  <2>2. \A j \in it + 1..N + 1 : Begins(j) => Told(j)
    BY <1>4
  <2>3. Begins(it) => Told(it)
    BY <1>2, <2>1, <2>2
  <2> QED
    BY <2>1, <2>2, <2>3
<1> HIDE DEF Good
<1>5. \A it \in 1..N + 1 : it \in Good
  BY <1>1, <1>3, <1>4, Backwards
<1>6. Begins(1) => Told(1)
  <2>1. 1 \in Good /\ 1 \in 1..N + 1
    BY <1>1, <1>5
  <2> QED
    BY <2>1 DEF Good
<1> QED
  BY <1>6 DEF Told, Begins

\* The strings that begin with another, and what comes behind it.
Starting(k) == {x \in Seq(Int) : IsPrefix(k, x)}
Behind(k, r) == [n \in 1..Len(r) |-> SubSeq(r[n], Len(k) + 1, Len(r[n]))]

\* get_query_with_key looks its key up in the fragments of the query.
LEMMA KeyIsLookedUp ==
  ASSUME NEW s, NEW key \in Seq(Int), NEW r \in Seq(Seq(Int)),
         r = SplitString(Get(s, "query"), {Ampersand})
  PROVE  \E res : /\ Lookup(r, Starting(Append(key, Equals)), Behind(Append(key, Equals), r), res)
                  /\ GetQueryWithKey(s, key) = res[Len(r)]
<1> DEFINE k == Append(key, Equals)
           N == Len(r)
           L == Len(k)
           H == Starting(k)
           g == Behind(k, r)
           Same(n) == CompareAt(r[n], 0, L, k) = 0
           Value(n) == <<Substr(r[n], L, Len(r[n]))>>
           T == {<<>>} \cup {<<g[n]>> : n \in 1..N}
           Equation(res) ==
             res = [n \in 0..N |-> IF n = 0 THEN <<>> ELSE IF Same(n) THEN Value(n) ELSE res[n - 1]]
           found == CHOOSE res : Equation(res)
           step == [t \in T |-> [n \in 1..N |-> IF r[n] \in H THEN <<g[n]>> ELSE t]]
           start == <<>>
<1>1. GetQueryWithKey(s, key) = found[N]
  BY DEF GetQueryWithKey
<1>2. N \in Nat /\ k \in Seq(Int) /\ L \in Nat /\ \A n \in 1..N : r[n] \in Seq(Int) /\ Len(r[n]) \in Nat
  <2>1. Equals \in Int
    BY DEF Equals
  <2>2. k \in Seq(Int)
    BY <2>1, AppendProperties
  <2> HIDE DEF k
  <2>3. L \in Nat
    BY <2>2
  <2>4. N \in Nat
    OBVIOUS
  <2>5. ASSUME NEW n \in 1..N PROVE r[n] \in Seq(Int) /\ Len(r[n]) \in Nat
    <3> DEFINE U == Seq(Int)
    <3>1. r \in Seq(U) /\ n \in 1..Len(r)
      BY <2>5
    <3> HIDE DEF U
    <3>2. r[n] \in U
      BY <3>1, ElementOfSeq
    <3> QED
      BY <3>2 DEF U
  <2> QED
    BY <2>2, <2>3, <2>4, <2>5
<1> HIDE DEF k, found
<1>3. ASSUME NEW n \in 1..N PROVE (Same(n) <=> r[n] \in H) /\ Value(n) = <<g[n]>>
  <2> DEFINE x == r[n]
  <2>1. x \in Seq(Int) /\ Len(x) \in Nat
    BY <1>2
  <2>2. g[n] = SubSeq(x, L + 1, Len(x))
    BY DEF Behind
  <2> HIDE DEF x, g
  <2>3. CompareAt(x, 0, Len(k), k) = 0 <=> IsPrefix(k, x)
    BY <1>2, <2>1, CompareIsPrefix
  <2>4. Min({Len(x), L + Len(x)}) = Len(x)
    <3> DEFINE a == Len(x)
               b == L + Len(x)
    <3>1. a \in Nat /\ b \in Nat /\ a <= b
      BY <1>2, <2>1
    <3> HIDE DEF a, b
    <3>2. Min({a, b}) = a
      BY <3>1, SmallerOfTwo
    <3> QED
      BY <3>2 DEF a, b
  <2>5. Substr(x, L, Len(x)) = g[n]
    BY <2>2, <2>4 DEF Substr
  <2> QED
    BY <2>1, <2>3, <2>5 DEF x, Starting
<1> HIDE DEF g, H, Same, Value, L
<1>4. Iterative(N, T, start, step)
  BY <1>2 DEF Iterative
<1>5. PICK f \in [0..N -> T] : f = [n \in 0..N |-> IF n = 0 THEN start ELSE step[f[n - 1]][n]]
  <2> HIDE DEF step, start, T, N
  <2> QED
    BY <1>4, Iteration
<1>6. Equation(f)
  <2>1. ASSUME NEW n \in 0..N, n # 0
        PROVE  step[f[n - 1]][n] = IF Same(n) THEN Value(n) ELSE f[n - 1]
    <3>1. n - 1 \in 0..N /\ n \in 1..N
      BY <1>2, <2>1
    <3>2. f[n - 1] \in T
      BY <3>1
    <3>3. step[f[n - 1]][n] = IF r[n] \in H THEN <<g[n]>> ELSE f[n - 1]
      BY <3>1, <3>2
    <3> QED
      BY <1>3, <3>1, <3>3
  <2> QED
    BY <1>5, <2>1
<1>7. Equation(found)
  BY <1>6 DEF found
<1>8. found[0] = <<>>
  BY <1>2, <1>7
<1>9. ASSUME NEW n \in 1..N PROVE found[n] = IF r[n] \in H THEN <<g[n]>> ELSE found[n - 1]
  <2>0. n \in 0..N /\ n # 0
    BY <1>2
  <2>1. found[n] = IF Same(n) THEN Value(n) ELSE found[n - 1]
    BY <1>7, <2>0
  <2> QED
    BY <1>3, <2>1
<1>10. Lookup(r, H, g, found)
  BY <1>8, <1>9 DEF Lookup
<1> QED
  BY <1>1, <1>10 DEF H, g, k

\* The largest of some positions.
LEMMA Largest ==
  ASSUME NEW N \in Nat, NEW S, S \subseteq 1..N, S # {}
  PROVE  Max(S) \in S /\ \A x \in S : x <= Max(S)
<1> DEFINE T == {N - x : x \in S}
<1>1. T \subseteq Nat /\ T # {}
  <2>1. \A x \in S : N - x \in Nat
    OBVIOUS
  <2>2. PICK x \in S : TRUE
    OBVIOUS
  <2>3. N - x \in T
    BY <2>2
  <2> QED
    BY <2>1, <2>3
<1>2. PICK t \in T : \A y \in T : t <= y
  <2> HIDE DEF T
  <2> QED
    BY <1>1, LeastElement
<1>3. PICK m \in S : t = N - m
  BY <1>2
<1>4. \A x \in S : m >= x
  <2> SUFFICES ASSUME NEW x \in S PROVE m >= x
    OBVIOUS
  <2>1. N - m <= N - x /\ m \in Int /\ x \in Int
    BY <1>2, <1>3
  <2> QED
    BY <2>1
<1>5. Max(S) \in S /\ \A x \in S : Max(S) >= x
  BY <1>3, <1>4 DEF Max
<1> QED
  BY <1>5

\* A key is looked up in a query: where it is.
Looked(s, key, q, k, o) ==
  /\ key \in Seq(Int) /\ q \in Seq(Int) /\ q = Get(s, "query")
  /\ k = Append(key, Equals) /\ o = Occurrences(q, Ampersand, Starting(k), 1)

\* What is returned is what follows the last, behind the =.
LEMMA KeyIsFound ==
  ASSUME NEW s, NEW key, NEW q, NEW k, NEW o, Looked(s, key, q, k, o)
  PROVE  /\ o = {} => GetQueryWithKey(s, key) = <<>>
         /\ o # {} => GetQueryWithKey(s, key)
                        = <<SubSeq(Run(q, Ampersand, Max(o)), Len(k) + 1, Len(Run(q, Ampersand, Max(o))))>>
<1> DEFINE H == Starting(k)
           value(x) == SubSeq(x, Len(k) + 1, Len(x))
<1>0. /\ key \in Seq(Int) /\ q \in Seq(Int) /\ q = Get(s, "query")
      /\ k = Append(key, Equals) /\ o = Occurrences(q, Ampersand, Starting(k), 1)
  BY DEF Looked
<1>1. Ampersand \in Int /\ Equals \in Int /\ Len(q) \in Nat
  BY <1>0 DEF Ampersand, Equals
<1>2. PICK f \in [1..Len(q) + 1 -> Seq(Seq(Int))] :
        SplitString(q, {Ampersand}) = f[1] /\ \A it \in 1..Len(q) + 1 : Unsplit(q, Ampersand, f, it)
  BY <1>0, <1>1, SplitUnfolds
<1> DEFINE r == f[1]
<1>3. r \in Seq(Seq(Int)) /\ r = SplitString(Get(s, "query"), {Ampersand})
  <2>1. 1 \in 1..Len(q) + 1
    BY <1>1
  <2> DEFINE U == Seq(Seq(Int))
  <2>2. r \in U
    <3>1. f \in [1..Len(q) + 1 -> U]
      BY <1>2
    <3> HIDE DEF U
    <3> QED
      BY <2>1, <3>1
  <2>3. SplitString(Get(s, "query"), {Ampersand}) = SplitString(q, {Ampersand})
    BY <1>0
  <2> QED
    BY <1>2, <2>2, <2>3
<1>4. <<>> \notin H
  <2>1. Len(k) = Len(key) + 1 /\ Len(key) \in Nat
    BY <1>0, <1>1, AppendProperties
  <2>2. Len(<<>>) = 0
    OBVIOUS
  <2> QED
    BY <2>1, <2>2 DEF Starting, IsPrefix
<1>5. Tells(q, Ampersand, H, r, o)
  <2> HIDE DEF H
  <2> QED
    BY <1>0, <1>1, <1>2, <1>4, FragmentsTell DEF H
<1> HIDE DEF r
<1>6. PICK res : Lookup(r, H, Behind(k, r), res) /\ GetQueryWithKey(s, key) = res[Len(r)]
  BY <1>0, <1>3, KeyIsLookedUp
<1> DEFINE g == Behind(k, r)
<1>7. \A n \in 1..Len(r) : g[n] = value(r[n])
  BY DEF Behind
<1> HIDE DEF H, g
<1>8. /\ (\A n \in 1..Len(r) : r[n] \notin H) => res[Len(r)] = <<>>
      /\ \A n \in 1..Len(r) : LastIn(r, H, n) => res[Len(r)] = <<g[n]>>
  <2>1. Lookup(r, H, g, res)
    BY <1>6 DEF g
  <2> QED
    BY <1>3, <2>1, LookupFindsLast, ZenonT(30)
<1>9. o = {} => GetQueryWithKey(s, key) = <<>>
  BY <1>5, <1>6, <1>8 DEF Tells
<1>10. ASSUME o # {} PROVE GetQueryWithKey(s, key) = <<value(Run(q, Ampersand, Max(o)))>>
  <2>1. o \subseteq 1..Len(q)
    BY <1>0 DEF Occurrences
  <2>2. Max(o) \in o /\ \A i \in o : i <= Max(o)
    BY <1>1, <1>10, <2>1, Largest
  <2>3. PICK n \in 1..Len(r) : LastIn(r, H, n) /\ r[n] = Run(q, Ampersand, Max(o))
    BY <1>5, <2>2 DEF Tells
  <2> QED
    BY <1>6, <1>7, <1>8, <2>3
<1> QED
  BY <1>9, <1>10

\* The end of a part.
LEMMA SpanEnd ==
  ASSUME NEW s, NEW a, NEW b, Within(s, a, b), NEW c \in 0..b - a
  PROVE  SubSeq(Span(s, a, b), c + 1, Len(Span(s, a, b))) = Span(s, a + c, b)
<1> DEFINE x == Span(s, a, b)
           n == Len(x)
           m == a + c
           y == SubSeq(x, c + 1, n)
           z == Span(s, m, b)
<1>1. /\ a \in Nat /\ b \in Nat /\ c \in Nat /\ b - a \in Nat /\ Within(s, m, b) /\ m \in Nat
  BY DEF Within
<1>2. x \in Seq(Int) /\ n = b - a /\ \A i \in 1..b - a : x[i] = s[(a + i) - 1]
  BY SpanIsString
<1>3. z \in Seq(Int) /\ Len(z) = b - m /\ \A i \in 1..b - m : z[i] = s[(m + i) - 1]
  <2>1. Within(s, m, b)
    BY <1>1
  <2> HIDE DEF m
  <2> QED
    BY <2>1, SpanIsString
<1>4. y \in Seq(Int) /\ Len(y) = b - m /\ \A i \in 1..b - m : y[i] = x[c + i]
  <2> DEFINE f == c + 1
  <2>1. f \in 1..Len(x) + 1 /\ n \in 0..Len(x) /\ (n - f) + 1 = b - m /\ (~(f <= n) => b - m = 0)
    BY <1>1, <1>2
  <2>2. \A i \in 1..b - m : (f + i) - 1 = c + i
    BY <1>1
  <2> HIDE DEF f, x, n
  <2>3. /\ SubSeq(x, f, n) \in Seq(Int) /\ Len(SubSeq(x, f, n)) = IF f <= n THEN (n - f) + 1 ELSE 0
        /\ \A i \in 1..(n - f) + 1 : SubSeq(x, f, n)[i] = x[(f + i) - 1]
    BY <1>2, <2>1, PartIsString
  <2> HIDE DEF m
  <2> QED
    BY <2>1, <2>2, <2>3 DEF f
<1>5. ASSUME NEW i \in 1..b - m PROVE y[i] = z[i]
  <2>1. c + i \in 1..b - a /\ (a + (c + i)) - 1 = (m + i) - 1
    BY <1>1
  <2> HIDE DEF x, y, z, m
  <2> QED
    BY <1>2, <1>3, <1>4, <2>1
<1> HIDE DEF y, z
<1>6. y = z
  BY <1>3, <1>4, <1>5, SeqEqual
<1> QED
  BY <1>6 DEF y, z

\* A query in which a key is looked up, and what that must return.
Asked(s, key, q) == key \in Seq(Int) /\ q \in Seq(Int) /\ q = Get(s, "query")
ValueOf(key, q) ==
  LET EndOf(i) == Min({j \in i..Len(q) : q[j] = Ampersand} \cup {Len(q) + 1})
      Occurs(i) == /\ i = 1 \/ q[i - 1] = Ampersand
                   /\ IsPrefix(Append(key, Equals), SubSeq(q, i, EndOf(i) - 1))
      occurrences == {i \in DOMAIN q : Occurs(i)}
      last == Max(occurrences)
  IN  IF occurrences = {} THEN <<>>
      ELSE <<SubSeq(q, last + Len(key) + 1, EndOf(last) - 1)>>

\* What get_query_with_key returns, in terms of the characters of the query.
LEMMA KeyValue ==
  ASSUME NEW s, NEW key, NEW q, Asked(s, key, q)
  PROVE  GetQueryWithKey(s, key) = ValueOf(key, q)
<1> DEFINE EndOf(i) == Min({j \in i..Len(q) : q[j] = Ampersand} \cup {Len(q) + 1})
           Occurs(i) == /\ i = 1 \/ q[i - 1] = Ampersand
                        /\ IsPrefix(Append(key, Equals), SubSeq(q, i, EndOf(i) - 1))
           occurrences == {i \in DOMAIN q : Occurs(i)}
           last == Max(occurrences)
           k == Append(key, Equals)
           o == Occurrences(q, Ampersand, Starting(k), 1)
           run == Run(q, Ampersand, last)
<1>0. key \in Seq(Int) /\ q \in Seq(Int) /\ q = Get(s, "query")
  BY DEF Asked
<1>1. Len(q) \in Nat /\ DOMAIN q = 1..Len(q) /\ Len(key) \in Nat
  BY <1>0
<1>2. k \in Seq(Int) /\ Len(k) = Len(key) + 1
  <2>1. Equals \in Int
    BY DEF Equals
  <2> QED
    BY <1>0, <2>1, AppendProperties
<1>3. \A i : EndOf(i) = FindFirstOf(q, i, {Ampersand})
  BY DEF FindFirstOf
<1> HIDE DEF EndOf, k
<1>4. ASSUME NEW i \in 1..Len(q)
      PROVE  /\ Within(q, i, EndOf(i)) /\ Run(q, Ampersand, i) = Span(q, i, EndOf(i))
             /\ Run(q, Ampersand, i) \in Seq(Int)
  <2>1. First(q, i, {Ampersand}, FindFirstOf(q, i, {Ampersand}))
    BY <1>0, <1>1, FindsFirst
  <2>2. Within(q, i, EndOf(i))
    BY <1>0, <1>1, <1>3, <2>1 DEF First, Within
  <2>3. Run(q, Ampersand, i) = Span(q, i, EndOf(i))
    BY <1>3 DEF Run
  <2>4. Run(q, Ampersand, i) \in Seq(Int)
    BY <2>2, <2>3, SpanIsString
  <2> QED
    BY <2>2, <2>3, <2>4
<1>5. occurrences = o
  <2>1. ASSUME NEW i \in 1..Len(q) PROVE i \in occurrences <=> i \in o
    <3>1. SubSeq(q, i, EndOf(i) - 1) = Run(q, Ampersand, i)
      BY <1>4 DEF Span
    <3>2. Occurs(i) <=> (i = 1 \/ q[i - 1] = Ampersand) /\ Run(q, Ampersand, i) \in Starting(k)
      BY <1>4, <3>1 DEF Starting, k
    <3> QED
      BY <1>1, <3>2 DEF Occurrences
  <2> QED
    BY <1>1, <2>1 DEF Occurrences
<1> HIDE DEF o, occurrences
<1>6. /\ o = {} => GetQueryWithKey(s, key) = <<>>
      /\ o # {} => GetQueryWithKey(s, key)
                     = <<SubSeq(Run(q, Ampersand, Max(o)), Len(k) + 1, Len(Run(q, Ampersand, Max(o))))>>
  <2>1. Looked(s, key, q, k, o)
    BY <1>0 DEF Looked, o, k
  <2> QED
    BY <2>1, KeyIsFound
<1>7. ASSUME o # {} PROVE SubSeq(run, Len(k) + 1, Len(run)) = SubSeq(q, last + Len(key) + 1, EndOf(last) - 1)
  <2>1. last \in 1..Len(q) /\ run \in Starting(k)
    <3>1. o \subseteq 1..Len(q)
      BY DEF o, Occurrences
    <3>2. last \in o
      BY <1>1, <1>5, <1>7, <3>1, Largest
    <3> QED
      BY <3>1, <3>2 DEF o, Occurrences
  <2>2. Within(q, last, EndOf(last)) /\ run = Span(q, last, EndOf(last))
    BY <1>4, <2>1
  <2>3. Len(k) <= Len(run)
    BY <2>1 DEF Starting, IsPrefix
  <2> HIDE DEF last, run
  <2>4. Len(run) = EndOf(last) - last /\ EndOf(last) \in Nat /\ last \in Nat
    BY <2>1, <2>2, SpanIsString DEF Within
  <2> DEFINE c == Len(k)
             end == EndOf(last)
  <2>5. c \in 0..end - last
    BY <1>1, <1>2, <2>3, <2>4
  <2>6. last + c = last + Len(key) + 1
    BY <1>1, <1>2, <2>4
  <2> HIDE DEF c, end
  <2>7. SubSeq(Span(q, last, end), c + 1, Len(Span(q, last, end))) = Span(q, last + c, end)
    BY <2>2, <2>5, SpanEnd DEF end
  <2> QED
    BY <2>2, <2>6, <2>7 DEF c, end, Span
<1>8. GetQueryWithKey(s, key) = IF occurrences = {} THEN <<>>
                                ELSE <<SubSeq(q, last + Len(key) + 1, EndOf(last) - 1)>>
  BY <1>5, <1>6, <1>7
<1> QED
  BY <1>8 DEF ValueOf, occurrences, EndOf

\* A valid URI is its scheme and the rest of it.
LEMMA SchemeTexts ==
  ASSUME NEW s \in Seq(Int), NEW r, NEW colon, SchemeCut(s, r, colon), NEW begin, Follows(colon, begin),
         NEW n, Ends(s, n)
  PROVE  /\ SubSeq(s, Len(Text(s, r, "scheme")) + 2, Len(s)) = Span(s, begin, n)
         /\ s = Text(s, r, "scheme") \o <<Colon>> \o Span(s, begin, n)
         /\ \A c \in ToSet(Text(s, r, "scheme")) : c \in SchemeChars
         /\ Within(s, begin, n)
<1>1. /\ Len(s) \in Nat /\ colon \in 1..Len(s) /\ s[colon] = Colon
      /\ r["scheme"] = View(1, colon) /\ \A i \in 1..colon - 1 : s[i] \in SchemeChars
  BY DEF SchemeCut
<1>2. Within(s, 1, colon) /\ Within(s, colon, begin) /\ Within(s, begin, n) /\ Within(s, 1, n)
  BY <1>1 DEF Within, Follows, Ends
<1>3. Text(s, r, "scheme") = Span(s, 1, colon)
  BY <1>1, ViewIsSpan DEF Text
<1>4. SubSeq(s, Len(Text(s, r, "scheme")) + 2, Len(s)) = Span(s, begin, n)
  <2>1. Len(Span(s, 1, colon)) = colon - 1
    BY <1>2, SpanIsString
  <2>2. Len(Text(s, r, "scheme")) + 2 = begin /\ n - 1 = Len(s)
    BY <1>1, <1>3, <2>1 DEF Follows, Ends
  <2> QED
    BY <2>2 DEF Span
<1>5. Span(s, colon, begin) = <<Colon>>
  BY <1>1, Spans DEF Follows
<1>6. Span(s, 1, n) = s
  BY Spans DEF Ends
<1>7. Span(s, 1, n) = (Span(s, 1, colon) \o Span(s, colon, begin)) \o Span(s, begin, n)
  <2> DEFINE a == 1
  <2>1. Within(s, a, colon) /\ Within(s, colon, begin) /\ Within(s, begin, n)
    BY <1>2
  <2> HIDE DEF a
  <2>2. Span(s, a, n) = (Span(s, a, colon) \o Span(s, colon, begin)) \o Span(s, begin, n)
    BY <2>1, CutInThree
  <2> QED
    BY <2>2 DEF a
<1>8. \A c \in ToSet(Text(s, r, "scheme")) : c \in SchemeChars
  BY <1>1, <1>2, <1>3, SpanAllIn
<1> QED
  BY <1>2, <1>3, <1>4, <1>5, <1>6, <1>7, <1>8

\* Whether what follows the scheme begins with //.
LEMMA BeginsWithSlashes ==
  ASSUME NEW s, NEW begin, NEW n, Within(s, begin, n), Ends(s, n)
  PROVE  IsPrefix(<<Slash, Slash>>, Span(s, begin, n)) <=> Authority(s, begin)
<1> DEFINE t == Span(s, begin, n)
<1>1. /\ t \in Seq(Int) /\ Len(t) = n - begin
      /\ \A i \in 1..n - begin : t[i] = s[(begin + i) - 1]
  BY SpanIsString
<1> HIDE DEF t
<1>2. Len(s) \in Nat /\ begin \in Nat /\ n = Len(s) + 1 /\ Slash \in Int
  BY DEF Within, Ends, Slash
<1>3. IsPrefix(<<Slash, Slash>>, t) <=> Len(t) >= 2 /\ t[1] = Slash /\ t[2] = Slash
  BY <1>1, <1>2, BeginsWithTwo
<1>4. Len(t) >= 2 <=> begin + 1 <= Len(s)
  BY <1>1, <1>2
<1>5. ASSUME Len(t) >= 2 PROVE t[1] = s[begin] /\ t[2] = s[begin + 1]
  <2>1. 1 \in 1..n - begin /\ 2 \in 1..n - begin /\ (begin + 1) - 1 = begin
        /\ (begin + 2) - 1 = begin + 1
    BY <1>1, <1>2, <1>5
  <2> QED
    BY <1>1, <2>1
<1>6. Len(t) >= 2 /\ t[1] = Slash /\ t[2] = Slash <=> Authority(s, begin)
  BY <1>4, <1>5 DEF Authority
<1> QED
  BY <1>3, <1>6 DEF t

\* What no part may hold.
CleanParts(s, r) ==
  /\ \A c \in {At} : ~Contains(Text(s, r, "userinfo"), c)
  /\ \A c \in {Colon, Slash} : ~Contains(Text(s, r, "host"), c)
  /\ \A c \in {Question, Hash} : ~Contains(Text(s, r, "path"), c)
  /\ \A c \in {Hash} : ~Contains(Text(s, r, "query"), c)
  /\ \A c \in ToSet(Text(s, r, "scheme")) : c \in SchemeChars
  /\ \A c \in ToSet(Text(s, r, "port")) : c \in Digits

RestOf(s, r, rest) == rest = SubSeq(s, Len(Text(s, r, "scheme")) + 2, Len(s))

\* The parts of a valid URI, put together again, are the URI.
LEMMA UriReassembles ==
  ASSUME NEW s \in Seq(Int), ParseUri(s).valid, NEW r, r = ParseUri(s).parts,
         NEW rest, RestOf(s, r, rest)
  PROVE  /\ s = Text(s, r, "scheme") \o <<Colon>> \o rest
         /\ IsPrefix(<<Slash, Slash>>, rest) => AuthorityRest(s, r, rest)
         /\ ~IsPrefix(<<Slash, Slash>>, rest) => PathRest(s, r, rest)
         /\ CleanParts(s, r) /\ Text(s, r, "query") \in Seq(Int)
<1> DEFINE n == Len(s) + 1
<1>1. PICK colon, begin :
        /\ SchemeCut(s, r, colon) /\ begin = colon + 1
        /\ Authority(s, begin) => AuthorityCut(s, r, begin)
        /\ ~Authority(s, begin) => NoAuthorityCut(s, r, begin)
  BY UriIsCut
<1>2. Follows(colon, begin) /\ Ends(s, n) /\ begin \in Nat \ {0} /\ Len(s) \in Nat
  BY <1>1 DEF Follows, Ends, SchemeCut
<1> HIDE DEF n
<1>3. /\ rest = Span(s, begin, n) /\ Within(s, begin, n)
      /\ s = Text(s, r, "scheme") \o <<Colon>> \o Span(s, begin, n)
      /\ \A c \in ToSet(Text(s, r, "scheme")) : c \in SchemeChars
  <2>1. SchemeCut(s, r, colon)
    BY <1>1
  <2> QED
    BY <1>2, <2>1, SchemeTexts DEF RestOf
<1>4. IsPrefix(<<Slash, Slash>>, rest) <=> Authority(s, begin)
  BY <1>2, <1>3, BeginsWithSlashes
<1> DEFINE text == s = Text(s, r, "scheme") \o <<Colon>> \o rest
<1>5. text
  BY <1>3
<1> HIDE DEF text
<1>6. CASE Authority(s, begin)
  <2>1. AuthorityCut(s, r, begin)
    BY <1>1, <1>6
  <2>2. /\ AuthorityRest(s, r, Span(s, begin, n))
        /\ ~Contains(Text(s, r, "userinfo"), At)
        /\ \A c \in {Colon, Slash} : ~Contains(Text(s, r, "host"), c)
        /\ \A c \in ToSet(Text(s, r, "port")) : c \in Digits
        /\ \A c \in {Question, Hash} : ~Contains(Text(s, r, "path"), c)
        /\ Text(s, r, "query") \in Seq(Int) /\ ~Contains(Text(s, r, "query"), Hash)
    BY <1>2, <1>6, <2>1, RestWithAuthority
  <2>3. CleanParts(s, r)
    BY <1>3, <2>2 DEF CleanParts
  <2>4. AuthorityRest(s, r, rest)
    BY <1>3, <2>2
  <2> QED
    BY <1>4, <1>5, <1>6, <2>2, <2>3, <2>4 DEF text
<1>7. CASE ~Authority(s, begin)
  <2>1. NoAuthorityCut(s, r, begin)
    BY <1>1, <1>7
  <2>2. /\ PathRest(s, r, Span(s, begin, n))
        /\ \A name \in {"userinfo", "host", "port"} : Text(s, r, name) = <<>>
        /\ \A c \in {Question, Hash} : ~Contains(Text(s, r, "path"), c)
        /\ Text(s, r, "query") \in Seq(Int) /\ ~Contains(Text(s, r, "query"), Hash)
    BY <1>2, <2>1, RestWithoutAuthority
  <2>3. (\A c : ~Contains(<<>>, c)) /\ ToSet(<<>>) = {}
    BY DEF Contains, ToSet
  <2>4. CleanParts(s, r)
    BY <1>3, <2>2, <2>3 DEF CleanParts
  <2>5. PathRest(s, r, rest)
    BY <1>3, <2>2
  <2> QED
    BY <1>4, <1>5, <1>7, <2>2, <2>4, <2>5 DEF text
<1> QED
  BY <1>6, <1>7

(* The codec of base 64. *)

\* The bit of a number that has the weight p.
LEMMA BitOfNumber ==
  ASSUME NEW v \in Nat, NEW p \in Nat \ {0}
  PROVE  (v \div p) % 2 \in 0..1
<1> DEFINE q == v \div p
<1>1. q \in Nat
  BY Division
<1> HIDE DEF q
<1>2. q % 2 \in 0..1
  BY <1>1
<1> QED
  BY <1>2 DEF q

\* The weights of the bits.
LEMMA Weights ==
  /\ Weight[1] = 1 /\ Weight[2] = 2 /\ Weight[3] = 4 /\ Weight[4] = 8
  /\ Weight[5] = 16 /\ Weight[6] = 32 /\ Weight[7] = 64 /\ Weight[8] = 128
  /\ \A k \in 1..8 : Weight[k] \in Nat \ {0}
<1>1. /\ Weight[1] = 1 /\ Weight[2] = 2 /\ Weight[3] = 4 /\ Weight[4] = 8
      /\ Weight[5] = 16 /\ Weight[6] = 32 /\ Weight[7] = 64 /\ Weight[8] = 128
  BY DEF Weight
<1>2. \A k \in 1..8 : k = 1 \/ k = 2 \/ k = 3 \/ k = 4 \/ k = 5 \/ k = 6 \/ k = 7 \/ k = 8
  OBVIOUS
<1>3. \A k \in 1..8 : Weight[k] \in Nat \ {0}
  BY <1>1, <1>2
<1> QED
  BY <1>1, <1>3

\* A bit is 0 or 1.
LEMMA BitIsBit ==
  ASSUME NEW s \in Seq(Nat), NEW w \in {6, 8}, NEW k \in Nat
  PROVE  Bit(s, w, k) \in 0..1
<1> DEFINE a == k \div w
           c == k % w
           v == s[a + 1]
           p == Weight[w - c]
<1>1. a \in Nat /\ c \in Nat /\ c < w
  BY Division
<1>2. Bit(s, w, k) = IF a < Len(s) THEN (v \div p) % 2 ELSE 0
  BY DEF Bit
<1> HIDE DEF a, c
<1>3. w - c \in 1..8
  BY <1>1
<1>4. p \in Nat \ {0}
  BY <1>3, Weights
<1>5. a < Len(s) => v \in Nat
  BY <1>1, Characters
<1> HIDE DEF v, p
<1>6. v \in Nat => (v \div p) % 2 \in 0..1
  BY <1>4, BitOfNumber
<1> QED
  BY <1>2, <1>5, <1>6

\* The bits of a unit, the first one with the highest weight.
UnitOf(x, from, w, k, u) ==
  u[0] = 0 /\ \A b \in 1..w : u[b] = 2 * u[b - 1] + Bit(x, from, k + (b - 1))

\* A unit is made bit by bit.
LEMMA Units ==
  ASSUME NEW x \in Seq(Nat), NEW from \in {6, 8}, NEW w \in {6, 8},
         NEW count, NEW i \in 1..count, NEW k \in Nat, k = (i - 1) * w
  PROVE  \E u : TransformWidth(x, from, w, count)[i] = u[w] /\ UnitOf(x, from, w, k, u)
<1> DEFINE digit == [b \in 1..w |-> Bit(x, from, k + (b - 1))]
           Equation(u) == u = [b \in 0..w |-> IF b = 0 THEN 0 ELSE 2 * u[b - 1] + Bit(x, from, (i - 1) * w + b - 1)]
           unit == CHOOSE u : Equation(u)
           step == [v \in Nat |-> [b \in 1..w |-> 2 * v + digit[b]]]
<1>1. TransformWidth(x, from, w, count)[i] = unit[w]
  BY DEF TransformWidth
<1>2. w \in Nat /\ \A b \in 1..w : (i - 1) * w + b - 1 = k + (b - 1)
  <2> DEFINE m == (i - 1) * w
  <2>1. m = k
    OBVIOUS
  <2> HIDE DEF m
  <2>2. \A b \in 1..w : m + b - 1 = k + (b - 1)
    BY <2>1
  <2> QED
    BY <2>2 DEF m
<1>3. digit \in [1..w -> Nat]
  <2>1. ASSUME NEW b \in 1..w PROVE Bit(x, from, k + (b - 1)) \in Nat
    <3>1. k + (b - 1) \in Nat
      OBVIOUS
    <3>2. Bit(x, from, k + (b - 1)) \in 0..1
      BY <3>1, BitIsBit
    <3> QED
      BY <3>2
  <2> QED
    BY <2>1
<1>4. \A b \in 1..w : digit[b] = Bit(x, from, (i - 1) * w + b - 1)
  BY <1>2
<1> HIDE DEF digit
<1>5. Iterative(w, Nat, 0, step)
  BY <1>2, <1>3 DEF Iterative
<1>6. PICK u \in [0..w -> Nat] : u[0] = 0 /\ \A n \in 1..w : u[n] = step[u[n - 1]][n]
  <2> DEFINE T == Nat
             W == w
             start == 0
  <2> HIDE DEF step, T, W, start
  <2>1. Iterative(W, T, start, step)
    BY <1>5 DEF T, W, start
  <2>2. \E u \in [0..W -> T] : u[0] = start /\ \A n \in 1..W : u[n] = step[u[n - 1]][n]
    BY <2>1, Chain
  <2> QED
    BY <2>2 DEF T, W, start
<1>7. Equation(u)
  <2>1. ASSUME NEW b \in 0..w, b # 0
        PROVE  u[b] = 2 * u[b - 1] + Bit(x, from, (i - 1) * w + b - 1)
    <3>1. b \in 1..w /\ b - 1 \in 0..w
      BY <1>2, <2>1
    <3>2. u[b - 1] \in Nat
      BY <1>6, <3>1
    <3>3. step[u[b - 1]][b] = 2 * u[b - 1] + digit[b]
      BY <3>1, <3>2
    <3>4. u[b] = step[u[b - 1]][b]
      BY <1>6, <3>1
    <3> QED
      BY <1>4, <3>1, <3>3, <3>4
  <2> HIDE DEF step
  <2>2. \A b \in 0..w : u[b] = IF b = 0 THEN 0 ELSE 2 * u[b - 1] + Bit(x, from, (i - 1) * w + b - 1)
    BY <1>6, <2>1
  <2> QED
    BY <1>6, <2>2
<1>8. Equation(unit)
  BY <1>7
<1> HIDE DEF unit
<1>9. unit = [b \in 0..w |-> IF b = 0 THEN 0 ELSE 2 * unit[b - 1] + Bit(x, from, (i - 1) * w + b - 1)]
  BY <1>8
<1>10. UnitOf(x, from, w, k, unit)
  <2>1. unit[0] = 0
    BY <1>2, <1>9
  <2>2. ASSUME NEW b \in 1..w PROVE unit[b] = 2 * unit[b - 1] + Bit(x, from, k + (b - 1))
    <3>1. b \in 0..w /\ b # 0
      BY <1>2
    <3>2. unit[b] = 2 * unit[b - 1] + Bit(x, from, (i - 1) * w + b - 1)
      BY <1>9, <3>1
    <3> QED
      BY <1>2, <3>2
  <2> QED
    BY <2>1, <2>2 DEF UnitOf
<1> QED
  BY <1>1, <1>10

\* A sextet in bits.
LEMMA SixBits ==
  ASSUME NEW x \in Seq(Nat), NEW count, NEW i \in 1..count, NEW k \in Nat, k = (i - 1) * 6
  PROVE  TransformWidth(x, 8, 6, count)[i] =
           32 * Bit(x, 8, k) + 16 * Bit(x, 8, k + 1) + 8 * Bit(x, 8, k + 2)
             + 4 * Bit(x, 8, k + 3) + 2 * Bit(x, 8, k + 4) + Bit(x, 8, k + 5)
<1> DEFINE B(c) == Bit(x, 8, k + c)
<1>1. PICK u : TransformWidth(x, 8, 6, count)[i] = u[6] /\ UnitOf(x, 8, 6, k, u)
  BY Units
<1>2. u[0] = 0 /\ \A b \in 1..6 : u[b] = 2 * u[b - 1] + B(b - 1)
  BY <1>1 DEF UnitOf
<1>3. \A c \in 0..5 : B(c) \in 0..1
  <2> SUFFICES ASSUME NEW c \in 0..5 PROVE B(c) \in 0..1
    OBVIOUS
  <2>1. k + c \in Nat
    OBVIOUS
  <2> QED
    BY <2>1, BitIsBit
<1>4. Bit(x, 8, k) = B(0)
  BY k + 0 = k
<1> HIDE DEF B
<1>5. /\ u[1] = 2 * u[0] + B(0) /\ u[2] = 2 * u[1] + B(1) /\ u[3] = 2 * u[2] + B(2)
      /\ u[4] = 2 * u[3] + B(3) /\ u[5] = 2 * u[4] + B(4) /\ u[6] = 2 * u[5] + B(5)
  BY <1>2
<1>6. B(0) \in Nat /\ B(1) \in Nat /\ B(2) \in Nat /\ B(3) \in Nat /\ B(4) \in Nat /\ B(5) \in Nat
  BY <1>3
<1>7. u[6] = 32 * B(0) + 16 * B(1) + 8 * B(2) + 4 * B(3) + 2 * B(4) + B(5)
  <2>0. PICK b0 \in Nat : b0 = B(0)
    BY <1>6
  <2>1. PICK b1 \in Nat : b1 = B(1)
    BY <1>6
  <2>2. PICK b2 \in Nat : b2 = B(2)
    BY <1>6
  <2>3. PICK b3 \in Nat : b3 = B(3)
    BY <1>6
  <2>4. PICK b4 \in Nat : b4 = B(4)
    BY <1>6
  <2>5. PICK b5 \in Nat : b5 = B(5)
    BY <1>6
  <2>6. u[6] = 2 * (2 * (2 * (2 * (2 * (2 * 0 + b0) + b1) + b2) + b3) + b4) + b5
    BY <1>2, <1>5, <2>0, <2>1, <2>2, <2>3, <2>4, <2>5
  <2>7. u[6] = 32 * b0 + 16 * b1 + 8 * b2 + 4 * b3 + 2 * b4 + b5
    <3>1. 2 * (2 * (2 * (2 * (2 * (2 * 0 + b0) + b1) + b2) + b3) + b4) + b5
            = 32 * b0 + 16 * b1 + 8 * b2 + 4 * b3 + 2 * b4 + b5
      OBVIOUS
    <3> QED
      BY <2>6, <3>1
  <2> QED
    BY <2>0, <2>1, <2>2, <2>3, <2>4, <2>5, <2>7
<1> QED
  BY <1>1, <1>4, <1>7 DEF B

\* A byte in bits.
LEMMA EightBits ==
  ASSUME NEW x \in Seq(Nat), NEW count, NEW i \in 1..count, NEW k \in Nat, k = (i - 1) * 8
  PROVE  TransformWidth(x, 6, 8, count)[i] =
           128 * Bit(x, 6, k) + 64 * Bit(x, 6, k + 1) + 32 * Bit(x, 6, k + 2) + 16 * Bit(x, 6, k + 3)
             + 8 * Bit(x, 6, k + 4) + 4 * Bit(x, 6, k + 5) + 2 * Bit(x, 6, k + 6) + Bit(x, 6, k + 7)
<1> DEFINE B(c) == Bit(x, 6, k + c)
<1>1. PICK u : TransformWidth(x, 6, 8, count)[i] = u[8] /\ UnitOf(x, 6, 8, k, u)
  BY Units
<1>2. u[0] = 0 /\ \A b \in 1..8 : u[b] = 2 * u[b - 1] + B(b - 1)
  BY <1>1 DEF UnitOf
<1>3. \A c \in 0..7 : B(c) \in 0..1
  <2> SUFFICES ASSUME NEW c \in 0..7 PROVE B(c) \in 0..1
    OBVIOUS
  <2>1. k + c \in Nat
    OBVIOUS
  <2> QED
    BY <2>1, BitIsBit
<1>4. Bit(x, 6, k) = B(0)
  BY k + 0 = k
<1> HIDE DEF B
<1>5. /\ u[1] = 2 * u[0] + B(0) /\ u[2] = 2 * u[1] + B(1) /\ u[3] = 2 * u[2] + B(2)
      /\ u[4] = 2 * u[3] + B(3) /\ u[5] = 2 * u[4] + B(4) /\ u[6] = 2 * u[5] + B(5)
      /\ u[7] = 2 * u[6] + B(6) /\ u[8] = 2 * u[7] + B(7)
  BY <1>2
<1>6. /\ B(0) \in Nat /\ B(1) \in Nat /\ B(2) \in Nat /\ B(3) \in Nat
      /\ B(4) \in Nat /\ B(5) \in Nat /\ B(6) \in Nat /\ B(7) \in Nat
  BY <1>3
<1>7. u[8] = 128 * B(0) + 64 * B(1) + 32 * B(2) + 16 * B(3) + 8 * B(4) + 4 * B(5) + 2 * B(6) + B(7)
  <2>0. PICK b0 \in Nat : b0 = B(0)
    BY <1>6
  <2>1. PICK b1 \in Nat : b1 = B(1)
    BY <1>6
  <2>2. PICK b2 \in Nat : b2 = B(2)
    BY <1>6
  <2>3. PICK b3 \in Nat : b3 = B(3)
    BY <1>6
  <2>4. PICK b4 \in Nat : b4 = B(4)
    BY <1>6
  <2>5. PICK b5 \in Nat : b5 = B(5)
    BY <1>6
  <2>6. PICK b6 \in Nat : b6 = B(6)
    BY <1>6
  <2>7. PICK b7 \in Nat : b7 = B(7)
    BY <1>6
  <2>8. u[8] = 2 * (2 * (2 * (2 * (2 * (2 * (2 * (2 * 0 + b0) + b1) + b2) + b3) + b4) + b5) + b6) + b7
    BY <1>2, <1>5, <2>0, <2>1, <2>2, <2>3, <2>4, <2>5, <2>6, <2>7
  <2>9. u[8] = 128 * b0 + 64 * b1 + 32 * b2 + 16 * b3 + 8 * b4 + 4 * b5 + 2 * b6 + b7
    <3>1. 2 * (2 * (2 * (2 * (2 * (2 * (2 * (2 * 0 + b0) + b1) + b2) + b3) + b4) + b5) + b6) + b7
            = 128 * b0 + 64 * b1 + 32 * b2 + 16 * b3 + 8 * b4 + 4 * b5 + 2 * b6 + b7
      OBVIOUS
    <3> QED
      BY <2>8, <3>1
  <2> QED
    BY <2>0, <2>1, <2>2, <2>3, <2>4, <2>5, <2>6, <2>7, <2>9
<1> QED
  BY <1>1, <1>4, <1>7 DEF B

\* A byte is made of its bits.
LEMMA BitsOfByte ==
  ASSUME NEW v \in 0..255
  PROVE  v = 128 * ((v \div 128) % 2) + 64 * ((v \div 64) % 2) + 32 * ((v \div 32) % 2) + 16 * ((v \div 16) % 2)
               + 8 * ((v \div 8) % 2) + 4 * ((v \div 4) % 2) + 2 * ((v \div 2) % 2) + ((v \div 1) % 2)
  OBVIOUS

\* The numbers of sextets and of padding characters, and of the bytes that they hold.
SizesOf(n, count, pad, bytes) ==
  /\ count = (8 * n + 5) \div 6 /\ pad = (3 - (n % 3)) % 3 /\ bytes = (6 * (count + pad)) \div 8

\* Groups of three bytes are groups of four characters.
LEMMA GroupsOfThree ==
  ASSUME NEW n \in Nat, NEW count, NEW pad, NEW bytes, SizesOf(n, count, pad, bytes)
  PROVE  /\ count \in Nat /\ pad \in 0..2 /\ bytes \in Nat /\ (count + pad) % 4 = 0
         /\ 8 * bytes = 6 * (count + pad) /\ 6 * count >= 8 * n /\ bytes >= n
<1> DEFINE q == n \div 3
           r == n % 3
<1>1. q \in Nat /\ r \in 0..2 /\ n = 3 * q + r
  OBVIOUS
<1>2. count = (8 * n + 5) \div 6 /\ pad = (3 - r) % 3 /\ bytes = (6 * (count + pad)) \div 8
  BY DEF SizesOf
<1> HIDE DEF q, r
<1>3. \/ r = 0 /\ count = 4 * q /\ pad = 0
      \/ r = 1 /\ count = 4 * q + 2 /\ pad = 2
      \/ r = 2 /\ count = 4 * q + 3 /\ pad = 1
  <2>1. CASE r = 0
    BY <1>1, <1>2, <2>1
  <2>2. CASE r = 1
    BY <1>1, <1>2, <2>2
  <2>3. CASE r = 2
    BY <1>1, <1>2, <2>3
  <2> QED
    BY <1>1, <2>1, <2>2, <2>3
<1>4. PICK g \in Nat : count + pad = 4 * g /\ 3 * g >= n
  <2>1. CASE r = 0
    <3>1. count + pad = 4 * q /\ 3 * q >= n
      BY <1>1, <1>3, <2>1
    <3> QED
      BY <1>1, <3>1
  <2>2. CASE r # 0
    <3>1. count + pad = 4 * (q + 1) /\ 3 * (q + 1) >= n /\ q + 1 \in Nat
      BY <1>1, <1>3, <2>2
    <3> QED
      BY <3>1
  <2> QED
    BY <2>1, <2>2
<1>5. count \in Nat /\ pad \in 0..2 /\ 6 * count >= 8 * n
  BY <1>1, <1>3
<1>6. bytes = 3 * g
  BY <1>2, <1>4
<1>7. (count + pad) % 4 = 0
  BY <1>4
<1> QED
  BY <1>4, <1>5, <1>6, <1>7

\* The bits of a number are those that it is made of.
LEMMA BitsOfSextet ==
  ASSUME NEW b \in [0..5 -> 0..1], NEW v,
         v = 32 * b[0] + 16 * b[1] + 8 * b[2] + 4 * b[3] + 2 * b[4] + b[5],
         NEW c \in 0..5
  PROVE  (v \div Weight[6 - c]) % 2 = b[c]
<1>0. PICK b0 \in 0..1 : b[0] = b0
  OBVIOUS
<1>1. PICK b1 \in 0..1 : b[1] = b1
  OBVIOUS
<1>2. PICK b2 \in 0..1 : b[2] = b2
  OBVIOUS
<1>3. PICK b3 \in 0..1 : b[3] = b3
  OBVIOUS
<1>4. PICK b4 \in 0..1 : b[4] = b4
  OBVIOUS
<1>5. PICK b5 \in 0..1 : b[5] = b5
  OBVIOUS
<1> DEFINE x == 32 * b0 + 16 * b1 + 8 * b2 + 4 * b3 + 2 * b4 + b5
<1>6. v = x
  BY <1>0, <1>1, <1>2, <1>3, <1>4, <1>5
<1>7. (x \div 32) % 2 = b0
  OBVIOUS
<1>8. (x \div 16) % 2 = b1
  OBVIOUS
<1>9. (x \div 8) % 2 = b2
  OBVIOUS
<1>10. (x \div 4) % 2 = b3
  OBVIOUS
<1>11. (x \div 2) % 2 = b4
  OBVIOUS
<1>12. (x \div 1) % 2 = b5
  OBVIOUS
<1> HIDE DEF x
<1>13. CASE c = 0
  <2>1. 6 - c = 6 /\ Weight[6] = 32
    BY <1>13, Weights
  <2> QED
    BY <1>0, <1>6, <1>7, <1>13, <2>1
<1>14. CASE c = 1
  <2>1. 6 - c = 5 /\ Weight[5] = 16
    BY <1>14, Weights
  <2> QED
    BY <1>1, <1>6, <1>8, <1>14, <2>1
<1>15. CASE c = 2
  <2>1. 6 - c = 4 /\ Weight[4] = 8
    BY <1>15, Weights
  <2> QED
    BY <1>2, <1>6, <1>9, <1>15, <2>1
<1>16. CASE c = 3
  <2>1. 6 - c = 3 /\ Weight[3] = 4
    BY <1>16, Weights
  <2> QED
    BY <1>3, <1>6, <1>10, <1>16, <2>1
<1>17. CASE c = 4
  <2>1. 6 - c = 2 /\ Weight[2] = 2
    BY <1>17, Weights
  <2> QED
    BY <1>4, <1>6, <1>11, <1>17, <2>1
<1>18. CASE c = 5
  <2>1. 6 - c = 1 /\ Weight[1] = 1
    BY <1>18, Weights
  <2> QED
    BY <1>5, <1>6, <1>12, <1>18, <2>1
<1>19. c = 0 \/ c = 1 \/ c = 2 \/ c = 3 \/ c = 4 \/ c = 5
  OBVIOUS
<1> QED
  BY <1>13, <1>14, <1>15, <1>16, <1>17, <1>18, <1>19

\* A sextet of u has the six bits of s from the k-th on.
SextetAt(s, u, a, k, c) ==
  /\ s \in Seq(Nat) /\ u \in Seq(Nat) /\ a \in Nat /\ a < Len(u) /\ k \in Nat /\ k = a * 6 /\ c \in 0..5
  /\ u[a + 1] = 32 * Bit(s, 8, k) + 16 * Bit(s, 8, k + 1) + 8 * Bit(s, 8, k + 2)
                   + 4 * Bit(s, 8, k + 3) + 2 * Bit(s, 8, k + 4) + Bit(s, 8, k + 5)

\* The bits of a sextet are the bits that it is made of.
LEMMA SextetBits ==
  ASSUME NEW s, NEW u, NEW a, NEW k, NEW c, SextetAt(s, u, a, k, c), NEW i, i = k + c
  PROVE  Bit(u, 6, i) = Bit(s, 8, i)
<1>0. /\ s \in Seq(Nat) /\ u \in Seq(Nat) /\ a \in Nat /\ a < Len(u) /\ k \in Nat /\ k = a * 6 /\ c \in 0..5
      /\ u[a + 1] = 32 * Bit(s, 8, k) + 16 * Bit(s, 8, k + 1) + 8 * Bit(s, 8, k + 2)
                       + 4 * Bit(s, 8, k + 3) + 2 * Bit(s, 8, k + 4) + Bit(s, 8, k + 5)
  BY DEF SextetAt
<1> DEFINE B(j) == Bit(s, 8, k + j)
           v == u[a + 1]
<1>1. \A j \in 0..5 : B(j) \in 0..1
  <2> SUFFICES ASSUME NEW j \in 0..5 PROVE B(j) \in 0..1
    OBVIOUS
  <2>1. k + j \in Nat
    BY <1>0
  <2> QED
    BY <1>0, <2>1, BitIsBit
<1>2. v = 32 * B(0) + 16 * B(1) + 8 * B(2) + 4 * B(3) + 2 * B(4) + B(5)
  <2>1. k + 0 = k
    BY <1>0
  <2> QED
    BY <1>0, <2>1
<1>3. (k + c) \div 6 = a /\ (k + c) % 6 = c
  <2> DEFINE m == k + c
             w == 6
  <2>1. m \in Int /\ w \in Nat \ {0} /\ a \in Int /\ c \in Nat /\ c < w /\ m = w * a + c
    BY <1>0, SMTT(30)
  <2> HIDE DEF m, w
  <2>2. m \div w = a /\ m % w = c
    BY <2>1, DivisionIsUnique
  <2> QED
    BY <2>2 DEF m, w
<1>4. Bit(u, 6, i) = (v \div Weight[6 - c]) % 2
  BY <1>0, <1>3 DEF Bit
<1> HIDE DEF B, v
<1> DEFINE b == [j \in 0..5 |-> B(j)]
<1>5. b \in [0..5 -> 0..1] /\ b[c] = B(c)
  BY <1>0, <1>1
<1>6. v = 32 * b[0] + 16 * b[1] + 8 * b[2] + 4 * b[3] + 2 * b[4] + b[5]
  <2>1. b[0] = B(0) /\ b[1] = B(1) /\ b[2] = B(2) /\ b[3] = B(3) /\ b[4] = B(4) /\ b[5] = B(5)
    OBVIOUS
  <2> HIDE DEF b
  <2> QED
    BY <1>2, <2>1
<1> HIDE DEF b
<1>7. (v \div Weight[6 - c]) % 2 = B(c)
  BY <1>0, <1>5, <1>6, BitsOfSextet
<1> QED
  BY <1>0, <1>4, <1>7 DEF B

\* Beyond the end of a string there are no bits.
LEMMA NoBits ==
  ASSUME NEW s \in Seq(Nat), NEW k \in Nat, 8 * Len(s) <= k
  PROVE  Bit(s, 8, k) = 0
<1>1. Len(s) \in Nat
  OBVIOUS
<1>2. ~(k \div 8 < Len(s))
  BY <1>1
<1> QED
  BY <1>2 DEF Bit

\* The bits of a zero are zeros.
LEMMA BitsOfZero ==
  ASSUME NEW u \in Seq(Nat), NEW k \in Nat, k \div 6 < Len(u), u[(k \div 6) + 1] = 0
  PROVE  Bit(u, 6, k) = 0
<1> DEFINE p == Weight[6 - (k % 6)]
<1>1. 6 - (k % 6) \in 1..8
  OBVIOUS
<1>2. p \in Nat \ {0}
  BY <1>1, Weights
<1>3. Bit(u, 6, k) = (0 \div p) % 2
  BY DEF Bit
<1> HIDE DEF p
<1>4. 0 \div p = 0
  <2>1. 0 = p * 0 + 0 /\ 0 < p
    BY <1>2
  <2> QED
    BY <1>2, <2>1, DivisionIsUnique
<1> QED
  BY <1>3, <1>4

\* The bits of a byte are its value.
LEMMA ByteBits ==
  ASSUME NEW s \in Seq(0..255), NEW j \in Nat \ {0}, NEW k \in Nat, k = (j - 1) * 8
  PROVE  128 * Bit(s, 8, k) + 64 * Bit(s, 8, k + 1) + 32 * Bit(s, 8, k + 2) + 16 * Bit(s, 8, k + 3)
             + 8 * Bit(s, 8, k + 4) + 4 * Bit(s, 8, k + 5) + 2 * Bit(s, 8, k + 6) + Bit(s, 8, k + 7)
           = IF j <= Len(s) THEN s[j] ELSE 0
<1> DEFINE B(c) == Bit(s, 8, k + c)
           v == s[j]
           N == Len(s)
<1>1. N \in Nat
  OBVIOUS
<1>2. j <= N => v \in 0..255
  <2> DEFINE S == 0..255
  <2>1. s \in Seq(S)
    OBVIOUS
  <2> HIDE DEF S
  <2>2. j <= N => j \in 1..N
    BY <1>1
  <2>3. \A i \in 1..N : s[i] \in S
    BY <2>1, Characters
  <2> QED
    BY <2>2, <2>3 DEF S
<1>3. \A c \in 0..7 : (k + c) \div 8 = j - 1 /\ (k + c) % 8 = c
  OBVIOUS
<1>4. Bit(s, 8, k) = B(0)
  BY k + 0 = k
<1>5. \A c \in 0..7 : B(c) = IF j - 1 < N THEN (s[(j - 1) + 1] \div Weight[8 - c]) % 2 ELSE 0
  BY <1>3 DEF Bit
<1>6. j - 1 < N <=> j <= N
  BY <1>1
<1>7. s[(j - 1) + 1] = v
  OBVIOUS
<1> SUFFICES 128 * B(0) + 64 * B(1) + 32 * B(2) + 16 * B(3) + 8 * B(4) + 4 * B(5) + 2 * B(6) + B(7)
               = IF j <= N THEN v ELSE 0
  BY <1>4
<1> HIDE DEF B, v, N
<1>8. CASE j <= N
  <2>1. \A c \in 0..7 : B(c) = (v \div Weight[8 - c]) % 2
    BY <1>5, <1>6, <1>7, <1>8
  <2>2. /\ 8 - 0 = 8 /\ 8 - 1 = 7 /\ 8 - 2 = 6 /\ 8 - 3 = 5 /\ 8 - 4 = 4 /\ 8 - 5 = 3 /\ 8 - 6 = 2 /\ 8 - 7 = 1
        /\ 0 \in 0..7 /\ 1 \in 0..7 /\ 2 \in 0..7 /\ 3 \in 0..7 /\ 4 \in 0..7 /\ 5 \in 0..7 /\ 6 \in 0..7 /\ 7 \in 0..7
    OBVIOUS
  <2>3. /\ B(0) = (v \div Weight[8]) % 2 /\ B(1) = (v \div Weight[7]) % 2
        /\ B(2) = (v \div Weight[6]) % 2 /\ B(3) = (v \div Weight[5]) % 2
        /\ B(4) = (v \div Weight[4]) % 2 /\ B(5) = (v \div Weight[3]) % 2
        /\ B(6) = (v \div Weight[2]) % 2 /\ B(7) = (v \div Weight[1]) % 2
    BY <2>1, <2>2
  <2>4. /\ B(0) = (v \div 128) % 2 /\ B(1) = (v \div 64) % 2
        /\ B(2) = (v \div 32) % 2 /\ B(3) = (v \div 16) % 2
        /\ B(4) = (v \div 8) % 2 /\ B(5) = (v \div 4) % 2
        /\ B(6) = (v \div 2) % 2 /\ B(7) = (v \div 1) % 2
    BY <2>3, Weights
  <2>5. v = 128 * ((v \div 128) % 2) + 64 * ((v \div 64) % 2) + 32 * ((v \div 32) % 2) + 16 * ((v \div 16) % 2)
              + 8 * ((v \div 8) % 2) + 4 * ((v \div 4) % 2) + 2 * ((v \div 2) % 2) + ((v \div 1) % 2)
    BY <1>2, <1>8, BitsOfByte
  <2> QED
    BY <1>8, <2>4, <2>5
<1>9. CASE ~(j <= N)
  <2>1. \A c \in 0..7 : B(c) = 0
    BY <1>5, <1>6, <1>9
  <2>2. /\ B(0) = 0 /\ B(1) = 0 /\ B(2) = 0 /\ B(3) = 0 /\ B(4) = 0 /\ B(5) = 0 /\ B(6) = 0 /\ B(7) = 0
    BY <2>1
  <2> QED
    BY <1>9, <2>2
<1> QED
  BY <1>8, <1>9

\* Where the zeros at the end of a string begin.
TrimmedAt(s, m) ==
  m \in 0..Len(s) /\ (\A i \in m + 1..Len(s) : s[i] = 0) /\ (m = 0 \/ s[m] # 0)

\* Nothing is trimmed from a string that does not end with a zero.
LEMMA NothingTrimmed ==
  ASSUME NEW s \in Seq(0..255), s = <<>> \/ Last(s) # 0
  PROVE  TrimRight(s) = s
<1> DEFINE N == Len(s)
           Kept(n) == (\A i \in n + 1..N : s[i] = 0) /\ (n = 0 \/ s[n] # 0)
           kept == CHOOSE n \in 0..N : Kept(n)
<1>1. N \in Nat
  OBVIOUS
<1>2. N = 0 \/ s[N] # 0
  BY DEF Last
<1>3. N \in 0..N /\ Kept(N)
  BY <1>1, <1>2
<1>4. kept \in 0..N /\ Kept(kept)
  BY <1>3
<1> HIDE DEF kept
<1>5. kept = N
  <2> SUFFICES ASSUME kept < N PROVE FALSE
    BY <1>1, <1>4
  <2>1. N \in kept + 1..N /\ N # 0
    BY <1>1, <1>4
  <2> QED
    BY <1>2, <1>4, <2>1
<1>6. TrimRight(s) = SubSeq(s, 1, kept)
  BY DEF TrimRight, kept
<1>7. SubSeq(s, 1, N) = s
  OBVIOUS
<1> QED
  BY <1>5, <1>6, <1>7

\* Zeros at its end are no part of a trimmed string.
LEMMA ZerosAreTrimmed ==
  ASSUME NEW s \in Seq(Nat), NEW z \in Seq(Nat), Len(s) <= Len(z),
         \A j \in 1..Len(z) : z[j] = IF j <= Len(s) THEN s[j] ELSE 0
  PROVE  TrimRight(z) = TrimRight(s)
<1> DEFINE N == Len(s)
           M == Len(z)
           S == {m \in 0..N : \A i \in m + 1..N : s[i] = 0}
           KeptLength(x) == CHOOSE n \in 0..Len(x) : (\A i \in n + 1..Len(x) : x[i] = 0) /\ (n = 0 \/ x[n] # 0)
<1>1. N \in Nat /\ M \in Nat /\ N <= M
  OBVIOUS
<1>2. PICK m \in S : \A y \in S : m <= y
  <2>1. N \in S /\ S \subseteq Nat
    BY <1>1
  <2> HIDE DEF S
  <2> QED
    BY <2>1, LeastElement
<1>3. TrimmedAt(s, m)
  <2>1. m \in 0..N /\ \A i \in m + 1..N : s[i] = 0
    BY <1>2
  <2>2. ASSUME m # 0, s[m] = 0 PROVE FALSE
    <3>1. m - 1 \in 0..N /\ \A i \in (m - 1) + 1..N : i = m \/ i \in m + 1..N
      BY <1>1, <2>1, <2>2
    <3>2. m - 1 \in S
      BY <2>1, <2>2, <3>1
    <3>3. ~(m <= m - 1)
      BY <2>1
    <3> HIDE DEF S
    <3> QED
      BY <1>2, <3>2, <3>3
  <2> QED
    BY <2>1, <2>2 DEF TrimmedAt
<1>4. TrimmedAt(z, m)
  <2>1. m \in 0..M
    BY <1>1, <1>3 DEF TrimmedAt
  <2>2. ASSUME NEW i \in m + 1..M PROVE z[i] = 0
    <3>1. i \in 1..M /\ (i <= N => i \in m + 1..N)
      BY <1>1, <2>1
    <3> QED
      BY <1>3, <3>1 DEF TrimmedAt
  <2>3. m = 0 \/ z[m] # 0
    <3>1. m # 0 => m \in 1..M /\ m <= N
      BY <1>1, <1>3, <2>1 DEF TrimmedAt
    <3> QED
      BY <1>3, <3>1 DEF TrimmedAt
  <2> QED
    BY <2>1, <2>2, <2>3 DEF TrimmedAt
<1>5. ASSUME NEW x \in Seq(Nat), TrimmedAt(x, m) PROVE TrimRight(x) = SubSeq(x, 1, m)
  <2>1. Len(x) \in Nat /\ m \in 0..Len(x)
    BY <1>5 DEF TrimmedAt
  <2>2. KeptLength(x) \in 0..Len(x) /\ (\A i \in KeptLength(x) + 1..Len(x) : x[i] = 0) /\ (KeptLength(x) = 0 \/ x[KeptLength(x)] # 0)
    BY <1>5 DEF TrimmedAt
  <2>3. TrimRight(x) = SubSeq(x, 1, KeptLength(x))
    BY DEF TrimRight
  <2> HIDE DEF KeptLength
  <2>4. ~(KeptLength(x) < m)
    <3> SUFFICES ASSUME KeptLength(x) < m PROVE FALSE
      OBVIOUS
    <3>1. m \in KeptLength(x) + 1..Len(x) /\ m # 0
      BY <2>1, <2>2
    <3> QED
      BY <1>5, <2>2, <3>1 DEF TrimmedAt
  <2>5. ~(m < KeptLength(x))
    <3> SUFFICES ASSUME m < KeptLength(x) PROVE FALSE
      OBVIOUS
    <3>1. KeptLength(x) \in m + 1..Len(x) /\ KeptLength(x) # 0
      BY <2>1, <2>2
    <3> QED
      BY <1>5, <2>2, <3>1 DEF TrimmedAt
  <2>6. KeptLength(x) = m
    BY <2>1, <2>2, <2>4, <2>5
  <2> QED
    BY <2>3, <2>6
<1>6. TrimRight(s) = SubSeq(s, 1, m) /\ TrimRight(z) = SubSeq(z, 1, m)
  BY <1>3, <1>4, <1>5
<1>7. m \in 0..N /\ m \in 0..M
  BY <1>3, <1>4 DEF TrimmedAt
<1>8. ASSUME NEW i \in 1..m PROVE z[i] = s[i]
  <2>1. i \in 1..M /\ i <= N
    BY <1>1, <1>7
  <2> QED
    BY <2>1
<1>9. SubSeq(z, 1, m) = SubSeq(s, 1, m)
  <2> DEFINE T == Nat
             l == SubSeq(s, 1, m)
             r == SubSeq(z, 1, m)
  <2>1. \A i \in 1..m : s[i] \in T /\ z[i] \in T
    BY <1>1, <1>7, Characters, SMTT(30)
  <2>2. m \in Int /\ m \in Nat /\ 1 \in Int /\ (IF 1 <= m THEN m - 1 + 1 ELSE 0) = m /\ m - 1 + 1 = m
        /\ \A i \in 1..m : 1 + i - 1 = i
    BY <1>7
  <2> HIDE DEF T
  <2>3. l \in Seq(T) /\ Len(l) = m /\ \A i \in 1..m : l[i] = s[i]
    <3>1. /\ l \in Seq(T) /\ Len(l) = IF 1 <= m THEN m - 1 + 1 ELSE 0
          /\ \A i \in 1..m - 1 + 1 : l[i] = s[1 + i - 1]
      BY <2>1, <2>2, SubSeqProperties
    <3> HIDE DEF l
    <3> QED
      BY <2>2, <3>1
  <2>4. r \in Seq(T) /\ Len(r) = m /\ \A i \in 1..m : r[i] = z[i]
    <3>1. /\ r \in Seq(T) /\ Len(r) = IF 1 <= m THEN m - 1 + 1 ELSE 0
          /\ \A i \in 1..m - 1 + 1 : r[i] = z[1 + i - 1]
      BY <2>1, <2>2, SubSeqProperties
    <3> HIDE DEF r
    <3> QED
      BY <2>2, <3>1
  <2> HIDE DEF l, r
  <2>5. \A i \in 1..m : r[i] = l[i]
    BY <1>8, <2>3, <2>4
  <2>6. r = l
    BY <2>3, <2>4, <2>5, SeqEqual
  <2> QED
    BY <2>6 DEF l, r
<1> QED
  BY <1>6, <1>9

\* The characters of a string, and none behind it.
PaddedWith(t, E, count, pad, filler) ==
  t \in Seq(Nat) /\ Len(t) = count + pad
  /\ \A i \in 1..count + pad : t[i] = IF i <= count THEN E[i] ELSE filler

\* What the encoder puts together.
LEMMA EncodesTo ==
  ASSUME NEW s \in Seq(0..255), NEW count, NEW pad, NEW bytes, SizesOf(Len(s), count, pad, bytes)
  PROVE  /\ PaddedWith(Encode(s), TransformWidth(s, 8, 6, count), count, pad, Padding)
         /\ \A i \in 1..count : TransformWidth(s, 8, 6, count)[i] \in 0..63
<1> DEFINE E == TransformWidth(s, 8, 6, count)
           fill == [i \in 1..pad |-> Padding]
           S == 0..63
<1>1. Len(s) \in Nat /\ s \in Seq(Nat)
  <2>1. 0..255 \subseteq Nat
    OBVIOUS
  <2> DEFINE T == 0..255
  <2>2. s \in Seq(T)
    OBVIOUS
  <2> HIDE DEF T
  <2>3. Len(s) \in Nat /\ DOMAIN s = 1..Len(s) /\ \A i \in 1..Len(s) : s[i] \in T
    BY <2>2, Characters
  <2> DEFINE U == Nat
             M == Len(s)
  <2>4. \A i \in 1..M : s[i] \in U
    BY <2>1, <2>3 DEF T
  <2>5. s = [i \in 1..M |-> s[i]]
    BY <2>2, <2>3
  <2> HIDE DEF U, M
  <2>6. s \in [1..M -> U]
    BY <2>4, <2>5
  <2>7. s \in Seq(U)
    BY <2>3, <2>6, FunctionIsSequence DEF M
  <2> QED
    BY <2>3, <2>7 DEF U
<1>2. count \in Nat /\ pad \in Nat
  <2>1. count \in Nat /\ pad \in 0..2
    BY <1>1, GroupsOfThree
  <2> QED
    BY <2>1
<1>3. Encode(s) = E \o fill
  BY DEF Encode, SizesOf
<1>4. ASSUME NEW i \in 1..count PROVE E[i] \in S
  <2> DEFINE k == (i - 1) * 6
             B(c) == Bit(s, 8, k + c)
  <2>1. k \in Nat
    BY <1>2
  <2>2. E[i] = 32 * Bit(s, 8, k) + 16 * Bit(s, 8, k + 1) + 8 * Bit(s, 8, k + 2)
                 + 4 * Bit(s, 8, k + 3) + 2 * Bit(s, 8, k + 4) + Bit(s, 8, k + 5)
    <3> HIDE DEF E
    <3> QED
      BY <1>1, <2>1, SixBits DEF E
  <2> HIDE DEF k
  <2>3. \A c \in 0..5 : B(c) \in 0..1
    <3> SUFFICES ASSUME NEW c \in 0..5 PROVE B(c) \in 0..1
      OBVIOUS
    <3>1. k + c \in Nat
      BY <2>1
    <3> QED
      BY <1>1, <3>1, BitIsBit
  <2>4. E[i] = 32 * B(0) + 16 * B(1) + 8 * B(2) + 4 * B(3) + 2 * B(4) + B(5)
    <3>1. k + 0 = k
      BY <2>1
    <3> HIDE DEF E
    <3> QED
      BY <2>2, <3>1
  <2> HIDE DEF E, B
  <2>5. PICK b0 \in 0..1 : b0 = B(0)
    BY <2>3
  <2>6. PICK b1 \in 0..1 : b1 = B(1)
    BY <2>3
  <2>7. PICK b2 \in 0..1 : b2 = B(2)
    BY <2>3
  <2>8. PICK b3 \in 0..1 : b3 = B(3)
    BY <2>3
  <2>9. PICK b4 \in 0..1 : b4 = B(4)
    BY <2>3
  <2>10. PICK b5 \in 0..1 : b5 = B(5)
    BY <2>3
  <2>11. 32 * b0 + 16 * b1 + 8 * b2 + 4 * b3 + 2 * b4 + b5 \in 0..63
    OBVIOUS
  <2> QED
    BY <2>4, <2>5, <2>6, <2>7, <2>8, <2>9, <2>10, <2>11
<1>5. DOMAIN E = 1..count /\ E = [i \in 1..count |-> E[i]]
  BY DEF TransformWidth
<1> HIDE DEF E
<1>6. E \in Seq(Nat) /\ Len(E) = count
  <2>1. S \subseteq Nat
    OBVIOUS
  <2> DEFINE T == Nat
  <2>2. \A i \in 1..count : E[i] \in T
    BY <1>4, <2>1
  <2> HIDE DEF T
  <2>3. E \in [1..count -> T]
    BY <1>5, <2>2
  <2>4. E \in Seq(T) /\ Len(E) = count
    BY <1>2, <2>3, FunctionIsSequence
  <2> QED
    BY <2>4 DEF T
<1>7. fill \in Seq(Nat) /\ Len(fill) = pad /\ \A i \in 1..pad : fill[i] = Padding
  <2> DEFINE T == Nat
  <2>1. Padding \in T
    BY DEF Padding
  <2> HIDE DEF T
  <2>2. fill \in [1..pad -> T]
    BY <2>1
  <2>3. fill \in Seq(T) /\ Len(fill) = pad
    <3> HIDE DEF fill
    <3> QED
      BY <1>2, <2>2, FunctionIsSequence
  <2> QED
    BY <2>3 DEF T
<1> HIDE DEF fill
<1>8. /\ E \o fill \in Seq(Nat) /\ Len(E \o fill) = count + pad
      /\ \A i \in 1..count + pad : (E \o fill)[i] = IF i <= count THEN E[i] ELSE fill[i - count]
  <2> DEFINE T == Nat
  <2>1. E \in Seq(T) /\ fill \in Seq(T)
    BY <1>6, <1>7
  <2> HIDE DEF T
  <2>2. /\ E \o fill \in Seq(T) /\ Len(E \o fill) = Len(E) + Len(fill)
        /\ \A i \in 1..Len(E) + Len(fill) : (E \o fill)[i] = IF i <= Len(E) THEN E[i] ELSE fill[i - Len(E)]
    BY <2>1, ConcatProperties
  <2> QED
    BY <1>6, <1>7, <2>2 DEF T
<1>9. \A i \in 1..count + pad : ~(i <= count) => i - count \in 1..pad
  BY <1>2
<1>10. PaddedWith(Encode(s), E, count, pad, Padding)
  BY <1>3, <1>7, <1>8, <1>9 DEF PaddedWith
<1> QED
  BY <1>4, <1>10 DEF E

\* The decoder reads zeros where the padding is.
LEMMA DecodesFrom ==
  ASSUME NEW t, NEW E, NEW count \in Nat, NEW pad \in Nat, PaddedWith(t, E, count, pad, Padding),
         \A i \in 1..count : E[i] \in 0..63
  PROVE  LET u == [i \in DOMAIN t |-> IF t[i] = Padding THEN 0 ELSE t[i]]
         IN  PaddedWith(u, E, count, pad, 0)
<1> DEFINE u == [i \in DOMAIN t |-> IF t[i] = Padding THEN 0 ELSE t[i]]
           L == count + pad
           T == Nat
<1>1. /\ t \in Seq(T) /\ Len(t) = L /\ L \in Nat
      /\ \A i \in 1..L : t[i] = IF i <= count THEN E[i] ELSE Padding
  BY DEF PaddedWith
<1> HIDE DEF T
<1>2. DOMAIN t = 1..L
  BY <1>1, Characters
<1>3. ASSUME NEW i \in 1..L PROVE u[i] \in T /\ u[i] = IF i <= count THEN E[i] ELSE 0
  <2>1. u[i] = IF t[i] = Padding THEN 0 ELSE t[i]
    BY <1>2
  <2>2. CASE i <= count
    <3>1. t[i] = E[i] /\ E[i] \in 0..63
      BY <1>1, <1>3, <2>2 DEF L
    <3> QED
      BY <2>1, <2>2, <3>1 DEF Padding, T
  <2>3. CASE ~(i <= count)
    BY <1>1, <2>1, <2>3 DEF T
  <2> QED
    BY <2>2, <2>3
<1>4. u \in [1..L -> T]
  BY <1>2, <1>3
<1> HIDE DEF u
<1>5. u \in Seq(T) /\ Len(u) = L
  BY <1>1, <1>4, FunctionIsSequence
<1>6. PaddedWith(u, E, count, pad, 0)
  BY <1>3, <1>5 DEF PaddedWith, T
<1> QED
  BY <1>6 DEF u

\* The bits that the decoder reads are those of the string.
LEMMA BitsKept ==
  ASSUME NEW s \in Seq(Nat), NEW u, NEW E, NEW count, NEW pad, NEW bytes,
         SizesOf(Len(s), count, pad, bytes), PaddedWith(u, E, count, pad, 0),
         E = TransformWidth(s, 8, 6, count), NEW k \in Nat, k < 6 * (count + pad)
  PROVE  Bit(u, 6, k) = Bit(s, 8, k)
<1> DEFINE N == Len(s)
           a == k \div 6
           c == k % 6
           h == a * 6
<1>1. N \in Nat /\ u \in Seq(Nat) /\ Len(u) = count + pad
  BY DEF PaddedWith
<1>2. count \in Nat /\ pad \in Nat /\ 6 * count >= 8 * N
  <2>1. count \in Nat /\ pad \in 0..2 /\ 6 * count >= 8 * N
    BY <1>1, GroupsOfThree
  <2> QED
    BY <2>1
<1>3. a \in Nat /\ c \in 0..5 /\ k = h + c /\ h \in Nat
  OBVIOUS
<1>4. a < count + pad
  <2> HIDE DEF a, c
  <2> QED
    BY <1>2, <1>3 DEF h
<1>5. a + 1 \in 1..count + pad
  BY <1>2, <1>3, <1>4
<1>6. u[a + 1] = IF a + 1 <= count THEN E[a + 1] ELSE 0
  BY <1>5 DEF PaddedWith
<1>7. CASE a + 1 <= count
  <2>1. a + 1 \in 1..count /\ h = ((a + 1) - 1) * 6
    BY <1>5, <1>7
  <2> DEFINE i == a + 1
  <2> HIDE DEF i, h
  <2>2. i \in 1..count /\ h = (i - 1) * 6
    BY <2>1 DEF i
  <2>3. E[i] = 32 * Bit(s, 8, h) + 16 * Bit(s, 8, h + 1) + 8 * Bit(s, 8, h + 2)
                 + 4 * Bit(s, 8, h + 3) + 2 * Bit(s, 8, h + 4) + Bit(s, 8, h + 5)
    BY <1>3, <2>2, SixBits
  <2>4. u[a + 1] = 32 * Bit(s, 8, h) + 16 * Bit(s, 8, h + 1) + 8 * Bit(s, 8, h + 2)
                     + 4 * Bit(s, 8, h + 3) + 2 * Bit(s, 8, h + 4) + Bit(s, 8, h + 5)
    BY <1>6, <1>7, <2>3 DEF i
  <2>5. h = a * 6 /\ a < Len(u)
    BY <1>1, <1>4 DEF h
  <2> HIDE DEF a, c
  <2>6. SextetAt(s, u, a, h, c)
    BY <1>1, <1>3, <2>4, <2>5 DEF SextetAt
  <2> QED
    BY <1>3, <2>6, SextetBits
<1>8. CASE ~(a + 1 <= count)
  <2>1. u[a + 1] = 0 /\ a < Len(u)
    BY <1>1, <1>4, <1>6, <1>8
  <2>2. Bit(u, 6, k) = 0
    BY <1>1, <2>1, BitsOfZero
  <2>3. 8 * N <= k
    <3> HIDE DEF a, c, N
    <3> QED
      BY <1>1, <1>2, <1>3, <1>8 DEF h
  <2>4. Bit(s, 8, k) = 0
    BY <2>3, NoBits
  <2> QED
    BY <2>2, <2>4
<1> QED
  BY <1>7, <1>8

\* base64::decode undoes base64::encode, but for the zero bytes at the end.
LEMMA EncodeUndone ==
  ASSUME NEW s \in Seq(0..255)
  PROVE  /\ Len(Encode(s)) % 4 = 0
         /\ \A i \in DOMAIN Encode(s) : Encode(s)[i] = Padding => i > Len(Encode(s)) - 2
         /\ Decode(Encode(s)) = TrimRight(s)
<1> DEFINE N == Len(s)
           count == (8 * N + 5) \div 6
           pad == (3 - (N % 3)) % 3
           bytes == (6 * (count + pad)) \div 8
           t == Encode(s)
           E == TransformWidth(s, 8, 6, count)
           u == [i \in DOMAIN t |-> IF t[i] = Padding THEN 0 ELSE t[i]]
           z == TransformWidth(u, 6, 8, bytes)
<1>0. SizesOf(N, count, pad, bytes)
  BY DEF SizesOf
<1>1. N \in Nat /\ s \in Seq(Nat)
  <2> DEFINE S == 0..255
             U == Nat
  <2>1. s \in Seq(S) /\ S \subseteq U
    OBVIOUS
  <2> HIDE DEF S, U
  <2>2. N \in Nat /\ DOMAIN s = 1..N /\ \A i \in 1..N : s[i] \in U
    BY <2>1, Characters
  <2>3. s = [i \in 1..N |-> s[i]]
    BY <2>1, <2>2
  <2>4. s \in [1..N -> U]
    BY <2>2, <2>3
  <2>5. s \in Seq(U)
    BY <2>2, <2>4, FunctionIsSequence
  <2> QED
    BY <2>2, <2>5 DEF U
<1> HIDE DEF count, pad, bytes
<1>2. /\ count \in Nat /\ pad \in 0..2 /\ bytes \in Nat /\ (count + pad) % 4 = 0
      /\ 8 * bytes = 6 * (count + pad) /\ 6 * count >= 8 * N /\ bytes >= N
  BY <1>0, <1>1, GroupsOfThree
<1>3. PaddedWith(t, E, count, pad, Padding) /\ \A i \in 1..count : E[i] \in 0..63
  BY <1>0, EncodesTo
<1> HIDE DEF t, E
<1>4. t \in Seq(Nat) /\ Len(t) = count + pad /\ DOMAIN t = 1..count + pad
  <2>1. t \in Seq(Nat) /\ Len(t) = count + pad
    BY <1>3 DEF PaddedWith
  <2> QED
    BY <2>1
<1>5. Len(t) % 4 = 0
  BY <1>2, <1>4
<1>6. ASSUME NEW i \in DOMAIN t, t[i] = Padding PROVE i > Len(t) - 2
  <2>1. i \in 1..count + pad
    BY <1>4
  <2>2. ~(i <= count)
    <3>1. i <= count => t[i] = E[i] /\ i \in 1..count
      BY <1>2, <1>3, <2>1 DEF PaddedWith
    <3>2. Padding \notin 0..63
      BY DEF Padding
    <3> QED
      BY <1>3, <1>6, <3>1, <3>2
  <2> QED
    BY <1>2, <1>4, <2>1, <2>2
<1>7. PaddedWith(u, E, count, pad, 0)
  <2>1. pad \in Nat
    BY <1>2
  <2> QED
    BY <1>2, <1>3, <2>1, DecodesFrom
<1>8. Decode(t) = TrimRight(z)
  BY <1>4 DEF Decode, bytes
<1> HIDE DEF u
<1>9. u \in Seq(Nat)
  BY <1>7 DEF PaddedWith
<1>10. ASSUME NEW j \in 1..bytes PROVE z[j] = IF j <= N THEN s[j] ELSE 0
  <2> DEFINE k == (j - 1) * 8
  <2>1. k \in Nat /\ k + 7 < 6 * (count + pad)
    BY <1>2
  <2>2. z[j] = 128 * Bit(u, 6, k) + 64 * Bit(u, 6, k + 1) + 32 * Bit(u, 6, k + 2) + 16 * Bit(u, 6, k + 3)
                 + 8 * Bit(u, 6, k + 4) + 4 * Bit(u, 6, k + 5) + 2 * Bit(u, 6, k + 6) + Bit(u, 6, k + 7)
    BY <1>9, <2>1, EightBits
  <2> HIDE DEF k, z
  <2>3. ASSUME NEW c \in 0..7 PROVE Bit(u, 6, k + c) = Bit(s, 8, k + c)
    <3> DEFINE i == k + c
    <3>1. i \in Nat /\ i < 6 * (count + pad)
      <4>1. count + pad \in Nat
        BY <1>2
      <4> QED
        BY <2>1, <4>1
    <3> HIDE DEF i
    <3>2. Bit(u, 6, i) = Bit(s, 8, i)
      BY <1>0, <1>1, <1>7, <3>1, BitsKept DEF E
    <3> QED
      BY <3>2 DEF i
  <2>4. k + 0 = k
    BY <2>1
  <2>5. /\ Bit(u, 6, k) = Bit(s, 8, k) /\ Bit(u, 6, k + 1) = Bit(s, 8, k + 1)
        /\ Bit(u, 6, k + 2) = Bit(s, 8, k + 2) /\ Bit(u, 6, k + 3) = Bit(s, 8, k + 3)
        /\ Bit(u, 6, k + 4) = Bit(s, 8, k + 4) /\ Bit(u, 6, k + 5) = Bit(s, 8, k + 5)
        /\ Bit(u, 6, k + 6) = Bit(s, 8, k + 6) /\ Bit(u, 6, k + 7) = Bit(s, 8, k + 7)
    BY <2>3, <2>4
  <2>6. z[j] = 128 * Bit(s, 8, k) + 64 * Bit(s, 8, k + 1) + 32 * Bit(s, 8, k + 2) + 16 * Bit(s, 8, k + 3)
                 + 8 * Bit(s, 8, k + 4) + 4 * Bit(s, 8, k + 5) + 2 * Bit(s, 8, k + 6) + Bit(s, 8, k + 7)
    BY <2>2, <2>5
  <2>7. k = (j - 1) * 8 /\ j \in Nat \ {0}
    BY <1>2 DEF k
  <2> QED
    BY <2>1, <2>6, <2>7, ByteBits
<1>11. ASSUME NEW j \in 1..N PROVE s[j] \in Nat
  BY <1>1
<1>12. z \in Seq(Nat) /\ Len(z) = bytes
  <2> DEFINE T == Nat
  <2>1. \A j \in 1..bytes : z[j] \in T
    <3>1. \A j \in 1..bytes : j <= N => j \in 1..N
      BY <1>1, <1>2
    <3> HIDE DEF z
    <3> QED
      BY <1>10, <1>11, <3>1
  <2>2. z = [j \in 1..bytes |-> z[j]]
    BY DEF TransformWidth
  <2> HIDE DEF z, T
  <2>3. z \in [1..bytes -> T]
    BY <2>1, <2>2
  <2>4. z \in Seq(T) /\ Len(z) = bytes
    BY <1>2, <2>3, FunctionIsSequence
  <2> QED
    BY <2>4 DEF T
<1> HIDE DEF z
<1>13. TrimRight(z) = TrimRight(s)
  BY <1>1, <1>2, <1>10, <1>12, ZerosAreTrimmed
<1> QED
  BY <1>5, <1>6, <1>8, <1>13 DEF t

(* getopts: the two passes over the arguments. *)
Words == STRING \cup {NoValue, "positional"}
Values == [key : Words, value : Words]
Errors == {NoError, "missing value", "invalid value", "invalid option argument", "callback",
           "invalid positional argument", "help", "not supported", "no subcommand"}
Thrown == {"callback", "invalid value"}
Calls(cli) == [handler : DOMAIN cli.handlers, name : Words, value : Values]
Passes(cli) == [error : Errors, calls : Seq(Calls(cli))]
Reached(pass, handler, i) == [pass |-> pass, handler |-> handler, begin_arg |-> i]
PassStates(cli, line) == [pass : Passes(cli), handler : DOMAIN cli.handlers, begin_arg : 1..Len(line) + 1]

\* A pass that fails keeps what it has called.
LEMMA FailedPass ==
  ASSUME NEW cli, NEW pass \in Passes(cli), NEW error \in Errors
  PROVE  /\ Fail(pass, error) \in Passes(cli)
         /\ Fail(pass, error).error = error /\ Fail(pass, error).calls = pass.calls
<1> DEFINE g == Fail(pass, error)
<1>1. g = [pass EXCEPT !.error = error]
  BY DEF Fail
<1> HIDE DEF g
<1>2. g = [error |-> error, calls |-> pass.calls]
  BY <1>1 DEF Passes
<1>3. g \in Passes(cli)
  BY <1>2 DEF Passes
<1> QED
  BY <1>2, <1>3 DEF g

\* A callback is called, or throws.
LEMMA CalledBack ==
  ASSUME NEW cli, NEW pass \in Passes(cli), NEW cb \in Calls(cli),
         NEW error \in Errors
  PROVE  LET g == Callback(cli, pass, TRUE, cb, error)
         IN  /\ g \in Passes(cli)
             /\ \/ cli.throwing # {} /\ g.error = error /\ g.calls = pass.calls
                \/ g.error = pass.error /\ g.calls = Append(pass.calls, cb)
<1> DEFINE g == Callback(cli, pass, TRUE, cb, error)
           h == [pass EXCEPT !.calls = Append(@, cb)]
           throws == [handler |-> cb.handler, name |-> cb.name] \in cli.throwing
<1>1. g = IF throws THEN Fail(pass, error) ELSE h
  BY DEF Callback
<1>2. throws => cli.throwing # {}
  OBVIOUS
<1>3. pass.calls \in Seq(Calls(cli))
  BY DEF Passes
<1>4. Append(pass.calls, cb) \in Seq(Calls(cli))
  BY <1>3
<1>5. h = [error |-> pass.error, calls |-> Append(pass.calls, cb)]
  <2> DEFINE longer == Append(pass.calls, cb)
             k == h
  <2>1. k = [pass EXCEPT !.calls = longer]
    OBVIOUS
  <2> HIDE DEF longer, k
  <2>2. k = [error |-> pass.error, calls |-> longer]
    BY <2>1 DEF Passes
  <2> QED
    BY <2>2 DEF longer, k
<1> HIDE DEF h, g, throws
<1>6. h \in Passes(cli) /\ h.error = pass.error /\ h.calls = Append(pass.calls, cb)
  BY <1>4, <1>5 DEF Passes
<1>7. /\ g \in Passes(cli)
      /\ \/ cli.throwing # {} /\ g.error = error /\ g.calls = pass.calls
         \/ g.error = pass.error /\ g.calls = Append(pass.calls, cb)
  <2>1. CASE throws
    BY <1>1, <1>2, <2>1, FailedPass
  <2>2. CASE ~throws
    BY <1>1, <1>6, <2>2
  <2> QED
    BY <2>1, <2>2
<1> QED
  BY <1>7 DEF g

\* What a step does, as far as both passes agree about it.
Refused(cli, line, h, i) ==
  \E error \in Errors, next \in 1..Len(line) + 1 :
    /\ error # NoError
    /\ \A p \in Passes(cli), call \in BOOLEAN :
         p.error = NoError => Proceed(cli, call, line, p, h, i) = Reached(Fail(p, error), h, next)
Skipped(cli, line, h, i) ==
  /\ line[i] = EndOfArguments
  /\ \A p \in Passes(cli), call \in BOOLEAN :
       p.error = NoError => Proceed(cli, call, line, p, h, i) = Reached(p, h, i + 1)
Handed(cli, line, h, i) ==
  /\ line[i] # EndOfArguments
  /\ \E cb \in Calls(cli), error \in Thrown,
        in \in DOMAIN cli.handlers, next \in i + 1..Len(line) + 1 :
       /\ AsksFor(cli, line, h, i, cb, in, next)
       /\ \A p \in Passes(cli), call \in BOOLEAN :
            p.error = NoError =>
              Proceed(cli, call, line, p, h, i) = Reached(Callback(cli, p, call, cb, error), in, next)
Unhandled(cli, line, h, i) ==
  \A p \in Passes(cli), call \in BOOLEAN :
    p.error = NoError =>
      Proceed(cli, call, line, p, h, i)
        = Reached(IF call THEN Fail(p, "invalid positional argument") ELSE p, h, i + 1)

\* The first that fits is the one with the smallest number.
LEMMA FirstOfSome ==
  ASSUME NEW S, S \subseteq Nat, S # {}
  PROVE  Min(S) \in S
<1>1. \E x \in S : \A y \in S : x <= y
  BY LeastElement
<1> QED
  BY <1>1 DEF Min

\* A step with an option that takes a value.
LEMMA ValueShape ==
  ASSUME NEW cli, IsInterface(cli), NEW line \in Seq(Arguments),
         NEW h \in DOMAIN cli.handlers, NEW i \in 1..Len(line),
         NEW n \in DOMAIN cli.handlers[h].options,
         Match(cli.handlers[h].options[n], line[i]),
         cli.handlers[h].options[n].kind # "none",
         line[i] # EndOfArguments,
         \A p \in Passes(cli), call \in BOOLEAN :
           p.error = NoError =>
             Proceed(cli, call, line, p, h, i)
               = Reached(CallNextArgument(cli, p, call, h, cli.handlers[h].options[n], NextArgument(line, i)),
                    h, NextArgument(line, i).next)
  PROVE  Refused(cli, line, h, i) \/ Handed(cli, line, h, i)
<1> DEFINE option == cli.handlers[h].options[n]
           a == NextArgument(line, i)
           cb == [handler |-> h, name |-> Head(option.names), value |-> a.value]
<1>1. option \in Options /\ n \in 1..Len(cli.handlers[h].options) /\ cli.handlers[h].options \in Seq(Options)
  BY DEF IsInterface
<1>2. option.names \in Seq(STRING) /\ option.names # <<>> /\ option.kind \in {"int", "str"}
  BY <1>1 DEF Options
<1>3. Head(option.names) \in STRING
  BY <1>2
<1>4. line[i] \in Arguments /\ Len(line) \in Nat
  OBVIOUS
<1>5. CASE ~a.found
  <2>1. a.next = i /\ i \in 1..Len(line) + 1
    <3>1. i \in 1..Len(line) + 1
      BY <1>4
    <3>2. a.next = i
      BY <1>5 DEF NextArgument
    <3> QED
      BY <3>1, <3>2
  <2>2. \A p \in Passes(cli), call \in BOOLEAN :
          CallNextArgument(cli, p, call, h, option, a) = Fail(p, "missing value")
    <3> HIDE DEF a, option
    <3> QED
      BY <1>5 DEF CallNextArgument
  <2> QED
    <3>1. "missing value" \in Errors /\ "missing value" # NoError
      BY DEF NoError, Errors
    <3>2. \A p \in Passes(cli), call \in BOOLEAN :
            p.error = NoError =>
              Proceed(cli, call, line, p, h, i) = Reached(Fail(p, "missing value"), h, a.next)
      BY <2>2
    <3>3. a.next \in 1..Len(line) + 1
      BY <2>1
    <3> HIDE DEF a
    <3> QED
      BY <3>1, <3>2, <3>3 DEF Refused
<1>6. CASE a.found
  <2>1. \/ /\ line[i].value # NoValue /\ a.value = Argument(line[i].value) /\ a.next = i + 1
        \/ /\ line[i].value = NoValue /\ i < Len(line) /\ a.value = line[i + 1] /\ a.next = i + 2
    BY <1>4, <1>6 DEF NextArgument
  <2>2. a.value \in Values /\ a.next \in i + 1..Len(line) + 1
    <3>0. line[i].value \in STRING
      BY <1>4 DEF Arguments
    <3>1. Argument(line[i].value) \in Values
      BY <3>0 DEF Argument, Values, Words
    <3>2. i < Len(line) => line[i + 1] \in Values
      <4>1. i < Len(line) => line[i + 1] \in Arguments
        BY <1>4
      <4>2. Arguments \subseteq Values
        BY DEF Arguments, Values, Words
      <4> QED
        BY <4>1, <4>2
    <3>3. i + 1 \in i + 1..Len(line) + 1 /\ (i < Len(line) => i + 2 \in i + 1..Len(line) + 1)
      BY <1>4
    <3> HIDE DEF a
    <3> QED
      BY <2>1, <3>1, <3>2, <3>3
  <2>3. cb \in Calls(cli)
    BY <1>3, <2>2 DEF Calls, Words
  <2>4. AsksFor(cli, line, h, i, cb, h, a.next)
    <3>1. Contains(option.names, line[i].key)
      BY <1>2 DEF Match, Contains
    <3>2. cb.handler = h /\ cb.name = Head(option.names) /\ cb.value = a.value
      OBVIOUS
    <3> HIDE DEF cb, a
    <3> QED
      BY <1>2, <2>1, <3>1, <3>2 DEF AsksFor
  <2> DEFINE number == option.kind = "int"
             wrong == IF number THEN a.value.key \notin Numbers ELSE IsPrefixedOption(a.value)
             error == IF number THEN "invalid value" ELSE "invalid option argument"
  <2>5. \A p \in Passes(cli), call \in BOOLEAN :
          CallNextArgument(cli, p, call, h, option, a)
            = IF wrong THEN Fail(p, error) ELSE Callback(cli, p, call, cb, "invalid value")
    <3>1. CASE option.kind = "int"
      <4> HIDE DEF a, option
      <4> QED
        BY <1>6, <3>1 DEF CallNextArgument
    <3>2. CASE option.kind = "str"
      <4> HIDE DEF a, option
      <4> QED
        BY <1>6, <3>2 DEF CallNextArgument
    <3> QED
      BY <1>2, <3>1, <3>2
  <2>6. CASE wrong
    <3>1. error \in Errors /\ error # NoError /\ a.next \in 1..Len(line) + 1
      <4>1. error \in Errors /\ error # NoError
        <5> HIDE DEF number
        <5> QED
          BY DEF NoError, Errors
      <4> HIDE DEF a, error
      <4>2. a.next \in 1..Len(line) + 1
        BY <1>4, <2>2
      <4> QED
        BY <4>1, <4>2
    <3>2. \A p \in Passes(cli), call \in BOOLEAN :
            p.error = NoError => Proceed(cli, call, line, p, h, i) = Reached(Fail(p, error), h, a.next)
      <4> HIDE DEF error, wrong, cb, option
      <4> SUFFICES ASSUME NEW p \in Passes(cli), NEW call \in BOOLEAN, p.error = NoError
                   PROVE  Proceed(cli, call, line, p, h, i) = Reached(Fail(p, error), h, a.next)
        OBVIOUS
      <4>1. CallNextArgument(cli, p, call, h, option, a) = Fail(p, error)
        BY <2>5, <2>6
      <4> QED
        BY <4>1 DEF option
    <3> HIDE DEF a, error
    <3> QED
      BY <3>1, <3>2 DEF Refused
  <2>7. CASE ~wrong
    <3>1. \A p \in Passes(cli), call \in BOOLEAN :
            p.error = NoError =>
              Proceed(cli, call, line, p, h, i)
                = Reached(Callback(cli, p, call, cb, "invalid value"), h, a.next)
      <4> HIDE DEF error, wrong, cb, option
      <4> SUFFICES ASSUME NEW p \in Passes(cli), NEW call \in BOOLEAN, p.error = NoError
                   PROVE  Proceed(cli, call, line, p, h, i)
                            = Reached(Callback(cli, p, call, cb, "invalid value"), h, a.next)
        OBVIOUS
      <4>1. CallNextArgument(cli, p, call, h, option, a) = Callback(cli, p, call, cb, "invalid value")
        BY <2>5, <2>7
      <4> QED
        BY <4>1 DEF option
    <3> HIDE DEF a, cb
    <3> QED
      BY <2>2, <2>3, <2>4, <3>1 DEF Handed, Thrown
  <2> QED
    BY <2>6, <2>7
<1> QED
  BY <1>5, <1>6

\* What an argument can be: refused, the end of the options, handed to a
\* callback, or unhandled. Which one does not depend on what the pass has called,
\* nor on whether it calls.
LEMMA StepShape ==
  ASSUME NEW cli, IsInterface(cli), NEW line \in Seq(Arguments),
         NEW h \in DOMAIN cli.handlers, NEW i \in 1..Len(line)
  PROVE  \/ Refused(cli, line, h, i) \/ Skipped(cli, line, h, i)
         \/ Handed(cli, line, h, i) \/ Unhandled(cli, line, h, i)
<1> DEFINE o == cli.handlers[h]
           argument == line[i]
           subs == {n \in DOMAIN o.subs : argument = Argument(o.subs[n].name)}
           sub == o.subs[Min(subs)]
           options == {n \in DOMAIN o.options : Match(o.options[n], argument)}
           option == o.options[Min(options)]
           next == NextArgument(line, i)
           Asking(name) == [handler |-> h, name |-> name, value |-> Argument(NoValue)]
           Proceeds(p, call) == Proceed(cli, call, line, p, h, i)
<1>1. ASSUME NEW p \in Passes(cli), NEW call \in BOOLEAN, p.error = NoError
      PROVE  Proceeds(p, call) =
               IF argument = EndOfArguments THEN Reached(p, h, i + 1)
               ELSE IF subs # {}
               THEN Reached(Callback(cli, p, call, Asking(sub.name), "callback"), sub.handler, i + 1)
               ELSE IF ~IsPrefixedOption(argument)
               THEN Reached(CallPositional(cli, p, call, h, argument), h, i + 1)
               ELSE IF argument = Help /\ ~o.no_help THEN Reached(Fail(p, "help"), h, i)
               ELSE IF options = {} THEN Reached(Fail(p, "not supported"), h, i)
               ELSE IF option.kind = "none"
               THEN Reached(Callback(cli, p, call, Asking(Head(option.names)), "callback"), h, i + 1)
               ELSE Reached(CallNextArgument(cli, p, call, h, option, next), h, next.next)
  <2>1. ~(p.error # NoError \/ i > Len(line))
    BY <1>1
  <2> QED
    BY <2>1, Zenon DEF Proceed, Reached
<1>2. /\ o.subs \in Seq([name : STRING, handler : DOMAIN cli.handlers])
      /\ o.options \in Seq(Options)
  BY DEF IsInterface
<1>3. argument \in Arguments /\ Len(line) \in Nat /\ i + 1 \in i + 1..Len(line) + 1 /\ i \in 1..Len(line) + 1
  OBVIOUS
<1>4. argument \in Values /\ Argument(NoValue) \in Values
  BY <1>3 DEF Arguments, Values, Words, Argument
<1> HIDE DEF Proceeds
<1>5. CASE argument = EndOfArguments
  <2>1. \A p \in Passes(cli), call \in BOOLEAN :
          p.error = NoError => Proceeds(p, call) = Reached(p, h, i + 1)
    BY <1>1, <1>5, Zenon
  <2> QED
    BY <1>5, <2>1 DEF Skipped, Proceeds
<1>6. CASE argument # EndOfArguments /\ subs # {}
  <2> DEFINE n == Min(subs)
             cb == Asking(sub.name)
  <2>1. n \in subs
    <3>1. subs \subseteq Nat
      BY <1>2
    <3> HIDE DEF subs
    <3> QED
      BY <1>6, <3>1, FirstOfSome
  <2>2. n \in DOMAIN o.subs /\ argument = Argument(sub.name)
    BY <2>1
  <2>3. sub \in [name : STRING, handler : DOMAIN cli.handlers]
    <3> DEFINE Entries == [name : STRING, handler : DOMAIN cli.handlers]
    <3>0. o.subs \in Seq(Entries)
      BY <1>2
    <3> HIDE DEF Entries
    <3>1. \A m \in DOMAIN o.subs : o.subs[m] \in Entries
      BY <3>0
    <3> QED
      BY <2>2, <3>1, Zenon DEF Entries
  <2>4. cb \in Calls(cli)
    <3>1. sub.name \in Words
      BY <2>3 DEF Words
    <3> QED
      BY <1>4, <3>1 DEF Calls
  <2>5. cb.handler = h /\ cb.name = sub.name
    OBVIOUS
  <2>6. sub.handler \in DOMAIN cli.handlers
    BY <2>3
  <2>7. AsksFor(cli, line, h, i, cb, sub.handler, i + 1)
    <3>1. \E m \in DOMAIN cli.handlers[h].subs :
              /\ line[i] = Argument(cli.handlers[h].subs[m].name) /\ cb.name = cli.handlers[h].subs[m].name
              /\ sub.handler = cli.handlers[h].subs[m].handler /\ i + 1 = i + 1
      <4> HIDE DEF n, cb
      <4> QED
        BY <2>2, <2>5 DEF n
    <3> HIDE DEF cb, n
    <3> QED
      BY <2>5, <3>1 DEF AsksFor
  <2>8. \A p \in Passes(cli), call \in BOOLEAN :
          p.error = NoError =>
            Proceeds(p, call) = Reached(Callback(cli, p, call, cb, "callback"), sub.handler, i + 1)
    BY <1>1, <1>6, Zenon
  <2> HIDE DEF cb, n
  <2> DEFINE in == sub.handler
  <2> HIDE DEF in
  <2>9. Handed(cli, line, h, i)
    <3>1. \A p \in Passes(cli), call \in BOOLEAN :
            p.error = NoError =>
              Proceed(cli, call, line, p, h, i) = Reached(Callback(cli, p, call, cb, "callback"), in, i + 1)
      BY <2>8, Zenon DEF Proceeds, in
    <3>2. in \in DOMAIN cli.handlers /\ AsksFor(cli, line, h, i, cb, in, i + 1)
      BY <2>6, <2>7 DEF in
    <3> QED
      BY <1>3, <1>6, <2>4, <3>1, <3>2 DEF Handed, Thrown
  <2> QED
    BY <2>9
<1>7. CASE argument # EndOfArguments /\ subs = {} /\ ~IsPrefixedOption(argument)
  <2> DEFINE cb == [handler |-> h, name |-> "positional", value |-> argument]
  <2>1. \A p \in Passes(cli), call \in BOOLEAN :
          p.error = NoError =>
            Proceeds(p, call) = Reached(CallPositional(cli, p, call, h, argument), h, i + 1)
    BY <1>1, <1>7, Zenon
  <2>2. CASE o.positional
    <3>1. cb \in Calls(cli)
      BY <1>4 DEF Calls, Words
    <3>2. cb.handler = h /\ cb.name = "positional" /\ cb.value = argument
      OBVIOUS
    <3>3. \A p \in Passes(cli), call \in BOOLEAN :
            CallPositional(cli, p, call, h, argument) = Callback(cli, p, call, cb, "callback")
      BY <2>2, Zenon DEF CallPositional
    <3> HIDE DEF cb
    <3>4. AsksFor(cli, line, h, i, cb, h, i + 1)
      BY <3>2 DEF AsksFor
    <3>5. \A p \in Passes(cli), call \in BOOLEAN :
            p.error = NoError =>
              Proceed(cli, call, line, p, h, i) = Reached(Callback(cli, p, call, cb, "callback"), h, i + 1)
      <4> HIDE DEF argument
      <4> QED
        BY <2>1, <3>3, Zenon DEF Proceeds
    <3> QED
      BY <1>3, <1>7, <3>1, <3>4, <3>5 DEF Handed, Thrown
  <2>3. CASE ~o.positional
    <3>1. \A p \in Passes(cli), call \in BOOLEAN :
            CallPositional(cli, p, call, h, argument)
              = IF call THEN Fail(p, "invalid positional argument") ELSE p
      <4> HIDE DEF argument
      <4> QED
        BY <2>3 DEF CallPositional, Callback
    <3>2. \A p \in Passes(cli), call \in BOOLEAN :
            p.error = NoError =>
              Proceed(cli, call, line, p, h, i)
                = Reached(IF call THEN Fail(p, "invalid positional argument") ELSE p, h, i + 1)
      <4> SUFFICES ASSUME NEW p \in Passes(cli), NEW call \in BOOLEAN, p.error = NoError
                   PROVE  Proceeds(p, call)
                            = Reached(IF call THEN Fail(p, "invalid positional argument") ELSE p, h, i + 1)
        BY DEF Proceeds
      <4> DEFINE c == CallPositional(cli, p, call, h, argument)
                 r == IF call THEN Fail(p, "invalid positional argument") ELSE p
      <4>1. c = r
        BY <3>1
      <4>2. Proceeds(p, call) = Reached(c, h, i + 1)
        BY <2>1
      <4> HIDE DEF c, r
      <4>3. Proceeds(p, call) = Reached(r, h, i + 1)
        BY <4>1, <4>2
      <4> QED
        BY <4>3 DEF r
    <3> QED
      BY <3>2 DEF Unhandled
  <2> QED
    BY <2>2, <2>3
<1>8. CASE /\ argument # EndOfArguments /\ subs = {} /\ IsPrefixedOption(argument)
           /\ argument = Help /\ ~o.no_help
  <2>1. \A p \in Passes(cli), call \in BOOLEAN :
          p.error = NoError => Proceeds(p, call) = Reached(Fail(p, "help"), h, i)
    BY <1>1, <1>8, Zenon
  <2>2. "help" \in Errors /\ "help" # NoError
    BY DEF Errors, NoError
  <2> QED
    BY <1>3, <2>1, <2>2 DEF Refused, Proceeds
<1>9. CASE /\ argument # EndOfArguments /\ subs = {} /\ IsPrefixedOption(argument)
           /\ ~(argument = Help /\ ~o.no_help) /\ options = {}
  <2>1. \A p \in Passes(cli), call \in BOOLEAN :
          p.error = NoError => Proceeds(p, call) = Reached(Fail(p, "not supported"), h, i)
    BY <1>1, <1>9, Zenon
  <2>2. "not supported" \in Errors /\ "not supported" # NoError
    BY DEF Errors, NoError
  <2> QED
    BY <1>3, <2>1, <2>2 DEF Refused, Proceeds
<1>10. CASE /\ argument # EndOfArguments /\ subs = {} /\ IsPrefixedOption(argument)
            /\ ~(argument = Help /\ ~o.no_help) /\ options # {}
  <2> DEFINE n == Min(options)
  <2>1. n \in options
    <3>1. options \subseteq Nat
      BY <1>2
    <3> HIDE DEF options
    <3> QED
      BY <1>10, <3>1, FirstOfSome
  <2>2. n \in DOMAIN o.options /\ Match(option, argument)
    BY <2>1
  <2>3. option \in Options
    <3>1. \A m \in DOMAIN o.options : o.options[m] \in Options
      BY <1>2
    <3> QED
      BY <2>2, <3>1, Zenon
  <2>4. CASE option.kind = "none"
    <3> DEFINE cb == Asking(Head(option.names))
    <3>1. option.names \in Seq(STRING) /\ option.names # <<>>
      BY <2>3 DEF Options
    <3>2. Head(option.names) \in Words
      <4> HIDE DEF option
      <4> QED
        BY <3>1 DEF Words
    <3>3. cb \in Calls(cli)
      <4> DEFINE name == Head(option.names)
      <4> HIDE DEF name
      <4>1. name \in Words
        BY <3>2 DEF name
      <4>2. Asking(name) \in Calls(cli)
        BY <1>4, <4>1 DEF Calls
      <4> QED
        BY <4>2 DEF name
    <3>4. cb.handler = h /\ cb.name = Head(option.names)
      OBVIOUS
    <3>5. Contains(option.names, argument.key)
      <4> HIDE DEF option
      <4> QED
        BY <2>2, <3>1 DEF Match, Contains
    <3>6. AsksFor(cli, line, h, i, cb, h, i + 1)
      <4>1. \E m \in DOMAIN cli.handlers[h].options :
               /\ cli.handlers[h].options[m].kind \in {"none"}
               /\ cb.name = Head(cli.handlers[h].options[m].names)
               /\ Contains(cli.handlers[h].options[m].names, line[i].key)
        <5> HIDE DEF n, cb
        <5> QED
          BY <2>2, <2>4, <3>4, <3>5 DEF n
      <4> HIDE DEF cb, n, option
      <4> QED
        BY <3>4, <4>1 DEF AsksFor
    <3>7. \A p \in Passes(cli), call \in BOOLEAN :
            p.error = NoError =>
              Proceeds(p, call) = Reached(Callback(cli, p, call, cb, "callback"), h, i + 1)
      BY <1>1, <1>10, <2>4, Zenon
    <3> HIDE DEF cb
    <3> QED
      BY <1>3, <1>10, <3>3, <3>6, <3>7 DEF Handed, Proceeds, Thrown
  <2>5. CASE option.kind # "none"
    <3>1. \A p \in Passes(cli), call \in BOOLEAN :
            p.error = NoError =>
              Proceeds(p, call) = Reached(CallNextArgument(cli, p, call, h, option, next), h, next.next)
      BY <1>1, <1>10, <2>5, Zenon
    <3> HIDE DEF n
    <3>2. Refused(cli, line, h, i) \/ Handed(cli, line, h, i)
      BY <1>10, <2>2, <2>5, <3>1, ValueShape, Zenon DEF Proceeds, n
    <3> QED
      BY <3>2
  <2> QED
    BY <2>4, <2>5
<1> QED
  BY <1>5, <1>6, <1>7, <1>8, <1>9, <1>10

\* One argument of a pass, and the passes that have ended.
Step(cli, call, line, s) == Proceed(cli, call, line, s.pass, s.handler, s.begin_arg)
Ended(line, s) == s.pass.error # NoError \/ s.begin_arg > Len(line)

\* The fields of the state of a pass.
LEMMA PositionsAre ==
  ASSUME NEW cli, NEW line, NEW p \in Passes(cli), NEW h \in DOMAIN cli.handlers,
         NEW i \in 1..Len(line) + 1
  PROVE  /\ Reached(p, h, i) \in PassStates(cli, line)
         /\ Reached(p, h, i).pass = p /\ Reached(p, h, i).handler = h /\ Reached(p, h, i).begin_arg = i
  BY DEF Reached, PassStates

\* A pass that has ended stays where it is.
LEMMA StepEnded ==
  ASSUME NEW cli, NEW line, NEW call, NEW s \in PassStates(cli, line), Ended(line, s)
  PROVE  Step(cli, call, line, s) = s
<1>1. Step(cli, call, line, s) = Reached(s.pass, s.handler, s.begin_arg)
  BY Zenon DEF Step, Ended, Proceed, Reached
<1>2. s = [pass |-> s.pass, handler |-> s.handler, begin_arg |-> s.begin_arg]
  BY DEF PassStates
<1> QED
  BY <1>1, <1>2 DEF Reached

\* Each step of a pass that has not ended goes on, or fails.
LEMMA StepGoesOn ==
  ASSUME NEW cli, IsInterface(cli), NEW line \in Seq(Arguments), NEW call \in BOOLEAN,
         NEW s \in PassStates(cli, line), ~Ended(line, s)
  PROVE  LET t == Step(cli, call, line, s)
         IN  /\ t \in PassStates(cli, line)
             /\ t.pass.error = NoError => t.begin_arg > s.begin_arg
             /\ ~call => t.pass.calls = s.pass.calls
<1> DEFINE p == s.pass
           h == s.handler
           i == s.begin_arg
           t == Step(cli, call, line, s)
<1>1. /\ p \in Passes(cli) /\ h \in DOMAIN cli.handlers /\ i \in 1..Len(line)
      /\ p.error = NoError /\ Len(line) \in Nat
  BY DEF PassStates, Ended
<1>2. t = Proceed(cli, call, line, p, h, i)
  BY DEF Step
<1> HIDE DEF p, h, i, t
<1> SUFFICES /\ t \in PassStates(cli, line)
             /\ t.pass.error = NoError => t.begin_arg > i
             /\ ~call => t.pass.calls = p.calls
  BY DEF t, i, p
<1>3. CASE Refused(cli, line, h, i)
  <2>1. PICK error \in Errors, next \in 1..Len(line) + 1 :
          error # NoError /\ t = Reached(Fail(p, error), h, next)
    BY <1>1, <1>2, <1>3 DEF Refused
  <2>2. Fail(p, error) \in Passes(cli) /\ Fail(p, error).error = error /\ Fail(p, error).calls = p.calls
    BY <1>1, FailedPass
  <2>3. t \in PassStates(cli, line) /\ t.pass = Fail(p, error)
    BY <1>1, <2>1, <2>2, PositionsAre
  <2> QED
    BY <2>1, <2>2, <2>3
<1>4. CASE Skipped(cli, line, h, i)
  <2>1. t = Reached(p, h, i + 1)
    BY <1>1, <1>2, <1>4 DEF Skipped
  <2>2. i + 1 \in 1..Len(line) + 1 /\ i + 1 > i
    BY <1>1
  <2>3. t \in PassStates(cli, line) /\ t.pass = p /\ t.begin_arg = i + 1
    BY <1>1, <2>1, <2>2, PositionsAre
  <2> QED
    BY <2>2, <2>3
<1>5. CASE Handed(cli, line, h, i)
  <2>0. \A n \in i + 1..Len(line) + 1 : n \in 1..Len(line) + 1 /\ n > i
    BY <1>1
  <2>1. PICK cb \in Calls(cli), error \in Thrown,
             in \in DOMAIN cli.handlers, next \in i + 1..Len(line) + 1 :
          t = Reached(Callback(cli, p, call, cb, error), in, next)
    BY <1>1, <1>2, <1>5 DEF Handed
  <2>2. next \in 1..Len(line) + 1 /\ next > i
    BY <2>0, Zenon
  <2>3. error \in Errors
    BY DEF Errors, Thrown
  <2> DEFINE c == Callback(cli, p, call, cb, error)
  <2>4. c \in Passes(cli) /\ (~call => c = p)
    <3>1. Callback(cli, p, TRUE, cb, error) \in Passes(cli)
      BY <1>1, <2>1, <2>3, CalledBack
    <3>2. Callback(cli, p, FALSE, cb, error) = p
      BY DEF Callback
    <3>3. CASE call = TRUE
      BY <3>1, <3>3
    <3>4. CASE call = FALSE
      BY <1>1, <3>2, <3>4
    <3> QED
      BY <3>3, <3>4
  <2> HIDE DEF c
  <2>5. t = Reached(c, in, next)
    BY <2>1 DEF c
  <2>6. t \in PassStates(cli, line) /\ t.pass = c /\ t.begin_arg = next
    <3>1. \A n \in 1..Len(line) + 1, l \in DOMAIN cli.handlers :
            /\ Reached(c, l, n) \in PassStates(cli, line)
            /\ Reached(c, l, n).pass = c /\ Reached(c, l, n).begin_arg = n
      BY <2>4 DEF Reached, PassStates
    <3> QED
      BY <2>2, <2>5, <3>1
  <2> QED
    BY <2>2, <2>4, <2>6
<1>6. CASE Unhandled(cli, line, h, i)
  <2> DEFINE c == IF call THEN Fail(p, "invalid positional argument") ELSE p
  <2>1. t = Reached(c, h, i + 1)
    BY <1>1, <1>2, <1>6 DEF Unhandled
  <2>2. i + 1 \in 1..Len(line) + 1 /\ i + 1 > i
    BY <1>1
  <2>3. c \in Passes(cli) /\ (~call => c = p)
    <3>1. "invalid positional argument" \in Errors
      BY DEF Errors
    <3>2. Fail(p, "invalid positional argument") \in Passes(cli)
      BY <1>1, <3>1, FailedPass
    <3> QED
      BY <1>1, <3>2
  <2> HIDE DEF c
  <2>4. t \in PassStates(cli, line) /\ t.pass = c /\ t.begin_arg = i + 1
    BY <1>1, <2>1, <2>2, <2>3, PositionsAre
  <2> QED
    BY <2>2, <2>3, <2>4
<1> QED
  BY <1>1, <1>3, <1>4, <1>5, <1>6, StepShape

\* A step leads from a state of the pass to another.
LEMMA StepIsPosition ==
  ASSUME NEW cli, IsInterface(cli), NEW line \in Seq(Arguments), NEW call \in BOOLEAN,
         NEW s \in PassStates(cli, line)
  PROVE  Step(cli, call, line, s) \in PassStates(cli, line)
  BY StepEnded, StepGoesOn

\* The states of a pass.
LEMMA StatesOfPass ==
  ASSUME NEW cli, IsInterface(cli), NEW line \in Seq(Arguments), NEW call \in BOOLEAN
  PROVE  \E s \in [0..Len(line) -> PassStates(cli, line)] :
           /\ s[0] = Reached(Started, cli.root, 1)
           /\ \A n \in 1..Len(line) : s[n] = Step(cli, call, line, s[n - 1])
           /\ ValidateAndCall(cli, call, line)
                = LET last == s[Len(line)]
                  IN  IF last.pass.error = NoError /\ cli.handlers[last.handler].only_subcmd
                      THEN Fail(last.pass, "no subcommand") ELSE last.pass
<1> DEFINE N == Len(line)
           T == PassStates(cli, line)
           start == Reached(Started, cli.root, 1)
           Equation(f) == f = [n \in 0..N |-> IF n = 0 THEN start ELSE Step(cli, call, line, f[n - 1])]
           computed == CHOOSE f : Equation(f)
           step == [s \in T |-> [n \in 1..N |-> Step(cli, call, line, s)]]
<1>1. N \in Nat
  OBVIOUS
<1>2. start \in T
  <2>1. Started \in Passes(cli)
    BY DEF Started, Passes, Errors, NoError
  <2>2. cli.root \in DOMAIN cli.handlers /\ 1 \in 1..Len(line) + 1
    BY DEF IsInterface
  <2> QED
    BY <2>1, <2>2, PositionsAre
<1>3. \A s \in T : Step(cli, call, line, s) \in T
  BY StepIsPosition
<1>4. ValidateAndCall(cli, call, line)
        = IF computed[N].pass.error = NoError /\ cli.handlers[computed[N].handler].only_subcmd
          THEN Fail(computed[N].pass, "no subcommand") ELSE computed[N].pass
  BY DEF ValidateAndCall, Step, Reached
<1>5. \A s \in T : \A n \in 1..N : step[s][n] = Step(cli, call, line, s)
  OBVIOUS
<1>6. step \in [T -> [1..N -> T]]
  <2> HIDE DEF T, N
  <2> QED
    BY <1>3
<1> HIDE DEF T, N, start, step
<1>7. Iterative(N, T, start, step)
  BY <1>1, <1>2, <1>6 DEF Iterative
<1>8. PICK f \in [0..N -> T] : f = [n \in 0..N |-> IF n = 0 THEN start ELSE step[f[n - 1]][n]]
  BY <1>7, Iteration
<1>9. Equation(f)
  <2>1. ASSUME NEW n \in 0..N, n # 0 PROVE step[f[n - 1]][n] = Step(cli, call, line, f[n - 1])
    <3>1. n - 1 \in 0..N /\ n \in 1..N
      BY <1>1, <2>1
    <3>2. f[n - 1] \in T
      BY <3>1
    <3> QED
      BY <1>5, <3>1, <3>2
  <2> QED
    BY <1>8, <2>1
<1>10. Equation(computed)
  BY <1>9
<1> HIDE DEF computed
<1>11. \A n \in 0..N : computed[n] = IF n = 0 THEN start ELSE Step(cli, call, line, computed[n - 1])
  BY <1>10
<1>12. computed[0] = start /\ \A n \in 1..N : computed[n] = Step(cli, call, line, computed[n - 1])
  BY <1>1, <1>11
<1> DEFINE Good == {n \in 0..N : computed[n] \in T}
<1>13. 0 \in Good
  BY <1>1, <1>2, <1>12
<1>14. ASSUME NEW n \in 0..N - 1, n \in Good PROVE n + 1 \in Good
  <2>1. n + 1 \in 1..N /\ (n + 1) - 1 = n /\ n + 1 \in 0..N
    BY <1>1
  <2> QED
    BY <1>3, <1>12, <1>14, <2>1
<1> HIDE DEF Good
<1>15. \A n \in 0..N : n \in Good
  BY <1>1, <1>13, <1>14, Induction
<1>16. computed \in [0..N -> T]
  BY <1>10, <1>15 DEF Good
<1> QED
  BY <1>4, <1>12, <1>16 DEF N, T, start

\* A pass that ends without an error has none on the way.
LEMMA NoErrorOnTheWay ==
  ASSUME NEW cli, IsInterface(cli), NEW line \in Seq(Arguments), NEW call \in BOOLEAN,
         NEW s \in [0..Len(line) -> PassStates(cli, line)],
         \A n \in 1..Len(line) : s[n] = Step(cli, call, line, s[n - 1]),
         s[Len(line)].pass.error = NoError
  PROVE  \A n \in 0..Len(line) : s[n].pass.error = NoError
<1> DEFINE N == Len(line)
           Good == {n \in 0..N : s[N - n].pass.error = NoError}
<1>1. N \in Nat
  OBVIOUS
<1>2. 0 \in Good
  <2>1. 0 \in 0..N /\ N - 0 = N
    BY <1>1
  <2> QED
    BY <2>1
<1>3. ASSUME NEW n \in 0..N - 1, n \in Good PROVE n + 1 \in Good
  <2>1. N - n \in 1..N /\ (N - n) - 1 = N - (n + 1) /\ N - (n + 1) \in 0..N /\ n + 1 \in 0..N
    BY <1>1
  <2> DEFINE b == s[N - (n + 1)]
  <2>2. b \in PassStates(cli, line) /\ s[N - n] = Step(cli, call, line, b)
    BY <2>1
  <2>3. s[N - n].pass.error = NoError
    BY <1>3
  <2> HIDE DEF b
  <2>4. b.pass.error = NoError
    BY <2>2, <2>3, StepEnded DEF Ended
  <2> QED
    BY <2>1, <2>4 DEF b
<1> HIDE DEF Good
<1>4. \A n \in 0..N : n \in Good
  BY <1>1, <1>2, <1>3, Induction
<1>5. ASSUME NEW n \in 0..N PROVE s[n].pass.error = NoError
  <2>1. N - n \in 0..N /\ N - (N - n) = n
    BY <1>1
  <2>2. N - n \in Good
    BY <1>4, <2>1
  <2> QED
    BY <2>1, <2>2 DEF Good
<1> QED
  BY <1>5

\* What remains for the pass with callbacks to fail with.
Late(cli) ==
  {"invalid positional argument"} \cup (IF cli.throwing # {} THEN {"callback", "invalid value"} ELSE {})

\* Two passes at the same argument.
Together(d, c) ==
  /\ d.pass.error = NoError /\ c.pass.error = NoError
  /\ d.handler = c.handler /\ d.begin_arg = c.begin_arg

\* A callback fails only when some callback throws.
LEMMA CallbackMayThrow ==
  ASSUME NEW cli
  PROVE  \A cb \in Calls(cli), error \in Errors, p \in Passes(cli) :
           \/ cli.throwing # {} /\ Callback(cli, p, TRUE, cb, error).error = error
           \/ Callback(cli, p, TRUE, cb, error).error = p.error
  BY CalledBack

\* The pass with callbacks stays with the one without, until it fails with an
\* error that only callbacks or positional arguments have.
LEMMA StepsTogether ==
  ASSUME NEW cli, IsInterface(cli), NEW line \in Seq(Arguments),
         NEW d \in PassStates(cli, line), NEW c \in PassStates(cli, line), Together(d, c),
         Step(cli, FALSE, line, d).pass.error = NoError
  PROVE  LET e == Step(cli, TRUE, line, c)
         IN  e.pass.error \in Late(cli) \/ Together(Step(cli, FALSE, line, d), e)
<1> DEFINE h == d.handler
           i == d.begin_arg
           p == d.pass
           q == c.pass
           e == Step(cli, TRUE, line, c)
           f == Step(cli, FALSE, line, d)
<1>1. /\ p \in Passes(cli) /\ q \in Passes(cli) /\ h \in DOMAIN cli.handlers
      /\ i \in 1..Len(line) + 1 /\ Len(line) \in Nat
      /\ p.error = NoError /\ q.error = NoError /\ c.handler = h /\ c.begin_arg = i
  BY DEF PassStates, Together
<1>2. e = Proceed(cli, TRUE, line, q, h, i) /\ f = Proceed(cli, FALSE, line, p, h, i)
  BY <1>1, Zenon DEF Step
<1>3. CASE Ended(line, d)
  <2>1. Ended(line, c)
    BY <1>1, <1>3 DEF Ended
  <2> QED
    BY <1>3, <2>1, StepEnded
<1>4. CASE ~Ended(line, d)
  <2>1. i \in 1..Len(line)
    BY <1>1, <1>4 DEF Ended
  <2>2. f.pass.error = NoError
    OBVIOUS
  <2> HIDE DEF p, q, h, i, e, f
  <2> SUFFICES e.pass.error \in Late(cli) \/ Together(f, e)
    BY DEF e, f
  <2>3. CASE Refused(cli, line, h, i)
    <3>1. PICK error \in Errors, next \in 1..Len(line) + 1 :
            error # NoError /\ f = Reached(Fail(p, error), h, next)
      BY <1>1, <1>2, <2>3 DEF Refused
    <3>2. f.pass.error = error
      <4>1. Fail(p, error) \in Passes(cli) /\ Fail(p, error).error = error
        BY <1>1, FailedPass
      <4>2. f.pass = Fail(p, error)
        BY <1>1, <3>1, <4>1, PositionsAre
      <4> QED
        BY <4>1, <4>2
    <3> QED
      BY <2>2, <3>1, <3>2
  <2>4. CASE Skipped(cli, line, h, i)
    <3>1. f = Reached(p, h, i + 1) /\ e = Reached(q, h, i + 1)
      BY <1>1, <1>2, <2>4 DEF Skipped
    <3> QED
      BY <1>1, <3>1 DEF Reached, Together
  <2>5. CASE Handed(cli, line, h, i)
    <3>1. PICK cb \in Calls(cli), error \in Thrown,
               in \in DOMAIN cli.handlers, next \in i + 1..Len(line) + 1 :
            \A r \in Passes(cli), call \in BOOLEAN :
              r.error = NoError =>
                Proceed(cli, call, line, r, h, i) = Reached(Callback(cli, r, call, cb, error), in, next)
      BY <2>5 DEF Handed
    <3> DEFINE x == Callback(cli, p, FALSE, cb, error)
               y == Callback(cli, q, TRUE, cb, error)
    <3>2. f = Reached(x, in, next) /\ e = Reached(y, in, next)
      BY <1>1, <1>2, <3>1
    <3>3. error \in Errors
      BY DEF Errors, Thrown
    <3>4. x = p
      BY DEF Callback
    <3>5. (cli.throwing # {} /\ y.error = error) \/ y.error = q.error
      <4> HIDE DEF x
      <4> QED
        BY <1>1, <3>3, CallbackMayThrow, Zenon
    <3> HIDE DEF x, y
    <3>6. CASE cli.throwing # {} /\ y.error = error
      <4>1. error \in Late(cli)
        BY <3>6 DEF Late, Thrown
      <4>2. e.pass.error = error
        BY <3>2, <3>6 DEF Reached
      <4> QED
        BY <4>1, <4>2
    <3>7. CASE y.error = q.error
      BY <1>1, <3>2, <3>4, <3>7 DEF Reached, Together
    <3> QED
      BY <3>5, <3>6, <3>7
  <2>6. CASE Unhandled(cli, line, h, i)
    <3>1. e = Reached(Fail(q, "invalid positional argument"), h, i + 1)
      BY <1>1, <1>2, <2>6 DEF Unhandled
    <3>2. "invalid positional argument" \in Errors
      BY DEF Errors
    <3>3. Fail(q, "invalid positional argument").error = "invalid positional argument"
      BY <1>1, <3>2, FailedPass
    <3>4. e.pass.error = "invalid positional argument"
      BY <3>1, <3>3 DEF Reached
    <3> QED
      BY <3>4 DEF Late
  <2> QED
    BY <1>1, <2>1, <2>3, <2>4, <2>5, <2>6, StepShape
<1> QED
  BY <1>3, <1>4

\* The pass without callbacks calls none.
LEMMA DryRunCallsNothing ==
  ASSUME NEW cli, IsInterface(cli), NEW line \in Seq(Arguments)
  PROVE  ValidateAndCall(cli, FALSE, line).calls = <<>>
<1> DEFINE N == Len(line)
<1>1. N \in Nat
  OBVIOUS
<1>2. PICK s \in [0..N -> PassStates(cli, line)] :
        /\ s[0] = Reached(Started, cli.root, 1)
        /\ \A n \in 1..N : s[n] = Step(cli, FALSE, line, s[n - 1])
        /\ ValidateAndCall(cli, FALSE, line)
             = LET last == s[N]
               IN  IF last.pass.error = NoError /\ cli.handlers[last.handler].only_subcmd
                   THEN Fail(last.pass, "no subcommand") ELSE last.pass
  <2>1. FALSE \in BOOLEAN
    OBVIOUS
  <2> QED
    BY <2>1, StatesOfPass
<1> HIDE DEF N
<1> DEFINE Good == {n \in 0..N : s[n].pass.calls = <<>>}
<1>3. 0 \in Good
  <2>1. 0 \in 0..N
    BY <1>1
  <2>2. Started.calls = <<>>
    BY DEF Started
  <2>3. Reached(Started, cli.root, 1).pass = Started
    BY DEF Reached
  <2>4. s[0].pass.calls = <<>>
    BY <1>2, <2>2, <2>3
  <2> QED
    BY <2>1, <2>4
<1>4. ASSUME NEW n \in 0..N - 1, n \in Good PROVE n + 1 \in Good
  <2>1. n + 1 \in 1..N /\ (n + 1) - 1 = n /\ n + 1 \in 0..N /\ n \in 0..N
    BY <1>1
  <2> DEFINE b == s[n]
             c == s[n + 1]
  <2>2. b \in PassStates(cli, line) /\ c = Step(cli, FALSE, line, b) /\ b.pass.calls = <<>>
    BY <1>2, <1>4, <2>1
  <2> HIDE DEF b, c
  <2>3. c.pass.calls = <<>>
    <3>1. CASE Ended(line, b)
      BY <2>2, <3>1, StepEnded
    <3>2. CASE ~Ended(line, b)
      BY <2>2, <3>2, StepGoesOn
    <3> QED
      BY <3>1, <3>2
  <2> QED
    BY <2>1, <2>3 DEF c
<1> HIDE DEF Good
<1>5. \A n \in 0..N : n \in Good
  BY <1>1, <1>3, <1>4, Induction
<1>6. s[N].pass.calls = <<>>
  BY <1>1, <1>5 DEF Good
<1> DEFINE last == s[N]
<1>7. last \in PassStates(cli, line)
  BY <1>1
<1> HIDE DEF last
<1>8. last.pass \in Passes(cli) /\ last.pass.calls = <<>>
  BY <1>6, <1>7 DEF PassStates, last
<1>9. Fail(last.pass, "no subcommand").calls = <<>>
  <2>1. "no subcommand" \in Errors
    BY DEF Errors
  <2> QED
    BY <1>8, <2>1, FailedPass
<1> QED
  BY <1>2, <1>8, <1>9 DEF last

\* What is left for the second pass to fail with.
LEMMA LateErrors ==
  ASSUME NEW cli, IsInterface(cli), NEW line \in Seq(Arguments),
         ValidateAndCall(cli, FALSE, line).error = NoError
  PROVE  ValidateAndCall(cli, TRUE, line).error \in Late(cli) \cup {NoError}
<1> DEFINE N == Len(line)
           Result(t) == IF t.pass.error = NoError /\ cli.handlers[t.handler].only_subcmd
                        THEN Fail(t.pass, "no subcommand") ELSE t.pass
<1>1. N \in Nat
  OBVIOUS
<1>2. PICK d \in [0..N -> PassStates(cli, line)] :
        /\ d[0] = Reached(Started, cli.root, 1)
        /\ \A n \in 1..N : d[n] = Step(cli, FALSE, line, d[n - 1])
        /\ ValidateAndCall(cli, FALSE, line) = Result(d[N])
  <2>1. FALSE \in BOOLEAN
    OBVIOUS
  <2> QED
    BY <2>1, StatesOfPass
<1>3. PICK c \in [0..N -> PassStates(cli, line)] :
        /\ c[0] = Reached(Started, cli.root, 1)
        /\ \A n \in 1..N : c[n] = Step(cli, TRUE, line, c[n - 1])
        /\ ValidateAndCall(cli, TRUE, line) = Result(c[N])
  <2>1. TRUE \in BOOLEAN
    OBVIOUS
  <2> QED
    BY <2>1, StatesOfPass
<1>4. ASSUME NEW t \in PassStates(cli, line)
      PROVE  /\ t.pass.error = NoError /\ cli.handlers[t.handler].only_subcmd
                  => Result(t).error # NoError
             /\ ~(t.pass.error = NoError /\ cli.handlers[t.handler].only_subcmd)
                  => Result(t) = t.pass
  <2>1. t.pass \in Passes(cli)
    BY DEF PassStates
  <2>2. "no subcommand" \in Errors /\ "no subcommand" # NoError
    BY DEF Errors, NoError
  <2>3. Fail(t.pass, "no subcommand").error # NoError
    BY <2>1, <2>2, FailedPass
  <2> QED
    BY <2>3
<1> HIDE DEF N
<1>5. d[N] \in PassStates(cli, line) /\ c[N] \in PassStates(cli, line)
  BY <1>1
<1>6. d[N].pass.error = NoError /\ ~cli.handlers[d[N].handler].only_subcmd
  <2> DEFINE t == d[N]
  <2>1. t \in PassStates(cli, line) /\ Result(t).error = NoError
    BY <1>2, <1>5
  <2> HIDE DEF t, Result
  <2>2. t.pass.error = NoError /\ ~cli.handlers[t.handler].only_subcmd
    BY <1>4, <2>1
  <2> QED
    BY <2>2 DEF t
<1> HIDE DEF Result
<1>7. \A n \in 0..N : d[n].pass.error = NoError
  <2>1. FALSE \in BOOLEAN
    OBVIOUS
  <2> QED
    BY <1>2, <1>6, <2>1, NoErrorOnTheWay DEF N
<1> DEFINE Good == {n \in 0..N : c[n].pass.error \in Late(cli) \/ Together(d[n], c[n])}
<1>8. 0 \in Good
  <2>1. d[0].pass.error = NoError /\ d[0] = c[0] /\ 0 \in 0..N
    BY <1>1, <1>2, <1>3, <1>7
  <2> QED
    BY <2>1 DEF Together
<1>9. ASSUME NEW n \in 0..N - 1, n \in Good PROVE n + 1 \in Good
  <2>1. n + 1 \in 1..N /\ (n + 1) - 1 = n /\ n + 1 \in 0..N /\ n \in 0..N
    BY <1>1
  <2> DEFINE x == d[n]
             y == c[n]
             u == d[n + 1]
             v == c[n + 1]
  <2>2. /\ x \in PassStates(cli, line) /\ y \in PassStates(cli, line)
        /\ u = Step(cli, FALSE, line, x) /\ v = Step(cli, TRUE, line, y) /\ u.pass.error = NoError
        /\ y.pass.error \in Late(cli) \/ Together(x, y)
    BY <1>2, <1>3, <1>7, <1>9, <2>1
  <2> HIDE DEF x, y, u, v
  <2>3. v.pass.error \in Late(cli) \/ Together(u, v)
    <3>1. CASE y.pass.error \in Late(cli)
      <4>1. NoError \notin Late(cli)
        BY DEF NoError, Late
      <4>2. Ended(line, y)
        BY <3>1, <4>1 DEF Ended
      <4>3. v = y
        BY <2>2, <4>2, StepEnded
      <4> QED
        BY <3>1, <4>3
    <3>2. CASE Together(x, y)
      BY <2>2, <3>2, StepsTogether
    <3> QED
      BY <2>2, <3>1, <3>2
  <2> QED
    BY <2>1, <2>3 DEF u, v
<1> HIDE DEF Good
<1>10. \A n \in 0..N : n \in Good
  BY <1>1, <1>8, <1>9, Induction
<1>11. c[N].pass.error \in Late(cli) \/ Together(d[N], c[N])
  BY <1>1, <1>10 DEF Good
<1>12. NoError \notin Late(cli)
  BY DEF NoError, Late
<1> DEFINE t == c[N]
<1>13. CASE t.pass.error \in Late(cli)
  <2>1. Result(t) = t.pass
    BY <1>4, <1>5, <1>12, <1>13
  <2> HIDE DEF t
  <2> QED
    BY <1>3, <1>13, <2>1 DEF t
<1>14. CASE Together(d[N], t)
  <2>1. t.pass.error = NoError /\ ~cli.handlers[t.handler].only_subcmd
    BY <1>6, <1>14 DEF Together
  <2>2. Result(t) = t.pass
    BY <1>4, <1>5, <2>1
  <2> HIDE DEF t
  <2> QED
    BY <1>3, <2>1, <2>2 DEF t
<1> QED
  BY <1>11, <1>13, <1>14

\* parse_options calls back only after a pass without an error.
LEMMA ErrorsComeFirst ==
  ASSUME NEW cli, IsInterface(cli), NEW line \in Seq(Arguments),
         ParseOptions(cli, line).calls # <<>>
  PROVE  ParseOptions(cli, line).error \in
           {NoError, "invalid positional argument"}
             \cup (IF cli.throwing # {} THEN {"callback", "invalid value"} ELSE {})
<1>1. CASE ValidateAndCall(cli, FALSE, line).error # NoError
  <2>1. ParseOptions(cli, line) = ValidateAndCall(cli, FALSE, line)
    BY <1>1 DEF ParseOptions
  <2> QED
    BY <2>1, DryRunCallsNothing
<1>2. CASE ValidateAndCall(cli, FALSE, line).error = NoError
  <2>1. ParseOptions(cli, line) = ValidateAndCall(cli, TRUE, line)
    BY <1>2 DEF ParseOptions
  <2>2. ParseOptions(cli, line).error \in Late(cli) \cup {NoError}
    BY <1>2, <2>1, LateErrors
  <2> QED
    BY <2>2 DEF Late
<1> QED
  BY <1>1, <1>2

-----------------------------------------------------------------------------
\* What one argument of an accounted command line says.
AskedAt(cli, line, calls, f, h, i, j) ==
  IF i > Len(line) THEN j > Len(calls)
  ELSE IF line[i] = EndOfArguments THEN f[<<h, i + 1, j>>]
  ELSE /\ j <= Len(calls)
       /\ \E in \in DOMAIN cli.handlers, next \in i + 1..Len(line) + 1 :
            AsksFor(cli, line, h, i, calls[j], in, next) /\ f[<<in, next, j + 1>>]

\* A function that accounts for every rest of the command line.
Unfolds(cli, line, calls, f) ==
  \A h \in DOMAIN cli.handlers, i \in 1..Len(line) + 1, j \in 1..Len(calls) + 1 :
    f[<<h, i, j>>] <=> AskedAt(cli, line, calls, f, h, i, j)

\* The reference of the options, one argument at a time.
LEMMA AccountedUnfolds ==
  ASSUME NEW cli, IsInterface(cli), NEW line \in Seq(Arguments), NEW calls \in Seq(Calls(cli))
  PROVE  \E f :
           /\ Unfolds(cli, line, calls, f)
           /\ Accounted(cli, line, calls) <=> f[<<cli.root, 1, 1>>]
<1> DEFINE H == DOMAIN cli.handlers
           N == Len(line)
           I == 1..N + 1
           J == 1..Len(calls) + 1
           D == H \X I \X J
           m == [at \in D |-> N + 1 - at[2]]
           G == [at \in D |-> [f \in [D -> BOOLEAN] |-> AskedAt(cli, line, calls, f, at[1], at[2], at[3])]]
           Equation(f) == f = [at \in D |-> AskedAt(cli, line, calls, f, at[1], at[2], at[3])]
           computed == CHOOSE f : Equation(f)
<1>1. N \in Nat /\ Len(calls) \in Nat
  OBVIOUS
<1>2. Accounted(cli, line, calls) <=> computed[<<cli.root, 1, 1>>]
  BY DEF Accounted, AskedAt
<1> HIDE DEF N
<1>3. ASSUME NEW at \in D
      PROVE  at[1] \in H /\ at[2] \in I /\ at[3] \in J /\ at = <<at[1], at[2], at[3]>>
  OBVIOUS
<1>4. m \in [D -> 0..N]
  <2>1. ASSUME NEW at \in D PROVE N + 1 - at[2] \in 0..N
    <3>1. at[2] \in I
      BY <1>3
    <3> QED
      BY <1>1, <3>1
  <2> HIDE DEF D
  <2> QED
    BY <2>1
<1>5. ASSUME NEW at \in D, NEW f \in [D -> BOOLEAN]
      PROVE  /\ G[at][f] = AskedAt(cli, line, calls, f, at[1], at[2], at[3])
             /\ G[at][f] \in BOOLEAN
  <2>1. G[at][f] = AskedAt(cli, line, calls, f, at[1], at[2], at[3])
    OBVIOUS
  <2>2. AskedAt(cli, line, calls, f, at[1], at[2], at[3]) \in BOOLEAN
    <3>1. at[1] \in H /\ at[2] \in I /\ at[3] \in J
      BY <1>3
    <3>2. ~(at[2] > N) => <<at[1], at[2] + 1, at[3]>> \in D
      BY <1>1, <3>1
    <3>3. ~(at[2] > N) => f[<<at[1], at[2] + 1, at[3]>>] \in BOOLEAN
      <4> HIDE DEF D
      <4> QED
        BY <3>2
    <3> DEFINE h == at[1]
               i == at[2]
               j == at[3]
    <3>4. ~(i > N) => f[<<h, i + 1, j>>] \in BOOLEAN
      BY <3>3
    <3> HIDE DEF h, i, j, D
    <3>5. CASE i > Len(line)
      <4>1. AskedAt(cli, line, calls, f, h, i, j) = (j > Len(calls))
        BY <3>5 DEF AskedAt
      <4> QED
        BY <4>1 DEF h, i, j
    <3>6. CASE ~(i > Len(line)) /\ line[i] = EndOfArguments
      <4>1. AskedAt(cli, line, calls, f, h, i, j) = f[<<h, i + 1, j>>]
        BY <3>6 DEF AskedAt
      <4>2. f[<<h, i + 1, j>>] \in BOOLEAN
        BY <3>4, <3>6 DEF N
      <4> QED
        BY <4>1, <4>2 DEF h, i, j
    <3>7. CASE ~(i > Len(line)) /\ line[i] # EndOfArguments
      <4> DEFINE A == /\ j <= Len(calls)
                      /\ \E in \in DOMAIN cli.handlers, next \in i + 1..Len(line) + 1 :
                           AsksFor(cli, line, h, i, calls[j], in, next) /\ f[<<in, next, j + 1>>]
      <4>1. AskedAt(cli, line, calls, f, h, i, j) = A
        BY <3>7, Zenon DEF AskedAt
      <4>2. A \in BOOLEAN
        OBVIOUS
      <4> HIDE DEF A
      <4> QED
        BY <4>1, <4>2 DEF h, i, j
    <3> QED
      BY <3>5, <3>6, <3>7
  <2> QED
    BY <2>1, <2>2
<1>6. ASSUME NEW at \in D, NEW f \in [D -> BOOLEAN], NEW g \in [D -> BOOLEAN],
             \A y \in D : m[y] < m[at] => f[y] = g[y]
      PROVE  G[at][f] = G[at][g]
  <2> DEFINE h == at[1]
             i == at[2]
             j == at[3]
  <2>1. h \in H /\ i \in I /\ j \in J
    BY <1>3
  <2>2. ASSUME NEW in \in H, NEW next \in i + 1..N + 1, NEW k \in J
        PROVE  f[<<in, next, k>>] = g[<<in, next, k>>]
    <3>1. <<in, next, k>> \in D
      BY <1>1, <2>1
    <3>2. m[<<in, next, k>>] = N + 1 - next /\ m[at] = N + 1 - i
      BY <3>1
    <3>3. m[<<in, next, k>>] < m[at]
      BY <1>1, <2>1, <3>2
    <3> HIDE DEF m, D
    <3> QED
      BY <1>6, <3>1, <3>3
  <2>3. AskedAt(cli, line, calls, f, h, i, j) = AskedAt(cli, line, calls, g, h, i, j)
    <3>1. CASE i > N
      BY <3>1 DEF AskedAt, N
    <3>2. CASE ~(i > N) /\ line[i] = EndOfArguments
      <4>1. i + 1 \in i + 1..N + 1
        BY <1>1, <2>1, <3>2
      <4>2. f[<<h, i + 1, j>>] = g[<<h, i + 1, j>>]
        BY <2>1, <2>2, <4>1
      <4> HIDE DEF h, i, j
      <4> QED
        BY <3>2, <4>2 DEF AskedAt, N
    <3>3. CASE ~(i > N) /\ line[i] # EndOfArguments
      <4>1. j <= Len(calls) => j + 1 \in J
        BY <1>1, <2>1
      <4> HIDE DEF h, i, j
      <4>2. j <= Len(calls) => \A in \in H, next \in i + 1..N + 1 :
                                 f[<<in, next, j + 1>>] = g[<<in, next, j + 1>>]
        BY <2>2, <4>1
      <4> HIDE DEF J, D, I
      <4> QED
        BY <3>3, <4>2 DEF AskedAt, N
    <3> QED
      BY <3>1, <3>2, <3>3
  <2> QED
    BY <1>5, <2>3
<1>7. G \in [D -> [[D -> BOOLEAN] -> BOOLEAN]]
  <2> HIDE DEF D
  <2> QED
    BY <1>5
<1> HIDE DEF G, m
<1>8. ByMeasure(D, BOOLEAN, N, m, G)
  <2> HIDE DEF D
  <2> QED
    BY <1>1, <1>4, <1>6, <1>7 DEF ByMeasure
<1>9. PICK f \in [D -> BOOLEAN] : \A at \in D : f[at] = G[at][f]
  <2> HIDE DEF D
  <2> QED
    BY <1>8, Recursion
<1>10. Equation(f)
  <2> HIDE DEF D
  <2> QED
    BY <1>5, <1>9
<1>11. Equation(computed)
  BY <1>10
<1> HIDE DEF computed
<1>12. ASSUME NEW h \in H, NEW i \in I, NEW j \in J
       PROVE  computed[<<h, i, j>>] <=> AskedAt(cli, line, calls, computed, h, i, j)
  <2> DEFINE at == <<h, i, j>>
  <2>1. at \in D /\ at[1] = h /\ at[2] = i /\ at[3] = j
    OBVIOUS
  <2> HIDE DEF at, D
  <2>2. computed[at] = AskedAt(cli, line, calls, computed, at[1], at[2], at[3])
    BY <1>11, <2>1
  <2> QED
    BY <2>1, <2>2 DEF at
<1>13. Unfolds(cli, line, calls, computed)
  BY <1>12 DEF Unfolds, N
<1> QED
  BY <1>2, <1>13

\* What has been called so far are the first of the calls, and the rest of the
\* command line asks for the rest of them.
Explained(f, calls, s) ==
  LET sofar == s.pass.calls
  IN  /\ Len(sofar) <= Len(calls)
      /\ \A k \in 1..Len(sofar) : sofar[k] = calls[k]
      /\ f[<<s.handler, s.begin_arg, Len(sofar) + 1>>]

\* A callback that does not fail is the last of the calls.
LEMMA CallbackAppends ==
  ASSUME NEW cli
  PROVE  \A cb \in Calls(cli), error \in Errors, p \in Passes(cli) :
           \/ Callback(cli, p, TRUE, cb, error).error = error
           \/ Callback(cli, p, TRUE, cb, error).calls = Append(p.calls, cb)
  BY CalledBack

\* When the state after an argument is accounted for, so is the one before.
LEMMA StepIsExplained ==
  ASSUME NEW cli, IsInterface(cli), NEW line \in Seq(Arguments), NEW calls \in Seq(Calls(cli)), NEW f,
         Unfolds(cli, line, calls, f),
         NEW s \in PassStates(cli, line),
         Step(cli, TRUE, line, s).pass.error = NoError,
         Explained(f, calls, Step(cli, TRUE, line, s))
  PROVE  Explained(f, calls, s)
<1> DEFINE p == s.pass
           h == s.handler
           i == s.begin_arg
           t == Step(cli, TRUE, line, s)
           j == Len(p.calls) + 1
<1>1. CASE Ended(line, s)
  BY <1>1, StepEnded
<1>2. CASE ~Ended(line, s)
  <2>1. /\ p \in Passes(cli) /\ h \in DOMAIN cli.handlers /\ i \in 1..Len(line)
        /\ p.error = NoError /\ Len(line) \in Nat /\ Len(calls) \in Nat
    BY <1>2 DEF PassStates, Ended
  <2>2. t = Proceed(cli, TRUE, line, p, h, i) /\ t.pass.error = NoError /\ Explained(f, calls, t)
    BY DEF Step
  <2>3. p.calls \in Seq(Calls(cli)) /\ Len(p.calls) \in Nat /\ j \in Nat /\ j >= 1
    <3>1. p.calls \in Seq(Calls(cli))
      BY <2>1 DEF Passes
    <3> QED
      BY <3>1
  <2> SUFFICES /\ Len(p.calls) <= Len(calls)
               /\ \A k \in 1..Len(p.calls) : p.calls[k] = calls[k]
               /\ f[<<h, i, j>>]
    BY DEF Explained
  <2> HIDE DEF p, h, i, t
  <2>4. CASE Refused(cli, line, h, i)
    <3>1. PICK error \in Errors, next \in 1..Len(line) + 1 :
            error # NoError /\ t = Reached(Fail(p, error), h, next)
      BY <2>1, <2>2, <2>4 DEF Refused
    <3>2. Fail(p, error).error = error
      BY <2>1, FailedPass
    <3>3. t.pass = Fail(p, error)
      BY <3>1 DEF Reached
    <3> QED
      BY <2>2, <3>1, <3>2, <3>3
  <2>5. CASE Skipped(cli, line, h, i)
    <3>1. line[i] = EndOfArguments /\ t = Reached(p, h, i + 1)
      BY <2>1, <2>2, <2>5 DEF Skipped
    <3>2. t.pass = p /\ t.handler = h /\ t.begin_arg = i + 1
      BY <3>1 DEF Reached
    <3>3. /\ Len(p.calls) <= Len(calls) /\ \A k \in 1..Len(p.calls) : p.calls[k] = calls[k]
          /\ f[<<h, i + 1, j>>]
      <4> DEFINE sofar == t.pass.calls
      <4>1. /\ Len(sofar) <= Len(calls) /\ \A k \in 1..Len(sofar) : sofar[k] = calls[k]
            /\ f[<<t.handler, t.begin_arg, Len(sofar) + 1>>]
        BY <2>2 DEF Explained
      <4>2. sofar = p.calls
        BY <3>2
      <4> HIDE DEF sofar
      <4> QED
        BY <3>2, <4>1, <4>2
    <3>4. j \in 1..Len(calls) + 1 /\ i \in 1..Len(line) + 1 /\ ~(i > Len(line))
      BY <2>1, <2>3, <3>3
    <3> HIDE DEF j
    <3>5. AskedAt(cli, line, calls, f, h, i, j)
      BY <3>1, <3>3, <3>4 DEF AskedAt
    <3> QED
      BY <2>1, <3>3, <3>4, <3>5 DEF Unfolds
  <2>6. CASE Handed(cli, line, h, i)
    <3>1. PICK cb \in Calls(cli), error \in Thrown,
               into \in DOMAIN cli.handlers, next \in i + 1..Len(line) + 1 :
            /\ AsksFor(cli, line, h, i, cb, into, next)
            /\ t = Reached(Callback(cli, p, TRUE, cb, error), into, next)
      BY <2>1, <2>2, <2>6 DEF Handed
    <3>2. line[i] # EndOfArguments
      BY <2>6 DEF Handed
    <3> DEFINE c == Callback(cli, p, TRUE, cb, error)
    <3>3. error \in Errors /\ error # NoError
      BY DEF Errors, NoError, Thrown
    <3>4. c.error = error \/ c.calls = Append(p.calls, cb)
      <4> DEFINE q == p
      <4>1. \A k \in Calls(cli), e \in Errors, r \in Passes(cli) :
              \/ Callback(cli, r, TRUE, k, e).error = e
              \/ Callback(cli, r, TRUE, k, e).calls = Append(r.calls, k)
        BY CallbackAppends
      <4> QED
        BY <2>1, <3>3, <4>1, Zenon
    <3> HIDE DEF c
    <3>5. t.pass = c /\ t.handler = into /\ t.begin_arg = next
      BY <3>1 DEF Reached, c
    <3>6. c.calls = Append(p.calls, cb)
      BY <2>2, <3>3, <3>4, <3>5
    <3>7. /\ Len(c.calls) <= Len(calls) /\ \A k \in 1..Len(c.calls) : c.calls[k] = calls[k]
          /\ f[<<into, next, Len(c.calls) + 1>>]
      BY <2>2, <3>5 DEF Explained
    <3>8. Len(c.calls) = j /\ c.calls[j] = cb /\ \A k \in 1..Len(p.calls) : c.calls[k] = p.calls[k]
      <4> DEFINE S == Calls(cli)
                 e == p.calls
      <4>1. e \in Seq(S) /\ cb \in S
        BY <2>3
      <4>2. c.calls = Append(e, cb) /\ j = Len(e) + 1
        BY <3>6
      <4> HIDE DEF S, e, j
      <4>3. /\ Len(Append(e, cb)) = Len(e) + 1 /\ Append(e, cb)[Len(e) + 1] = cb
            /\ \A k \in 1..Len(e) : Append(e, cb)[k] = e[k]
        BY <4>1, AppendProperties
      <4> QED
        BY <4>2, <4>3 DEF e
    <3>9. /\ j <= Len(calls) /\ calls[j] = cb
          /\ \A k \in 1..Len(p.calls) : p.calls[k] = calls[k]
      <4>1. j \in 1..Len(c.calls) /\ \A k \in 1..Len(p.calls) : k \in 1..Len(c.calls)
        <5> DEFINE l == Len(p.calls)
        <5>1. l \in Nat /\ j = l + 1 /\ Len(c.calls) = j
          BY <2>3, <3>8
        <5> HIDE DEF l, j
        <5> QED
          BY <5>1 DEF l
      <4> HIDE DEF j
      <4> QED
        BY <3>7, <3>8, <4>1
    <3>10. j \in 1..Len(calls) + 1 /\ i \in 1..Len(line) + 1 /\ ~(i > Len(line)) /\ Len(p.calls) <= Len(calls)
      <4> DEFINE l == Len(p.calls)
                 m == Len(calls)
      <4>1. l \in Nat /\ j = l + 1 /\ j <= m /\ m \in Nat
        BY <2>1, <2>3, <3>9
      <4>2. i \in 1..Len(line) + 1 /\ ~(i > Len(line))
        BY <2>1
      <4> HIDE DEF l, j, m
      <4>3. j \in 1..m + 1 /\ l <= m
        BY <4>1
      <4> QED
        BY <4>2, <4>3 DEF l, m
    <3> HIDE DEF j
    <3>11. \E k \in DOMAIN cli.handlers, n \in i + 1..Len(line) + 1 :
             AsksFor(cli, line, h, i, calls[j], k, n) /\ f[<<k, n, j + 1>>]
      BY <3>1, <3>7, <3>8, <3>9, Zenon
    <3>12. AskedAt(cli, line, calls, f, h, i, j)
      BY <3>2, <3>9, <3>10, <3>11, Zenon DEF AskedAt
    <3> QED
      BY <2>1, <3>9, <3>10, <3>12 DEF Unfolds
  <2>7. CASE Unhandled(cli, line, h, i)
    <3>1. t = Reached(Fail(p, "invalid positional argument"), h, i + 1)
      BY <2>1, <2>2, <2>7 DEF Unhandled
    <3>2. "invalid positional argument" \in Errors /\ "invalid positional argument" # NoError
      BY DEF Errors, NoError
    <3>3. Fail(p, "invalid positional argument").error = "invalid positional argument"
      BY <2>1, <3>2, FailedPass
    <3>4. t.pass = Fail(p, "invalid positional argument")
      BY <3>1 DEF Reached
    <3> QED
      BY <2>2, <3>2, <3>3, <3>4
  <2> QED
    BY <2>1, <2>4, <2>5, <2>6, <2>7, StepShape
<1> QED
  BY <1>1, <1>2

\* A command line that is accepted is accounted for.
LEMMA ArgumentsAreAccounted ==
  ASSUME NEW cli, IsInterface(cli), NEW line \in Seq(Arguments),
         ValidateAndCall(cli, TRUE, line).error = NoError
  PROVE  Accounted(cli, line, ValidateAndCall(cli, TRUE, line).calls)
<1> DEFINE N == Len(line)
           Result(t) == IF t.pass.error = NoError /\ cli.handlers[t.handler].only_subcmd
                        THEN Fail(t.pass, "no subcommand") ELSE t.pass
<1>1. N \in Nat
  OBVIOUS
<1>2. PICK s \in [0..N -> PassStates(cli, line)] :
        /\ s[0] = Reached(Started, cli.root, 1)
        /\ \A n \in 1..N : s[n] = Step(cli, TRUE, line, s[n - 1])
        /\ ValidateAndCall(cli, TRUE, line) = Result(s[N])
  <2>1. TRUE \in BOOLEAN
    OBVIOUS
  <2> QED
    BY <2>1, StatesOfPass
<1> HIDE DEF N
<1>3. \A n \in 0..N : s[n] \in PassStates(cli, line)
  OBVIOUS
<1> DEFINE t == s[N]
           calls == t.pass.calls
<1>4. t \in PassStates(cli, line)
  BY <1>1
<1> HIDE DEF t
<1>4a. t.pass \in Passes(cli)
  BY <1>4 DEF PassStates
<1>4b. calls \in Seq(Calls(cli))
  BY <1>4a DEF Passes
<1>5. t.pass.error = NoError /\ ValidateAndCall(cli, TRUE, line).calls = calls
  <2>1. ValidateAndCall(cli, TRUE, line) = Result(t)
    BY <1>2 DEF t
  <2>2. "no subcommand" \in Errors /\ "no subcommand" # NoError
    BY DEF Errors, NoError
  <2>3. Fail(t.pass, "no subcommand").error # NoError
    BY <1>4a, <2>2, FailedPass
  <2> QED
    BY <2>1, <2>3
<1> HIDE DEF calls
<1>6. \A n \in 0..N : s[n].pass.error = NoError
  <2>1. TRUE \in BOOLEAN
    OBVIOUS
  <2> QED
    BY <1>2, <1>5, <2>1, NoErrorOnTheWay DEF N, t
<1>7. t.begin_arg > N
  <2> DEFINE Good == {n \in 0..N : s[n].begin_arg > n}
  <2>1. 0 \in Good
    <3>0. Reached(Started, cli.root, 1).begin_arg = 1
      BY DEF Reached
    <3>1. s[0].begin_arg = 1
      BY <1>2, <3>0, Zenon
    <3>2. 0 \in 0..N
      BY <1>1
    <3> QED
      BY <3>1, <3>2
  <2>2. ASSUME NEW n \in 0..N - 1, n \in Good PROVE n + 1 \in Good
    <3>1. n + 1 \in 1..N /\ (n + 1) - 1 = n /\ n + 1 \in 0..N /\ n \in 0..N
      BY <1>1
    <3> DEFINE b == s[n]
               c == s[n + 1]
    <3>2. /\ b \in PassStates(cli, line) /\ c = Step(cli, TRUE, line, b)
          /\ c.pass.error = NoError /\ b.pass.error = NoError /\ b.begin_arg > n
      BY <1>2, <1>3, <1>6, <2>2, <3>1
    <3> HIDE DEF b, c
    <3>3. b.begin_arg \in Int
      BY <3>2 DEF PassStates
    <3>4. c.begin_arg > n + 1
      <4>1. CASE Ended(line, b)
        <5>1. c = b /\ b.begin_arg > N
          BY <3>2, <4>1, StepEnded DEF Ended, N
        <5> QED
          <6> DEFINE y == b.begin_arg
          <6>1. y \in Int /\ y > N /\ n + 1 <= N /\ n \in Int
            BY <1>1, <3>1, <3>3, <5>1
          <6> HIDE DEF y
          <6>2. y > n + 1
            BY <1>1, <6>1
          <6> QED
            BY <5>1, <6>2 DEF y
      <4>2. CASE ~Ended(line, b)
        <5>1. TRUE \in BOOLEAN
          OBVIOUS
        <5>2. c \in PassStates(cli, line) /\ c.begin_arg > b.begin_arg
          BY <3>2, <4>2, <5>1, StepGoesOn
        <5>3. c.begin_arg \in Int
          BY <5>2 DEF PassStates
        <5> QED
          <6> DEFINE x == c.begin_arg
                     y == b.begin_arg
          <6>1. x \in Int /\ y \in Int /\ x > y /\ y > n /\ n \in Int
            <7>1. x \in Int /\ y \in Int
              BY <3>3, <5>3
            <7>2. x > y
              BY <5>2
            <7>3. y > n
              BY <3>2
            <7>4. n \in Int
              BY <1>1
            <7> QED
              BY <7>1, <7>2, <7>3, <7>4
          <6> HIDE DEF x, y
          <6>2. x > n + 1
            BY <6>1
          <6> QED
            BY <6>2 DEF x
      <4> QED
        BY <4>1, <4>2
    <3> QED
      BY <3>1, <3>4 DEF c
  <2> HIDE DEF Good
  <2>3. \A n \in 0..N : n \in Good
    BY <1>1, <2>1, <2>2, Induction
  <2> QED
    BY <1>1, <2>3 DEF Good, t
<1>8. PICK f :
        /\ Unfolds(cli, line, calls, f)
        /\ Accounted(cli, line, calls) <=> f[<<cli.root, 1, 1>>]
  BY <1>4b, AccountedUnfolds
<1> DEFINE Good == {n \in 0..N : Explained(f, calls, s[N - n])}
<1>9. 0 \in Good
  <2>1. 0 \in 0..N /\ N - 0 = N
    BY <1>1
  <2>2. Len(calls) \in Nat /\ Len(calls) + 1 \in 1..Len(calls) + 1 /\ Len(calls) + 1 > Len(calls)
    BY <1>4b
  <2>3. t.handler \in DOMAIN cli.handlers /\ t.begin_arg \in 1..Len(line) + 1
    BY <1>4 DEF PassStates
  <2>4. AskedAt(cli, line, calls, f, t.handler, t.begin_arg, Len(calls) + 1)
    BY <1>7, <2>2 DEF AskedAt, N
  <2>5. f[<<t.handler, t.begin_arg, Len(calls) + 1>>]
    BY <1>8, <2>2, <2>3, <2>4 DEF Unfolds
  <2>6. Explained(f, calls, t)
    BY <2>2, <2>5 DEF Explained, calls
  <2> QED
    BY <2>1, <2>6 DEF t
<1>10. ASSUME NEW n \in 0..N - 1, n \in Good PROVE n + 1 \in Good
  <2>1. N - n \in 1..N /\ (N - n) - 1 = N - (n + 1) /\ N - (n + 1) \in 0..N /\ n + 1 \in 0..N /\ N - n \in 0..N
    BY <1>1
  <2> DEFINE b == s[N - (n + 1)]
  <2>2. /\ b \in PassStates(cli, line) /\ s[N - n] = Step(cli, TRUE, line, b)
        /\ Explained(f, calls, s[N - n]) /\ s[N - n].pass.error = NoError
    BY <1>2, <1>3, <1>6, <1>10, <2>1
  <2> HIDE DEF b
  <2>3. Explained(f, calls, b)
    BY <1>4b, <1>8, <2>2, StepIsExplained
  <2> QED
    BY <2>1, <2>3 DEF b
<1> HIDE DEF Good
<1>11. \A n \in 0..N : n \in Good
  BY <1>1, <1>9, <1>10, Induction
<1>12. N \in Good /\ N - N = 0
  BY <1>1, <1>11
<1>13. Explained(f, calls, s[0])
  BY <1>12 DEF Good
<1>14. s[0].handler = cli.root /\ s[0].begin_arg = 1 /\ s[0].pass.calls = <<>>
  <2>1. Reached(Started, cli.root, 1).pass = Started /\ Started.calls = <<>>
    BY DEF Reached, Started
  <2>2. Reached(Started, cli.root, 1).handler = cli.root /\ Reached(Started, cli.root, 1).begin_arg = 1
    BY DEF Reached
  <2> QED
    BY <1>2, <2>1, <2>2
<1>15. f[<<cli.root, 1, 1>>]
  <2>1. f[<<s[0].handler, s[0].begin_arg, Len(s[0].pass.calls) + 1>>]
    BY <1>13 DEF Explained
  <2>2. Len(<<>>) + 1 = 1
    OBVIOUS
  <2> QED
    BY <1>14, <2>1, <2>2
<1> QED
  BY <1>5, <1>8, <1>15

\* parse_options calls back what the command line asks for, and in its order
\* (getopts_impl.hpp).
LEMMA ArgumentsReach ==
  ASSUME NEW cli, IsInterface(cli), NEW line \in Seq(Arguments),
         ParseOptions(cli, line).error = NoError
  PROVE  Accounted(cli, line, ParseOptions(cli, line).calls)
<1>1. ParseOptions(cli, line) = ValidateAndCall(cli, TRUE, line)
  BY DEF ParseOptions
<1> QED
  BY <1>1, ArgumentsAreAccounted

(* The calls. *)
Threefry20(n, digits, k) == [counter \in Blocks(n) |-> Block(n, digits, k, counter, 20)]

\* What is called is called with one of its inputs, and what it has returned
\* is what the function gives for it.
WildcardCall ==
  /\ op = "match_wildcard"
  /\ \E expression \in Expressions, str \in Subjects :
       args = <<expression, str>> /\ (done => result = MatchWildcard(expression, str))
SplitCall ==
  op = "split_string" /\ args \in Texts /\ (done => result = SplitString(args, {Delimiter}))
PercentCall ==
  op = "percent_encode" /\ args \in ByteTexts /\ (done => result = PercentEncode(args))
Base64Call ==
  op = "base64_encode" /\ args \in ByteTexts /\ (done => result = Encode(args))
UriCall ==
  op = "parse_uri" /\ args \in Addresses /\ (done => result = ParseUri(args))
DigestCall ==
  op = "get_digest" /\ args \in Messages /\ (done => result = Digest(args))
SeedCall ==
  /\ op = "generate_deterministic_seed"
  /\ \E seed \in DerivedFrom, key \in DerivedFrom :
       args = <<seed, key>> /\ (done => result = GenerateDeterministicSeed(seed, key))
CipherCall ==
  /\ op = "threefry"
  /\ \E n \in {2, 4}, digits \in {32, 64} : \E k \in Blocks(n) :
       args = <<n, digits, k>> /\ (done => result = Threefry20(n, digits, k))
OptionsCall ==
  /\ op = "parse_options"
  /\ \E cli \in Interfaces, line \in CommandLines :
       args = <<cli, line>> /\ (done => result = ParseOptions(cli, line))

\* The inductive invariant: one of the functions was called.
IInv ==
  /\ done \in BOOLEAN
  /\ \/ WildcardCall \/ SplitCall \/ PercentCall \/ Base64Call \/ UriCall
     \/ DigestCall \/ SeedCall \/ CipherCall \/ OptionsCall

\* The functions have been called with their inputs, and have not returned.
LEMMA InitIInv == Init => IInv
<1> SUFFICES ASSUME Init PROVE IInv
  OBVIOUS
<1>1. ~done /\ done \in BOOLEAN
  BY DEF Init
<1>2. CASE \E expression \in Expressions, str \in Subjects : Called("match_wildcard", <<expression, str>>)
  BY <1>1, <1>2 DEF IInv, WildcardCall, Called
<1>3. CASE \E str \in Texts : Called("split_string", str)
  BY <1>1, <1>3 DEF IInv, SplitCall, Called
<1>4. CASE \E str \in ByteTexts : Called("percent_encode", str)
  BY <1>1, <1>4 DEF IInv, PercentCall, Called
<1>5. CASE \E str \in ByteTexts : Called("base64_encode", str)
  BY <1>1, <1>5 DEF IInv, Base64Call, Called
<1>6. CASE \E str \in Addresses : Called("parse_uri", str)
  BY <1>1, <1>6 DEF IInv, UriCall, Called
<1>7. CASE \E message \in Messages : Called("get_digest", message)
  BY <1>1, <1>7 DEF IInv, DigestCall, Called
<1>8. CASE \E seed, key \in DerivedFrom : Called("generate_deterministic_seed", <<seed, key>>)
  BY <1>1, <1>8 DEF IInv, SeedCall, Called
<1>9. CASE \E n \in {2, 4}, digits \in {32, 64} : \E k \in Blocks(n) : Called("threefry", <<n, digits, k>>)
  <2>1. PICK n \in {2, 4}, digits \in {32, 64} : \E k \in Blocks(n) : Called("threefry", <<n, digits, k>>)
    BY <1>9
  <2>2. PICK k \in Blocks(n) : Called("threefry", <<n, digits, k>>)
    BY <2>1
  <2>3. op = "threefry" /\ args = <<n, digits, k>>
    BY <2>2 DEF Called
  <2>4. CipherCall
    BY <1>1, <2>3, Zenon DEF CipherCall
  <2> QED
    BY <1>1, <2>4 DEF IInv
<1>10. CASE \E cli \in Interfaces, line \in CommandLines : Called("parse_options", <<cli, line>>)
  BY <1>1, <1>10 DEF IInv, OptionsCall, Called
<1> QED
  BY <1>2, <1>3, <1>4, <1>5, <1>6, <1>7, <1>8, <1>9, <1>10 DEF Init

\* Each function returns what its definition gives, and changes nothing else.
LEMMA NextIInv == IInv /\ [Next]_vars => IInv'
<1> SUFFICES ASSUME IInv, [Next]_vars PROVE IInv'
  OBVIOUS
<1>1. CASE UNCHANGED vars
  BY <1>1 DEF IInv, WildcardCall, SplitCall, PercentCall, Base64Call, UriCall, DigestCall,
              SeedCall, CipherCall, OptionsCall, vars
<1>2. CASE Next
  <2>0. ASSUME NEW value, Returns(value)
        PROVE  done' = TRUE /\ done' \in BOOLEAN /\ result' = value /\ op' = op /\ args' = args
    BY <2>0 DEF Returns
  <2>1. CASE match_wildcard
    <3>1. WildcardCall
      BY <2>1 DEF match_wildcard, IInv, WildcardCall, SplitCall, PercentCall, Base64Call, UriCall,
                  DigestCall, SeedCall, CipherCall, OptionsCall
    <3>2. PICK expression \in Expressions, str \in Subjects : args = <<expression, str>>
      BY <3>1 DEF WildcardCall
    <3>3. result' = MatchWildcard(expression, str) /\ args' = <<expression, str>>
      BY <2>0, <2>1, <3>2 DEF match_wildcard
    <3>4. op' = "match_wildcard" /\ done' \in BOOLEAN
      BY <2>0, <2>1 DEF match_wildcard
    <3> QED
      BY <3>2, <3>3, <3>4 DEF IInv, WildcardCall
  <2>2. CASE split_string
    <3>1. SplitCall
      BY <2>2 DEF split_string, IInv, WildcardCall, SplitCall, PercentCall, Base64Call, UriCall,
                  DigestCall, SeedCall, CipherCall, OptionsCall
    <3>2. SplitCall' /\ done' \in BOOLEAN
      BY <2>0, <2>2, <3>1 DEF split_string, SplitCall
    <3> QED
      BY <3>2 DEF IInv
  <2>3. CASE percent_encode
    <3>1. PercentCall
      BY <2>3 DEF percent_encode, IInv, WildcardCall, SplitCall, PercentCall, Base64Call, UriCall,
                  DigestCall, SeedCall, CipherCall, OptionsCall
    <3>2. PercentCall' /\ done' \in BOOLEAN
      BY <2>0, <2>3, <3>1 DEF percent_encode, PercentCall
    <3> QED
      BY <3>2 DEF IInv
  <2>4. CASE base64_encode
    <3>1. Base64Call
      BY <2>4 DEF base64_encode, IInv, WildcardCall, SplitCall, PercentCall, Base64Call, UriCall,
                  DigestCall, SeedCall, CipherCall, OptionsCall
    <3>2. Base64Call' /\ done' \in BOOLEAN
      BY <2>0, <2>4, <3>1 DEF base64_encode, Base64Call
    <3> QED
      BY <3>2 DEF IInv
  <2>5. CASE parse_uri
    <3>1. UriCall
      BY <2>5 DEF parse_uri, IInv, WildcardCall, SplitCall, PercentCall, Base64Call, UriCall,
                  DigestCall, SeedCall, CipherCall, OptionsCall
    <3>2. UriCall' /\ done' \in BOOLEAN
      BY <2>0, <2>5, <3>1 DEF parse_uri, UriCall
    <3> QED
      BY <3>2 DEF IInv
  <2>6. CASE get_digest
    <3>1. DigestCall
      BY <2>6 DEF get_digest, IInv, WildcardCall, SplitCall, PercentCall, Base64Call, UriCall,
                  DigestCall, SeedCall, CipherCall, OptionsCall
    <3>2. DigestCall' /\ done' \in BOOLEAN
      BY <2>0, <2>6, <3>1 DEF get_digest, DigestCall
    <3> QED
      BY <3>2 DEF IInv
  <2>7. CASE generate_deterministic_seed
    <3>1. SeedCall
      BY <2>7 DEF generate_deterministic_seed, IInv, WildcardCall, SplitCall, PercentCall, Base64Call,
                  UriCall, DigestCall, SeedCall, CipherCall, OptionsCall
    <3>2. PICK seed \in DerivedFrom, key \in DerivedFrom : args = <<seed, key>>
      BY <3>1 DEF SeedCall
    <3>3. result' = GenerateDeterministicSeed(seed, key) /\ args' = <<seed, key>>
      BY <2>0, <2>7, <3>2 DEF generate_deterministic_seed
    <3>4. op' = "generate_deterministic_seed" /\ done' \in BOOLEAN
      BY <2>0, <2>7 DEF generate_deterministic_seed
    <3> QED
      BY <3>2, <3>3, <3>4 DEF IInv, SeedCall
  <2>8. CASE threefry
    <3>1. CipherCall
      BY <2>8 DEF threefry, IInv, WildcardCall, SplitCall, PercentCall, Base64Call, UriCall,
                  DigestCall, SeedCall, CipherCall, OptionsCall
    <3>2. PICK n \in {2, 4}, digits \in {32, 64} : \E k \in Blocks(n) : args = <<n, digits, k>>
      BY <3>1 DEF CipherCall
    <3>3. PICK k \in Blocks(n) : args = <<n, digits, k>>
      BY <3>2
    <3>4. args[1] = n /\ args[2] = digits /\ args[3] = k
      BY <3>3
    <3>5. result' = Threefry20(args[1], args[2], args[3]) /\ args' = args
      BY <2>0, <2>8 DEF threefry, Threefry20
    <3>6. op' = "threefry" /\ done' \in BOOLEAN
      BY <2>0, <2>8 DEF threefry
    <3>7. result' = Threefry20(n, digits, k)
      BY <3>4, <3>5
    <3>8. CipherCall'
      BY <3>3, <3>5, <3>6, <3>7, Zenon DEF CipherCall
    <3> QED
      BY <3>6, <3>8 DEF IInv
  <2>9. CASE parse_options
    <3>1. OptionsCall
      BY <2>9 DEF parse_options, IInv, WildcardCall, SplitCall, PercentCall, Base64Call, UriCall,
                  DigestCall, SeedCall, CipherCall, OptionsCall
    <3>2. PICK cli \in Interfaces, line \in CommandLines : args = <<cli, line>>
      BY <3>1 DEF OptionsCall
    <3>3. result' = ParseOptions(cli, line) /\ args' = <<cli, line>>
      BY <2>0, <2>9, <3>2 DEF parse_options
    <3>4. op' = "parse_options" /\ done' \in BOOLEAN
      BY <2>0, <2>9 DEF parse_options
    <3> QED
      BY <3>2, <3>3, <3>4 DEF IInv, OptionsCall
  <2> QED
    BY <1>2, <2>1, <2>2, <2>3, <2>4, <2>5, <2>6, <2>7, <2>8, <2>9 DEF Next
<1> QED
  BY <1>1, <1>2

\* In every state, what has returned is the value of the function that was called,
\* for its arguments: the invariant that the theorems below follow from.
LEMMA CallsReturn == Spec => []IInv
<1>1. Init => IInv
  BY InitIInv
<1>2. IInv /\ [Next]_vars => IInv'
  BY NextIInv
<1> QED
  BY <1>1, <1>2, PTL DEF Spec

\* match_wildcard returned what the reference says.
LEMMA WildcardReturned == IInv => WildcardFindsMatches
<1> SUFFICES ASSUME IInv, op = "match_wildcard", done
             PROVE  /\ result => Matches(args[1], args[2])
                    /\ Matches(args[1], args[2]) /\ ~Contains(args[2], Star) => result
  BY DEF WildcardFindsMatches, Returned
<1>1. WildcardCall
  BY DEF IInv, WildcardCall, SplitCall, PercentCall, Base64Call, UriCall, DigestCall, SeedCall,
         CipherCall, OptionsCall
<1>2. PICK expression \in Expressions, str \in Subjects :
        args = <<expression, str>> /\ result = MatchWildcard(expression, str)
  BY <1>1 DEF WildcardCall
<1>3. TwoStrings(expression, str)
  BY <1>2, LibraryCallsAssumption DEF TwoStrings
<1>4. args[1] = expression /\ args[2] = str
  BY <1>2
<1> QED
  BY <1>2, <1>3, <1>4, WildcardIsCorrect

\* match_wildcard finds a match exactly when the expression has one, for every
\* expression and every string without a '*' of its own; for any other string
\* what it finds is a match (string_utils_wildcard.hpp).
THEOREM WildcardSafety == Spec => []WildcardFindsMatches
  BY CallsReturn, WildcardReturned, PTL

\* The digest that was returned is of the padded message.
LEMMA DigestReturned == IInv => DigestIsOfPaddedMessage
<1> SUFFICES ASSUME IInv, done, op = "get_digest" \/ op = "generate_deterministic_seed"
             PROVE  LET message == IF op = "get_digest" THEN FlattenSeq(args)
                                   ELSE Salt \o BigEndian(args[2]) \o BigEndian(args[1])
                    IN  Short(message) => result = Cut(Padded(message))
  BY DEF DigestIsOfPaddedMessage, Returned, Cut
<1>1. CASE op = "get_digest"
  <2>1. DigestCall
    BY <1>1 DEF IInv, WildcardCall, SplitCall, PercentCall, Base64Call, UriCall, DigestCall, SeedCall,
                CipherCall, OptionsCall
  <2>2. args \in Seq(Seq(Int)) /\ result = Digest(args)
    BY <2>1, LibraryCallsAssumption DEF DigestCall
  <2>3. ASSUME Short(FlattenSeq(args)) PROVE result = Cut(Padded(FlattenSeq(args)))
    <3> DEFINE Equation(f) == f = [n \in 0..Len(args) |->
                                     IF n = 0 THEN Fresh ELSE ProcessBlock(f[n - 1], args[n])]
               h == (CHOOSE f : Equation(f))[Len(args)]
    <3>1. Loaded(h, FlattenSeq(args))
      BY <2>2, CallsLoaded
    <3>2. Digest(args) = GetDigest(h)
      BY DEF Digest
    <3> HIDE DEF h
    <3>3. FlattenSeq(args) \in Seq(Int)
      BY <3>1 DEF Loaded
    <3> QED
      BY <2>2, <2>3, <3>1, <3>2, <3>3, DigestIsPadded
  <2> QED
    BY <1>1, <2>3
<1>2. CASE op = "generate_deterministic_seed"
  <2>1. SeedCall
    BY <1>2 DEF IInv, WildcardCall, SplitCall, PercentCall, Base64Call, UriCall, DigestCall, SeedCall,
                CipherCall, OptionsCall
  <2>2. PICK seed \in DerivedFrom, key \in DerivedFrom :
          args = <<seed, key>> /\ result = GenerateDeterministicSeed(seed, key)
    BY <2>1 DEF SeedCall
  <2>3. seed \in Nat /\ key \in Nat /\ args[1] = seed /\ args[2] = key
    BY <2>2, LibraryCallsAssumption
  <2>4. result = Cut(Padded(Salt \o BigEndian(key) \o BigEndian(seed)))
    BY <2>2, <2>3, SeedIsLoaded
  <2>5. op # "get_digest"
    BY <1>2
  <2> QED
    BY <2>3, <2>4, <2>5
<1> QED
  BY <1>1, <1>2

\* sha1 compresses the padded message of the standard, however the message was cut
\* into calls of process, and the deterministic seeds are digests of salt, key
\* and seed (sha1.hpp, random_derivate_impl.hpp): for every message whose length
\* fits into the 32 bits that are written of it.
THEOREM DigestSafety == Spec => []DigestIsOfPaddedMessage
  BY CallsReturn, DigestReturned, PTL

\* The table that was returned has no block twice.
LEMMA CipherReturned == IInv => CipherIsBijective
<1> SUFFICES ASSUME IInv, op = "threefry", done
             PROVE  Cardinality({result[c] : c \in DOMAIN result}) = Cardinality(DOMAIN result)
  BY DEF CipherIsBijective, Returned
<1>1. CipherCall
  BY DEF IInv, WildcardCall, SplitCall, PercentCall, Base64Call, UriCall, DigestCall, SeedCall,
         CipherCall, OptionsCall
<1>2. PICK n \in {2, 4}, digits \in {32, 64} :
        \E k \in Blocks(n) : result = Threefry20(n, digits, k)
  BY <1>1 DEF CipherCall
<1>3. PICK k \in Blocks(n) : result = Threefry20(n, digits, k)
  BY <1>2
<1> DEFINE table == Threefry20(n, digits, k)
<1>4. Cardinality({table[c] : c \in DOMAIN table}) = Cardinality(DOMAIN table)
  BY <1>2, <1>3, CipherIsCorrect DEF Threefry20
<1> HIDE DEF table
<1>5. result = table
  BY <1>3 DEF table
<1> QED
  BY <1>4, <1>5

\* Threefry with 2 or 4 words is a bijection of the counters for every key and every
\* width of a word (threefry.hpp).
THEOREM CipherSafety == Spec => []CipherIsBijective
  BY CallsReturn, CipherReturned, PTL

\* The passes over the arguments that were returned are those of the lemmas.
LEMMA OptionsReturned == IInv => OptionErrorsComeFirst /\ ArgumentsReachCallbacks
<1> SUFFICES ASSUME IInv, op = "parse_options", done
             PROVE  /\ result.calls # <<>> =>
                         result.error \in {NoError, "invalid positional argument"}
                           \cup (IF args[1].throwing # {} THEN {"callback", "invalid value"} ELSE {})
                    /\ result.error = NoError => Accounted(args[1], args[2], result.calls)
  BY DEF OptionErrorsComeFirst, ArgumentsReachCallbacks, Returned
<1>1. OptionsCall
  BY DEF IInv, WildcardCall, SplitCall, PercentCall, Base64Call, UriCall, DigestCall, SeedCall,
         CipherCall, OptionsCall
<1>2. PICK cli \in Interfaces, line \in CommandLines :
        args = <<cli, line>> /\ result = ParseOptions(cli, line)
  BY <1>1 DEF OptionsCall
<1>3. IsInterface(cli) /\ line \in Seq(Arguments)
  BY <1>2, LibraryCallsAssumption
<1>4. args[1] = cli /\ args[2] = line
  BY <1>2
<1>5. result.calls # <<>> =>
        result.error \in {NoError, "invalid positional argument"}
          \cup (IF cli.throwing # {} THEN {"callback", "invalid value"} ELSE {})
  BY <1>2, <1>3, ErrorsComeFirst, Zenon
<1>6. result.error = NoError => Accounted(cli, line, result.calls)
  BY <1>2, <1>3, ArgumentsReach, Zenon
<1> QED
  BY <1>4, <1>5, <1>6, Zenon

\* parse_options validates the whole command line before it calls back: once a
\* callback has run, only a callback or a positional argument can fail
\* (getopts_impl.hpp), for every interface and every command line.
THEOREM OptionErrorsSafety == Spec => []OptionErrorsComeFirst
  BY CallsReturn, OptionsReturned, PTL

\* Every argument of a command line that is accepted has reached the callback of its
\* option, command or positional argument, in the order of the command line
\* (getopts_impl.hpp), for every interface and every command line.
THEOREM ArgumentsSafety == Spec => []ArgumentsReachCallbacks
  BY CallsReturn, OptionsReturned, PTL

\* The fragments that were returned are those of the lemmas.
LEMMA FragmentsReturned ==
  ASSUME IInv, op = "split_string", done
  PROVE  LET Begins == {i \in DOMAIN args : args[i] # Delimiter /\ (i = 1 \/ args[i - 1] = Delimiter)}
         IN  /\ Len(result) = Cardinality(Begins)
             /\ FlattenSeq(result)
                  = FlattenSeq([i \in DOMAIN args |-> IF args[i] = Delimiter THEN <<>> ELSE <<args[i]>>])
             /\ \A n \in DOMAIN result : result[n] # <<>>
             /\ Len(FlattenSeq(result)) + Len(result) = Len(args) + 1
                  => Join(result, <<Delimiter>>) = args
<1>1. SplitCall
  BY DEF IInv, WildcardCall, SplitCall, PercentCall, Base64Call, UriCall, DigestCall, SeedCall,
         CipherCall, OptionsCall
<1>2. args \in Seq(Int) /\ Delimiter \in Int /\ result = SplitString(args, {Delimiter})
  BY <1>1, LibraryCallsAssumption DEF SplitCall
<1>3. PICK f : SplitSteps(args, Delimiter, f) /\ result = f[1]
  BY <1>2, SplitStepwise
<1>4. Len(f[1]) = Cardinality({i \in DOMAIN args : args[i] # Delimiter /\ (i = 1 \/ args[i - 1] = Delimiter)})
  BY <1>3, FragmentsAreRuns
<1>5. FlattenSeq(f[1])
        = FlattenSeq([i \in DOMAIN args |-> IF args[i] = Delimiter THEN <<>> ELSE <<args[i]>>])
  BY <1>3, FragmentsKeepLetters
<1>6. \A n \in DOMAIN f[1] : f[1][n] # <<>>
  BY <1>3, FragmentsAreFull
<1>7. Len(FlattenSeq(f[1])) + Len(f[1]) = Len(args) + 1 => Join(f[1], <<Delimiter>>) = args
  <2>1. Room(f[1]) = Len(args) + 1 => Join(f[1], <<Delimiter>>) = args
    BY <1>3, JoinRestores
  <2> QED
    BY <2>1 DEF Room
<1> QED
  BY <1>3, <1>4, <1>5, <1>6, <1>7

\* Nothing is lost in what was returned.
LEMMA TextReturned == IInv => NothingIsLost
<1> SUFFICES ASSUME IInv PROVE NothingIsLost
  OBVIOUS
<1>1. ASSUME op = "percent_encode", done
      PROVE  /\ PercentDecode(result) = args
             /\ \A i \in DOMAIN result : result[i] \in PercentUnreserved \cup {Percent}
  <2>1. PercentCall
    BY <1>1 DEF IInv, WildcardCall, SplitCall, PercentCall, Base64Call, UriCall, DigestCall, SeedCall,
                CipherCall, OptionsCall
  <2>2. args \in Seq(0..255) /\ result = PercentEncode(args)
    BY <1>1, <2>1, LibraryCallsAssumption DEF PercentCall
  <2>3. /\ PercentDecode(PercentEncode(args)) = args
        /\ \A i \in DOMAIN PercentEncode(args) : PercentEncode(args)[i] \in PercentUnreserved \cup {Percent}
    BY <2>2, PercentUndone
  <2> QED
    BY <2>2, <2>3
<1>2. ASSUME op = "base64_encode", done
      PROVE  /\ Len(result) % 4 = 0 /\ \A i \in DOMAIN result : result[i] = Padding => i > Len(result) - 2
             /\ args = <<>> \/ Last(args) # 0 => Decode(result) = args
  <2>1. Base64Call
    BY <1>2 DEF IInv, WildcardCall, SplitCall, PercentCall, Base64Call, UriCall, DigestCall, SeedCall,
                CipherCall, OptionsCall
  <2>2. args \in Seq(0..255) /\ result = Encode(args)
    BY <1>2, <2>1, LibraryCallsAssumption DEF Base64Call
  <2>3. /\ Len(Encode(args)) % 4 = 0
        /\ \A i \in DOMAIN Encode(args) : Encode(args)[i] = Padding => i > Len(Encode(args)) - 2
        /\ Decode(Encode(args)) = TrimRight(args)
    BY <2>2, EncodeUndone
  <2>4. args = <<>> \/ Last(args) # 0 => TrimRight(args) = args
    BY <2>2, NothingTrimmed
  <2> QED
    BY <2>2, <2>3, <2>4
<1> QED
  BY <1>1, <1>2, FragmentsReturned DEF NothingIsLost, Returned

\* split_string, join and the codecs lose nothing (string/split.hpp, percent_codec.hpp,
\* base64.hpp): the fragments are the runs of a string, join undoes a split that
\* dropped nothing, and a decoder returns what was encoded, base64::decode of every
\* string whose last byte is no zero.
THEOREM NothingLost == Spec => []NothingIsLost
  BY CallsReturn, TextReturned, PTL

\* The parts that were returned, put together again, are the URI.
LEMMA UriReturned == IInv => UriPartsReassemble
<1> SUFFICES ASSUME IInv, op = "parse_uri", done, result.valid PROVE UriPartsReassemble
  BY DEF UriPartsReassemble, Returned
<1> DEFINE parts == result.parts
           query == Text(args, parts, "query")
           rest == SubSeq(args, Len(Text(args, parts, "scheme")) + 2, Len(args))
<1>1. UriCall
  BY DEF IInv, WildcardCall, SplitCall, PercentCall, Base64Call, UriCall, DigestCall, SeedCall,
         CipherCall, OptionsCall
<1>2. args \in Seq(Int) /\ QueryKey \in Seq(Int) /\ result = ParseUri(args)
  BY <1>1, LibraryCallsAssumption DEF UriCall
<1>3. ParseUri(args).valid /\ parts = ParseUri(args).parts /\ RestOf(args, parts, rest)
  BY <1>2 DEF RestOf
<1>4. query = Get(args, "query")
  BY <1>3 DEF Get, Text
<1>5. \A name : StringFromView(args, result.parts[name]) = Text(args, parts, name)
  BY DEF Text
<1> HIDE DEF rest
<1>6. /\ args = Text(args, parts, "scheme") \o <<Colon>> \o rest
      /\ IsPrefix(<<Slash, Slash>>, rest) => AuthorityRest(args, parts, rest)
      /\ ~IsPrefix(<<Slash, Slash>>, rest) => PathRest(args, parts, rest)
      /\ CleanParts(args, parts) /\ query \in Seq(Int)
  <2> HIDE DEF parts
  <2> QED
    BY <1>2, <1>3, UriReassembles
<1> HIDE DEF query
<1>7. GetQueryWithKey(args, QueryKey) = ValueOf(QueryKey, query)
  <2>1. Asked(args, QueryKey, query)
    BY <1>2, <1>4, <1>6 DEF Asked
  <2> QED
    BY <2>1, KeyValue
<1> QED
  BY <1>6, <1>7, Zenon DEF UriPartsReassemble, AuthorityRest, PathRest, CleanParts, ValueOf, Text, query, rest

\* The parts of a valid URI are cut out of it without gap or overlap and none holds the
\* character that ends it, and the value of a key is that of its last fragment
\* (uri_impl.hpp), for every string and every key.
THEOREM UriSafety == Spec => []UriPartsReassemble
  BY CallsReturn, UriReturned, PTL

=============================================================================
