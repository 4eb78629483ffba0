------------------------ MODULE CounterEngineProofs ------------------------
(***************************************************************************)
(* What CounterEngine promises, proved for any cipher, any width and       *)
(* number of words and any engines: operator== may ignore the buffer; the  *)
(* engines implement AbstractStreams, the counter with its carries being a *)
(* number; and derivations differ if the blocks of the cipher do.          *)
(***************************************************************************)
EXTENDS CounterEngine, SequenceTheorems, WellFoundedInduction, TLAPS

\* A slot that is no mapper without an engine.
Holds(s) == engine[s] # Empty

\* What is buffered is the block of the counter the engine shows, and elem is
\* at a word of it: no operation moves the one without the other.
Buffered(e) == e.elem \in Words /\ (e.elem # 0 => e.v = Cipher(e.b, e.c))

\* Engines are records; without that an update would say nothing about them.
Shaped(e) == e \in [b : {e.b}, c : {e.c}, elem : {e.elem}, v : {e.v}]

IInv ==
  /\ engine = [s \in Slots |-> engine[s]]
  /\ \A s \in Slots : Holds(s) => Shaped(engine[s]) /\ Buffered(engine[s])

\* A new engine has an empty buffer.
LEMMA NewIsBuffered == ASSUME NEW key PROVE Shaped(New(key)) /\ Buffered(New(key))
  BY CounterEngineAssumption DEF New, Shaped, Buffered, Words, Fill

\* After one block has been made, elem words of it may be left.
LEMMA NextBlockIsBuffered ==
  ASSUME NEW e, Shaped(e), NEW n \in Words
  PROVE  /\ Shaped([NextBlock(e) EXCEPT !.elem = n])
         /\ Buffered([NextBlock(e) EXCEPT !.elem = n])
<1> DEFINE c == Increment(e.c)
           f == [NextBlock(e) EXCEPT !.elem = n]
<1>1. NextBlock(e) \in [b : {e.b}, c : {c}, elem : {N}, v : {Cipher(e.b, c)}]
  BY DEF NextBlock, Shaped
<1>2. f \in [b : {e.b}, c : {c}, elem : {n}, v : {Cipher(e.b, c)}]
  BY <1>1
<1> QED
  BY <1>2 DEF Shaped, Buffered

\* operator(): the buffer is filled when it is empty, and one word leaves it.
LEMMA CalledIsBuffered ==
  ASSUME NEW e, Shaped(e), Buffered(e)
  PROVE  Shaped(Called(e)) /\ Buffered(Called(e))
<1>1. CASE e.elem = 0
  <2>1. N - 1 \in Words
    BY CounterEngineAssumption DEF Words
  <2>2. NextBlock(e).elem = N /\ Called(e) = [NextBlock(e) EXCEPT !.elem = N - 1]
    BY <1>1 DEF Called, NextBlock, Shaped
  <2> QED
    BY <2>1, <2>2, NextBlockIsBuffered
<1>2. CASE e.elem # 0
  <2>1. e.elem - 1 \in Words
    BY <1>2, CounterEngineAssumption DEF Buffered, Words
  <2>2. Called(e) = [e EXCEPT !.elem = e.elem - 1]
    BY <1>2 DEF Called
  <2>3. e.v = Cipher(e.b, e.c)
    BY <1>2 DEF Buffered
  <2> QED
    BY <2>1, <2>2, <2>3 DEF Shaped, Buffered
<1> QED
  BY <1>1, <1>2

\* discard: the counter moves only once the buffer has been dropped.
LEMMA DiscardedIsBuffered ==
  ASSUME NEW e, Shaped(e), Buffered(e), NEW skip \in Nat
  PROVE  Shaped(Discarded(e, skip)) /\ Buffered(Discarded(e, skip))
<1> DEFINE dropped == IF skip < e.elem THEN skip ELSE e.elem
           rest == skip - dropped
           counted == [e EXCEPT !.elem = @ - dropped, !.c = IncrementBy(e.c, rest \div N)]
<1>1. /\ e.elem \in Words /\ e.elem \in Nat
      /\ rest \in Nat /\ rest % N \in Words
      /\ e.elem - dropped \in Words
      /\ e.elem - dropped # 0 => rest = 0
  BY CounterEngineAssumption DEF Buffered, Words
<1>2. Shaped(counted)
  BY DEF Shaped
<1>3. CASE rest % N # 0
  <2>1. N - (rest % N) \in Words
    BY <1>1, <1>3, CounterEngineAssumption DEF Words
  <2>2. Discarded(e, skip) = [NextBlock(counted) EXCEPT !.elem = N - (rest % N)]
    BY <1>3 DEF Discarded
  <2> QED
    BY <1>2, <2>1, <2>2, NextBlockIsBuffered
<1>4. CASE rest % N = 0
  <2>1. Discarded(e, skip) = counted
    BY <1>4 DEF Discarded
  <2>2. /\ counted.elem = e.elem - dropped
        /\ counted.v = e.v /\ counted.b = e.b
        /\ counted.c = IncrementBy(e.c, rest \div N)
    BY DEF Shaped
  <2>3. ASSUME counted.elem # 0 PROVE counted.v = Cipher(counted.b, counted.c)
    <3>1. rest = 0 /\ e.elem # 0
      BY <1>1, <2>2, <2>3 DEF Words
    <3>2. rest \div N = 0
      BY <3>1, CounterEngineAssumption
    <3> QED
      BY <2>2, <3>1, <3>2 DEF Buffered, IncrementBy
  <2> QED
    BY <1>1, <1>2, <2>1, <2>2, <2>3 DEF Buffered
<1> QED
  BY <1>3, <1>4

\* The engine that a step leaves in slot t, the others being as they were.
LEMMA OneSlot ==
  ASSUME IInv, NEW t \in Slots, NEW e, Shaped(e), Buffered(e),
         engine' = [engine EXCEPT ![t] = e]
  PROVE  IInv'
<1>1. ASSUME NEW s \in Slots, Holds(s)' PROVE Shaped(engine'[s]) /\ Buffered(engine'[s])
  BY <1>1 DEF IInv, Holds
<1> QED
  BY <1>1 DEF IInv, Holds, Shaped, Buffered

LEMMA NextInv == ASSUME IInv, Next PROVE IInv'
<1> PICK s \in Slots :
      \/ Call(s) \/ GenerateBlock(s)
      \/ \E skip \in Skips : Discard(s, skip)
      \/ \E r \in Seeds : Seed(s, r)
      \/ \E t \in Slots : Copy(s, t) \/ Move(s, t)
      \/ \E t \in Slots, r \in Seeds : Derivate(s, t, r)
  BY DEF Next
<1>1. engine[s] # Empty => Shaped(engine[s]) /\ Buffered(engine[s])
  BY DEF IInv, Holds
<1>2. CASE Call(s)
  BY <1>1, <1>2, CalledIsBuffered, OneSlot DEF Call
<1>3. CASE GenerateBlock(s)
  <2> DEFINE e == [engine[s] EXCEPT !.elem = 0, !.c = Increment(@)]
  <2>1. Shaped(e) /\ Buffered(e)
    <3>1. e \in [b : {engine[s].b}, c : {Increment(engine[s].c)}, elem : {0},
                  v : {engine[s].v}]
      BY <1>1, <1>3 DEF GenerateBlock, Shaped
    <3>2. 0 \in Words
      BY CounterEngineAssumption DEF Words
    <3> QED
      BY <3>1, <3>2 DEF Shaped, Buffered
  <2>2. engine' = [engine EXCEPT ![s] = e]
    BY <1>3 DEF GenerateBlock
  <2> QED
    BY <2>1, <2>2, OneSlot
<1>4. ASSUME NEW skip \in Skips, Discard(s, skip) PROVE IInv'
  <2>1. skip \in Nat
    BY CounterEngineAssumption
  <2> QED
    BY <1>1, <1>4, <2>1, DiscardedIsBuffered, OneSlot DEF Discard
<1>5. ASSUME NEW r \in Seeds, Seed(s, r) PROVE IInv'
  BY <1>5, NewIsBuffered, OneSlot DEF Seed
<1>6. ASSUME NEW t \in Slots, Copy(s, t) PROVE IInv'
  BY <1>1, <1>6, OneSlot DEF Copy
<1>7. ASSUME NEW t \in Slots, Move(s, t) PROVE IInv'
  <2>1. ASSUME NEW u \in Slots, engine'[u] # Empty
        PROVE  Shaped(engine'[u]) /\ Buffered(engine'[u])
    BY <1>1, <1>7, <2>1 DEF Move, IInv, Holds
  <2>2. engine' = [u \in Slots |-> engine'[u]]
    BY <1>7 DEF Move, IInv
  <2> QED
    BY <2>1, <2>2 DEF IInv, Holds, Shaped, Buffered
<1>8. ASSUME NEW t \in Slots, NEW r \in Seeds, Derivate(s, t, r) PROVE IInv'
  BY <1>8, NewIsBuffered, OneSlot DEF Derivate, Derived
<1> QED
  BY <1>2, <1>3, <1>4, <1>5, <1>6, <1>7, <1>8

\* The next number is a function of what operator== compares: with an empty
\* buffer it comes from the next block, otherwise from the block of the counter.
LEMMA OutputOfState ==
  ASSUME NEW e, Shaped(e), Buffered(e), NEW f, Shaped(f), Buffered(f), Equal(e, f)
  PROVE  Output(e) = Output(f)
<1>1. e.c = f.c /\ e.elem = f.elem /\ e.b = f.b
  BY DEF Equal
<1>2. CASE e.elem = 0
  <2>1. ASSUME NEW g, Shaped(g), g.elem = 0
        PROVE  Output(g) = Cipher(g.b, Increment(g.c))[N - 1]
    <3>1. NextBlock(g) \in [b : {g.b}, c : {Increment(g.c)}, elem : {N},
                            v : {Cipher(g.b, Increment(g.c))}]
      BY <2>1 DEF NextBlock, Shaped
    <3>2. Called(g) = [NextBlock(g) EXCEPT !.elem = N - 1]
      BY <2>1, <3>1 DEF Called
    <3>3. Called(g).elem = N - 1 /\ Called(g).v = Cipher(g.b, Increment(g.c))
      BY <3>1, <3>2
    <3> QED
      BY <3>3 DEF Output
  <2> QED
    BY <1>1, <1>2, <2>1
<1>3. CASE e.elem # 0
  <2>1. ASSUME NEW g, Shaped(g), Buffered(g), g.elem # 0
        PROVE  Output(g) = Cipher(g.b, g.c)[g.elem - 1]
    <3>1. Called(g) = [g EXCEPT !.elem = g.elem - 1]
      BY <2>1 DEF Called
    <3>2. Called(g).elem = g.elem - 1 /\ Called(g).v = g.v
      BY <2>1, <3>1 DEF Shaped
    <3> QED
      BY <2>1, <3>2 DEF Output, Buffered
  <2> QED
    BY <1>1, <1>3, <2>1
<1> QED
  BY <1>2, <1>3

\* Engines that operator== calls equal return the same next number.
THEOREM EqualityIsEnough == Spec => []EqualEnginesAgree
<1>1. Init => IInv
  BY DEF Init, IInv, Holds
<1>2. IInv /\ [Next]_vars => IInv'
  <2>1. ASSUME IInv, UNCHANGED vars PROVE IInv'
    BY <2>1 DEF IInv, Holds, vars, Shaped, Buffered
  <2> QED
    BY <2>1, NextInv
<1>3. IInv => EqualEnginesAgree
  BY OutputOfState DEF IInv, Holds, EqualEnginesAgree
<1> QED
  BY <1>1, <1>2, <1>3, PTL DEF Spec
-----------------------------------------------------------------------------
(* The counter is a number in base Base: its words are the digits, and the *)
(* two incr_array add to it.                                               *)

\* A set of numbers has a least one: the induction of this module.
LEMMA LeastElement ==
  ASSUME NEW T, T \subseteq Nat, T # {}
  PROVE  \E x \in T : \A y \in T : x <= y
<1>1. IsWellFoundedOn(OpToRel(<, Nat), Nat)
  BY NatLessThanWellFounded
<1>2. PICK x \in T : \A y \in T : ~(<<y, x>> \in OpToRel(<, Nat))
  BY <1>1, WFMin
<1>3. \A y \in T : ~(y < x)
  BY <1>2, Zenon DEF OpToRel
<1> QED
  BY <1>3

\* Quotient and remainder are what they are by these conditions alone.
LEMMA Division ==
  ASSUME NEW m \in Int, NEW k \in Nat \ {0}
  PROVE  /\ m \div k \in Int /\ m % k \in Nat /\ m % k < k
         /\ m = k * (m \div k) + (m % k)
         /\ m >= 0 => m \div k \in Nat
  OBVIOUS

LEMMA DivisionIsUnique ==
  ASSUME NEW m \in Int, NEW k \in Nat \ {0}, NEW q \in Int, NEW r \in Nat,
         r < k, m = k * q + r
  PROVE  m \div k = q /\ m % k = r
<1> DEFINE p == m \div k
           s == m % k
<1>1. p \in Int /\ s \in Nat /\ s < k /\ m = k * p + s
  BY Division
<1> HIDE DEF p, s
<1>2. ASSUME p < q PROVE FALSE
  <2>1. k * q >= k * (p + 1) /\ k * (p + 1) = k * p + k
    BY <1>1, <1>2
  <2>2. k * p \in Int /\ k * q \in Int
    BY <1>1
  <2> QED
    BY <1>1, <2>1, <2>2
<1>3. ASSUME q < p PROVE FALSE
  <2>1. k * p >= k * (q + 1) /\ k * (q + 1) = k * q + k
    BY <1>1, <1>3
  <2>2. k * p \in Int /\ k * q \in Int
    BY <1>1
  <2> QED
    BY <1>1, <2>1, <2>2
<1>4. p = q
  BY <1>1, <1>2, <1>3
<1>5. s = r
  <2>1. k * q \in Int
    OBVIOUS
  <2> QED
    BY <1>1, <1>4, <2>1
<1> QED
  BY <1>4, <1>5 DEF p, s

\* q and r are quotient and remainder of m by k.
Divided(m, k, q, r) ==
  /\ m \in Int /\ k \in Nat \ {0} /\ q \in Int /\ r \in Nat
  /\ r < k /\ m = k * q + r

\* Dividing by p and then by k.
LEMMA NestedDivision ==
  ASSUME NEW m, NEW p, NEW q, NEW r, Divided(m, p, q, r),
         NEW k, NEW t, NEW d, Divided(q, k, t, d)
  PROVE  m \div (k * p) = t /\ m % (k * p) = p * d + r
<1> DEFINE kp == k * p
           s == p * d + r
<1>1. /\ m \in Int /\ p \in Nat \ {0} /\ q \in Int /\ r \in Nat /\ r < p /\ m = p * q + r
      /\ k \in Nat \ {0} /\ t \in Int /\ d \in Nat /\ d < k /\ q = k * t + d
  BY DEF Divided
<1>2. kp \in Nat \ {0}
  BY <1>1
<1>3. m = kp * t + s
  <2>1. p * q = p * (k * t) + p * d
    BY <1>1
  <2>2. p * (k * t) = (k * p) * t
    BY <1>1
  <2>3. (k * p) * t \in Int /\ p * d \in Nat /\ p * q \in Int
    BY <1>1
  <2> QED
    BY <1>1, <2>1, <2>2, <2>3
<1>4. s \in Nat /\ s < kp
  <2>1. p * d \in Nat /\ p * (d + 1) = p * d + p /\ p * (d + 1) <= p * k /\ p * k = k * p
    BY <1>1
  <2> QED
    BY <1>1, <1>2, <2>1
<1> HIDE DEF kp, s
<1>5. m \div kp = t /\ m % kp = s
  BY <1>1, <1>2, <1>3, <1>4, DivisionIsUnique
<1> QED
  BY <1>5 DEF kp, s

\* A sum and its carry.
LEMMA SumOfDivisions ==
  ASSUME NEW a \in Nat, NEW g \in Nat, NEW k \in Nat \ {0}
  PROVE  /\ (a + g) \div k
              = (a \div k) + (g \div k) + (IF (a % k) + (g % k) >= k THEN 1 ELSE 0)
         /\ (a + g) % k = ((a % k) + g) % k
<1> DEFINE q == a \div k
           r == a % k
           t == g \div k
           d == g % k
           carry == IF r + d >= k THEN 1 ELSE 0
<1>1. q \in Nat /\ r \in Nat /\ r < k /\ a = k * q + r
  BY Division
<1>2. t \in Nat /\ d \in Nat /\ d < k /\ g = k * t + d
  BY Division
<1> HIDE DEF q, r, t, d
<1>3. carry \in Nat /\ r + d - k * carry \in Nat /\ r + d - k * carry < k
  BY <1>1, <1>2
<1>4. k * (q + t + carry) = k * q + k * t + k * carry /\ k * (t + carry) = k * t + k * carry
  BY <1>1, <1>2, <1>3
<1>5. k * q \in Nat /\ k * t \in Nat /\ k * carry \in Nat
  BY <1>1, <1>2, <1>3
<1> HIDE DEF carry
<1>6. a + g = k * (q + t + carry) + (r + d - k * carry) /\ r + g = k * (t + carry) + (r + d - k * carry)
  BY <1>1, <1>2, <1>3, <1>4, <1>5
<1> DEFINE s == r + d - k * carry
<1>7. /\ (a + g) \div k = q + t + carry /\ (a + g) % k = s
      /\ (r + g) % k = s
  <2>1. /\ a + g \in Int /\ r + g \in Int /\ s \in Nat /\ s < k
        /\ q + t + carry \in Int /\ t + carry \in Int
        /\ a + g = k * (q + t + carry) + s /\ r + g = k * (t + carry) + s
    BY <1>1, <1>2, <1>3, <1>6
  <2> HIDE DEF s
  <2> DEFINE sum == a + g
             low == r + g
             high == q + t + carry
             over == t + carry
  <2>2. sum \in Int /\ low \in Int /\ high \in Int /\ over \in Int
    BY <2>1
  <2>3. sum = k * high + s /\ low = k * over + s
    BY <2>1
  <2> HIDE DEF sum, low, high, over
  <2>4. sum \div k = high /\ sum % k = s /\ low % k = s
    BY <2>1, <2>2, <2>3, DivisionIsUnique
  <2> QED
    BY <2>4 DEF sum, low, high, over
<1> QED
  BY <1>7 DEF q, r, t, d, carry

\* Power is defined by recursion; this is the function.
LEMMA PowerStep ==
  Power = [n \in 0..N |-> IF n = 0 THEN 1 ELSE Base * Power[n - 1]]
<1> DEFINE Recursive(k, f) == f = [n \in 0..k |-> IF n = 0 THEN 1 ELSE Base * f[n - 1]]
           Missed == {k \in 0..N : ~\E f : Recursive(k, f)}
<1>1. Missed = {}
  <2> SUFFICES ASSUME Missed # {} PROVE FALSE
    OBVIOUS
  <2>1. PICK k \in Missed : \A y \in Missed : k <= y
    <3>1. Missed \subseteq Nat
      OBVIOUS
    <3> HIDE DEF Missed
    <3> QED
      BY <3>1, LeastElement
  <2>2. CASE k = 0
    <3>1. Recursive(0, [n \in 0..0 |-> 1])
      OBVIOUS
    <3> QED
      BY <2>2, <3>1
  <2>3. CASE k # 0
    <3>1. k - 1 \in 0..N /\ k \in Nat /\ ~(k <= k - 1)
      BY <2>3, CounterEngineAssumption
    <3>2. k - 1 \notin Missed
      <4> HIDE DEF Missed
      <4> QED
        BY <2>1, <3>1
    <3>3. PICK f : Recursive(k - 1, f)
      BY <3>1, <3>2
    <3> DEFINE g == [n \in 0..k |-> IF n = k THEN Base * f[k - 1] ELSE f[n]]
    <3>4. Recursive(k, g)
      <4> SUFFICES ASSUME NEW n \in 0..k
                   PROVE  g[n] = IF n = 0 THEN 1 ELSE Base * g[n - 1]
        OBVIOUS
      <4>1. CASE n = k
        BY <2>3, <3>1, <4>1
      <4>2. CASE n # k
        <5>1. n \in 0..k - 1 /\ (n # 0 => n - 1 \in 0..k /\ n - 1 # k)
          BY <3>1, <4>2
        <5>2. f[n] = IF n = 0 THEN 1 ELSE Base * f[n - 1]
          BY <3>3, <5>1
        <5> QED
          BY <4>2, <5>1, <5>2
      <4> QED
        BY <4>1, <4>2
    <3> QED
      BY <3>4
  <2> QED
    BY <2>2, <2>3
<1>2. N \in 0..N
  BY CounterEngineAssumption
<1>3. \E f : Recursive(N, f)
  BY <1>1, <1>2
<1> QED
  BY <1>3 DEF Power

LEMMA PowerIsPositive ==
  /\ Power[0] = 1
  /\ \A n \in 0..N : Power[n] \in Nat \ {0}
  /\ \A n \in Words : Power[n + 1] = Base * Power[n]
<1>1. Power[0] = 1 /\ \A n \in 0..N : n # 0 => Power[n] = Base * Power[n - 1]
  BY PowerStep, CounterEngineAssumption
<1> DEFINE Wrong == {n \in 0..N : Power[n] \notin Nat \ {0}}
<1>2. Wrong = {}
  <2> SUFFICES ASSUME Wrong # {} PROVE FALSE
    OBVIOUS
  <2>1. PICK n \in Wrong : \A y \in Wrong : n <= y
    <3>1. Wrong \subseteq Nat
      OBVIOUS
    <3> HIDE DEF Wrong
    <3> QED
      BY <3>1, LeastElement
  <2>2. n # 0 /\ n \in 0..N /\ n - 1 \in 0..N /\ ~(n <= n - 1)
    BY <1>1, CounterEngineAssumption
  <2>3. n - 1 \notin Wrong
    <3> HIDE DEF Wrong
    <3> QED
      BY <2>1, <2>2
  <2>4. Power[n - 1] \in Nat \ {0}
    BY <2>2, <2>3
  <2> QED
    BY <1>1, <2>2, <2>4, CounterEngineAssumption
<1>3. \A n \in Words : n + 1 \in 0..N /\ n + 1 # 0 /\ (n + 1) - 1 = n
  BY CounterEngineAssumption DEF Words
<1> QED
  BY <1>1, <1>2, <1>3

\* The words of the counter are the digits of its number.
LEMMA Digits ==
  ASSUME NEW m \in Nat, NEW i \in Words
  PROVE  /\ CounterAt(m)[i] = (m \div Power[i]) % Base
         /\ CounterAt(m)[i] \in 0..Base - 1
         /\ m \div Power[i] \in Nat
         /\ (m \div Power[i]) \div Base = m \div Power[i + 1]
         /\ m % Power[i + 1] = (m % Power[i]) + Power[i] * CounterAt(m)[i]
<1> DEFINE p == Power[i]
<1>1. p \in Nat \ {0} /\ Power[i + 1] = Base * p /\ Base \in Nat \ {0}
  BY PowerIsPositive, CounterEngineAssumption DEF Words
<1>2. CounterAt(m)[i] = (m \div p) % Base
  BY DEF CounterAt
<1> HIDE DEF p
<1>3. m \div p \in Nat
  BY <1>1, Division
<1>4. (m \div p) % Base \in 0..Base - 1
  <2> DEFINE q == m \div p
  <2>1. q \in Int
    BY <1>3
  <2> HIDE DEF q
  <2>2. q % Base \in Nat /\ q % Base < Base
    BY <1>1, <2>1, Division
  <2> QED
    BY <1>1, <2>2 DEF q
<1>5. /\ (m \div p) \div Base = m \div Power[i + 1]
      /\ m % Power[i + 1] = (m % p) + p * ((m \div p) % Base)
  <2> DEFINE q == m \div p
             r == m % p
             d == q % Base
  <2>1. Divided(m, p, q, r) /\ r \in Nat
    BY <1>1, Division DEF Divided
  <2> HIDE DEF q, r
  <2>2. Divided(q, Base, q \div Base, d) /\ d \in Nat
    BY <1>1, <2>1, Division DEF Divided
  <2> HIDE DEF d
  <2>3. m \div (Base * p) = q \div Base /\ m % (Base * p) = p * d + r
    BY <2>1, <2>2, NestedDivision
  <2>4. p * d \in Nat
    BY <1>1, <2>2
  <2>5. p * d + r = r + p * d
    BY <2>1, <2>4
  <2> QED
    BY <1>1, <2>3, <2>5 DEF q, r, d
<1> QED
  BY <1>1, <1>2, <1>3, <1>4, <1>5 DEF p

\* What the words add up to, each with its weight.
LEMMA ValueOfCounter ==
  ASSUME NEW m \in Nat
  PROVE  Value(CounterAt(m)) = m % Power[N]
<1> DEFINE c == CounterAt(m)
           round(f, n) == IF n = 0 THEN 0 ELSE f[n - 1] + c[n - 1] * Power[n - 1]
           sum == CHOOSE f : f = [n \in 0..N |-> round(f, n)]
           goal == [n \in 0..N |-> m % Power[n]]
<1>1. Value(c) = sum[N]
  BY DEF Value
<1>2. goal = [n \in 0..N |-> round(goal, n)]
  <2> SUFFICES ASSUME NEW n \in 0..N PROVE goal[n] = round(goal, n)
    OBVIOUS
  <2>1. CASE n = 0
    BY <2>1, PowerIsPositive
  <2>2. CASE n # 0
    <3>1. n - 1 \in Words /\ n - 1 \in 0..N /\ (n - 1) + 1 = n
      BY <2>2, CounterEngineAssumption DEF Words
    <3>2. m % Power[n] = (m % Power[n - 1]) + Power[n - 1] * c[n - 1]
      BY <3>1, Digits
    <3>3. Power[n - 1] * c[n - 1] = c[n - 1] * Power[n - 1]
      <4>1. Power[n - 1] \in Nat /\ c[n - 1] \in Nat
        BY <3>1, Digits, PowerIsPositive
      <4> HIDE DEF c
      <4> QED
        BY <4>1
    <3> HIDE DEF c
    <3> QED
      BY <2>2, <3>1, <3>2, <3>3
  <2> QED
    BY <2>1, <2>2
<1>3. sum = [n \in 0..N |-> round(sum, n)]
  <2> HIDE DEF goal, round
  <2> QED
    BY <1>2
<1> HIDE DEF sum
<1>4. \A n \in 0..N : sum[n] = goal[n]
  <2> HIDE DEF goal
  <2> DEFINE Wrong == {n \in 0..N : sum[n] # goal[n]}
  <2> SUFFICES ASSUME Wrong # {} PROVE FALSE
    BY Zenon
  <2>1. PICK n \in Wrong : \A y \in Wrong : n <= y
    <3>1. Wrong \subseteq Nat
      OBVIOUS
    <3> HIDE DEF Wrong
    <3> QED
      BY <3>1, LeastElement
  <2>2. sum[n] = round(sum, n) /\ goal[n] = round(goal, n) /\ n \in 0..N
    <3> HIDE DEF round
    <3> QED
      BY <1>2, <1>3
  <2>3. CASE n = 0
    BY <2>2, <2>3
  <2>4. CASE n # 0
    <3>1. n - 1 \in 0..N /\ ~(n <= n - 1)
      BY <2>2, <2>4, CounterEngineAssumption
    <3>2. sum[n - 1] = goal[n - 1]
      BY <2>1, <3>1
    <3> QED
      BY <2>2, <3>2
  <2> QED
    BY <2>3, <2>4
<1> QED
  BY <1>1, <1>4, CounterEngineAssumption

\* A counter is what its number leaves over the period: it wraps around.
LEMMA CounterWraps ==
  ASSUME NEW x \in Nat, NEW y \in Nat, x % Power[N] = y % Power[N]
  PROVE  CounterAt(x) = CounterAt(y)
<1>1. ASSUME NEW i \in Words, NEW z \in Nat
      PROVE  /\ z % Power[i] = (z % Power[i + 1]) % Power[i]
             /\ CounterAt(z)[i] = (z % Power[i + 1]) \div Power[i]
  <2> DEFINE p == Power[i]
             d == CounterAt(z)[i]
             low == z % p
             r == z % Power[i + 1]
  <2>1. r = low + p * d /\ d \in Nat /\ p \in Nat \ {0}
    <3>1. i \in 0..N
      BY CounterEngineAssumption DEF Words
    <3>2. p \in Nat \ {0}
      BY <3>1, PowerIsPositive
    <3>3. d \in Nat /\ r = low + p * d
      BY Digits
    <3> QED
      BY <3>2, <3>3
  <2> HIDE DEF d, p, r
  <2>2. low \in Nat /\ low < p
    BY <2>1, Division
  <2> HIDE DEF low
  <2>3. r = p * d + low /\ r \in Int
    <3>1. p * d \in Nat
      BY <2>1
    <3> QED
      BY <2>1, <2>2, <3>1
  <2>4. r \div p = d /\ r % p = low
    BY <2>1, <2>2, <2>3, DivisionIsUnique
  <2> QED
    BY <2>4 DEF d, p, r, low
<1> DEFINE Wrong == {k \in 0..N : x % Power[N - k] # y % Power[N - k]}
<1>2. Wrong = {}
  <2> SUFFICES ASSUME Wrong # {} PROVE FALSE
    OBVIOUS
  <2>1. PICK k \in Wrong : \A j \in Wrong : k <= j
    <3>1. Wrong \subseteq Nat
      OBVIOUS
    <3> HIDE DEF Wrong
    <3> QED
      BY <3>1, LeastElement
  <2>2. k # 0 /\ k \in Nat /\ k - 1 \in 0..N /\ ~(k <= k - 1) /\ N - k \in Words
        /\ (N - k) + 1 = N - (k - 1)
    BY CounterEngineAssumption DEF Words
  <2>3. k - 1 \notin Wrong
    <3> HIDE DEF Wrong
    <3> QED
      BY <2>1, <2>2
  <2>4. x % Power[(N - k) + 1] = y % Power[(N - k) + 1]
    BY <2>2, <2>3
  <2>5. x % Power[N - k] = y % Power[N - k]
    BY <1>1, <2>2, <2>4
  <2> QED
    BY <2>5
<1>3. \A i \in Words : x % Power[i + 1] = y % Power[i + 1]
  <2> SUFFICES ASSUME NEW i \in Words PROVE x % Power[i + 1] = y % Power[i + 1]
    OBVIOUS
  <2>1. N - (i + 1) \in 0..N /\ N - (N - (i + 1)) = i + 1
    BY CounterEngineAssumption DEF Words
  <2> QED
    BY <1>2, <2>1
<1>4. \A i \in Words : CounterAt(x)[i] = CounterAt(y)[i]
  BY <1>1, <1>3
<1> QED
  BY <1>4 DEF CounterAt
-----------------------------------------------------------------------------
\* What is added to the word i when g is added to the number.
Growth(m, g, i) == ((m + g) \div Power[i]) - (m \div Power[i])

LEMMA GrowthSteps ==
  ASSUME NEW m \in Nat, NEW g \in Nat, NEW i \in Words
  PROVE  /\ Growth(m, g, 0) = g
         /\ Growth(m, g, i) \in Nat
         /\ CounterAt(m + g)[i] = (CounterAt(m)[i] + Growth(m, g, i)) % Base
         /\ Growth(m, g, i + 1)
              = (Growth(m, g, i) \div Base)
                  + (IF CounterAt(m)[i] + (Growth(m, g, i) % Base) >= Base THEN 1 ELSE 0)
<1> DEFINE p == Power[i]
           q == m \div p
           t == (m + g) \div p
<1>1. p \in Nat \ {0} /\ Base \in Nat \ {0} /\ m + g \in Nat /\ Power[0] = 1
  BY PowerIsPositive, CounterEngineAssumption DEF Words
<1>2. /\ q \in Nat /\ q \div Base = m \div Power[i + 1]
      /\ CounterAt(m)[i] = q % Base
  BY Digits
<1>3. /\ t \in Nat /\ t \div Base = (m + g) \div Power[i + 1]
      /\ CounterAt(m + g)[i] = t % Base
  BY <1>1, Digits
<1>4. q <= t
  <2> HIDE DEF p
  <2>1. /\ m % p \in Nat /\ m % p < p /\ m = p * q + (m % p)
        /\ (m + g) % p \in Nat /\ (m + g) % p < p /\ m + g = p * t + ((m + g) % p)
    BY <1>1, Division
  <2> DEFINE r == m % p
             s == (m + g) % p
             n == m + g
  <2>2. n \in Nat /\ m <= n /\ r \in Nat /\ r < p /\ m = p * q + r /\ s \in Nat /\ s < p /\ n = p * t + s
    BY <1>1, <2>1
  <2> HIDE DEF q, t, r, s, n
  <2>3. ASSUME t < q PROVE FALSE
    <3>1. p * q >= p * (t + 1) /\ p * (t + 1) = p * t + p /\ p * q \in Nat /\ p * t \in Nat
      BY <1>1, <1>2, <1>3, <2>3
    <3> QED
      BY <1>1, <2>2, <3>1
  <2> QED
    BY <1>2, <1>3, <2>3
<1> DEFINE h == Growth(m, g, i)
<1>5. h \in Nat /\ t = q + h
  BY <1>2, <1>3, <1>4 DEF Growth
<1>6. Growth(m, g, 0) = g
  BY <1>1 DEF Growth
<1>7. Growth(m, g, i + 1) = (t \div Base) - (q \div Base)
  BY <1>2, <1>3 DEF Growth
<1> HIDE DEF q, t, h
<1>8. /\ (q + h) \div Base = (q \div Base) + (h \div Base) + (IF (q % Base) + (h % Base) >= Base THEN 1 ELSE 0)
      /\ (q + h) % Base = ((q % Base) + h) % Base
  BY <1>1, <1>2, <1>5, SumOfDivisions
<1>9. Growth(m, g, i + 1) = (h \div Base) + (IF (q % Base) + (h % Base) >= Base THEN 1 ELSE 0)
  <2>1. q \div Base \in Nat /\ h \div Base \in Nat /\ q % Base \in Nat /\ h % Base \in Nat
    BY <1>1, <1>2, <1>5, Division
  <2> QED
    BY <1>5, <1>7, <1>8, <2>1
<1> QED
  BY <1>2, <1>3, <1>5, <1>6, <1>8, <1>9 DEF h

\* incr_array(start, finish) adds one.
LEMMA IncrementIsSuccessor ==
  ASSUME NEW m \in Nat
  PROVE  Increment(CounterAt(m)) = CounterAt(m + 1)
<1> DEFINE c == CounterAt(m)
           Carried(i) == \A j \in 0..i - 1 : c[j] = Base - 1
           Wrong == {i \in Words : Growth(m, 1, i) # IF Carried(i) THEN 1 ELSE 0}
<1>1. Base \in Nat /\ Base > 1 /\ N \in Nat \ {0}
  BY CounterEngineAssumption
<1>2. \A i \in Words : c[i] \in 0..Base - 1
  BY Digits
<1> HIDE DEF c
<1>3. Wrong = {}
  <2> SUFFICES ASSUME Wrong # {} PROVE FALSE
    OBVIOUS
  <2>1. PICK i \in Wrong : \A j \in Wrong : i <= j
    <3>1. Wrong \subseteq Nat
      BY DEF Words
    <3> HIDE DEF Wrong
    <3> QED
      BY <3>1, LeastElement
  <2>2. CASE i = 0
    <3>1. Growth(m, 1, 0) = 1 /\ Carried(0)
      BY <2>2, GrowthSteps
    <3> QED
      BY <2>2, <3>1
  <2>3. CASE i # 0
    <3> DEFINE k == i - 1
    <3>1. k \in Words /\ ~(i <= k) /\ k + 1 = i /\ i \in Words
      BY <1>1, <2>3 DEF Words
    <3> HIDE DEF k
    <3>2. k \notin Wrong
      <4> HIDE DEF Wrong
      <4> QED
        BY <2>1, <3>1
    <3>3. Growth(m, 1, k) = IF Carried(k) THEN 1 ELSE 0
      BY <3>1, <3>2
    <3>4. Growth(m, 1, k + 1)
            = (Growth(m, 1, k) \div Base) + (IF c[k] + (Growth(m, 1, k) % Base) >= Base THEN 1 ELSE 0)
      BY <3>1, GrowthSteps DEF c
    <3>5. Carried(i) <=> Carried(k) /\ c[k] = Base - 1
      BY <3>1 DEF Words
    <3>6. Growth(m, 1, i) = IF Carried(i) THEN 1 ELSE 0
      <4> HIDE DEF Carried
      <4>1. 0 \div Base = 0 /\ 1 \div Base = 0 /\ 0 % Base = 0 /\ 1 % Base = 1
        <5>1. 0 = Base * 0 + 0 /\ 1 = Base * 0 + 1 /\ Base \in Nat \ {0}
          BY <1>1
        <5> QED
          BY <1>1, <5>1, DivisionIsUnique
      <4>2. c[k] \in 0..Base - 1
        BY <1>2, <3>1
      <4> QED
        BY <1>1, <3>1, <3>3, <3>4, <3>5, <4>1, <4>2
    <3> QED
      BY <3>6
  <2> QED
    BY <2>2, <2>3
<1>4. \A i \in Words : CounterAt(m + 1)[i] = IF Carried(i) THEN (c[i] + 1) % Base ELSE c[i]
  <2> SUFFICES ASSUME NEW i \in Words
               PROVE  CounterAt(m + 1)[i] = IF Carried(i) THEN (c[i] + 1) % Base ELSE c[i]
    OBVIOUS
  <2>1. CounterAt(m + 1)[i] = (c[i] + Growth(m, 1, i)) % Base
    BY GrowthSteps DEF c
  <2>2. Growth(m, 1, i) = IF Carried(i) THEN 1 ELSE 0
    BY <1>3
  <2> HIDE DEF Carried
  <2>3. (c[i] + 0) % Base = c[i]
    <3>1. c[i] \in Nat /\ c[i] < Base /\ c[i] + 0 = c[i] /\ c[i] = Base * 0 + c[i]
      BY <1>1, <1>2
    <3> QED
      BY <1>1, <3>1, DivisionIsUnique
  <2> QED
    BY <2>1, <2>2, <2>3
<1>5. CounterAt(m + 1) = [i \in Words |-> CounterAt(m + 1)[i]]
  BY DEF CounterAt
<1> QED
  BY <1>4, <1>5 DEF Increment, c

\* incr_array(start, finish, inc_val) adds inc_val, if an increment of more
\* than a word is passed on or does not occur.
LEMMA IncrementByIsSum ==
  ASSUME NEW m \in Nat, NEW g \in Nat, Wide \/ g < Base
  PROVE  IncrementBy(CounterAt(m), g) = CounterAt(m + g)
<1> DEFINE c == CounterAt(m)
           round(f, i) ==
             IF i = 0 THEN g
             ELSE IF f[i - 1] = 0 THEN 0
             ELSE (IF Wide THEN f[i - 1] \div Base ELSE 0)
                    + (IF c[i - 1] + (f[i - 1] % Base) >= Base THEN 1 ELSE 0)
           inc == CHOOSE f : f = [i \in Words |-> round(f, i)]
           goal == [i \in Words |-> Growth(m, g, i)]
<1>1. CASE g = 0
  BY <1>1 DEF IncrementBy
<1>2. CASE g # 0
  <2>1. IncrementBy(c, g) = [i \in Words |-> (c[i] + inc[i]) % Base]
    BY <1>2 DEF IncrementBy
  <2>2. /\ Base \in Nat \ {0, 1} /\ N \in Nat \ {0}
        /\ \A i \in Words : i # 0 => i - 1 \in Words /\ (i - 1) + 1 = i /\ ~(i <= i - 1)
    BY CounterEngineAssumption DEF Words
  <2>3. \A i \in Words : c[i] \in 0..Base - 1
    BY Digits
  <2>4. \A i \in Words :
          /\ Growth(m, g, i) \in Nat /\ Growth(m, g, 0) = g
          /\ CounterAt(m + g)[i] = (c[i] + Growth(m, g, i)) % Base
          /\ Growth(m, g, i + 1) = (Growth(m, g, i) \div Base)
                  + (IF c[i] + (Growth(m, g, i) % Base) >= Base THEN 1 ELSE 0)
    BY GrowthSteps
  <2> HIDE DEF c
  <2>5. ASSUME NEW h \in Nat, h < Base PROVE h \div Base = 0 /\ h % Base = h
    <3>1. h = Base * 0 + h
      BY <2>2
    <3> QED
      BY <2>2, <2>5, <3>1, DivisionIsUnique
  <2> DEFINE Over == {i \in Words : ~(Growth(m, g, i) < Base)}
  <2>6. ASSUME ~Wide PROVE Over = {}
    <3> SUFFICES ASSUME Over # {} PROVE FALSE
      OBVIOUS
    <3>1. PICK i \in Over : \A j \in Over : i <= j
      <4>1. Over \subseteq Nat
        BY DEF Words
      <4> HIDE DEF Over
      <4> QED
        BY <4>1, LeastElement
    <3>2. i # 0
      BY <2>4, <2>6
    <3>3. i - 1 \in Words /\ (i - 1) + 1 = i /\ i - 1 \notin Over
      <4>1. i - 1 \in Words /\ (i - 1) + 1 = i /\ ~(i <= i - 1)
        BY <2>2, <3>2
      <4> HIDE DEF Over
      <4> QED
        BY <3>1, <4>1
    <3>4. Growth(m, g, i - 1) < Base /\ Growth(m, g, i - 1) \in Nat
      BY <2>4, <3>3
    <3>5. Growth(m, g, i - 1) \div Base = 0
      BY <2>5, <3>4
    <3>6. Growth(m, g, (i - 1) + 1) \in {0, 1}
      BY <2>4, <3>3, <3>5
    <3> QED
      BY <2>2, <3>3, <3>6
  <2>7. goal = [i \in Words |-> round(goal, i)]
    <3> SUFFICES ASSUME NEW i \in Words PROVE Growth(m, g, i) = round(goal, i)
      OBVIOUS
    <3>1. CASE i = 0
      BY <2>4, <3>1
    <3>2. CASE i # 0
      <4> DEFINE h == Growth(m, g, i - 1)
      <4>1. i - 1 \in Words /\ (i - 1) + 1 = i /\ goal[i - 1] = h
        BY <2>2, <3>2
      <4>2. /\ h \in Nat /\ c[i - 1] \in 0..Base - 1
            /\ Growth(m, g, i) = (h \div Base) + (IF c[i - 1] + (h % Base) >= Base THEN 1 ELSE 0)
        BY <2>3, <2>4, <4>1
      <4>3. CASE h = 0
        <5>1. h \div Base = 0 /\ h % Base = 0
          BY <2>2, <2>5, <4>3
        <5> HIDE DEF goal, h
        <5>2. Growth(m, g, i) = 0
          BY <2>2, <4>2, <5>1
        <5> QED
          BY <3>2, <4>1, <4>3, <5>2
      <4>4. CASE h # 0
        <5>1. ~Wide => h \div Base = 0
          BY <2>5, <2>6, <4>1, <4>2
        <5> HIDE DEF goal, h
        <5>2. h \div Base = IF Wide THEN h \div Base ELSE 0
          BY <5>1
        <5>3. round(goal, i) = (IF Wide THEN h \div Base ELSE 0)
                    + (IF c[i - 1] + (h % Base) >= Base THEN 1 ELSE 0)
          BY <3>2, <4>1, <4>4
        <5> HIDE DEF round
        <5> QED
          BY <4>2, <5>2, <5>3
      <4> QED
        BY <4>3, <4>4
    <3> QED
      BY <3>1, <3>2
  <2>8. inc = [i \in Words |-> round(inc, i)]
    <3> HIDE DEF goal, round
    <3> QED
      BY <2>7
  <2> HIDE DEF inc
  <2>9. \A i \in Words : inc[i] = goal[i]
    <3> HIDE DEF goal
    <3> DEFINE Wrong == {i \in Words : inc[i] # goal[i]}
    <3> SUFFICES ASSUME Wrong # {} PROVE FALSE
      BY Zenon
    <3>1. PICK i \in Wrong : \A y \in Wrong : i <= y
      <4>1. Wrong \subseteq Nat
        BY DEF Words
      <4> HIDE DEF Wrong
      <4> QED
        BY <4>1, LeastElement
    <3>2. inc[i] = round(inc, i) /\ goal[i] = round(goal, i) /\ i \in Words
      <4> HIDE DEF round
      <4> QED
        BY <2>7, <2>8
    <3>3. CASE i = 0
      BY <3>2, <3>3
    <3>4. CASE i # 0
      <4>1. i - 1 \in Words /\ ~(i <= i - 1)
        BY <2>2, <3>2, <3>4
      <4>2. inc[i - 1] = goal[i - 1]
        BY <3>1, <4>1
      <4> QED
        BY <3>2, <4>2
    <3> QED
      BY <3>3, <3>4
  <2>10. \A i \in Words : CounterAt(m + g)[i] = (c[i] + inc[i]) % Base
    BY <2>4, <2>9
  <2>11. CounterAt(m + g) = [i \in Words |-> CounterAt(m + g)[i]]
    BY DEF CounterAt
  <2> QED
    BY <2>1, <2>10, <2>11 DEF c
<1>3. m + 0 = m
  OBVIOUS
<1> QED
  BY <1>1, <1>2, <1>3
-----------------------------------------------------------------------------
(* The place of an engine in the sequence of its key. *)

LEMMA Sizes ==
  /\ N \in Nat \ {0} /\ Power[N] \in Nat \ {0} /\ Period \in Nat \ {0}
  /\ Period = N * Power[N]
<1>1. N \in Nat \ {0} /\ N \in 0..N
  BY CounterEngineAssumption
<1>2. Power[N] \in Nat \ {0}
  BY <1>1, PowerIsPositive
<1> QED
  BY <1>1, <1>2 DEF Period

\* A multiple of the divisor makes no difference.
LEMMA Shifted ==
  ASSUME NEW a \in Int, NEW k \in Nat \ {0}, NEW q \in Int
  PROVE  (a + k * q) % k = a % k
<1> DEFINE t == a \div k
           r == a % k
           n == a + k * q
           s == t + q
<1>1. t \in Int /\ r \in Nat /\ r < k /\ a = k * t + r
  BY Division
<1> HIDE DEF t, r
<1>2. n \in Int /\ s \in Int /\ n = k * s + r
  <2>1. k * q \in Int /\ k * t \in Int /\ k * (t + q) = k * t + k * q
    BY <1>1
  <2> QED
    BY <1>1, <2>1
<1> HIDE DEF n, s
<1>3. n % k = r
  BY <1>1, <1>2, DivisionIsUnique
<1> QED
  BY <1>3 DEF n, r

\* The sum only matters as far as its first part does.
LEMMA SumOfRemainders ==
  ASSUME NEW a \in Int, NEW g \in Int, NEW k \in Nat \ {0}
  PROVE  ((a % k) + g) % k = (a + g) % k
<1> DEFINE q == a \div k
           r == a % k
           n == r + g
<1>1. q \in Int /\ r \in Nat /\ a = k * q + r
  BY Division
<1> HIDE DEF q, r
<1>2. n \in Int /\ k * q \in Int
  BY <1>1
<1>3. a + g = n + k * q
  BY <1>1, <1>2
<1> HIDE DEF n
<1>4. (n + k * q) % k = n % k
  BY <1>1, <1>2, Shifted
<1> QED
  BY <1>3, <1>4 DEF n, r

\* The place of an engine with the counter of the number m.
LEMMA Place ==
  ASSUME NEW e, NEW m \in Nat, e.c = CounterAt(m), e.elem \in Words
  PROVE  Position(e) = (N * m - e.elem) % Period /\ Position(e) \in 0..Period - 1
<1> DEFINE M == Power[N]
           q == m \div M
           r == m % M
           a == N * m - e.elem
           d == 0 - q
<1>1. M \in Nat \ {0} /\ N \in Nat \ {0} /\ Period \in Nat \ {0} /\ Period = N * M /\ e.elem \in Nat
  BY Sizes DEF Words
<1>2. Value(e.c) = r
  BY ValueOfCounter
<1> HIDE DEF M
<1>3. q \in Int /\ r \in Nat /\ m = M * q + r
  BY <1>1, Division
<1> HIDE DEF q, r
<1>4. a \in Int /\ d \in Int /\ r * N - e.elem = a + Period * d
  <2>1. N * m = N * (M * q) + N * r /\ N * (M * q) = (N * M) * q /\ N * r = r * N
    BY <1>1, <1>3
  <2>2. (N * M) * q \in Int /\ N * r \in Int /\ (N * M) * d = 0 - (N * M) * q
    BY <1>1, <1>3
  <2> QED
    BY <1>1, <1>3, <2>1, <2>2
<1> HIDE DEF a, d
<1>5. (a + Period * d) % Period = a % Period
  BY <1>1, <1>4, Shifted
<1>6. Position(e) = a % Period
  BY <1>2, <1>4, <1>5 DEF Position
<1>7. a % Period \in Nat /\ a % Period < Period
  BY <1>1, <1>4, Division
<1> QED
  BY <1>1, <1>6, <1>7 DEF a

\* An engine counts: its counter is that of a number.
Counting(e) == \E m \in Nat : e.c = CounterAt(m)

\* Of the numbers that have its counter one gives the place itself.
LEMMA Unwrapped ==
  ASSUME NEW e, Counting(e), e.elem \in Words
  PROVE  \E m \in Nat : e.c = CounterAt(m) /\ N * m - e.elem = Position(e)
<1> PICK m \in Nat : e.c = CounterAt(m)
  BY DEF Counting
<1> DEFINE M == Power[N]
           a == N * m - e.elem
           q == a \div Period
           r == a % Period
           k == m - M * q
<1>1. M \in Nat \ {0} /\ N \in Nat \ {0} /\ Period \in Nat \ {0} /\ Period = N * M
      /\ e.elem \in Nat /\ e.elem < N
  BY Sizes DEF Words
<1>2. a \in Int
  BY <1>1
<1>3. Position(e) = r
  BY Place
<1> HIDE DEF a
<1>4. q \in Int /\ r \in Nat /\ a = Period * q + r
  BY <1>1, <1>2, Division
<1> HIDE DEF M, q, r
<1>5. k \in Int /\ N * k - e.elem = r
  <2>1. N * k = N * m - N * (M * q) /\ N * (M * q) = (N * M) * q /\ N * m \in Int /\ (N * M) * q \in Int
        /\ M * q \in Int
    BY <1>1, <1>4
  <2> QED
    BY <1>1, <1>4, <2>1 DEF a
<1>6. k \in Nat
  <2> HIDE DEF k
  <2>1. N * k >= 0
    BY <1>1, <1>4, <1>5
  <2>2. ASSUME k < 0 PROVE FALSE
    <3>1. N * k < 0
      BY <1>1, <1>5, <2>2
    <3> QED
      BY <1>5, <1>1, <2>1, <3>1
  <2> QED
    BY <1>5, <2>2
<1>7. CounterAt(k) = CounterAt(m)
  <2>1. m = k + M * q
    <3>1. M * q \in Int
      BY <1>1, <1>4
    <3> QED
      BY <3>1
  <2> HIDE DEF k
  <2>2. (k + M * q) % M = k % M
    BY <1>1, <1>4, <1>5, Shifted
  <2> QED
    BY <1>6, <2>1, <2>2, CounterWraps DEF M
<1> QED
  BY <1>3, <1>5, <1>6, <1>7

\* The word of an engine that has a number, and what that number becomes.
Numbered(e, m) ==
  /\ m \in Nat /\ e.c = CounterAt(m) /\ e.elem \in Words
  /\ N * m - e.elem = Position(e)

\* The block that the place is in, and how far in it is.
LEMMA BlockOfPlace ==
  ASSUME NEW e, NEW m, Numbered(e, m)
  PROVE  LET pos == Position(e) IN
         /\ pos \in Nat /\ pos < Period
         /\ e.elem = 0 => pos \div N = m /\ pos % N = 0
         /\ e.elem # 0 => pos \div N = m - 1 /\ pos % N = N - e.elem /\ m # 0
<1> DEFINE pos == Position(e)
           k == e.elem
<1>1. /\ N \in Nat \ {0} /\ m \in Nat /\ k \in Nat /\ k < N
      /\ pos \in Nat /\ pos < Period /\ N * m - k = pos
  BY Sizes, Place DEF Words, Numbered
<1> HIDE DEF pos, k
<1>2. CASE k = 0
  <2>1. pos = N * m + 0 /\ pos \in Int
    <3>1. N * m \in Int
      BY <1>1
    <3> QED
      BY <1>1, <1>2, <3>1
  <2>2. pos \div N = m /\ pos % N = 0
    BY <1>1, <2>1, DivisionIsUnique
  <2> QED
    BY <1>1, <1>2, <2>2 DEF pos, k
<1>3. CASE k # 0
  <2> DEFINE b == m - 1
             r == N - k
  <2>1. m # 0
    BY <1>1, <1>3
  <2>2. b \in Int /\ r \in Nat /\ r < N /\ pos = N * b + r
    <3>1. N * (m - 1) = N * m - N /\ N * m \in Int
      BY <1>1
    <3> QED
      BY <1>1, <1>3, <3>1
  <2> HIDE DEF b, r
  <2>3. pos \div N = b /\ pos % N = r
    BY <1>1, <2>2, DivisionIsUnique
  <2> QED
    BY <1>1, <1>3, <2>1, <2>3 DEF pos, k, b, r
<1> QED
  BY <1>2, <1>3

\* A new engine is at the first place.
LEMMA NewIsFirst ==
  ASSUME NEW key
  PROVE  Counting(New(key)) /\ Position(New(key)) = 0
<1>1. New(key).c = Fill(0) /\ New(key).elem = 0
  BY DEF New
<1>2. CounterAt(0) = Fill(0)
  <2>1. \A i \in Words : (0 \div Power[i]) % Base = 0
    <3> SUFFICES ASSUME NEW i \in Words PROVE (0 \div Power[i]) % Base = 0
      OBVIOUS
    <3> DEFINE p == Power[i]
    <3>1. p \in Nat \ {0} /\ Base \in Nat \ {0}
      <4>1. i \in 0..N
        BY CounterEngineAssumption DEF Words
      <4> QED
        BY <4>1, PowerIsPositive, CounterEngineAssumption
    <3> HIDE DEF p
    <3>2. 0 = p * 0 + 0 /\ 0 = Base * 0 + 0
      BY <3>1
    <3>3. 0 \div p = 0 /\ 0 % Base = 0
      BY <3>1, <3>2, DivisionIsUnique
    <3> QED
      BY <3>3 DEF p
  <2> QED
    BY <2>1 DEF CounterAt, Fill
<1>3. 0 \in Words
  BY CounterEngineAssumption DEF Words
<1>4. Position(New(key)) = (N * 0 - 0) % Period
  BY <1>1, <1>2, <1>3, Place
<1>5. N * 0 - 0 = 0 /\ 0 % Period = 0
  <2>1. 0 = Period * 0 + 0
    BY Sizes
  <2> QED
    BY <2>1, Sizes, DivisionIsUnique
<1> QED
  BY <1>1, <1>2, <1>4, <1>5 DEF Counting

\* The engine whose counter has been taken from m to m + g, with elem words left.
LEMMA Moved ==
  ASSUME NEW e, NEW m, Numbered(e, m), NEW f, NEW n \in Nat, NEW steps \in Nat,
         f.c = CounterAt(n), f.elem \in Words,
         N * n - f.elem = (N * m - e.elem) + steps
  PROVE  Counting(f) /\ Position(f) = (Position(e) + steps) % Period
<1>1. Position(f) = (N * n - f.elem) % Period
  BY Place
<1> QED
  BY <1>1 DEF Numbered, Counting

\* operator() returns the word at the place of the engine and goes on to the next.
LEMMA CalledIsNext ==
  ASSUME NEW e, NEW m, Numbered(e, m), Shaped(e), Buffered(e)
  PROVE  /\ Counting(Called(e)) /\ Position(Called(e)) = (Position(e) + 1) % Period
         /\ Called(e).b = e.b
         /\ Called(e).v = Cipher(e.b, CounterAt((Position(e) \div N) + 1))
         /\ Output(e) = Nth(e.b, Position(e))
<1> DEFINE pos == Position(e)
           block == CounterAt((pos \div N) + 1)
<1>1. N \in Nat \ {0} /\ m \in Nat /\ e.elem \in Nat /\ e.elem < N /\ pos \in Nat
  BY Sizes, BlockOfPlace DEF Words, Numbered
<1>2. Nth(e.b, pos) = Cipher(e.b, block)[N - 1 - (pos % N)]
  BY DEF Nth
<1>3. CASE e.elem = 0
  <2>1. pos \div N = m /\ pos % N = 0
    BY <1>3, BlockOfPlace
  <2>2. Increment(e.c) = CounterAt(m + 1)
    BY <1>1, IncrementIsSuccessor DEF Numbered
  <2>3. NextBlock(e) \in [b : {e.b}, c : {CounterAt(m + 1)}, elem : {N},
                          v : {Cipher(e.b, CounterAt(m + 1))}]
    BY <2>2 DEF NextBlock, Shaped
  <2>4. Called(e) = [NextBlock(e) EXCEPT !.elem = N - 1]
    BY <1>3, <2>3 DEF Called
  <2>5. /\ Called(e).b = e.b /\ Called(e).c = CounterAt(m + 1) /\ Called(e).elem = N - 1
        /\ Called(e).v = Cipher(e.b, CounterAt(m + 1))
    BY <2>3, <2>4
  <2>6. N * (m + 1) - (N - 1) = (N * m - e.elem) + 1 /\ N - 1 \in Words /\ m + 1 \in Nat
    <3>1. N * (m + 1) = N * m + N /\ N * m \in Int
      BY <1>1
    <3> QED
      BY <1>1, <1>3, <3>1 DEF Words
  <2>7. Counting(Called(e)) /\ Position(Called(e)) = (pos + 1) % Period
    BY <2>5, <2>6, Moved
  <2>8. Output(e) = Cipher(e.b, CounterAt(m + 1))[N - 1]
    BY <2>5 DEF Output
  <2>9. N - 1 - 0 = N - 1
    BY <1>1
  <2> QED
    BY <1>2, <2>1, <2>5, <2>7, <2>8, <2>9
<1>4. CASE e.elem # 0
  <2>1. pos \div N = m - 1 /\ pos % N = N - e.elem /\ (m - 1) + 1 = m
        /\ N - 1 - (N - e.elem) = e.elem - 1
    BY <1>1, <1>4, BlockOfPlace
  <2>2. Called(e) = [e EXCEPT !.elem = e.elem - 1]
    BY <1>4 DEF Called
  <2>3. /\ Called(e).b = e.b /\ Called(e).c = CounterAt(m) /\ Called(e).elem = e.elem - 1
        /\ Called(e).v = Cipher(e.b, CounterAt(m))
    BY <1>4, <2>2 DEF Shaped, Buffered, Numbered
  <2>4. N * m - (e.elem - 1) = (N * m - e.elem) + 1 /\ e.elem - 1 \in Words
    <3>1. N * m \in Int
      BY <1>1
    <3> QED
      BY <1>1, <1>4, <3>1 DEF Words
  <2>5. Counting(Called(e)) /\ Position(Called(e)) = (pos + 1) % Period
    BY <1>1, <2>3, <2>4, Moved
  <2>6. Output(e) = Cipher(e.b, CounterAt(m))[e.elem - 1]
    BY <2>3 DEF Output
  <2> QED
    BY <1>2, <2>1, <2>3, <2>5, <2>6
<1> QED
  BY <1>3, <1>4

\* discard goes on by so many words.
LEMMA DiscardedIsLater ==
  ASSUME NEW e, NEW m, Numbered(e, m), Shaped(e), Buffered(e), NEW skip \in Skips
  PROVE  /\ Counting(Discarded(e, skip))
         /\ Position(Discarded(e, skip)) = (Position(e) + skip) % Period
         /\ Discarded(e, skip).b = e.b
<1> DEFINE dropped == IF skip < e.elem THEN skip ELSE e.elem
           rest == skip - dropped
           q == rest \div N
           r == rest % N
           counted == [e EXCEPT !.elem = @ - dropped, !.c = IncrementBy(e.c, q)]
<1>1. /\ N \in Nat \ {0} /\ m \in Nat /\ skip \in Nat /\ e.elem \in Nat /\ e.elem < N
      /\ N * m \in Int
  BY Sizes, CounterEngineAssumption DEF Words, Numbered
<1>2. /\ rest \in Nat /\ dropped \in Nat /\ dropped <= e.elem /\ skip = dropped + rest
      /\ rest # 0 => dropped = e.elem
  BY <1>1
<1>3. q \in Nat /\ r \in Nat /\ r < N /\ rest = N * q + r
  <2> HIDE DEF rest
  <2> QED
    BY <1>1, <1>2, Division
<1>4. Wide \/ q < Base
  <2>1. ASSUME ~Wide PROVE q < Base
    <3> DEFINE s == skip \div N
               d == skip % N
    <3>1. s < Base
      BY <2>1, CounterEngineAssumption
    <3>2. s \in Nat /\ d \in Nat /\ d < N /\ skip = N * s + d
      BY <1>1, Division
    <3> HIDE DEF s, d, q, r, rest, dropped
    <3>3. ASSUME s < q PROVE FALSE
      <4>1. N * q >= N * (s + 1) /\ N * (s + 1) = N * s + N /\ N * q \in Int /\ N * s \in Int
        BY <1>1, <1>3, <3>2, <3>3
      <4> QED
        BY <1>1, <1>2, <1>3, <3>2, <4>1
    <3> QED
      BY <1>3, <3>1, <3>2, <3>3, CounterEngineAssumption
  <2> QED
    BY <2>1
<1> HIDE DEF dropped, q, r
<1>5. /\ counted.b = e.b /\ counted.elem = e.elem - dropped /\ counted.c = CounterAt(m + q)
      /\ Shaped(counted)
  <2>1. IncrementBy(e.c, q) = CounterAt(m + q)
    BY <1>1, <1>3, <1>4, IncrementByIsSum DEF Numbered
  <2> QED
    BY <2>1 DEF Shaped
<1>6. N * (m + q) = N * m + N * q /\ N * q \in Int /\ m + q \in Nat
  BY <1>1, <1>3
<1> HIDE DEF counted
<1>7. CASE r = 0
  <2>1. Discarded(e, skip) = counted
    BY <1>7 DEF Discarded, dropped, q, r, counted
  <2>2. N * (m + q) - (e.elem - dropped) = (N * m - e.elem) + skip /\ e.elem - dropped \in Words
    BY <1>1, <1>2, <1>3, <1>6, <1>7 DEF Words
  <2>3. Counting(counted) /\ Position(counted) = (Position(e) + skip) % Period
    BY <1>1, <1>5, <1>6, <2>2, Moved
  <2> QED
    BY <1>5, <2>1, <2>3
<1>8. CASE r # 0
  <2> DEFINE f == [NextBlock(counted) EXCEPT !.elem = N - r]
  <2>1. Discarded(e, skip) = f
    BY <1>8 DEF Discarded, dropped, q, r, counted
  <2>2. Increment(counted.c) = CounterAt((m + q) + 1)
    BY <1>5, <1>6, IncrementIsSuccessor
  <2>3. f.b = e.b /\ f.c = CounterAt((m + q) + 1) /\ f.elem = N - r
    <3>1. NextBlock(counted) \in [b : {e.b}, c : {CounterAt((m + q) + 1)}, elem : {N},
                                  v : {Cipher(e.b, CounterAt((m + q) + 1))}]
      BY <1>5, <2>2 DEF NextBlock, Shaped
    <3> QED
      BY <3>1
  <2> HIDE DEF f
  <2>4. /\ N * ((m + q) + 1) - (N - r) = (N * m - e.elem) + skip
        /\ N - r \in Words /\ (m + q) + 1 \in Nat
    <3>1. dropped = e.elem
      BY <1>1, <1>2, <1>3, <1>8
    <3>2. N * ((m + q) + 1) = N * (m + q) + N
      BY <1>1, <1>3
    <3> QED
      BY <1>1, <1>2, <1>3, <1>6, <1>8, <3>1, <3>2 DEF Words
  <2>5. Counting(f) /\ Position(f) = (Position(e) + skip) % Period
    BY <1>1, <2>3, <2>4, Moved
  <2> QED
    BY <2>1, <2>3, <2>5
<1> QED
  BY <1>7, <1>8

\* generate_block leaves out what is buffered and makes the next block.
LEMMA BlockIsNext ==
  ASSUME NEW e, NEW m, Numbered(e, m), NEW f, f.c = Increment(e.c), f.elem = 0
  PROVE  LET pos == Position(e)
             start == ((pos + N - 1) \div N) * N
         IN /\ Counting(f) /\ Position(f) = (start + N) % Period
            /\ [i \in 1..N |-> Cipher(e.b, Increment(e.c))[N - i]]
                 = [i \in 1..N |-> Nth(e.b, (start + i - 1) % Period)]
<1> DEFINE pos == Position(e)
           k == e.elem
           M == Power[N]
           start == ((pos + N - 1) \div N) * N
<1>1. /\ N \in Nat \ {0} /\ m \in Nat /\ k \in Nat /\ k < N /\ pos \in Nat
      /\ M \in Nat \ {0} /\ N * m - k = pos /\ N * m \in Nat
      /\ Period = N * M /\ Period \in Nat \ {0}
  BY Sizes, BlockOfPlace DEF Words, Numbered
<1>0. N \in Nat \ {0} /\ m \in Nat /\ m \in Int /\ M \in Nat \ {0}
  BY <1>1
<1>2. Increment(e.c) = CounterAt(m + 1)
  BY <1>1, IncrementIsSuccessor DEF Numbered
<1> HIDE DEF M
<1>3. start = N * m
  <2> DEFINE a == pos + N - 1
             r == N - 1 - k
  <2>1. a \in Int /\ r \in Nat /\ r < N /\ a = N * m + r
    BY <1>1
  <2> HIDE DEF a, r
  <2>2. a \div N = m
    BY <1>0, <2>1, DivisionIsUnique
  <2>3. m * N = N * m
    BY <1>1
  <2> QED
    BY <2>2, <2>3 DEF a
<1>4. Counting(f) /\ Position(f) = (start + N) % Period
  <2>1. /\ N * (m + 1) - 0 = (N * m - e.elem) + (k + N) /\ k + N \in Nat /\ m + 1 \in Nat
        /\ 0 \in Words /\ pos + (k + N) = N * m + N
    <3>1. N * (m + 1) = N * m + N
      BY <1>1
    <3> QED
      BY <1>1, <3>1 DEF Words
  <2>2. Counting(f) /\ Position(f) = (pos + (k + N)) % Period
    BY <1>2, <2>1, Moved
  <2> QED
    BY <1>3, <2>1, <2>2
<1> HIDE DEF start, pos, k
<1>5. ASSUME NEW i \in 1..N
      PROVE  Nth(e.b, (start + i - 1) % Period) = Cipher(e.b, Increment(e.c))[N - i]
  <2> DEFINE j == i - 1
             x == N * m + j
             low == m % M
             y == x % Period
  <2>1. j \in Nat /\ j < N /\ x \in Nat /\ start + i - 1 = x /\ N - 1 - j = N - i
    BY <1>1, <1>3
  <2>2. low \in Nat
    BY <1>1, Division
  <2>4. y = N * low + j /\ y \in Int
    <3> HIDE DEF x, j
    <3>1. Divided(x, N, m, j) /\ M * N = Period /\ j \in Nat
      BY <1>1, <2>1 DEF x, Divided
    <3>2. Divided(m, M, m \div M, low)
      BY <1>0, Division DEF Divided
    <3> HIDE DEF low
    <3>3. x % Period = N * low + j
      BY <3>1, <3>2, NestedDivision
    <3>4. N * low \in Int
      BY <1>0, <2>2
    <3> QED
      BY <3>1, <3>3, <3>4
  <2> HIDE DEF x, j, y
  <2>5. y \div N = low /\ y % N = j
    <3> HIDE DEF low
    <3>1. j \in Nat /\ j < N /\ low \in Int
      BY <2>1, <2>2
    <3> QED
      BY <1>0, <2>4, <3>1, DivisionIsUnique
  <2>6. CounterAt(low + 1) = CounterAt(m + 1)
    <3>1. (low + 1) % M = (m + 1) % M
      <4>1. 1 \in Int
        OBVIOUS
      <4> QED
        BY <1>0, <4>1, SumOfRemainders, Zenon
    <3> HIDE DEF low
    <3> QED
      BY <1>1, <2>2, <3>1, CounterWraps DEF M
  <2>7. Nth(e.b, y) = Cipher(e.b, CounterAt(low + 1))[N - 1 - j]
    BY <2>5 DEF Nth
  <2> QED
    BY <1>2, <2>1, <2>6, <2>7 DEF y
<1> QED
  BY <1>4, <1>5 DEF start, pos

\* derivate ciphers the words from the place of the engine on.
LEMMA DerivedIsChild ==
  ASSUME NEW e, NEW m, Numbered(e, m), Shaped(e), Buffered(e), NEW r
  PROVE  Derived(e, r) = New(ChildKey(e.b, Position(e), r))
<1> DEFINE pos == Position(e)
           turn == (N - (pos % N)) % N
<1>1. N \in Nat \ {0} /\ e.elem \in Nat /\ e.elem < N
  BY Sizes DEF Words, Numbered
<1>2. Called(e).v = Cipher(e.b, CounterAt((pos \div N) + 1))
  BY CalledIsNext
<1>3. turn = e.elem
  <2>1. CASE e.elem = 0
    <3>1. pos % N = 0 /\ N = N * 1 + 0 /\ N - 0 = N
      BY <1>1, <2>1, BlockOfPlace
    <3>2. N % N = 0
      BY <1>1, <3>1, DivisionIsUnique
    <3> QED
      BY <2>1, <3>1, <3>2
  <2>2. CASE e.elem # 0
    <3>1. pos % N = N - e.elem /\ N - (N - e.elem) = e.elem /\ e.elem = N * 0 + e.elem
      BY <1>1, <2>2, BlockOfPlace
    <3>2. e.elem % N = e.elem
      BY <1>1, <3>1, DivisionIsUnique
    <3> QED
      BY <3>1, <3>2
  <2> QED
    BY <2>1, <2>2
<1> QED
  BY <1>2, <1>3 DEF Derived, ChildKey
-----------------------------------------------------------------------------
CInv == IInv /\ \A s \in Slots : Holds(s) => Counting(engine[s])

\* What a step in which only slot t changes means for the counters.
LEMMA CountingSlot ==
  ASSUME CInv, NEW t \in Slots, NEW e, Counting(e), engine' = [engine EXCEPT ![t] = e]
  PROVE  \A s \in Slots : Holds(s)' => Counting(engine'[s])
<1> SUFFICES ASSUME NEW s \in Slots, Holds(s)' PROVE Counting(engine'[s])
  OBVIOUS
<1> QED
  BY DEF CInv, IInv, Holds

\* An engine that is in a slot has a number.
LEMMA EngineIsNumbered ==
  ASSUME CInv, NEW s \in Slots, engine[s] # Empty
  PROVE  /\ Shaped(engine[s]) /\ Buffered(engine[s]) /\ Counting(engine[s])
         /\ \E m : Numbered(engine[s], m)
<1>1. Shaped(engine[s]) /\ Buffered(engine[s]) /\ Counting(engine[s])
  BY DEF CInv, IInv, Holds
<1> QED
  BY <1>1, Unwrapped DEF Buffered, Numbered

\* generate_block leaves the key, and the counter of the block it returns.
LEMMA BlockGenerated ==
  ASSUME CInv, NEW s \in Slots, GenerateBlock(s)
  PROVE  \E f, m :
           /\ Numbered(engine[s], m) /\ engine[s] # Empty
           /\ engine' = [engine EXCEPT ![s] = f] /\ Shaped(f)
           /\ f.b = engine[s].b /\ f.c = Increment(engine[s].c) /\ f.elem = 0
<1> DEFINE e == engine[s]
           f == [e EXCEPT !.elem = 0, !.c = Increment(@)]
<1>1. e # Empty /\ engine' = [engine EXCEPT ![s] = f]
  BY DEF GenerateBlock
<1>2. PICK m : Numbered(e, m) /\ Shaped(e)
  BY <1>1, EngineIsNumbered
<1>3. Shaped(f) /\ f.b = e.b /\ f.c = Increment(e.c) /\ f.elem = 0
  BY <1>2 DEF Shaped
<1> HIDE DEF f
<1> QED
  BY <1>1, <1>2, <1>3

LEMMA CountingStep ==
  ASSUME CInv, Next
  PROVE  \A s \in Slots : Holds(s)' => Counting(engine'[s])
<1> PICK s \in Slots :
      \/ Call(s) \/ GenerateBlock(s)
      \/ \E skip \in Skips : Discard(s, skip)
      \/ \E r \in Seeds : Seed(s, r)
      \/ \E t \in Slots : Copy(s, t) \/ Move(s, t)
      \/ \E t \in Slots, r \in Seeds : Derivate(s, t, r)
  BY DEF Next
<1> DEFINE Goal == \A u \in Slots : Holds(u)' => Counting(engine'[u])
<1> SUFFICES Goal
  OBVIOUS
<1> HIDE DEF Goal
<1>0. ASSUME NEW t \in Slots, NEW e, Counting(e), engine' = [engine EXCEPT ![t] = e] PROVE Goal
  BY <1>0, CountingSlot DEF Goal
<1>1. CASE Call(s)
  BY <1>0, <1>1, EngineIsNumbered, CalledIsNext DEF Call
<1>2. CASE GenerateBlock(s)
  <2>1. PICK f, m : /\ engine' = [engine EXCEPT ![s] = f]
                    /\ Numbered(engine[s], m) /\ f.c = Increment(engine[s].c) /\ f.elem = 0
    BY <1>2, BlockGenerated
  <2> QED
    BY <1>0, <2>1, BlockIsNext
<1>3. ASSUME NEW skip \in Skips, Discard(s, skip) PROVE Goal
  BY <1>0, <1>3, EngineIsNumbered, DiscardedIsLater DEF Discard
<1>4. ASSUME NEW r \in Seeds, Seed(s, r) PROVE Goal
  BY <1>0, <1>4, NewIsFirst DEF Seed
<1>5. ASSUME NEW t \in Slots, Copy(s, t) PROVE Goal
  BY <1>0, <1>5, EngineIsNumbered DEF Copy
<1>6. ASSUME NEW t \in Slots, Move(s, t) PROVE Goal
  <2>1. ASSUME NEW u \in Slots, engine'[u] # Empty PROVE Counting(engine'[u])
    BY <1>6, <2>1, EngineIsNumbered DEF Move, CInv, IInv
  <2> QED
    BY <2>1 DEF Goal, Holds
<1>7. ASSUME NEW t \in Slots, NEW r \in Seeds, Derivate(s, t, r) PROVE Goal
  BY <1>0, <1>7, NewIsFirst DEF Derivate, Derived
<1> QED
  BY <1>1, <1>2, <1>3, <1>4, <1>5, <1>6, <1>7

LEMMA CountingInv ==
  /\ Init => CInv
  /\ CInv /\ [Next]_vars => CInv'
<1>1. Init => CInv
  BY DEF Init, CInv, IInv, Holds
<1>2. ASSUME CInv, Next PROVE CInv'
  BY <1>2, NextInv, CountingStep DEF CInv
<1>3. ASSUME CInv, UNCHANGED vars PROVE CInv'
  BY <1>3 DEF CInv, IInv, Holds, vars
<1> QED
  BY <1>1, <1>2, <1>3
-----------------------------------------------------------------------------
\* An engine and a place in a sequence are not the mapper without an engine.
EmptyIsNothing ==
  /\ \A b, c, elem, v : [b |-> b, c |-> c, elem |-> elem, v |-> v] # Empty
  /\ \A key, pos : [key |-> key, pos |-> pos] # Empty

LEMMA ShapedIsEngine ==
  ASSUME EmptyIsNothing, NEW e, Shaped(e) PROVE e # Empty
<1>1. e = [b |-> e.b, c |-> e.c, elem |-> e.elem, v |-> e.v]
  BY DEF Shaped
<1> QED
  BY <1>1 DEF EmptyIsNothing

\* Every step of an engine is one of the sequences.
LEMMA StepMaps ==
  ASSUME CInv, Next, EmptyIsNothing
  PROVE  Streams!Next
<1> PICK s \in Slots :
      \/ Call(s) \/ GenerateBlock(s)
      \/ \E skip \in Skips : Discard(s, skip)
      \/ \E r \in Seeds : Seed(s, r)
      \/ \E t \in Slots : Copy(s, t) \/ Move(s, t)
      \/ \E t \in Slots, r \in Seeds : Derivate(s, t, r)
  BY DEF Next
<1> DEFINE e == engine[s]
<1>0. engine = [u \in Slots |-> engine[u]]
  BY DEF CInv, IInv
<1>1. CASE Call(s)
  <2>1. e # Empty /\ engine' = [engine EXCEPT ![s] = Called(e)] /\ out' = <<"number", Output(e)>>
    BY <1>1 DEF Call
  <2>2. PICK m : Numbered(e, m) /\ Shaped(e) /\ Buffered(e)
    BY <2>1, EngineIsNumbered
  <2>3. /\ Counting(Called(e)) /\ Position(Called(e)) = (Position(e) + 1) % Period
        /\ Called(e).b = e.b /\ Output(e) = Nth(e.b, Position(e)) /\ Called(e) # Empty
    BY <2>2, CalledIsNext, CalledIsBuffered, ShapedIsEngine
  <2> HIDE DEF e
  <2>4. Streams!Call(s)
    BY <1>0, <2>1, <2>3 DEF Streams!Call, Streams!Goto, EmptyIsNothing, e
  <2> QED
    BY <2>1, <2>3, <2>4 DEF Streams!Next
<1>2. CASE GenerateBlock(s)
  <2>1. out' = <<"block", [i \in 1..N |-> Cipher(e.b, Increment(e.c))[N - i]]>>
    BY <1>2 DEF GenerateBlock
  <2>2. PICK f, m : /\ Numbered(e, m) /\ e # Empty
                    /\ engine' = [engine EXCEPT ![s] = f] /\ Shaped(f)
                    /\ f.b = e.b /\ f.c = Increment(e.c) /\ f.elem = 0
    BY <1>2, BlockGenerated
  <2> HIDE DEF e
  <2> DEFINE pos == Position(e)
             start == ((pos + N - 1) \div N) * N
  <2>4. /\ Counting(f) /\ Position(f) = (start + N) % Period
        /\ out' = <<"block", [i \in 1..N |-> Nth(e.b, (start + i - 1) % Period)]>>
        /\ f # Empty
    BY <2>1, <2>2, BlockIsNext, ShapedIsEngine
  <2>5. Streams!GenerateBlock(s)
    <3> HIDE DEF pos
    <3> QED
      BY <1>0, <2>2, <2>4 DEF Streams!GenerateBlock, Streams!Goto, EmptyIsNothing, e, pos
  <2> QED
    BY <2>1, <2>4, <2>5 DEF Streams!Next
<1>3. ASSUME NEW skip \in Skips, Discard(s, skip) PROVE Streams!Next
  <2>1. /\ e # Empty /\ engine' = [engine EXCEPT ![s] = Discarded(e, skip)]
        /\ out' = <<"discard", skip>>
    BY <1>3 DEF Discard
  <2>2. PICK m : Numbered(e, m) /\ Shaped(e) /\ Buffered(e)
    BY <2>1, EngineIsNumbered
  <2>3. skip \in Nat
    BY CounterEngineAssumption
  <2>4. /\ Counting(Discarded(e, skip))
        /\ Position(Discarded(e, skip)) = (Position(e) + skip) % Period
        /\ Discarded(e, skip).b = e.b /\ Discarded(e, skip) # Empty
    BY <2>2, <2>3, DiscardedIsLater, DiscardedIsBuffered, ShapedIsEngine
  <2> HIDE DEF e
  <2>5. Streams!Discard(s, skip)
    BY <1>0, <2>1, <2>4 DEF Streams!Discard, Streams!Goto, EmptyIsNothing, e
  <2> QED
    BY <2>1, <2>4, <2>5 DEF Streams!Next
<1>4. ASSUME NEW r \in Seeds, Seed(s, r) PROVE Streams!Next
  <2>1. engine' = [engine EXCEPT ![s] = New(Fill(r))] /\ out' = NoOutput
    BY <1>4 DEF Seed
  <2>2. Counting(New(Fill(r))) /\ Position(New(Fill(r))) = 0
    BY NewIsFirst
  <2>3. New(Fill(r)) # Empty /\ New(Fill(r)).b = Fill(r)
    BY DEF New, EmptyIsNothing
  <2>4. Streams!Seed(s, r)
    BY <1>0, <2>1, <2>2, <2>3 DEF Streams!Seed, Streams!Silent, EmptyIsNothing
  <2> QED
    BY <2>1, <2>2, <2>4 DEF Streams!Next
<1>5. ASSUME NEW t \in Slots, Copy(s, t) PROVE Streams!Next
  <2>1. e # Empty /\ engine' = [engine EXCEPT ![t] = e] /\ out' = NoOutput
    BY <1>5 DEF Copy
  <2>2. Streams!Copy(s, t)
    BY <1>0, <2>1 DEF Streams!Copy, Streams!Silent
  <2> QED
    BY <2>2 DEF Streams!Next
<1>6. ASSUME NEW t \in Slots, Move(s, t) PROVE Streams!Next
  <2>1. /\ e # Empty /\ engine[t] = Empty /\ out' = NoOutput
        /\ engine' = [engine EXCEPT ![t] = engine[s], ![s] = Empty]
    BY <1>6 DEF Move
  <2>2. Streams!Move(s, t)
    BY <1>0, <2>1 DEF Streams!Move, Streams!Silent
  <2> QED
    BY <2>2 DEF Streams!Next
<1>7. ASSUME NEW t \in Slots, NEW r \in Seeds, Derivate(s, t, r) PROVE Streams!Next
  <2>1. e # Empty /\ engine' = [engine EXCEPT ![t] = Derived(e, r)] /\ out' = NoOutput
    BY <1>7 DEF Derivate
  <2>2. PICK m : Numbered(e, m) /\ Shaped(e) /\ Buffered(e)
    BY <2>1, EngineIsNumbered
  <2> DEFINE key == ChildKey(e.b, Position(e), r)
  <2>3. Derived(e, r) = New(key)
    BY <2>2, DerivedIsChild
  <2> HIDE DEF key
  <2>4. Counting(New(key)) /\ Position(New(key)) = 0
    BY NewIsFirst
  <2>5. New(key) # Empty /\ New(key).b = key
    BY DEF New, EmptyIsNothing
  <2>6. Streams!Derivate(s, t, r)
    BY <1>0, <2>1, <2>3, <2>4, <2>5 DEF Streams!Derivate, Streams!Silent, EmptyIsNothing, key
  <2> QED
    BY <2>1, <2>3, <2>4, <2>6 DEF Streams!Next
<1> QED
  BY <1>1, <1>2, <1>3, <1>4, <1>5, <1>6, <1>7

\* Engines implement the sequences of words: the counter with its carries, elem
\* and the buffer are a place, which discard, derivate and generate_block move
\* or read as the sequence says, for any cipher, width and number of words.
THEOREM StreamsImplemented == ASSUME EmptyIsNothing PROVE Spec => ImplementsStreams
<1>1. Init => Streams!Init
  BY DEF Init, Streams!Init
<1>2. CInv /\ [Next]_vars => [Streams!Next]_(Streams!vars)
  <2>1. ASSUME UNCHANGED vars PROVE UNCHANGED Streams!vars
    <3>1. engine' = engine /\ out' = out
      BY <2>1 DEF vars
    <3> QED
      BY <3>1 DEF Streams!vars
  <2> QED
    BY <2>1, StepMaps
<1> QED
  BY <1>1, <1>2, CountingInv, PTL DEF Spec, ImplementsStreams, Streams!Spec
-----------------------------------------------------------------------------
(* Derivations: the key of an engine says how it came about. *)

\* The block that a derivation at a place of a seeded engine takes its words
\* from, and the one it makes of them, as a key and a counter for the cipher.
Drawn(a, p) == [key |-> Fill(a), c |-> CounterAt((p \div N) + 1)]
Turn(p) == (N - (p % N)) % N
Turned(a, p) ==
  [i \in Words |-> Cipher(Fill(a), CounterAt((p \div N) + 1))[(i + Turn(p)) % N]]
Made(a, p, r) == [key |-> Fill(r), c |-> Turned(a, p)]
Ciphered(o) == IF Len(o) = 1 THEN {} ELSE {Drawn(o[1], o[2]), Made(o[1], o[2], o[3])}

\* No word of one block is a word of the other, or stands in it twice.
NoWordTwice(x, y) ==
  \A i, j \in Words : Cipher(x.key, x.c)[i] = Cipher(y.key, y.c)[j] => x = y /\ i = j

\* The finitely many blocks that were ciphered for the keys in use have no word
\* in common, and no number that an engine in use was seeded with.
BlocksApart ==
  LET used == {s \in Slots : Holds(s)}
      blocks == UNION {Ciphered(origin[s]) : s \in used}
  IN  /\ \A x, y \in blocks : NoWordTwice(x, y)
      /\ \A x \in blocks, s \in used : \A i \in Words : Cipher(x.key, x.c)[i] # origin[s][1]

\* The block of a counter at a place is the block of no other one.
LEMMA CounterTellsNumber ==
  ASSUME NEW x \in Nat, NEW y \in Nat, CounterAt(x) = CounterAt(y)
  PROVE  x % Power[N] = y % Power[N]
  BY ValueOfCounter

\* A place is told by the counter of its block and the turn of the block.
LEMMA PlaceIsTold ==
  ASSUME NEW p \in 0..Period - 1, NEW q \in 0..Period - 1,
         CounterAt((p \div N) + 1) = CounterAt((q \div N) + 1),
         (N - (p % N)) % N = (N - (q % N)) % N
  PROVE  p = q
<1> DEFINE M == Power[N]
<1>0. N \in Nat \ {0} /\ M \in Nat \ {0} /\ Period = N * M /\ p \in Nat /\ q \in Nat
  BY Sizes
<1>1. ((p \div N) + 1) % M = ((q \div N) + 1) % M
  <2>1. (p \div N) + 1 \in Nat /\ (q \div N) + 1 \in Nat
    BY <1>0, Division
  <2> QED
    BY <2>1, CounterTellsNumber
<1> HIDE DEF M
<1>2. ASSUME NEW z \in 0..Period - 1
      PROVE  /\ z \div N \in Nat /\ z \div N < M
             /\ z % N \in Nat /\ z % N < N /\ z = N * (z \div N) + (z % N)
  <2> DEFINE t == z \div N
             r == z % N
  <2>1. z \in Nat /\ z < N * M
    BY <1>0, Sizes
  <2>2. t \in Nat /\ r \in Nat /\ r < N /\ z = N * t + r
    BY <1>0, <2>1, Division
  <2> HIDE DEF t, r
  <2>3. ASSUME t >= M PROVE FALSE
    <3>1. N * t >= N * M /\ N * t \in Int /\ N * M \in Int
      BY <1>0, <2>2, <2>3
    <3> QED
      BY <2>1, <2>2, <3>1
  <2> QED
    BY <1>0, <2>2, <2>3 DEF t, r
<1> DEFINE t == p \div N
           r == p % N
           u == q \div N
           s == q % N
<1>3. /\ t \in Nat /\ t < M /\ r \in Nat /\ r < N /\ p = N * t + r
      /\ u \in Nat /\ u < M /\ s \in Nat /\ s < N /\ q = N * u + s
      /\ (t + 1) % M = (u + 1) % M /\ (N - r) % N = (N - s) % N
  BY <1>1, <1>2
<1> HIDE DEF t, r, u, s
<1>4. ASSUME NEW k \in Nat \ {0}, NEW z \in Nat, z < k
      PROVE  (z + 1) % k = IF z + 1 = k THEN 0 ELSE z + 1
  <2>1. CASE z + 1 = k
    <3>1. z + 1 = k * 1 + 0
      BY <2>1
    <3> QED
      BY <2>1, <3>1, DivisionIsUnique
  <2>2. CASE z + 1 # k
    <3>1. z + 1 = k * 0 + (z + 1) /\ z + 1 < k /\ z + 1 \in Nat
      BY <1>4, <2>2
    <3> QED
      BY <2>2, <3>1, DivisionIsUnique
  <2> QED
    BY <2>1, <2>2
<1>5. ASSUME NEW z \in Nat, z < N
      PROVE  (N - z) % N = IF z = 0 THEN 0 ELSE N - z
  <2>1. CASE z = 0
    <3>1. N - z = N * 1 + 0
      BY <1>0, <2>1
    <3> QED
      BY <1>0, <2>1, <3>1, DivisionIsUnique
  <2>2. CASE z # 0
    <3> DEFINE w == N - z
    <3>1. w = N * 0 + w /\ w < N /\ w \in Nat
      BY <1>0, <1>5, <2>2
    <3> HIDE DEF w
    <3>2. w % N = w
      BY <1>0, <3>1, DivisionIsUnique
    <3> QED
      BY <2>2, <3>2 DEF w
  <2> QED
    BY <2>1, <2>2
<1>6. t = u
  <2>1. /\ (t + 1) % M = IF t + 1 = M THEN 0 ELSE t + 1
        /\ (u + 1) % M = IF u + 1 = M THEN 0 ELSE u + 1
    BY <1>0, <1>3, <1>4
  <2> QED
    BY <1>0, <1>3, <2>1
<1>7. r = s
  <2>1. /\ (N - r) % N = IF r = 0 THEN 0 ELSE N - r
        /\ (N - s) % N = IF s = 0 THEN 0 ELSE N - s
    BY <1>3, <1>5
  <2> QED
    BY <1>0, <1>3, <2>1
<1> QED
  BY <1>3, <1>6, <1>7

LEMMA FillTells ==
  ASSUME NEW r, NEW s, Fill(r) = Fill(s) PROVE r = s
<1>1. 0 \in Words /\ Fill(r)[0] = r /\ Fill(s)[0] = s
  BY CounterEngineAssumption DEF Words, Fill
<1> QED
  BY <1>1

\* Different derivations of seeded engines make different keys.
LEMMA ChildrenDiffer ==
  ASSUME NEW a, NEW p \in 0..Period - 1, NEW r, NEW b, NEW q \in 0..Period - 1, NEW s,
         NoWordTwice(Drawn(a, p), Drawn(b, q)), NoWordTwice(Made(a, p, r), Made(b, q, s)),
         ChildKey(Fill(a), p, r) = ChildKey(Fill(b), q, s)
  PROVE  a = b /\ p = q /\ r = s
<1>0. 0 \in Words /\ N \in Nat \ {0}
  BY CounterEngineAssumption DEF Words
<1>1. Cipher(Fill(r), Turned(a, p)) = Cipher(Fill(s), Turned(b, q))
  BY DEF ChildKey, Turned, Turn
<1>2. Fill(r) = Fill(s) /\ Turned(a, p) = Turned(b, q)
  <2> DEFINE x == Made(a, p, r)
             y == Made(b, q, s)
  <2>1. Cipher(x.key, x.c)[0] = Cipher(y.key, y.c)[0]
    BY <1>1 DEF Made
  <2>2. x = y
    <3> HIDE DEF x, y
    <3> QED
      BY <1>0, <2>1 DEF NoWordTwice, x, y
  <2>3. x.key = y.key /\ x.c = y.c
    <3> HIDE DEF x, y
    <3> QED
      BY <2>2
  <2> QED
    BY <2>3 DEF Made
<1>3. ASSUME NEW z \in 0..Period - 1
      PROVE  Turn(z) \in Words /\ (0 + Turn(z)) % N = Turn(z)
  <2> DEFINE k == N - (z % N)
             t == k % N
  <2>1. z \in Nat /\ z \in Int
    BY Sizes
  <2>2. k \in Int
    BY <1>0, <2>1, Division
  <2> HIDE DEF k
  <2>3. t \in Nat /\ t < N
    BY <1>0, <2>2, Division
  <2> HIDE DEF t
  <2>4. 0 + t = N * 0 + t /\ 0 + t \in Int
    BY <1>0, <2>3
  <2>5. (0 + t) % N = t
    BY <1>0, <2>3, <2>4, DivisionIsUnique
  <2>6. t \in Words
    BY <1>0, <2>3 DEF Words
  <2> QED
    BY <2>5, <2>6 DEF t, k, Turn
<1>4. Cipher(Drawn(a, p).key, Drawn(a, p).c)[Turn(p)]
        = Cipher(Drawn(b, q).key, Drawn(b, q).c)[Turn(q)]
  <2> DEFINE block(z) == CounterAt((z \div N) + 1)
  <2>1. Turned(a, p)[0] = Turned(b, q)[0]
    BY <1>2
  <2>2. Turned(a, p)[0] = Cipher(Fill(a), block(p))[Turn(p)]
    BY <1>0, <1>3 DEF Turned
  <2>3. Turned(b, q)[0] = Cipher(Fill(b), block(q))[Turn(q)]
    BY <1>0, <1>3 DEF Turned
  <2> QED
    BY <2>1, <2>2, <2>3 DEF Drawn
<1>5. Fill(a) = Fill(b) /\ CounterAt((p \div N) + 1) = CounterAt((q \div N) + 1)
      /\ Turn(p) = Turn(q)
  <2> DEFINE x == Drawn(a, p)
             y == Drawn(b, q)
  <2>1. x = y /\ Turn(p) = Turn(q)
    BY <1>3, <1>4 DEF NoWordTwice
  <2>2. x.key = y.key /\ x.c = y.c
    <3> HIDE DEF x, y
    <3> QED
      BY <2>1
  <2> QED
    BY <2>1, <2>2 DEF Drawn
<1>6. p = q
  BY <1>5, PlaceIsTold DEF Turn
<1> QED
  BY <1>2, <1>5, <1>6, FillTells

\* A derived key is none that a number is made to, unless that is a word of it.
LEMMA ChildIsNoSeed ==
  ASSUME NEW a, NEW p, NEW r, NEW s,
         \A i \in Words : Cipher(Made(a, p, r).key, Made(a, p, r).c)[i] # s
  PROVE  ChildKey(Fill(a), p, r) # Fill(s)
<1>1. 0 \in Words /\ Fill(s)[0] = s
  BY CounterEngineAssumption DEF Words, Fill
<1>2. ChildKey(Fill(a), p, r) = Cipher(Made(a, p, r).key, Made(a, p, r).c)
  BY DEF ChildKey, Made, Turned, Turn
<1> QED
  BY <1>1, <1>2

Seeded(e, o) == \E r \in Seeds : o = <<r>> /\ e.b = Fill(r)
DerivedOnce(e, o) ==
  \E a, r \in Seeds, p \in 0..Period - 1 : o = <<a, p, r>> /\ e.b = ChildKey(Fill(a), p, r)
Traced(e, o) == Seeded(e, o) \/ DerivedOnce(e, o)

\* The history tells the key.
OInv ==
  /\ origin = [s \in Slots |-> origin[s]]
  /\ \A s \in Slots : Holds(s) => Traced(engine[s], origin[s])

LEMMA Appended == ASSUME NEW a, NEW p, NEW r PROVE <<a>> \o <<p, r>> = <<a, p, r>>
<1> DEFINE S == {a, p, r}
           x == <<a>>
           y == <<p, r>>
           z == <<a, p, r>>
<1>1. /\ x \in Seq(S) /\ y \in Seq(S) /\ z \in Seq(S)
      /\ Len(x) = 1 /\ Len(y) = 2 /\ Len(z) = 3
  OBVIOUS
<1>2. x[1] = a /\ y[1] = p /\ y[2] = r /\ z[1] = a /\ z[2] = p /\ z[3] = r
  OBVIOUS
<1> HIDE DEF x, y, z, S
<1>3. /\ x \o y \in Seq(S) /\ Len(x \o y) = 3
      /\ \A i \in 1..3 : (x \o y)[i] = IF i <= 1 THEN x[i] ELSE y[i - 1]
  <2>1. /\ x \o y \in Seq(S) /\ Len(x \o y) = Len(x) + Len(y)
        /\ \A i \in 1..Len(x) + Len(y) :
             (x \o y)[i] = IF i <= Len(x) THEN x[i] ELSE y[i - Len(x)]
    BY <1>1, ConcatProperties
  <2> QED
    BY <1>1, <2>1
<1>4. \A i \in 1..3 : (x \o y)[i] = z[i]
  BY <1>2, <1>3
<1>5. x \o y = z
  BY <1>1, <1>3, <1>4, SeqEqual
<1> QED
  BY <1>5 DEF x, y, z

\* An operation on the engine leaves its key, and with it what is told of it.
LEMMA SameKey ==
  ASSUME CInv, OInv, NEW s \in Slots, NEW e, engine[s] # Empty, e.b = engine[s].b,
         engine' = [engine EXCEPT ![s] = e], origin' = origin
  PROVE  OInv'
<1>1. ASSUME NEW u \in Slots, engine'[u] # Empty PROVE Traced(engine'[u], origin[u])
  BY <1>1 DEF CInv, IInv, OInv, Holds, Traced, Seeded, DerivedOnce
<1> QED
  BY <1>1 DEF OInv, Holds, Traced, Seeded, DerivedOnce

LEMMA NewKey ==
  ASSUME CInv, OInv, NEW t \in Slots, NEW e, NEW o, Traced(e, o),
         engine' = [engine EXCEPT ![t] = e], origin' = [origin EXCEPT ![t] = o]
  PROVE  OInv'
<1>1. ASSUME NEW u \in Slots, engine'[u] # Empty PROVE Traced(engine'[u], origin'[u])
  BY <1>1 DEF CInv, IInv, OInv, Holds
<1> QED
  BY <1>1 DEF OInv, Holds, Traced, Seeded, DerivedOnce

LEMMA OriginStep == ASSUME CInv, OInv, Next PROVE OInv'
<1> PICK s \in Slots :
      \/ Call(s) \/ GenerateBlock(s)
      \/ \E skip \in Skips : Discard(s, skip)
      \/ \E r \in Seeds : Seed(s, r)
      \/ \E t \in Slots : Copy(s, t) \/ Move(s, t)
      \/ \E t \in Slots, r \in Seeds : Derivate(s, t, r)
  BY DEF Next
<1>0. engine[s] # Empty => Traced(engine[s], origin[s])
  BY DEF OInv, Holds
<1>1. CASE Call(s)
  BY <1>1, EngineIsNumbered, CalledIsNext, SameKey DEF Call
<1>2. CASE GenerateBlock(s)
  BY <1>2, BlockGenerated, SameKey DEF GenerateBlock
<1>3. ASSUME NEW skip \in Skips, Discard(s, skip) PROVE OInv'
  BY <1>3, EngineIsNumbered, DiscardedIsLater, SameKey DEF Discard
<1>4. ASSUME NEW r \in Seeds, Seed(s, r) PROVE OInv'
  <2>1. Traced(New(Fill(r)), <<r>>)
    BY DEF Traced, Seeded, New
  <2> QED
    BY <1>4, <2>1, NewKey DEF Seed
<1>5. ASSUME NEW t \in Slots, Copy(s, t) PROVE OInv'
  BY <1>0, <1>5, NewKey DEF Copy
<1>6. ASSUME NEW t \in Slots, Move(s, t) PROVE OInv'
  <2>1. ASSUME NEW u \in Slots, engine'[u] # Empty PROVE Traced(engine'[u], origin'[u])
    BY <1>0, <1>6, <2>1 DEF Move, CInv, IInv, OInv, Holds
  <2>2. origin' = [u \in Slots |-> origin'[u]]
    BY <1>6 DEF Move, OInv
  <2> QED
    BY <2>1, <2>2 DEF OInv, Holds, Traced, Seeded, DerivedOnce
<1>7. ASSUME NEW t \in Slots, NEW r \in Seeds, Derivate(s, t, r) PROVE OInv'
  <2> DEFINE e == engine[s]
             p == Position(e)
  <2>1. /\ e # Empty /\ Len(origin[s]) = 1 /\ engine' = [engine EXCEPT ![t] = Derived(e, r)]
        /\ origin' = [origin EXCEPT ![t] = origin[s] \o <<p, r>>]
    BY <1>7 DEF Derivate
  <2>2. PICK a \in Seeds : origin[s] = <<a>> /\ e.b = Fill(a)
    <3>1. ~DerivedOnce(e, origin[s])
      <4> SUFFICES ASSUME NEW a, NEW q, NEW u, origin[s] = <<a, q, u>> PROVE FALSE
        BY DEF DerivedOnce
      <4>1. Len(<<a, q, u>>) = 3
        OBVIOUS
      <4> QED
        BY <2>1, <4>1
    <3> QED
      BY <1>0, <2>1, <3>1 DEF Traced, Seeded
  <2>3. PICK m : Numbered(e, m) /\ Shaped(e) /\ Buffered(e)
    BY <2>1, EngineIsNumbered
  <2>4. Derived(e, r).b = ChildKey(Fill(a), p, r) /\ p \in 0..Period - 1
    <3>1. Derived(e, r) = New(ChildKey(e.b, p, r))
      BY <2>3, DerivedIsChild
    <3>2. p \in 0..Period - 1
      BY <2>3, Place DEF Numbered
    <3> QED
      BY <2>2, <3>1, <3>2 DEF New
  <2> HIDE DEF e, p
  <2>5. origin[s] \o <<p, r>> = <<a, p, r>>
    BY <2>2, Appended
  <2>6. Traced(Derived(e, r), origin[s] \o <<p, r>>)
    BY <2>4, <2>5 DEF Traced, DerivedOnce
  <2> QED
    BY <2>1, <2>6, NewKey
<1> QED
  BY <1>1, <1>2, <1>3, <1>4, <1>5, <1>6, <1>7

\* What BlocksApart says of the engines in two slots.
ApartFrom(o, w) ==
  /\ \A x \in Ciphered(o), y \in Ciphered(w) : NoWordTwice(x, y)
  /\ \A x \in Ciphered(o) : \A i \in Words : Cipher(x.key, x.c)[i] # w[1]

\* Engines have the same key only if they came about in the same way.
LEMMA TracesDiffer ==
  ASSUME NEW e, NEW o, Traced(e, o), NEW f, NEW w, Traced(f, w),
         ApartFrom(o, w), ApartFrom(w, o)
  PROVE  e.b = f.b <=> o = w
<1>1. CASE Seeded(e, o) /\ Seeded(f, w)
  BY <1>1, FillTells DEF Seeded
<1>0. ASSUME NEW a, NEW p, NEW r PROVE Ciphered(<<a, p, r>>) = {Drawn(a, p), Made(a, p, r)}
  BY DEF Ciphered
<1>2. CASE DerivedOnce(e, o) /\ DerivedOnce(f, w)
  <2>1. PICK a \in Seeds, r \in Seeds, p \in 0..Period - 1 :
               o = <<a, p, r>> /\ e.b = ChildKey(Fill(a), p, r)
    BY <1>2 DEF DerivedOnce
  <2>2. PICK b \in Seeds, s \in Seeds, q \in 0..Period - 1 :
               w = <<b, q, s>> /\ f.b = ChildKey(Fill(b), q, s)
    BY <1>2 DEF DerivedOnce
  <2>3. ASSUME e.b = f.b PROVE a = b /\ p = q /\ r = s
    <3>1. ChildKey(Fill(a), p, r) = ChildKey(Fill(b), q, s)
      BY <2>1, <2>2, <2>3
    <3>2. /\ NoWordTwice(Drawn(a, p), Drawn(b, q))
          /\ NoWordTwice(Made(a, p, r), Made(b, q, s))
      BY <1>0, <2>1, <2>2 DEF ApartFrom
    <3> QED
      BY <3>1, <3>2, ChildrenDiffer
  <2>4. o = w => a = b /\ p = q /\ r = s
    BY <2>1, <2>2
  <2> QED
    BY <2>1, <2>2, <2>3, <2>4
<1>3. ASSUME NEW g, NEW x, Seeded(g, x), NEW h, NEW y, DerivedOnce(h, y), ApartFrom(y, x)
      PROVE  g.b # h.b /\ x # y
  <2>1. PICK s \in Seeds : x = <<s>> /\ g.b = Fill(s)
    BY <1>3 DEF Seeded
  <2>2. PICK a \in Seeds, r \in Seeds, p \in 0..Period - 1 :
               y = <<a, p, r>> /\ h.b = ChildKey(Fill(a), p, r)
    BY <1>3 DEF DerivedOnce
  <2>3. x # y
    <3>1. Len(x) = 1 /\ Len(y) = 3
      BY <2>1, <2>2
    <3> QED
      BY <3>1
  <2>4. \A i \in Words : Cipher(Made(a, p, r).key, Made(a, p, r).c)[i] # s
    <3>1. x[1] = s
      BY <2>1
    <3> QED
      BY <1>0, <1>3, <2>2, <3>1 DEF ApartFrom
  <2> QED
    BY <2>1, <2>2, <2>3, <2>4, ChildIsNoSeed
<1> QED
  BY <1>1, <1>2, <1>3 DEF Traced

\* What derivate promises: as long as the blocks that were ciphered for the
\* keys in use have no word in common, engines have the same key only if they
\* were derived from the same key at the same place by the same number, however
\* far the counter has run and whatever was skipped.  Nothing is asked of the
\* cipher for any other block.
THEOREM DerivationsAreApart == Spec => [](BlocksApart => DerivationsDiffer)
<1>1. Init => OInv
  BY DEF Init, OInv, Holds
<1>2. CInv /\ OInv /\ [Next]_vars => OInv'
  <2>1. ASSUME OInv, UNCHANGED vars PROVE OInv'
    BY <2>1 DEF OInv, Holds, vars, Traced, Seeded, DerivedOnce
  <2> QED
    BY <2>1, OriginStep
<1>3. OInv => (BlocksApart => DerivationsDiffer)
  <2> SUFFICES ASSUME OInv, BlocksApart,
                      NEW s \in Slots, NEW t \in Slots, Holds(s), Holds(t)
               PROVE  engine[s].b = engine[t].b <=> origin[s] = origin[t]
    BY DEF DerivationsDiffer, Holds
  <2>1. ASSUME NEW x \in Slots, NEW y \in Slots, Holds(x), Holds(y)
        PROVE  ApartFrom(origin[x], origin[y])
    BY <2>1 DEF BlocksApart, ApartFrom
  <2> QED
    BY <2>1, TracesDiffer DEF OInv
<1> QED
  BY <1>1, <1>2, <1>3, CountingInv, PTL DEF Spec
-----------------------------------------------------------------------------
\* std::rotate leaves out no word.
LEMMA TurnReaches ==
  ASSUME NEW t \in Nat, t < N, NEW j \in Words
  PROVE  \E i \in Words : (i + t) % N = j
<1> DEFINE i == IF j >= t THEN j - t ELSE (j - t) + N
           round == IF j >= t THEN 0 ELSE 1
           sum == i + t
<1>1. N \in Nat \ {0} /\ j \in Nat /\ j < N
  BY CounterEngineAssumption DEF Words
<1>2. i \in Words /\ sum = N * round + j /\ sum \in Int /\ round \in Int
  BY <1>1 DEF Words
<1> HIDE DEF round, sum
<1>3. sum % N = j
  BY <1>1, <1>2, DivisionIsUnique
<1> HIDE DEF i
<1> QED
  BY <1>2, <1>3 DEF sum

\* What is left of the promise for a cipher that is only a bijection of the
\* counters for each key, as threefry is: an engine derived by the same number
\* at two places as far into their blocks gets two keys.
Bijective ==
  /\ \A key, c : Cipher(key, c) = [i \in Words |-> Cipher(key, c)[i]]
  /\ \A key, c, c2 : Cipher(key, c) = Cipher(key, c2) => c = c2

THEOREM PlacesDeriveApart ==
  ASSUME Bijective, NEW key, NEW r, NEW p \in 0..Period - 1, NEW q \in 0..Period - 1,
         p % N = q % N, ChildKey(key, p, r) = ChildKey(key, q, r)
  PROVE  p = q
<1> DEFINE turn == (N - (p % N)) % N
           x == CounterAt((p \div N) + 1)
           y == CounterAt((q \div N) + 1)
           turned(c) == [i \in Words |-> Cipher(key, c)[(i + turn) % N]]
<1>0. N \in Nat \ {0}
  BY Sizes
<1>1. turn = (N - (q % N)) % N /\ turn \in Nat /\ turn < N
  <2> DEFINE k == N - (p % N)
  <2>1. p \in Int /\ k \in Int
    <3>1. p \in Int
      BY Sizes
    <3> QED
      BY <1>0, <3>1, Division
  <2> HIDE DEF k
  <2>2. k % N \in Nat /\ k % N < N
    BY <1>0, <2>1, Division
  <2> QED
    BY <2>2 DEF k
<1>2. Cipher(Fill(r), turned(x)) = Cipher(Fill(r), turned(y))
  BY <1>1 DEF ChildKey
<1> HIDE DEF turn, x, y
<1>3. turned(x) = turned(y)
  <2> DEFINE g == turned(x)
             h == turned(y)
  <2>1. Cipher(Fill(r), g) = Cipher(Fill(r), h)
    BY <1>2
  <2> HIDE DEF g, h
  <2>2. g = h
    BY <2>1 DEF Bijective
  <2> QED
    BY <2>2 DEF g, h
<1>4. ASSUME NEW j \in Words PROVE Cipher(key, x)[j] = Cipher(key, y)[j]
  <2>1. PICK i \in Words : (i + turn) % N = j
    BY <1>1, TurnReaches
  <2>2. turned(x)[i] = turned(y)[i]
    BY <1>3
  <2> QED
    BY <2>1, <2>2
<1>5. Cipher(key, x) = Cipher(key, y)
  <2>1. /\ Cipher(key, x) = [j \in Words |-> Cipher(key, x)[j]]
        /\ Cipher(key, y) = [j \in Words |-> Cipher(key, y)[j]]
    BY DEF Bijective
  <2>2. [j \in Words |-> Cipher(key, x)[j]] = [j \in Words |-> Cipher(key, y)[j]]
    BY <1>4
  <2> QED
    BY <2>1, <2>2
<1>6. x = y
  BY <1>5 DEF Bijective
<1> QED
  BY <1>1, <1>6, PlaceIsTold DEF turn, x, y
=============================================================================
