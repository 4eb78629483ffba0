-------------------------- MODULE MCCounterEngine --------------------------
EXTENDS CounterEngine, TLC

\* A cipher without collisions: each word spells what it is made of.
FreeCipher(key, counter) == [i \in Words |-> <<key, counter, i>>]

\* The slots are interchangeable.
Symmetry == Permutations(Slots)

\* Nothing reads the buffer while elem is zero, or what the last step returned:
\* states that differ in these only are looked at once.
Relevant(e) == IF e = Empty THEN e ELSE IF e.elem = 0 THEN [e EXCEPT !.v = Fill(Unset)] ELSE e
View == <<[s \in Slots |-> Relevant(engine[s])], origin>>
=============================================================================
