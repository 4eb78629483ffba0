------------------------------- MODULE Ranges -------------------------------
(***************************************************************************)
(* The ways hadoken divides a range of n elements: utility/range.hpp, and   *)
(* count_if in parallel/bits/c11_thread_algorithm_impl.hpp.  A range goes  *)
(* from the position first to the one before last, counted from 0.         *)
(***************************************************************************)
EXTENDS Integers, Sequences

Span(first, last) == [first |-> first, last |-> last]

Least(a, b) == IF a <= b THEN a ELSE b
Largest(a, b) == IF a <= b THEN b ELSE a

\* Slices that all begin at a multiple of the length.
SpliceWithoutOffset(n, id, k) ==
  LET first == (n \div k) * id
  IN  Span(first, first + (n \div k) + (IF id < n % k THEN 1 ELSE 0))

\* take_splice(range, slice_id, total_slices): the first n % k have one more.
TakeSplice(n, id, k) ==
  LET first == (n \div k) * id + Least(n % k, id)
  IN  Span(first, first + (n \div k) + (IF id < n % k THEN 1 ELSE 0))

\* The slices of count_if: the last takes the rest.
CountSlice(n, id, k) ==
  LET first == id * (n \div k)
  IN  Span(first, IF id + 1 = k THEN n ELSE first + (n \div k))

\* split_range(range, number_parts): ends[i] is what first is after i rounds.
SplitRange(n, k) ==
  LET ends[i \in 0..k] ==
        IF i = 0 THEN 0
        ELSE LET segment_size == (n \div k) + (IF n % k > i - 1 THEN 1 ELSE 0)
             IN  ends[i - 1] + Least(Largest(segment_size, 1), n - ends[i - 1])
  IN  [i \in 1..k |-> Span(ends[i - 1], ends[i])]
=============================================================================
