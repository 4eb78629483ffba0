------------------------------ MODULE Strings ------------------------------
(***************************************************************************)
(* Strings of hadoken: string_view (string/bits/string_view_impl.hpp), the *)
(* splitting and joining of string/algorithm.hpp, and the wildcards of     *)
(* string/wildcard.hpp.  A string is a sequence of character codes.        *)
(***************************************************************************)
EXTENDS Integers, Sequences, SequencesExt

Star == 42

-----------------------------------------------------------------------------
(* string_view *)

\* substr(pos1, n1), for pos1 <= size(): beyond it the code throws.
Substr(s, pos1, n1) == SubSeq(s, pos1 + 1, Min({Len(s), pos1 + n1}))

\* compare(other): -1, 0 or 1.
Compare(s, t) ==
  LET differ == {i \in 1..Min({Len(s), Len(t)}) : s[i] # t[i]}
  IN  IF differ # {}
      THEN IF s[Min(differ)] < t[Min(differ)] THEN -1 ELSE 1
      ELSE CASE Len(s) < Len(t) -> -1
             [] Len(s) > Len(t) -> 1
             [] Len(s) = Len(t) -> 0

\* compare(pos1, n1, other)
CompareAt(s, pos1, n1, t) == Compare(Substr(s, pos1, n1), t)

-----------------------------------------------------------------------------
(* split_string and join *)

FindFirstOf(s, from, delimiter) ==
  Min({i \in from..Len(s) : s[i] \in delimiter} \cup {Len(s) + 1})

\* A split that does not step over the delimiter at the end of the string.
SplitDroppingLast(s, delimiter) ==
  LET fragments[it_prev \in 1..Len(s) + 1] ==
        LET it_cur == FindFirstOf(s, it_prev, delimiter)
        IN  IF it_cur > Len(s) THEN <<>>
            ELSE (IF it_prev # it_cur THEN <<SubSeq(s, it_prev, it_cur - 1)>> ELSE <<>>)
                 \o fragments[it_cur + 1]
  IN  fragments[1]

\* split_string_view: fragments[it_prev] are those found from it_prev on.
SplitString(s, delimiter) ==
  LET fragments[it_prev \in 1..Len(s) + 1] ==
        LET it_cur == FindFirstOf(s, it_prev, delimiter)
            found == IF it_prev # it_cur THEN <<SubSeq(s, it_prev, it_cur - 1)>> ELSE <<>>
        IN  IF it_cur > Len(s) THEN found ELSE found \o fragments[it_cur + 1]
  IN  fragments[1]

Join(elements, link_element) ==
  FlattenSeq([i \in DOMAIN elements |-> IF i = 1 THEN elements[i] ELSE link_element \o elements[i]])

-----------------------------------------------------------------------------
(* match_wildcard: a position is the next character of each to match.      *)

\* Without the branch that lets a star match nothing.
StarsTakeSome(expr, str, it_expr, it_str) ==
  IF it_expr > Len(expr) THEN {}
  ELSE IF it_str > Len(str)
  THEN IF expr[it_expr] = Star THEN {<<it_expr + 1, it_str>>} ELSE {}
  ELSE IF expr[it_expr] = str[it_str] THEN {<<it_expr + 1, it_str + 1>>}
  ELSE IF expr[it_expr] # Star THEN {}
  ELSE {<<it_expr + 1, it_str + 1>>, <<it_expr, it_str + 1>>}

\* What one round of the loop pushes.
Progress(expr, str, it_expr, it_str) ==
  IF it_expr > Len(expr) THEN {}
  ELSE IF it_str > Len(str)
  THEN IF expr[it_expr] = Star THEN {<<it_expr + 1, it_str>>} ELSE {}
  ELSE IF expr[it_expr] = str[it_str] THEN {<<it_expr + 1, it_str + 1>>}
  ELSE IF expr[it_expr] # Star THEN {}
  ELSE {<<it_expr + 1, it_str + 1>>, <<it_expr, it_str + 1>>, <<it_expr + 1, it_str>>}

\* The search with stack_parser: a position that is taken off it leads to a match
\* when both ends are reached, or when one that is pushed in its place does.  The
\* order on the stack decides only which is found first.
MatchWildcard(expr, str) ==
  LET finds[at \in (1..Len(expr) + 1) \X (1..Len(str) + 1)] ==
        \/ at[1] > Len(expr) /\ at[2] > Len(str)
        \/ \E next \in Progress(expr, str, at[1], at[2]) : finds[next]
  IN  finds[<<1, 1>>]
=============================================================================
