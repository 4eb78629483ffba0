--------------------------- MODULE MCLibraryCalls ---------------------------
EXTENDS LibraryCalls

A == 97
B == 98

MCExpressions == BoundedSeq({A, B, Star}, 4)
MCSubjects == BoundedSeq({A, B}, 4) \cup BoundedSeq({A, Star}, 3)

MCDelimiter == Ampersand
MCTexts == BoundedSeq({A, Ampersand}, 7)

\* A letter, what percent-encoding has to escape, and the ends of the range.
MCByteTexts == BoundedSeq({0, Percent, A, 91, 128, 255}, 4)

MCQueryKey == <<A>>
MCAddresses ==
  LET Characters == {A, 49, Colon, Slash, At, Question, Hash}
  IN  BoundedSeq(Characters, 4)
        \cup {<<A, Colon, Slash, Slash>> \o rest : rest \in BoundedSeq(Characters, 5)}
        \cup {<<A, Colon, Question>> \o rest :
                rest \in BoundedSeq({A, 49, Equals, Ampersand, Hash}, 5)}

\* Messages of all lengths around the end of a block, by one call or by two.
Bytes(from, to) == [i \in 1..to - from + 1 |-> 1000 + from + i]
MCMessages ==
  {<<Bytes(1, n)>> : n \in {0, 1, 54, 55, 56, 57, 62, 63, 64, 65, 118, 119, 120, 121, 128}}
    \cup {<<Bytes(1, m), Bytes(m + 1, n)>> : m \in {1, 4, 63, 64}, n \in {64, 65, 120}}

MCDerivedFrom == {0, 1, 66051}

MCNumbers == {"7", "-7"}
MCDashed == {"--help", "--", "-7", "-n", "-i", "-s", "-m", "-x"}

Main ==
  LET flag == AddAlias(NewOption("-n", "none"), "-m")
      Add(handler, option) == AddOption(handler, option)
      options == FoldLeft(Add, NewHandler, <<flag, NewOption("-i", "int"), NewOption("-s", "str")>>)
  IN  AddSubcommand(options, "sub")
Sub ==
  SetFlags(SetPositionalArgumentHandler(AddOption(NewHandler, NewOption("-s", "int"))),
           "no_help", TRUE)
MCInterfaces ==
  [handlers :
     {[main |-> SetFlags(main, "only_subcmd", only_subcmd), sub |-> Sub] :
        main \in {Main, SetPositionalArgumentHandler(Main)}, only_subcmd \in BOOLEAN},
   root : {"main"},
   throwing : {{}, {[handler |-> "main", name |-> "-s"], [handler |-> "sub", name |-> "positional"]}}]

MCCommandLines ==
  BoundedSeq({Argument(key) : key \in {"-n", "-i", "-s", "-m", "-x", "--help", "--", "sub", "7", "-7", "f"}}
               \cup {Assignment("-i", "7"), Assignment("-s", "f"), Assignment("-n", "7"),
                     Assignment("sub", "f")}, 3)
=============================================================================
