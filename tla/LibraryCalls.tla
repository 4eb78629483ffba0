---------------------------- MODULE LibraryCalls ----------------------------
(***************************************************************************)
(* The sequential parts of hadoken, each called once with every input of a *)
(* set: the functions are those of Strings, Uri, Base64, Sha1, Threefry    *)
(* and OptionParser, and here is what is required of what they return.     *)
(***************************************************************************)
EXTENDS Uri, Base64, Sha1, Threefry, OptionParser, FiniteSets

CONSTANTS
  Expressions, Subjects,   \* of match_wildcard
  Texts, Delimiter,        \* of split_string and join
  ByteTexts,               \* of the codecs
  Addresses,               \* of the constructor of uri
  QueryKey,                \* a key that is looked up in the addresses
  Messages,                \* of sha1: what the calls of process hand over
  DerivedFrom,             \* numbers that new seeds are made of
  Interfaces, CommandLines \* of parse_options

\* The values the C++ types of these inputs have: strings of characters (of
\* bytes for the codecs), calls of process with bytes, numbers of a seed.  An
\* interface is built by the operations of options_handler, so that an option
\* has a name and a subcommand a handler.
Arguments == [key : STRING, value : STRING]
Options == [names : Seq(STRING) \ {<<>>}, kind : {"none", "int", "str"}]
IsInterface(cli) ==
  /\ cli.root \in DOMAIN cli.handlers
  /\ \A handler \in DOMAIN cli.handlers :
       /\ cli.handlers[handler].options \in Seq(Options)
       /\ cli.handlers[handler].subs \in Seq([name : STRING, handler : DOMAIN cli.handlers])

ASSUME LibraryCallsAssumption ==
  /\ Expressions \subseteq Seq(Int) /\ Subjects \subseteq Seq(Int)
  /\ Texts \subseteq Seq(Int) /\ Delimiter \in Int
  /\ ByteTexts \subseteq Seq(0..255)
  /\ Addresses \subseteq Seq(Int) /\ QueryKey \in Seq(Int)
  /\ Messages \subseteq Seq(Seq(Int)) /\ DerivedFrom \subseteq Nat
  /\ \A cli \in Interfaces : IsInterface(cli)
  /\ CommandLines \subseteq Seq(Arguments)

VARIABLES
  op,      \* the function that is called
  args,    \* what it is called with
  result,  \* and what it has returned
  done     \* whether it has

vars == <<op, args, result, done>>

Called(operation, arguments) == op = operation /\ args = arguments

Init ==
  /\ result = <<>> /\ done = FALSE
  /\ \/ \E expression \in Expressions, str \in Subjects : Called("match_wildcard", <<expression, str>>)
     \/ \E str \in Texts : Called("split_string", str)
     \/ \E str \in ByteTexts : Called("percent_encode", str)
     \/ \E str \in ByteTexts : Called("base64_encode", str)
     \/ \E str \in Addresses : Called("parse_uri", str)
     \/ \E message \in Messages : Called("get_digest", message)
     \/ \E seed, key \in DerivedFrom : Called("generate_deterministic_seed", <<seed, key>>)
     \/ \E n \in {2, 4}, digits \in {32, 64} :
          \E k \in Blocks(n) : Called("threefry", <<n, digits, k>>)
     \/ \E cli \in Interfaces, line \in CommandLines : Called("parse_options", <<cli, line>>)

Returns(value) == result' = value /\ done' = TRUE /\ UNCHANGED <<op, args>>

match_wildcard == op = "match_wildcard" /\ Returns(MatchWildcard(args[1], args[2]))

split_string == op = "split_string" /\ Returns(SplitString(args, {Delimiter}))

percent_encode == op = "percent_encode" /\ Returns(PercentEncode(args))

base64_encode == op = "base64_encode" /\ Returns(Encode(args))

parse_uri == op = "parse_uri" /\ Returns(ParseUri(args))

\* An object that has been reset, with what was left in it, takes a message.
Digest(calls) ==
  LET processed[n \in 0..Len(calls)] ==
        IF n = 0 THEN Fresh ELSE ProcessBlock(processed[n - 1], calls[n])
  IN  GetDigest(processed[Len(calls)])

get_digest == op = "get_digest" /\ Returns(Digest(args))

generate_deterministic_seed ==
  /\ op = "generate_deterministic_seed"
  /\ Returns(GenerateDeterministicSeed(args[1], args[2]))

\* The block of every counter, after the 20 rounds.
threefry ==
  /\ op = "threefry"
  /\ Returns([counter \in Blocks(args[1]) |-> Block(args[1], args[2], args[3], counter, 20)])

parse_options == op = "parse_options" /\ Returns(ParseOptions(args[1], args[2]))

Next ==
  /\ ~done
  /\ \/ match_wildcard \/ split_string \/ percent_encode \/ base64_encode
     \/ parse_uri \/ get_digest \/ generate_deterministic_seed \/ threefry \/ parse_options

Spec == Init /\ [][Next]_vars

-----------------------------------------------------------------------------
Returned(operation) == op = operation /\ done

\* A star stands for any characters, any other character for itself: the string
\* can be cut into what the characters of the expression stand for.
Matches(expression, str) ==
  LET m == Len(expression) + 1
  IN  \E cut \in [1..m -> 1..Len(str) + 1] :
        /\ cut[1] = 1 /\ cut[m] = Len(str) + 1
        /\ \A i \in 1..m - 1 :
             \/ expression[i] = Star /\ cut[i] <= cut[i + 1]
             \/ cut[i + 1] = cut[i] + 1 /\ str[cut[i]] = expression[i]

\* The search with a stack (wildcard.hpp, lines 51-86) finds a match whenever
\* there is one and stops when there is none; with a star in the string itself,
\* which is compared first, it may miss one but invents none.
WildcardFindsMatches ==
  Returned("match_wildcard") =>
    /\ result => Matches(args[1], args[2])
    /\ Matches(args[1], args[2]) /\ ~Contains(args[2], Star) => result

\* Nothing is lost on the way through: the fragments of a string are its longest
\* runs without a delimiter, each once and in order, and join undoes a split
\* that dropped nothing; a decoder returns what was encoded, base64::decode when
\* the last byte is no zero (DecodeUndoesEncode is about the others).
NothingIsLost ==
  /\ Returned("split_string") =>
       LET Starts == {i \in DOMAIN args : args[i] # Delimiter /\ (i = 1 \/ args[i - 1] = Delimiter)}
       IN  /\ Len(result) = Cardinality(Starts)
           /\ FlattenSeq(result)
                = FlattenSeq([i \in DOMAIN args |-> IF args[i] = Delimiter THEN <<>> ELSE <<args[i]>>])
           /\ \A n \in DOMAIN result : result[n] # <<>>
           /\ Len(FlattenSeq(result)) + Len(result) = Len(args) + 1
                => Join(result, <<Delimiter>>) = args
  /\ Returned("percent_encode") =>
       /\ PercentDecode(result) = args
       /\ \A i \in DOMAIN result : result[i] \in PercentUnreserved \cup {Percent}
  /\ Returned("base64_encode") =>
       /\ Len(result) % 4 = 0 /\ \A i \in DOMAIN result : result[i] = Padding => i > Len(result) - 2
       /\ args = <<>> \/ Last(args) # 0 => Decode(result) = args

\* What the comments of base64.hpp say (lines 60 and 79): encode takes arbitrary
\* binary content, and decode returns it.
DecodeUndoesEncode == Returned("base64_encode") => Decode(result) = args

\* A part with the character before or after it, or nothing at all.
With(part, before, after) == {<<>>, before \o part \o after}

\* The parts of a valid URI are cut out of it without gap or overlap, in their
\* order, and none holds the character that ends it (uri_impl.hpp, lines
\* 222-391); the value of a key is what its last fragment of the query says
\* (lines 199-211).
UriPartsReassemble ==
  Returned("parse_uri") /\ result.valid =>
    LET Part(name) == StringFromView(args, result.parts[name])
        rest == SubSeq(args, Len(Part("scheme")) + 2, Len(args))
        Without(name, characters) == \A c \in characters : ~Contains(Part(name), c)
        query == Part("query")
        EndOf(i) == Min({j \in i..Len(query) : query[j] = Ampersand} \cup {Len(query) + 1})
        Occurs(i) == /\ i = 1 \/ query[i - 1] = Ampersand
                     /\ IsPrefix(Append(QueryKey, Equals), SubSeq(query, i, EndOf(i) - 1))
        occurrences == {i \in DOMAIN query : Occurs(i)}
        last == Max(occurrences)
    IN  /\ args = Part("scheme") \o <<Colon>> \o rest
        /\ IF IsPrefix(<<Slash, Slash>>, rest)
           THEN \E user \in With(Part("userinfo"), <<>>, <<At>>),
                   port \in With(Part("port"), <<Colon>>, <<>>),
                   search \in With(query, <<Question>>, <<>>),
                   anchor \in With(Part("fragment"), <<Hash>>, <<>>) :
                  rest = <<Slash, Slash>> \o user \o Part("host") \o port \o Part("path")
                           \o search \o anchor
           ELSE \E search \in With(query, <<Question>>, <<>>),
                   anchor \in With(Part("fragment"), <<Hash>>, <<>>) :
                  rest = Part("path") \o search \o anchor
        /\ Without("userinfo", {At}) /\ Without("host", {Colon, Slash})
        /\ Without("path", {Question, Hash}) /\ Without("query", {Hash})
        /\ \A c \in ToSet(Part("scheme")) : c \in SchemeChars
        /\ \A c \in ToSet(Part("port")) : c \in Digits
        /\ GetQueryWithKey(args, QueryKey)
             = IF occurrences = {} THEN <<>>
               ELSE <<SubSeq(query, last + Len(QueryKey) + 1, EndOf(last) - 1)>>

\* The blocks that the standard prescribes: the message, a bit, as few zeros as
\* fill a block up to the 64 bits of the length, and these, the upper half first.
Padded(message) ==
  LET zeros == CHOOSE n \in 0..BlockSize - 1 : (Len(message) + 1 + n) % BlockSize = BlockSize - 8
      bits == 8 * Len(message)
  IN  message \o <<128>> \o Zeros(zeros) \o BigEndian((bits \div 65536) \div 65536) \o BigEndian(bits)

\* Messages whose number of bits fits into 32 bits: those below 512 MiB.
Short(message) == Len(message) < 536870912

\* finalize (sha1.hpp, lines 166-194) pads a message as the standard does,
\* whichever calls handed it over, a block boundary among them, as long as the
\* 32 bits it writes hold the length: of a longer message it is not the SHA-1.
DigestIsOfPaddedMessage ==
  Returned("get_digest") \/ Returned("generate_deterministic_seed") =>
    LET message == IF op = "get_digest" THEN FlattenSeq(args)
                   ELSE Salt \o BigEndian(args[2]) \o BigEndian(args[1])
        padded == Padded(message)
    IN  Short(message) =>
        result = [n \in 1..(Len(padded) \div BlockSize) |->
                    SubSeq(padded, (n - 1) * BlockSize + 1, n * BlockSize)]

\* For a key, no two counters have the same block: the period of a counter
\* engine is that of its counter (threefry.hpp, lines 193-345).
CipherIsBijective ==
  Returned("threefry") =>
    Cardinality({result[c] : c \in DOMAIN result}) = Cardinality(DOMAIN result)

\* The dry run (getopts_impl.hpp, lines 379-381) finds the errors before any
\* callback has run, all but two: an argument that nobody handles, and what
\* the callbacks throw themselves.
OptionErrorsComeFirst ==
  Returned("parse_options") /\ result.calls # <<>> =>
    result.error \in {NoError, "invalid positional argument"}
      \cup (IF args[1].throwing # {} THEN {"callback", "invalid value"} ELSE {})

\* Argument i of a command line asks a handler for a call; the arguments from
\* next on are for the handler in.
AsksFor(cli, line, handler, i, call, in, next) ==
  LET options == cli.handlers[handler].options
      subs == cli.handlers[handler].subs
      Takes(kinds) ==
        \E n \in DOMAIN options :
          /\ options[n].kind \in kinds /\ call.name = Head(options[n].names)
          /\ Contains(options[n].names, line[i].key)
  IN  /\ call.handler = handler
      /\ \/ \E n \in DOMAIN subs :
              /\ line[i] = Argument(subs[n].name) /\ call.name = subs[n].name
              /\ in = subs[n].handler /\ next = i + 1
         \/ /\ call.name = "positional" /\ call.value = line[i]
            /\ in = handler /\ next = i + 1
         \/ Takes({"none"}) /\ in = handler /\ next = i + 1
         \/ /\ Takes({"int", "str"}) /\ line[i].value # NoValue
            /\ call.value = Argument(line[i].value) /\ in = handler /\ next = i + 1
         \/ /\ Takes({"int", "str"}) /\ line[i].value = NoValue
            /\ i < Len(line) /\ call.value = line[i + 1] /\ in = handler /\ next = i + 2

\* The calls are the ones that this command line asks the handlers for: from
\* argument i and call j on, when this handler is asked.
Accounted(cli, line, calls) ==
  LET asked[at \in (DOMAIN cli.handlers) \X (1..Len(line) + 1) \X (1..Len(calls) + 1)] ==
        LET handler == at[1]
            i == at[2]
            j == at[3]
        IN  IF i > Len(line) THEN j > Len(calls)
            ELSE IF line[i] = EndOfArguments THEN asked[<<handler, i + 1, j>>]
            ELSE /\ j <= Len(calls)
                 /\ \E in \in DOMAIN cli.handlers, next \in i + 1..Len(line) + 1 :
                      /\ AsksFor(cli, line, handler, i, calls[j], in, next)
                      /\ asked[<<in, next, j + 1>>]
  IN  asked[<<cli.root, 1, 1>>]

\* A command line that is accepted has been handed to the callbacks from the
\* first argument to the last: each to an option of the last subcommand, as the
\* value of the one before, or as a positional argument, and none twice. Only a
\* value given to an option without one is dropped (lines 339-343).
ArgumentsReachCallbacks ==
  Returned("parse_options") /\ result.error = NoError =>
    Accounted(args[1], args[2], result.calls)
=============================================================================
