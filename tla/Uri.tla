-------------------------------- MODULE Uri --------------------------------
(***************************************************************************)
(* hadoken::uri and the percent encoding (network/impl/uri_impl.hpp).  A   *)
(* part of the URI is a view of the string: the characters from first to   *)
(* before last, counted from 1, as the two iterators of uri_view.          *)
(***************************************************************************)
EXTENDS Integers, Sequences, Strings

Digits == 48..57
Letters == 65..90 \cup 97..122
Percent == 37
Ampersand == 38
Slash == 47
Colon == 58
Equals == 61
Question == 63
At == 64
Hash == 35

\* strchr also finds the NUL at the end of its list.
RfcUnreservedParts == {45, 46, 95, 126, 0}
SchemeChars == Letters \cup Digits \cup RfcUnreservedParts

\* The character an iterator points at; std::string ends with a NUL.
CharAt(s, i) == IF i > Len(s) THEN 0 ELSE s[i]

Find(s, from, c) == FindFirstOf(s, from, {c})

View(first, last) == [first |-> first, last |-> last]
StringFromView(s, v) == SubSeq(s, v.first, v.last - 1)

-----------------------------------------------------------------------------
(* parse_uri.  Each state of its loop that runs over characters is an      *)
(* operator that says where the run ends.                                  *)

\* The parts while nothing is parsed: empty, at the end of the string.
NoParts(s) ==
  [part \in {"scheme", "userinfo", "host", "port", "path", "query", "fragment"} |->
     View(Len(s) + 1, Len(s) + 1)]

EndOfScheme(s) == Min({i \in 1..Len(s) : s[i] \notin SchemeChars} \cup {Len(s) + 1})
EndOfPort(s, from) == Min({i \in from..Len(s) : s[i] \notin Digits} \cup {Len(s) + 1})

\* path, query and fragment, from begin on; last is where the path is looked at.
ParsePath(s, parts, begin) ==
  LET path_end == FindFirstOf(s, begin, {Question, Hash})
      hash == IF CharAt(s, path_end) = Question
              THEN Find(s, path_end + 1, Hash) ELSE path_end
  IN  [parts EXCEPT
         !["path"] = View(begin, path_end),
         !["query"] = IF CharAt(s, path_end) = Question
                      THEN View(path_end + 1, hash) ELSE @,
         !["fragment"] = IF CharAt(s, hash) = Hash
                         THEN View(hash + 1, Len(s) + 1) ELSE @]

\* A port whose last digit is left to the path.
ParseShortPort(s, parts, begin) ==
  LET host_end == FindFirstOf(s, begin, {Colon, Slash})
      port_end == EndOfPort(s, host_end + 1)
  IN  IF CharAt(s, host_end) = Colon
      THEN ParsePath(s, [parts EXCEPT !["host"] = View(begin, host_end),
                                      !["port"] = View(host_end + 1, port_end - 1)],
                     port_end)
      ELSE ParsePath(s, [parts EXCEPT !["host"] = View(begin, host_end)], host_end)

\* host and port.
ParseHost(s, parts, begin) ==
  LET host_end == FindFirstOf(s, begin, {Colon, Slash})
      port_end == EndOfPort(s, host_end + 1)
  IN  IF CharAt(s, host_end) = Colon
      THEN ParsePath(s, [parts EXCEPT !["host"] = View(begin, host_end),
                                      !["port"] = View(host_end + 1, port_end)],
                     port_end)
      ELSE ParsePath(s, [parts EXCEPT !["host"] = View(begin, host_end)], host_end)

\* userinfo: up to the first @ of all that follows, if there is one.
ParseUserinfo(s, parts, begin) ==
  LET at == Find(s, begin, At)
  IN  IF at > Len(s) THEN ParseHost(s, parts, begin)
      ELSE ParseHost(s, [parts EXCEPT !["userinfo"] = View(begin, at)], at + 1)

\* The constructor: whether the URI is valid, and its parts.
ParseUri(s) ==
  LET colon == EndOfScheme(s)
      parts == [NoParts(s) EXCEPT !["scheme"] = View(1, colon)]
  IN  IF CharAt(s, colon) # Colon THEN [valid |-> FALSE, parts |-> NoParts(s)]
      ELSE [valid |-> TRUE,
            parts |-> IF CharAt(s, colon + 1) = Slash /\ CharAt(s, colon + 2) = Slash
                      THEN ParseUserinfo(s, parts, colon + 3)
                      ELSE ParsePath(s, parts, colon + 1)]

\* A getter, of a valid URI: of any other it throws.
Get(s, part) == StringFromView(s, ParseUri(s).parts[part])

\* get_query_with_key, as a sequence that is empty when the key is not there.
GetQueryWithKey(s, key) ==
  LET key_extended == Append(key, Equals)
      fragments == SplitString(Get(s, "query"), {Ampersand})
      res[n \in 0..Len(fragments)] ==
        IF n = 0 THEN <<>>
        ELSE IF CompareAt(fragments[n], 0, Len(key_extended), key_extended) = 0
        THEN <<Substr(fragments[n], Len(key_extended), Len(fragments[n]))>>
        ELSE res[n - 1]
  IN  res[Len(fragments)]

-----------------------------------------------------------------------------
(* percent_encode and percent_decode.  Characters are bytes. *)

\* The range A to z holds six characters that are no letters.
PercentUnreserved == 97..122 \cup 65..122 \cup Digits \cup {45, 95, 63, 126}

HexmapUppercase(x) == IF x < 10 THEN 48 + x ELSE 65 + x - 10

PercentEncode(s) ==
  LET Encoded(c) == IF c \in PercentUnreserved THEN <<c>>
                    ELSE <<Percent, HexmapUppercase((c \div 16) % 16), HexmapUppercase(c % 16)>>
  IN  FlattenSeq([i \in DOMAIN s |-> Encoded(s[i])])

Invalid == 255
DecodeHalfHex(c) ==
  CASE c \in Digits -> c - 48
    [] c \in 97..102 -> c - 97 + 10
    [] c \in 65..70 -> c - 65 + 10
    [] OTHER -> Invalid

\* One call of decode_percent_rec: an incomplete sequence is dropped.
DecodeStep(d, c) ==
  CASE d.pos = 1 /\ DecodeHalfHex(c) # Invalid ->
         [d EXCEPT !.pos = 2, !.c = DecodeHalfHex(c) * 16]
    [] d.pos = 2 /\ DecodeHalfHex(c) # Invalid ->
         [res |-> Append(d.res, d.c + DecodeHalfHex(c)), c |-> 0, pos |-> 0]
    [] OTHER -> IF c = Percent THEN [d EXCEPT !.pos = 1, !.c = 0]
                ELSE [res |-> Append(d.res, c), c |-> 0, pos |-> 0]

PercentDecode(s) ==
  LET d[n \in 0..Len(s)] ==
        IF n = 0 THEN [res |-> <<>>, c |-> 0, pos |-> 0] ELSE DecodeStep(d[n - 1], s[n])
  IN  d[Len(s)].res
=============================================================================
