----------------------------- MODULE PathSyntax -----------------------------
(* ParsePath and JoinPath of path.go, byte by byte: the loop over a path's     *)
(* segments, the two loops inside a bare and a quoted key, and the quoting     *)
(* JoinPath does so that its text reads back.  A byte is a one-character       *)
(* string; a key is a sequence of bytes.                                       *)
EXTENDS Integers, Sequences, SequencesExt

CONSTANTS
  Paths,        \* the paths a caller parses
  SegmentLists  \* the segments a caller joins

VARIABLES
  path,    \* ParsePath's argument
  given,   \* the segments JoinPath made the path of, if it did
  i,       \* the next byte
  pc,      \* "segment" at the top of ParsePath's loop, "bare", "quoted"; "done", "refused"
  key,     \* the key being built
  segs     \* the segments parsed
vars == <<path, given, i, pc, key, segs>>

Key(k) == [kind |-> "key", key |-> k, index |-> 0]
Index(n) == [kind |-> "index", key |-> <<>>, index |-> n]

Digits == <<"0", "1", "2", "3", "4", "5", "6", "7", "8", "9">>
DigitSet == Range(Digits)
DigitOf(c) == (CHOOSE d \in 1..10 : Digits[d] = c) - 1
Letters == {"a", "b", "z", "_"}
BareBytes == Letters \cup DigitSet \cup {"-"}

-----------------------------------------------------------------------------
(* strconv: Atoi takes a sign and decimal digits, Itoa writes the shortest.    *)
Numeral(s) == s # <<>> /\ Range(s) \subseteq DigitSet
Number(s) == FoldLeft(LAMBDA n, c : 10 * n + DigitOf(c), 0, s)
Signed(s) == s # <<>> /\ s[1] \in {"+", "-"}
IsNumber(s) == Numeral(IF Signed(s) THEN Tail(s) ELSE s)
Atoi(s) == IF ~Signed(s) THEN Number(s)
           ELSE IF s[1] = "-" THEN -Number(Tail(s)) ELSE Number(Tail(s))
Decimal[n \in Nat] ==
  IF n < 10 THEN <<Digits[n + 1]>> ELSE Append(Decimal[n \div 10], Digits[(n % 10) + 1])
Itoa(n) == IF n < 0 THEN <<"-">> \o Decimal[-n] ELSE Decimal[n]

(* JoinPath, quotePathKey, isBarePathKey.                                      *)
IsBarePathKey(k) == k # <<>> /\ Range(k) \subseteq BareBytes
\* A faulty escape: the backslash is left as it is.
EscapeQuoteOnly(c) == IF c = "\"" THEN <<"\\", c>> ELSE <<c>>
Escape(c) == IF c \in {"\"", "\\"} THEN <<"\\", c>> ELSE <<c>>
QuotePathKey(k) ==
  IF IsBarePathKey(k) THEN k
  ELSE <<"\"">> \o FlattenSeq([n \in DOMAIN k |-> Escape(k[n])]) \o <<"\"">>
JoinOne(text, seg) ==
  IF seg.kind = "index" THEN text \o <<"[">> \o Itoa(seg.index) \o <<"]">>
  ELSE text \o (IF text = <<>> THEN <<>> ELSE <<".">>) \o QuotePathKey(seg.key)
JoinPath(list) == FoldLeft(JoinOne, <<>>, list)

-----------------------------------------------------------------------------
Goto(p) == pc' = p
Refused == Goto("refused") /\ UNCHANGED <<path, given, i, key, segs>>

\* A caller writes the path itself, or has JoinPath write it.
Init ==
  /\ \/ path \in Paths /\ given = <<>>
     \/ given \in SegmentLists /\ path = JoinPath(given)
  /\ i = 1 /\ key = <<>> /\ segs = <<>>
  /\ pc = "segment"

AtSeparator == i > 1 /\ path[i] = "."
Here == IF AtSeparator THEN i + 1 ELSE i
More == pc = "segment" /\ i <= Len(path)
Byte(c) == Here <= Len(path) /\ path[Here] = c

EmptyPath == pc = "segment" /\ path = <<>> /\ Refused
TrailingDot == More /\ Here > Len(path) /\ Refused

\* parseIndex
Brackets == {j \in Here + 1 .. Len(path) : path[j] = "]"}
Closed(j) == j \in Brackets /\ \A k \in Brackets : j <= k
Content(j) == SubSeq(path, Here + 1, j - 1)
ParseIndex ==
  /\ More /\ Byte("[")
  /\ \E j \in Here + 1 .. Len(path) + 1 :
       /\ Closed(j)
       /\ IsNumber(Content(j))
       /\ segs' = Append(segs, Index(Atoi(Content(j))))
       /\ i' = j + 1
  /\ UNCHANGED <<path, given, pc, key>>
BadIndex ==
  /\ More /\ Byte("[")
  /\ ~ \E j \in Here + 1 .. Len(path) + 1 : Closed(j) /\ IsNumber(Content(j))
  /\ Refused

\* parseQuotedKey
OpenQuote ==
  /\ More /\ Byte("\"")
  /\ i' = Here + 1 /\ key' = <<>> /\ Goto("quoted")
  /\ UNCHANGED <<path, given, segs>>
Escaped == path[i] = "\\" /\ i + 1 <= Len(path)
InQuotes == pc = "quoted" /\ i <= Len(path)
QuotedByte ==
  /\ InQuotes
  /\ \/ Escaped /\ key' = Append(key, path[i + 1]) /\ i' = i + 2
     \/ ~Escaped /\ path[i] # "\"" /\ key' = Append(key, path[i]) /\ i' = i + 1
  /\ UNCHANGED <<path, given, pc, segs>>
CloseQuote ==
  /\ InQuotes /\ path[i] = "\""
  /\ segs' = Append(segs, Key(key))
  /\ i' = i + 1 /\ Goto("segment")
  /\ UNCHANGED <<path, given, key>>
\* A faulty loop end: noticed only once the key has begun.
UnclosedNoticedInside == pc = "quoted" /\ i > Len(path) /\ key # <<>>
Unclosed == pc = "quoted" /\ i > Len(path)
UnclosedQuote == Unclosed /\ Refused

\* parseBareKey
OpenBare ==
  /\ More /\ Here <= Len(path) /\ path[Here] \notin {"[", "\""}
  /\ i' = Here /\ key' = <<>> /\ Goto("bare")
  /\ UNCHANGED <<path, given, segs>>
EscapedDot == path[i] = "\\" /\ i + 1 <= Len(path) /\ path[i + 1] = "."
BareEnds == i <= Len(path) => path[i] \in {".", "["}
BareByte ==
  /\ pc = "bare" /\ ~BareEnds
  /\ \/ EscapedDot /\ key' = Append(key, ".") /\ i' = i + 2
     \/ ~EscapedDot /\ key' = Append(key, path[i]) /\ i' = i + 1
  /\ UNCHANGED <<path, given, pc, segs>>
CloseBare ==
  /\ pc = "bare" /\ BareEnds
  /\ segs' = Append(segs, Key(key))
  /\ Goto("segment")
  /\ UNCHANGED <<path, given, i, key>>

Finish ==
  /\ pc = "segment" /\ path # <<>> /\ i > Len(path)
  /\ Goto("done")
  /\ UNCHANGED <<path, given, i, key, segs>>

\* What was parsed is written again -- for a diagnostic, for the next call -- and
\* comes back.
Rejoin ==
  /\ pc = "done" /\ given = <<>>
  /\ given' = segs /\ path' = JoinPath(segs)
  /\ i' = 1 /\ key' = <<>> /\ segs' = <<>> /\ Goto("segment")

Parsing ==
  \/ EmptyPath \/ TrailingDot \/ ParseIndex \/ BadIndex
  \/ OpenQuote \/ QuotedByte \/ CloseQuote \/ UnclosedQuote
  \/ OpenBare \/ BareByte \/ CloseBare \/ Finish
Next == Parsing \/ Rejoin
Spec == Init /\ [][Next]_vars /\ WF_vars(Parsing)

-----------------------------------------------------------------------------
\* ParsePath reads back exactly the segments JoinPath was given.
RoundTrip == given # <<>> => pc # "refused" /\ (pc = "done" => segs = given)

\* A path without brackets, quotes and escapes is cut at its dots and nowhere
\* else, and refused for a trailing dot only: at every turn of ParsePath's loop
\* the segments so far are the text so far.
Plain == Range(path) \cap {"[", "\"", "\\"} = {}
Dotted(list) ==
  FlattenSeq([n \in DOMAIN list |-> (IF n = 1 THEN <<>> ELSE <<".">>) \o list[n].key])
PlainSplits ==
  Plain =>
    /\ pc = "segment" => Dotted(segs) = SubSeq(path, 1, i - 1)
    /\ \A n \in DOMAIN segs : "." \notin Range(segs[n].key)
    /\ pc = "refused" => path = <<>> \/ Last(path) = "."

\* ParsePath returns.
ParseReturns == pc = "segment" ~> pc \in {"done", "refused"}

=============================================================================
