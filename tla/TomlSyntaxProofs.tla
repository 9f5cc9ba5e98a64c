-------------------------- MODULE TomlSyntaxProofs --------------------------
(* TomlSyntax for every text and every depth of nesting: the parser, fed by    *)
(* what the lexer guesses, is where the grammar of TOML is, piece for piece.   *)
(* The inductive invariant says where a lexer that guesses right must be: the  *)
(* contexts that go with each place of the grammar, and what surrounds it.     *)
EXTENDS TomlSyntax, TLAPS, FiniteSetTheorems

ParserPlaces ==
  {"document", "tableKey", "tableMore", "arrayTableKey", "arrayTableMore", "headerEnd",
   "pairKey", "pairMore", "value", "element", "separator", "firstPair", "pairEnd",
   "parsed", "failed"}
GrammarPlaces ==
  (ParserPlaces \ {"document"}) \cup
  {"line", "tableOpen", "arrayTableClose", "lineEnd", "sameLine"}
Descents(places) == [at : places, nest : Seq(Scopes)]
Tokens ==
  {"Newline", "Whitespace", "Comment", "Equals", "Dot", "Comma", "LeftBracket",
   "DoubleLeftBracket", "RightBracket", "DoubleRightBracket", "LeftBrace", "RightBrace",
   "String", "MultiLine", "BareKey", "Scalar", "EOF"}

LexerOK ==
  /\ ch \in Pieces
  /\ ctx \in {"key", "value"}
  /\ arrayDepth \in Nat /\ inlineTableDepth \in Nat
  /\ scopeStack \in Seq(Scopes)
  /\ afterNewline \in BOOLEAN
TypeOK ==
  /\ LexerOK
  /\ parser \in Descents(ParserPlaces)
  /\ grammar \in Descents(GrammarPlaces)

\* What surrounds a place: headers and ends of lines are the document's,
\* separators an array's, a table's first and next pair an inline table's.
Placed ==
  LET at == grammar.at
      within == Enclosing(grammar.nest)
  IN  /\ at \in {"line", "tableOpen", "tableKey", "tableMore", "arrayTableKey",
                 "arrayTableMore", "arrayTableClose", "headerEnd", "lineEnd", "parsed"}
            => grammar.nest = <<>>
      /\ at \in {"element", "separator"} => within = "array"
      /\ at \in {"firstPair", "pairEnd"} => within = "inline"
      /\ at \in {"pairKey", "pairMore", "value"} => within \in {"document", "inline"}

\* What the lexer must take the next piece for, where the grammar stands.
Contexts ==
  /\ grammar.at \in {"line", "tableOpen", "tableKey", "tableMore", "arrayTableKey",
                     "arrayTableMore", "headerEnd", "pairKey", "pairMore", "firstPair"}
       => ctx = "key"
  /\ grammar.at \in {"value", "element"} => ctx = "value"
  /\ grammar.at = "line" => afterNewline
  /\ grammar.at = "lineEnd" => ~afterNewline
  /\ grammar.at = "tableOpen" => ch # "leftBracket"

\* The parser where the grammar is, inside the same values, and the lexer's
\* account of them the true one.
InStep ==
  /\ grammar.at \notin {"arrayTableClose", "sameLine", "failed"}
  /\ parser.at = Standing[grammar.at]
  /\ parser.nest = grammar.nest /\ scopeStack = grammar.nest
  /\ arrayDepth = Depth(grammar.nest, "array")
  /\ inlineTableDepth = Depth(grammar.nest, "inline")
  /\ Placed
  /\ Contexts

\* The document is refused; of [[a] ] the parser knows first.  What is on the
\* line of a pair is not looked at any more.
Stopped ==
  \/ grammar.at = "sameLine"
  \/ grammar.at = "failed" /\ parser.at = "failed"
  \/ grammar.at = "arrayTableClose" /\ parser.at = "failed" /\ ch # "rightBracket"

IInv == TypeOK /\ (InStep \/ Stopped)

-----------------------------------------------------------------------------
\* One symbol of a descent.

Lost == [at |-> "failed", nest |-> <<>>]
To(p, at) == [at |-> at, nest |-> p.nest]
Into(p, at, scope) == [at |-> at, nest |-> <<scope>> \o p.nest]
OutOf(A, p) == [at |-> A.resume[Enclosing(Tail(p.nest))], nest |-> Tail(p.nest)]

Moves(A, p, s) == s \in DOMAIN A.moves[p.at]
IsValue(A, p, s) == p.at \in A.values /\ s \in A.simple
IsOpening(A, p, s) == p.at \in A.values /\ s \in DOMAIN A.opens
IsClosing(A, p, s) ==
  p.at \in A.ends /\ Enclosing(p.nest) \in Scopes /\ s = A.closes[Enclosing(p.nest)]
OneOf(A, p, s) ==
  /\ Moves(A, p, s) => ~IsValue(A, p, s) /\ ~IsOpening(A, p, s) /\ ~IsClosing(A, p, s)
  /\ IsValue(A, p, s) => ~IsOpening(A, p, s) /\ ~IsClosing(A, p, s)
  /\ IsOpening(A, p, s) => ~IsClosing(A, p, s)
Taken(A, p, s) ==
  IF Moves(A, p, s) THEN To(p, A.moves[p.at][s])
  ELSE IF IsValue(A, p, s) THEN To(p, A.resume[Enclosing(p.nest)])
  ELSE IF IsOpening(A, p, s) THEN Into(p, A.opens[s].at, A.opens[s].scope)
  ELSE IF IsClosing(A, p, s) THEN OutOf(A, p)
  ELSE Lost

\* Where no two cases of Take hold, its CASE is a choice in order.
LEMMA TakeIs ==
  ASSUME NEW A, NEW places, NEW p \in Descents(places), NEW s, OneOf(A, p, s)
  PROVE  Take(A, p, s) = Taken(A, p, s)
<1>1. \A x : [p EXCEPT !.at = x] = To(p, x)
  BY DEF Descents, To
<1> USE DEF Take, Taken, Moves, IsValue, IsOpening, IsClosing, OneOf
<1>2. CASE Moves(A, p, s)
  BY <1>1, <1>2, Zenon
<1>3. CASE IsValue(A, p, s)
  BY <1>1, <1>3, Zenon
<1>4. CASE IsOpening(A, p, s)
  BY <1>4, Zenon DEF Into
<1>5. CASE IsClosing(A, p, s)
  BY <1>5, Zenon DEF OutOf
<1>6. CASE /\ ~Moves(A, p, s) /\ ~IsValue(A, p, s)
           /\ ~IsOpening(A, p, s) /\ ~IsClosing(A, p, s)
  BY <1>6, Zenon DEF Lost
<1>. QED
  BY <1>2, <1>3, <1>4, <1>5, <1>6, Zenon

-----------------------------------------------------------------------------
\* What each token does to the parser.

LEMMA ParserIs ==
  /\ Parser.moves = ParserMoves
  /\ DOMAIN Parser.opens = {"LeftBracket", "LeftBrace"}
  /\ Parser.opens["LeftBracket"] = [at |-> "element", scope |-> "array"]
  /\ Parser.opens["LeftBrace"] = [at |-> "firstPair", scope |-> "inline"]
  /\ Parser.values = {"value", "element"}
  /\ Parser.simple = {"String", "MultiLine", "Scalar"}
  /\ Parser.ends = {"element", "separator", "firstPair", "pairEnd"}
  /\ Parser.closes = [array |-> "RightBracket", inline |-> "RightBrace"]
  /\ Parser.resume = [document |-> "document", array |-> "separator", inline |-> "pairEnd"]
  BY DEF Parser, ParseValue

USE DEF ParserMoves, ParseDocument, ParseKeyPart, ParseKeyPath, ParseHeaderEnd, ParseKey,
        ParseElements, ParseSeparator, ParseInlineTable, ParsePairEnd, Cat, On, Nothing,
        Trivia, Starts, KeyTokens, ParserPlaces

LEMMA ParserTakes ==
  ASSUME NEW p \in Descents(ParserPlaces), NEW s \in Tokens
  PROVE  Take(Parser, p, s) = Taken(Parser, p, s)
<1>1. p.at \in ParserPlaces
  BY DEF Descents
<1>2. p.at \in Parser.ends \cup Parser.values /\ s \in DOMAIN ParserMoves[p.at] =>
        /\ s \in {"Whitespace", "Newline", "Comment", "Comma", "BareKey", "String"}
        /\ s = "String" => p.at = "firstPair"
  BY <1>1, ParserIs
<1>3. Enclosing(p.nest) \in Scopes =>
        Parser.closes[Enclosing(p.nest)] \in {"RightBracket", "RightBrace"}
  <2>1. /\ Parser.closes["array"] = "RightBracket"
        /\ Parser.closes["inline"] = "RightBrace"
    BY ParserIs
  <2>. QED
    BY <2>1 DEF Scopes
<1>4. OneOf(Parser, p, s)
  BY <1>2, <1>3, ParserIs DEF Moves, IsValue, IsOpening, IsClosing, OneOf
<1>. QED
  BY <1>4, TakeIs, Zenon

LEMMA ParserNewline ==
  ASSUME NEW p \in Descents(ParserPlaces)
  PROVE  Take(Parser, p, "Newline") =
           IF p.at \in {"document", "headerEnd"} THEN To(p, "document")
           ELSE IF p.at \in {"element", "separator"} THEN To(p, p.at)
           ELSE Lost
<1>1. p.at \in ParserPlaces
  BY DEF Descents
<1>2. "Newline" \in DOMAIN ParserMoves[p.at] <=>
        p.at \in {"document", "headerEnd", "element", "separator"}
  BY <1>1
<1>3. /\ p.at \in {"document", "headerEnd"} => ParserMoves[p.at]["Newline"] = "document"
      /\ p.at \in {"element", "separator"} => ParserMoves[p.at]["Newline"] = p.at
  BY <1>1
<1>4. Take(Parser, p, "Newline") = Taken(Parser, p, "Newline")
  BY ParserTakes DEF Tokens
<1>. HIDE DEF ParserMoves
<1>. QED
  BY <1>1, <1>2, <1>3, <1>4, ParserIs DEF Taken, Moves, IsValue, IsOpening, IsClosing,
       To, Into, OutOf, Scopes

LEMMA ParserWhitespace ==
  ASSUME NEW p \in Descents(ParserPlaces)
  PROVE  Take(Parser, p, "Whitespace") =
           IF p.at \notin {"parsed", "failed"} THEN To(p, p.at)
           ELSE Lost
<1>1. p.at \in ParserPlaces
  BY DEF Descents
<1>2. "Whitespace" \in DOMAIN ParserMoves[p.at] <=>
        p.at \notin {"parsed", "failed"}
  BY <1>1
<1>3. p.at \notin {"parsed", "failed"} => ParserMoves[p.at]["Whitespace"] = p.at
  BY <1>1
<1>4. Take(Parser, p, "Whitespace") = Taken(Parser, p, "Whitespace")
  BY ParserTakes DEF Tokens
<1>. HIDE DEF ParserMoves
<1>. QED
  BY <1>1, <1>2, <1>3, <1>4, ParserIs DEF Taken, Moves, IsValue, IsOpening, IsClosing,
       To, Into, OutOf, Scopes

LEMMA ParserComment ==
  ASSUME NEW p \in Descents(ParserPlaces)
  PROVE  Take(Parser, p, "Comment") =
           IF p.at \in {"document", "headerEnd", "element", "separator"}
                THEN To(p, p.at)
           ELSE Lost
<1>1. p.at \in ParserPlaces
  BY DEF Descents
<1>2. "Comment" \in DOMAIN ParserMoves[p.at] <=>
        p.at \in {"document", "headerEnd", "element", "separator"}
  BY <1>1
<1>3. p.at \in {"document", "headerEnd", "element", "separator"} =>
        ParserMoves[p.at]["Comment"] = p.at
  BY <1>1
<1>4. Take(Parser, p, "Comment") = Taken(Parser, p, "Comment")
  BY ParserTakes DEF Tokens
<1>. HIDE DEF ParserMoves
<1>. QED
  BY <1>1, <1>2, <1>3, <1>4, ParserIs DEF Taken, Moves, IsValue, IsOpening, IsClosing,
       To, Into, OutOf, Scopes

LEMMA ParserEquals ==
  ASSUME NEW p \in Descents(ParserPlaces)
  PROVE  Take(Parser, p, "Equals") =
           IF p.at = "pairMore" THEN To(p, "value")
           ELSE Lost
<1>1. p.at \in ParserPlaces
  BY DEF Descents
<1>2. "Equals" \in DOMAIN ParserMoves[p.at] <=> p.at \in {"pairMore"}
  BY <1>1
<1>3. p.at = "pairMore" => ParserMoves[p.at]["Equals"] = "value"
  BY <1>1
<1>4. Take(Parser, p, "Equals") = Taken(Parser, p, "Equals")
  BY ParserTakes DEF Tokens
<1>. HIDE DEF ParserMoves
<1>. QED
  BY <1>1, <1>2, <1>3, <1>4, ParserIs DEF Taken, Moves, IsValue, IsOpening, IsClosing,
       To, Into, OutOf, Scopes

LEMMA ParserDot ==
  ASSUME NEW p \in Descents(ParserPlaces)
  PROVE  Take(Parser, p, "Dot") =
           IF p.at = "tableMore" THEN To(p, "tableKey")
           ELSE IF p.at = "arrayTableMore" THEN To(p, "arrayTableKey")
           ELSE IF p.at = "pairMore" THEN To(p, "pairKey")
           ELSE Lost
<1>1. p.at \in ParserPlaces
  BY DEF Descents
<1>2. "Dot" \in DOMAIN ParserMoves[p.at] <=>
        p.at \in {"tableMore", "arrayTableMore", "pairMore"}
  BY <1>1
<1>3. /\ p.at = "tableMore" => ParserMoves[p.at]["Dot"] = "tableKey"
      /\ p.at = "arrayTableMore" => ParserMoves[p.at]["Dot"] = "arrayTableKey"
      /\ p.at = "pairMore" => ParserMoves[p.at]["Dot"] = "pairKey"
  BY <1>1
<1>4. Take(Parser, p, "Dot") = Taken(Parser, p, "Dot")
  BY ParserTakes DEF Tokens
<1>. HIDE DEF ParserMoves
<1>. QED
  BY <1>1, <1>2, <1>3, <1>4, ParserIs DEF Taken, Moves, IsValue, IsOpening, IsClosing,
       To, Into, OutOf, Scopes

LEMMA ParserComma ==
  ASSUME NEW p \in Descents(ParserPlaces)
  PROVE  Take(Parser, p, "Comma") =
           IF p.at = "separator" THEN To(p, "element")
           ELSE IF p.at = "pairEnd" THEN To(p, "pairKey")
           ELSE Lost
<1>1. p.at \in ParserPlaces
  BY DEF Descents
<1>2. "Comma" \in DOMAIN ParserMoves[p.at] <=> p.at \in {"separator", "pairEnd"}
  BY <1>1
<1>3. /\ p.at = "separator" => ParserMoves[p.at]["Comma"] = "element"
      /\ p.at = "pairEnd" => ParserMoves[p.at]["Comma"] = "pairKey"
  BY <1>1
<1>4. Take(Parser, p, "Comma") = Taken(Parser, p, "Comma")
  BY ParserTakes DEF Tokens
<1>. HIDE DEF ParserMoves
<1>. QED
  BY <1>1, <1>2, <1>3, <1>4, ParserIs DEF Taken, Moves, IsValue, IsOpening, IsClosing,
       To, Into, OutOf, Scopes

LEMMA ParserLeftBracket ==
  ASSUME NEW p \in Descents(ParserPlaces)
  PROVE  Take(Parser, p, "LeftBracket") =
           IF p.at = "document" THEN To(p, "tableKey")
           ELSE IF p.at \in {"value", "element"} THEN Into(p, "element", "array")
           ELSE Lost
<1>1. p.at \in ParserPlaces
  BY DEF Descents
<1>2. "LeftBracket" \in DOMAIN ParserMoves[p.at] <=> p.at \in {"document"}
  BY <1>1
<1>3. p.at = "document" => ParserMoves[p.at]["LeftBracket"] = "tableKey"
  BY <1>1
<1>4. Take(Parser, p, "LeftBracket") = Taken(Parser, p, "LeftBracket")
  BY ParserTakes DEF Tokens
<1>. HIDE DEF ParserMoves
<1>. QED
  BY <1>1, <1>2, <1>3, <1>4, ParserIs DEF Taken, Moves, IsValue, IsOpening, IsClosing,
       To, Into, OutOf, Scopes

LEMMA ParserDoubleLeftBracket ==
  ASSUME NEW p \in Descents(ParserPlaces)
  PROVE  Take(Parser, p, "DoubleLeftBracket") =
           IF p.at = "document" THEN To(p, "arrayTableKey")
           ELSE Lost
<1>1. p.at \in ParserPlaces
  BY DEF Descents
<1>2. "DoubleLeftBracket" \in DOMAIN ParserMoves[p.at] <=> p.at \in {"document"}
  BY <1>1
<1>3. p.at = "document" => ParserMoves[p.at]["DoubleLeftBracket"] = "arrayTableKey"
  BY <1>1
<1>4. Take(Parser, p, "DoubleLeftBracket") = Taken(Parser, p, "DoubleLeftBracket")
  BY ParserTakes DEF Tokens
<1>. HIDE DEF ParserMoves
<1>. QED
  BY <1>1, <1>2, <1>3, <1>4, ParserIs DEF Taken, Moves, IsValue, IsOpening, IsClosing,
       To, Into, OutOf, Scopes

LEMMA ParserRightBracket ==
  ASSUME NEW p \in Descents(ParserPlaces)
  PROVE  Take(Parser, p, "RightBracket") =
           IF p.at = "tableMore" THEN To(p, "headerEnd")
           ELSE IF /\ p.at \in {"element", "separator", "firstPair", "pairEnd"}
                   /\ Enclosing(p.nest) = "array"
           THEN OutOf(Parser, p)
           ELSE Lost
<1>1. p.at \in ParserPlaces
  BY DEF Descents
<1>2. "RightBracket" \in DOMAIN ParserMoves[p.at] <=> p.at \in {"tableMore"}
  BY <1>1
<1>3. p.at = "tableMore" => ParserMoves[p.at]["RightBracket"] = "headerEnd"
  BY <1>1
<1>4. Take(Parser, p, "RightBracket") = Taken(Parser, p, "RightBracket")
  BY ParserTakes DEF Tokens
<1>. HIDE DEF ParserMoves
<1>. QED
  BY <1>1, <1>2, <1>3, <1>4, ParserIs DEF Taken, Moves, IsValue, IsOpening, IsClosing,
       To, Into, OutOf, Scopes

LEMMA ParserDoubleRightBracket ==
  ASSUME NEW p \in Descents(ParserPlaces)
  PROVE  Take(Parser, p, "DoubleRightBracket") =
           IF p.at = "arrayTableMore" THEN To(p, "headerEnd")
           ELSE Lost
<1>1. p.at \in ParserPlaces
  BY DEF Descents
<1>2. "DoubleRightBracket" \in DOMAIN ParserMoves[p.at] <=>
        p.at \in {"arrayTableMore"}
  BY <1>1
<1>3. p.at = "arrayTableMore" => ParserMoves[p.at]["DoubleRightBracket"] = "headerEnd"
  BY <1>1
<1>4. Take(Parser, p, "DoubleRightBracket") = Taken(Parser, p, "DoubleRightBracket")
  BY ParserTakes DEF Tokens
<1>. HIDE DEF ParserMoves
<1>. QED
  BY <1>1, <1>2, <1>3, <1>4, ParserIs DEF Taken, Moves, IsValue, IsOpening, IsClosing,
       To, Into, OutOf, Scopes

LEMMA ParserLeftBrace ==
  ASSUME NEW p \in Descents(ParserPlaces)
  PROVE  Take(Parser, p, "LeftBrace") =
           IF p.at \in {"value", "element"} THEN Into(p, "firstPair", "inline")
           ELSE Lost
<1>1. p.at \in ParserPlaces
  BY DEF Descents
<1>2. "LeftBrace" \in DOMAIN ParserMoves[p.at] <=> p.at \in {}
  BY <1>1
<1>3. Take(Parser, p, "LeftBrace") = Taken(Parser, p, "LeftBrace")
  BY ParserTakes DEF Tokens
<1>. HIDE DEF ParserMoves
<1>. QED
  BY <1>1, <1>2, <1>3, ParserIs DEF Taken, Moves, IsValue, IsOpening, IsClosing,
       To, Into, OutOf, Scopes

LEMMA ParserRightBrace ==
  ASSUME NEW p \in Descents(ParserPlaces)
  PROVE  Take(Parser, p, "RightBrace") =
           IF /\ p.at \in {"element", "separator", "firstPair", "pairEnd"}
              /\ Enclosing(p.nest) = "inline"
           THEN OutOf(Parser, p)
           ELSE Lost
<1>1. p.at \in ParserPlaces
  BY DEF Descents
<1>2. "RightBrace" \in DOMAIN ParserMoves[p.at] <=> p.at \in {}
  BY <1>1
<1>3. Take(Parser, p, "RightBrace") = Taken(Parser, p, "RightBrace")
  BY ParserTakes DEF Tokens
<1>. HIDE DEF ParserMoves
<1>. QED
  BY <1>1, <1>2, <1>3, ParserIs DEF Taken, Moves, IsValue, IsOpening, IsClosing,
       To, Into, OutOf, Scopes

LEMMA ParserString ==
  ASSUME NEW p \in Descents(ParserPlaces)
  PROVE  Take(Parser, p, "String") =
           IF p.at \in {"document", "pairKey", "firstPair"} THEN To(p, "pairMore")
           ELSE IF p.at = "tableKey" THEN To(p, "tableMore")
           ELSE IF p.at = "arrayTableKey" THEN To(p, "arrayTableMore")
           ELSE IF p.at \in {"value", "element"}
                THEN To(p, Parser.resume[Enclosing(p.nest)])
           ELSE Lost
<1>1. p.at \in ParserPlaces
  BY DEF Descents
<1>2. "String" \in DOMAIN ParserMoves[p.at] <=>
        p.at \in {"document", "pairKey", "firstPair", "tableKey", "arrayTableKey"}
  BY <1>1
<1>3. /\ p.at \in {"document", "pairKey", "firstPair"} =>
           ParserMoves[p.at]["String"] = "pairMore"
      /\ p.at = "tableKey" => ParserMoves[p.at]["String"] = "tableMore"
      /\ p.at = "arrayTableKey" => ParserMoves[p.at]["String"] = "arrayTableMore"
  BY <1>1
<1>4. Take(Parser, p, "String") = Taken(Parser, p, "String")
  BY ParserTakes DEF Tokens
<1>. HIDE DEF ParserMoves
<1>. QED
  BY <1>1, <1>2, <1>3, <1>4, ParserIs DEF Taken, Moves, IsValue, IsOpening, IsClosing,
       To, Into, OutOf, Scopes

LEMMA ParserMultiLine ==
  ASSUME NEW p \in Descents(ParserPlaces)
  PROVE  Take(Parser, p, "MultiLine") =
           IF p.at \in {"value", "element"} THEN To(p, Parser.resume[Enclosing(p.nest)])
           ELSE Lost
<1>1. p.at \in ParserPlaces
  BY DEF Descents
<1>2. "MultiLine" \in DOMAIN ParserMoves[p.at] <=> p.at \in {}
  BY <1>1
<1>3. Take(Parser, p, "MultiLine") = Taken(Parser, p, "MultiLine")
  BY ParserTakes DEF Tokens
<1>. HIDE DEF ParserMoves
<1>. QED
  BY <1>1, <1>2, <1>3, ParserIs DEF Taken, Moves, IsValue, IsOpening, IsClosing,
       To, Into, OutOf, Scopes

LEMMA ParserBareKey ==
  ASSUME NEW p \in Descents(ParserPlaces)
  PROVE  Take(Parser, p, "BareKey") =
           IF p.at \in {"document", "pairKey", "firstPair"} THEN To(p, "pairMore")
           ELSE IF p.at = "tableKey" THEN To(p, "tableMore")
           ELSE IF p.at = "arrayTableKey" THEN To(p, "arrayTableMore")
           ELSE Lost
<1>1. p.at \in ParserPlaces
  BY DEF Descents
<1>2. "BareKey" \in DOMAIN ParserMoves[p.at] <=>
        p.at \in {"document", "pairKey", "firstPair", "tableKey", "arrayTableKey"}
  BY <1>1
<1>3. /\ p.at \in {"document", "pairKey", "firstPair"} =>
           ParserMoves[p.at]["BareKey"] = "pairMore"
      /\ p.at = "tableKey" => ParserMoves[p.at]["BareKey"] = "tableMore"
      /\ p.at = "arrayTableKey" => ParserMoves[p.at]["BareKey"] = "arrayTableMore"
  BY <1>1
<1>4. Take(Parser, p, "BareKey") = Taken(Parser, p, "BareKey")
  BY ParserTakes DEF Tokens
<1>. HIDE DEF ParserMoves
<1>. QED
  BY <1>1, <1>2, <1>3, <1>4, ParserIs DEF Taken, Moves, IsValue, IsOpening, IsClosing,
       To, Into, OutOf, Scopes

LEMMA ParserScalar ==
  ASSUME NEW p \in Descents(ParserPlaces)
  PROVE  Take(Parser, p, "Scalar") =
           IF p.at \in {"value", "element"} THEN To(p, Parser.resume[Enclosing(p.nest)])
           ELSE Lost
<1>1. p.at \in ParserPlaces
  BY DEF Descents
<1>2. "Scalar" \in DOMAIN ParserMoves[p.at] <=> p.at \in {}
  BY <1>1
<1>3. Take(Parser, p, "Scalar") = Taken(Parser, p, "Scalar")
  BY ParserTakes DEF Tokens
<1>. HIDE DEF ParserMoves
<1>. QED
  BY <1>1, <1>2, <1>3, ParserIs DEF Taken, Moves, IsValue, IsOpening, IsClosing,
       To, Into, OutOf, Scopes

LEMMA ParserEOF ==
  ASSUME NEW p \in Descents(ParserPlaces)
  PROVE  Take(Parser, p, "EOF") =
           IF p.at \in {"document", "headerEnd"} THEN To(p, "parsed")
           ELSE Lost
<1>1. p.at \in ParserPlaces
  BY DEF Descents
<1>2. "EOF" \in DOMAIN ParserMoves[p.at] <=> p.at \in {"document", "headerEnd"}
  BY <1>1
<1>3. p.at \in {"document", "headerEnd"} => ParserMoves[p.at]["EOF"] = "parsed"
  BY <1>1
<1>4. Take(Parser, p, "EOF") = Taken(Parser, p, "EOF")
  BY ParserTakes DEF Tokens
<1>. HIDE DEF ParserMoves
<1>. QED
  BY <1>1, <1>2, <1>3, <1>4, ParserIs DEF Taken, Moves, IsValue, IsOpening, IsClosing,
       To, Into, OutOf, Scopes

LEMMA ParserRange ==
  ASSUME NEW at \in ParserPlaces, NEW s \in DOMAIN ParserMoves[at]
  PROVE  ParserMoves[at][s] \in ParserPlaces
<1>. DEFINE Typed(place) ==
              \A t \in DOMAIN ParserMoves[place] : ParserMoves[place][t] \in ParserPlaces
<1>1. Typed("document") /\ Typed("headerEnd") /\ Typed("parsed") /\ Typed("failed")
  OBVIOUS
<1>2. Typed("tableKey") /\ Typed("tableMore")
  OBVIOUS
<1>3. Typed("arrayTableKey") /\ Typed("arrayTableMore")
  OBVIOUS
<1>4. Typed("pairKey") /\ Typed("pairMore") /\ Typed("value")
  OBVIOUS
<1>5. Typed("element") /\ Typed("separator") /\ Typed("firstPair") /\ Typed("pairEnd")
  OBVIOUS
<1>6. Typed(at)
  <2>. HIDE DEF Typed
  <2>. QED
    BY <1>1, <1>2, <1>3, <1>4, <1>5
<1>. QED
  BY <1>6

HIDE DEF ParserMoves, ParseDocument, ParseKeyPart, ParseKeyPath, ParseHeaderEnd, ParseKey,
         ParseElements, ParseSeparator, ParseInlineTable, ParsePairEnd, Cat, On, Nothing,
         Trivia, Starts, KeyTokens, ParserPlaces

-----------------------------------------------------------------------------
\* What each piece does to the grammar.

LEMMA GrammarIs ==
  /\ Grammar.moves = GrammarMoves
  /\ DOMAIN Grammar.opens = {"leftBracket", "leftBrace"}
  /\ Grammar.opens["leftBracket"] = [at |-> "element", scope |-> "array"]
  /\ Grammar.opens["leftBrace"] = [at |-> "firstPair", scope |-> "inline"]
  /\ Grammar.values = {"value", "element"}
  /\ Grammar.simple = {"string", "multiline", "number"}
  /\ Grammar.ends = {"element", "separator", "firstPair", "pairEnd"}
  /\ Grammar.closes = [array |-> "rightBracket", inline |-> "rightBrace"]
  /\ Grammar.resume = [document |-> "lineEnd", array |-> "separator", inline |-> "pairEnd"]
  BY DEF Grammar

USE DEF GrammarMoves, KeyPart, Cat, On, Nothing, Blank, Keys, GrammarPlaces, ParserPlaces

LEMMA GrammarTakes ==
  ASSUME NEW p \in Descents(GrammarPlaces), NEW s \in Pieces
  PROVE  Take(Grammar, p, s) = Taken(Grammar, p, s)
<1>1. p.at \in GrammarPlaces
  BY DEF Descents
<1>2. p.at \in Grammar.ends \cup Grammar.values /\ s \in DOMAIN GrammarMoves[p.at] =>
        /\ s \in {"space", "newline", "comment", "comma", "word", "number", "string"}
        /\ s \in {"string", "number"} => p.at = "firstPair"
  BY <1>1, GrammarIs
<1>3. Enclosing(p.nest) \in Scopes =>
        Grammar.closes[Enclosing(p.nest)] \in {"rightBracket", "rightBrace"}
  <2>1. /\ Grammar.closes["array"] = "rightBracket"
        /\ Grammar.closes["inline"] = "rightBrace"
    BY GrammarIs
  <2>. QED
    BY <2>1 DEF Scopes
<1>4. OneOf(Grammar, p, s)
  BY <1>2, <1>3, GrammarIs DEF Moves, IsValue, IsOpening, IsClosing, OneOf
<1>. QED
  BY <1>4, TakeIs, Zenon

LEMMA GrammarNewline ==
  ASSUME NEW p \in Descents(GrammarPlaces)
  PROVE  Take(Grammar, p, "newline") =
           IF p.at \in {"line", "headerEnd", "lineEnd"} THEN To(p, "line")
           ELSE IF p.at \in {"element", "separator"} THEN To(p, p.at)
           ELSE Lost
<1>1. p.at \in GrammarPlaces
  BY DEF Descents
<1>2. "newline" \in DOMAIN GrammarMoves[p.at] <=>
        p.at \in {"line", "headerEnd", "lineEnd", "element", "separator"}
  BY <1>1
<1>3. /\ p.at \in {"line", "headerEnd", "lineEnd"} =>
           GrammarMoves[p.at]["newline"] = "line"
      /\ p.at \in {"element", "separator"} => GrammarMoves[p.at]["newline"] = p.at
  BY <1>1
<1>4. Take(Grammar, p, "newline") = Taken(Grammar, p, "newline")
  BY GrammarTakes DEF Pieces
<1>. HIDE DEF GrammarMoves
<1>. QED
  BY <1>1, <1>2, <1>3, <1>4, GrammarIs DEF Taken, Moves, IsValue, IsOpening, IsClosing,
       To, Into, OutOf, Scopes

LEMMA GrammarSpace ==
  ASSUME NEW p \in Descents(GrammarPlaces)
  PROVE  Take(Grammar, p, "space") =
           IF p.at = "tableOpen" THEN To(p, "tableKey")
           ELSE IF p.at \notin {"tableOpen", "arrayTableClose", "sameLine", "parsed", "failed"}
                THEN To(p, p.at)
           ELSE Lost
<1>1. p.at \in GrammarPlaces
  BY DEF Descents
<1>2. "space" \in DOMAIN GrammarMoves[p.at] <=>
        \/ p.at = "tableOpen"
        \/ p.at \notin {"tableOpen", "arrayTableClose", "sameLine", "parsed", "failed"}
  BY <1>1
<1>3. /\ p.at = "tableOpen" => GrammarMoves[p.at]["space"] = "tableKey"
      /\ p.at \notin {"tableOpen", "arrayTableClose", "sameLine", "parsed", "failed"} =>
           GrammarMoves[p.at]["space"] = p.at
  BY <1>1
<1>4. Take(Grammar, p, "space") = Taken(Grammar, p, "space")
  BY GrammarTakes DEF Pieces
<1>. HIDE DEF GrammarMoves
<1>. QED
  BY <1>1, <1>2, <1>3, <1>4, GrammarIs DEF Taken, Moves, IsValue, IsOpening, IsClosing,
       To, Into, OutOf, Scopes

LEMMA GrammarComment ==
  ASSUME NEW p \in Descents(GrammarPlaces)
  PROVE  Take(Grammar, p, "comment") =
           IF p.at \in {"line", "headerEnd", "lineEnd", "element", "separator"}
                THEN To(p, p.at)
           ELSE Lost
<1>1. p.at \in GrammarPlaces
  BY DEF Descents
<1>2. "comment" \in DOMAIN GrammarMoves[p.at] <=>
        p.at \in {"line", "headerEnd", "lineEnd", "element", "separator"}
  BY <1>1
<1>3. p.at \in {"line", "headerEnd", "lineEnd", "element", "separator"} =>
        GrammarMoves[p.at]["comment"] = p.at
  BY <1>1
<1>4. Take(Grammar, p, "comment") = Taken(Grammar, p, "comment")
  BY GrammarTakes DEF Pieces
<1>. HIDE DEF GrammarMoves
<1>. QED
  BY <1>1, <1>2, <1>3, <1>4, GrammarIs DEF Taken, Moves, IsValue, IsOpening, IsClosing,
       To, Into, OutOf, Scopes

LEMMA GrammarEquals ==
  ASSUME NEW p \in Descents(GrammarPlaces)
  PROVE  Take(Grammar, p, "equals") =
           IF p.at = "pairMore" THEN To(p, "value")
           ELSE Lost
<1>1. p.at \in GrammarPlaces
  BY DEF Descents
<1>2. "equals" \in DOMAIN GrammarMoves[p.at] <=> p.at \in {"pairMore"}
  BY <1>1
<1>3. p.at = "pairMore" => GrammarMoves[p.at]["equals"] = "value"
  BY <1>1
<1>4. Take(Grammar, p, "equals") = Taken(Grammar, p, "equals")
  BY GrammarTakes DEF Pieces
<1>. HIDE DEF GrammarMoves
<1>. QED
  BY <1>1, <1>2, <1>3, <1>4, GrammarIs DEF Taken, Moves, IsValue, IsOpening, IsClosing,
       To, Into, OutOf, Scopes

LEMMA GrammarDot ==
  ASSUME NEW p \in Descents(GrammarPlaces)
  PROVE  Take(Grammar, p, "dot") =
           IF p.at = "tableMore" THEN To(p, "tableKey")
           ELSE IF p.at = "arrayTableMore" THEN To(p, "arrayTableKey")
           ELSE IF p.at = "pairMore" THEN To(p, "pairKey")
           ELSE Lost
<1>1. p.at \in GrammarPlaces
  BY DEF Descents
<1>2. "dot" \in DOMAIN GrammarMoves[p.at] <=>
        p.at \in {"tableMore", "arrayTableMore", "pairMore"}
  BY <1>1
<1>3. /\ p.at = "tableMore" => GrammarMoves[p.at]["dot"] = "tableKey"
      /\ p.at = "arrayTableMore" => GrammarMoves[p.at]["dot"] = "arrayTableKey"
      /\ p.at = "pairMore" => GrammarMoves[p.at]["dot"] = "pairKey"
  BY <1>1
<1>4. Take(Grammar, p, "dot") = Taken(Grammar, p, "dot")
  BY GrammarTakes DEF Pieces
<1>. HIDE DEF GrammarMoves
<1>. QED
  BY <1>1, <1>2, <1>3, <1>4, GrammarIs DEF Taken, Moves, IsValue, IsOpening, IsClosing,
       To, Into, OutOf, Scopes

LEMMA GrammarComma ==
  ASSUME NEW p \in Descents(GrammarPlaces)
  PROVE  Take(Grammar, p, "comma") =
           IF p.at = "separator" THEN To(p, "element")
           ELSE IF p.at = "pairEnd" THEN To(p, "pairKey")
           ELSE Lost
<1>1. p.at \in GrammarPlaces
  BY DEF Descents
<1>2. "comma" \in DOMAIN GrammarMoves[p.at] <=> p.at \in {"separator", "pairEnd"}
  BY <1>1
<1>3. /\ p.at = "separator" => GrammarMoves[p.at]["comma"] = "element"
      /\ p.at = "pairEnd" => GrammarMoves[p.at]["comma"] = "pairKey"
  BY <1>1
<1>4. Take(Grammar, p, "comma") = Taken(Grammar, p, "comma")
  BY GrammarTakes DEF Pieces
<1>. HIDE DEF GrammarMoves
<1>. QED
  BY <1>1, <1>2, <1>3, <1>4, GrammarIs DEF Taken, Moves, IsValue, IsOpening, IsClosing,
       To, Into, OutOf, Scopes

LEMMA GrammarLeftBracket ==
  ASSUME NEW p \in Descents(GrammarPlaces)
  PROVE  Take(Grammar, p, "leftBracket") =
           IF p.at = "line" THEN To(p, "tableOpen")
           ELSE IF p.at = "tableOpen" THEN To(p, "arrayTableKey")
           ELSE IF p.at = "lineEnd" THEN To(p, "sameLine")
           ELSE IF p.at \in {"value", "element"} THEN Into(p, "element", "array")
           ELSE Lost
<1>1. p.at \in GrammarPlaces
  BY DEF Descents
<1>2. "leftBracket" \in DOMAIN GrammarMoves[p.at] <=>
        p.at \in {"line", "tableOpen", "lineEnd"}
  BY <1>1
<1>3. /\ p.at = "line" => GrammarMoves[p.at]["leftBracket"] = "tableOpen"
      /\ p.at = "tableOpen" => GrammarMoves[p.at]["leftBracket"] = "arrayTableKey"
      /\ p.at = "lineEnd" => GrammarMoves[p.at]["leftBracket"] = "sameLine"
  BY <1>1
<1>4. Take(Grammar, p, "leftBracket") = Taken(Grammar, p, "leftBracket")
  BY GrammarTakes DEF Pieces
<1>. HIDE DEF GrammarMoves
<1>. QED
  BY <1>1, <1>2, <1>3, <1>4, GrammarIs DEF Taken, Moves, IsValue, IsOpening, IsClosing,
       To, Into, OutOf, Scopes

LEMMA GrammarRightBracket ==
  ASSUME NEW p \in Descents(GrammarPlaces)
  PROVE  Take(Grammar, p, "rightBracket") =
           IF p.at \in {"tableMore", "arrayTableClose"} THEN To(p, "headerEnd")
           ELSE IF p.at = "arrayTableMore" THEN To(p, "arrayTableClose")
           ELSE IF /\ p.at \in {"element", "separator", "firstPair", "pairEnd"}
                   /\ Enclosing(p.nest) = "array"
           THEN OutOf(Grammar, p)
           ELSE Lost
<1>1. p.at \in GrammarPlaces
  BY DEF Descents
<1>2. "rightBracket" \in DOMAIN GrammarMoves[p.at] <=>
        p.at \in {"tableMore", "arrayTableClose", "arrayTableMore"}
  BY <1>1
<1>3. /\ p.at \in {"tableMore", "arrayTableClose"} =>
           GrammarMoves[p.at]["rightBracket"] = "headerEnd"
      /\ p.at = "arrayTableMore" =>
           GrammarMoves[p.at]["rightBracket"] = "arrayTableClose"
  BY <1>1
<1>4. Take(Grammar, p, "rightBracket") = Taken(Grammar, p, "rightBracket")
  BY GrammarTakes DEF Pieces
<1>. HIDE DEF GrammarMoves
<1>. QED
  BY <1>1, <1>2, <1>3, <1>4, GrammarIs DEF Taken, Moves, IsValue, IsOpening, IsClosing,
       To, Into, OutOf, Scopes

LEMMA GrammarLeftBrace ==
  ASSUME NEW p \in Descents(GrammarPlaces)
  PROVE  Take(Grammar, p, "leftBrace") =
           IF p.at \in {"value", "element"} THEN Into(p, "firstPair", "inline")
           ELSE Lost
<1>1. p.at \in GrammarPlaces
  BY DEF Descents
<1>2. "leftBrace" \in DOMAIN GrammarMoves[p.at] <=> p.at \in {}
  BY <1>1
<1>3. Take(Grammar, p, "leftBrace") = Taken(Grammar, p, "leftBrace")
  BY GrammarTakes DEF Pieces
<1>. HIDE DEF GrammarMoves
<1>. QED
  BY <1>1, <1>2, <1>3, GrammarIs DEF Taken, Moves, IsValue, IsOpening, IsClosing,
       To, Into, OutOf, Scopes

LEMMA GrammarRightBrace ==
  ASSUME NEW p \in Descents(GrammarPlaces)
  PROVE  Take(Grammar, p, "rightBrace") =
           IF /\ p.at \in {"element", "separator", "firstPair", "pairEnd"}
              /\ Enclosing(p.nest) = "inline"
           THEN OutOf(Grammar, p)
           ELSE Lost
<1>1. p.at \in GrammarPlaces
  BY DEF Descents
<1>2. "rightBrace" \in DOMAIN GrammarMoves[p.at] <=> p.at \in {}
  BY <1>1
<1>3. Take(Grammar, p, "rightBrace") = Taken(Grammar, p, "rightBrace")
  BY GrammarTakes DEF Pieces
<1>. HIDE DEF GrammarMoves
<1>. QED
  BY <1>1, <1>2, <1>3, GrammarIs DEF Taken, Moves, IsValue, IsOpening, IsClosing,
       To, Into, OutOf, Scopes

LEMMA GrammarString ==
  ASSUME NEW p \in Descents(GrammarPlaces)
  PROVE  Take(Grammar, p, "string") =
           IF p.at \in {"line", "pairKey", "firstPair"} THEN To(p, "pairMore")
           ELSE IF p.at \in {"tableOpen", "tableKey"} THEN To(p, "tableMore")
           ELSE IF p.at = "arrayTableKey" THEN To(p, "arrayTableMore")
           ELSE IF p.at = "lineEnd" THEN To(p, "sameLine")
           ELSE IF p.at \in {"value", "element"}
                THEN To(p, Grammar.resume[Enclosing(p.nest)])
           ELSE Lost
<1>1. p.at \in GrammarPlaces
  BY DEF Descents
<1>2. "string" \in DOMAIN GrammarMoves[p.at] <=>
        p.at \in {"line", "pairKey", "firstPair", "tableOpen", "tableKey", "arrayTableKey",
                 "lineEnd"}
  BY <1>1
<1>3. /\ p.at \in {"line", "pairKey", "firstPair"} =>
           GrammarMoves[p.at]["string"] = "pairMore"
      /\ p.at \in {"tableOpen", "tableKey"} =>
           GrammarMoves[p.at]["string"] = "tableMore"
      /\ p.at = "arrayTableKey" => GrammarMoves[p.at]["string"] = "arrayTableMore"
      /\ p.at = "lineEnd" => GrammarMoves[p.at]["string"] = "sameLine"
  BY <1>1
<1>4. Take(Grammar, p, "string") = Taken(Grammar, p, "string")
  BY GrammarTakes DEF Pieces
<1>. HIDE DEF GrammarMoves
<1>. QED
  BY <1>1, <1>2, <1>3, <1>4, GrammarIs DEF Taken, Moves, IsValue, IsOpening, IsClosing,
       To, Into, OutOf, Scopes

LEMMA GrammarNumber ==
  ASSUME NEW p \in Descents(GrammarPlaces)
  PROVE  Take(Grammar, p, "number") =
           IF p.at \in {"line", "pairKey", "firstPair"} THEN To(p, "pairMore")
           ELSE IF p.at \in {"tableOpen", "tableKey"} THEN To(p, "tableMore")
           ELSE IF p.at = "arrayTableKey" THEN To(p, "arrayTableMore")
           ELSE IF p.at = "lineEnd" THEN To(p, "sameLine")
           ELSE IF p.at \in {"value", "element"}
                THEN To(p, Grammar.resume[Enclosing(p.nest)])
           ELSE Lost
<1>1. p.at \in GrammarPlaces
  BY DEF Descents
<1>2. "number" \in DOMAIN GrammarMoves[p.at] <=>
        p.at \in {"line", "pairKey", "firstPair", "tableOpen", "tableKey", "arrayTableKey",
                 "lineEnd"}
  BY <1>1
<1>3. /\ p.at \in {"line", "pairKey", "firstPair"} =>
           GrammarMoves[p.at]["number"] = "pairMore"
      /\ p.at \in {"tableOpen", "tableKey"} =>
           GrammarMoves[p.at]["number"] = "tableMore"
      /\ p.at = "arrayTableKey" => GrammarMoves[p.at]["number"] = "arrayTableMore"
      /\ p.at = "lineEnd" => GrammarMoves[p.at]["number"] = "sameLine"
  BY <1>1
<1>4. Take(Grammar, p, "number") = Taken(Grammar, p, "number")
  BY GrammarTakes DEF Pieces
<1>. HIDE DEF GrammarMoves
<1>. QED
  BY <1>1, <1>2, <1>3, <1>4, GrammarIs DEF Taken, Moves, IsValue, IsOpening, IsClosing,
       To, Into, OutOf, Scopes

LEMMA GrammarWord ==
  ASSUME NEW p \in Descents(GrammarPlaces)
  PROVE  Take(Grammar, p, "word") =
           IF p.at \in {"line", "pairKey", "firstPair"} THEN To(p, "pairMore")
           ELSE IF p.at \in {"tableOpen", "tableKey"} THEN To(p, "tableMore")
           ELSE IF p.at = "arrayTableKey" THEN To(p, "arrayTableMore")
           ELSE IF p.at = "lineEnd" THEN To(p, "sameLine")
           ELSE Lost
<1>1. p.at \in GrammarPlaces
  BY DEF Descents
<1>2. "word" \in DOMAIN GrammarMoves[p.at] <=>
        p.at \in {"line", "pairKey", "firstPair", "tableOpen", "tableKey", "arrayTableKey",
                 "lineEnd"}
  BY <1>1
<1>3. /\ p.at \in {"line", "pairKey", "firstPair"} =>
           GrammarMoves[p.at]["word"] = "pairMore"
      /\ p.at \in {"tableOpen", "tableKey"} => GrammarMoves[p.at]["word"] = "tableMore"
      /\ p.at = "arrayTableKey" => GrammarMoves[p.at]["word"] = "arrayTableMore"
      /\ p.at = "lineEnd" => GrammarMoves[p.at]["word"] = "sameLine"
  BY <1>1
<1>4. Take(Grammar, p, "word") = Taken(Grammar, p, "word")
  BY GrammarTakes DEF Pieces
<1>. HIDE DEF GrammarMoves
<1>. QED
  BY <1>1, <1>2, <1>3, <1>4, GrammarIs DEF Taken, Moves, IsValue, IsOpening, IsClosing,
       To, Into, OutOf, Scopes

LEMMA GrammarMultiLine ==
  ASSUME NEW p \in Descents(GrammarPlaces)
  PROVE  Take(Grammar, p, "multiline") =
           IF p.at \in {"value", "element"}
                THEN To(p, Grammar.resume[Enclosing(p.nest)])
           ELSE Lost
<1>1. p.at \in GrammarPlaces
  BY DEF Descents
<1>2. "multiline" \in DOMAIN GrammarMoves[p.at] <=> p.at \in {}
  BY <1>1
<1>3. Take(Grammar, p, "multiline") = Taken(Grammar, p, "multiline")
  BY GrammarTakes DEF Pieces
<1>. HIDE DEF GrammarMoves
<1>. QED
  BY <1>1, <1>2, <1>3, GrammarIs DEF Taken, Moves, IsValue, IsOpening, IsClosing,
       To, Into, OutOf, Scopes

LEMMA GrammarEof ==
  ASSUME NEW p \in Descents(GrammarPlaces)
  PROVE  Take(Grammar, p, "eof") =
           IF p.at \in {"line", "headerEnd", "lineEnd"} THEN To(p, "parsed")
           ELSE Lost
<1>1. p.at \in GrammarPlaces
  BY DEF Descents
<1>2. "eof" \in DOMAIN GrammarMoves[p.at] <=>
        p.at \in {"line", "headerEnd", "lineEnd"}
  BY <1>1
<1>3. p.at \in {"line", "headerEnd", "lineEnd"} => GrammarMoves[p.at]["eof"] = "parsed"
  BY <1>1
<1>4. Take(Grammar, p, "eof") = Taken(Grammar, p, "eof")
  BY GrammarTakes DEF Pieces
<1>. HIDE DEF GrammarMoves
<1>. QED
  BY <1>1, <1>2, <1>3, <1>4, GrammarIs DEF Taken, Moves, IsValue, IsOpening, IsClosing,
       To, Into, OutOf, Scopes

HIDE DEF GrammarMoves, KeyPart, Cat, On, Nothing, Blank, Keys, GrammarPlaces, ParserPlaces

-----------------------------------------------------------------------------
\* How deep a stack is in arrays, and in inline tables.

Marked(s, y) == {i \in DOMAIN s : s[i] = y}

LEMMA DepthIs ==
  ASSUME NEW s \in Seq(Scopes), NEW y
  PROVE  /\ IsFiniteSet(Marked(s, y))
         /\ Depth(s, y) = Cardinality(Marked(s, y))
         /\ Depth(s, y) \in Nat
<1>1. Marked(s, y) \subseteq 1..Len(s)
  BY DEF Marked
<1>2. IsFiniteSet(1..Len(s))
  BY FS_Interval
<1>. QED
  BY <1>1, <1>2, FS_Subset, FS_CardinalityType DEF Depth, Marked

\* A scope entered is counted once.
LEMMA DepthPushed ==
  ASSUME NEW s \in Seq(Scopes), NEW x \in Scopes, NEW y
  PROVE  Depth(<<x>> \o s, y) = Depth(s, y) + (IF x = y THEN 1 ELSE 0)
<1>. DEFINE t == <<x>> \o s
            M == {i + 1 : i \in Marked(s, y)}
            f == [i \in Marked(s, y) |-> i + 1]
<1>1. /\ t \in Seq(Scopes) /\ Len(t) = Len(s) + 1 /\ t[1] = x
      /\ \A i \in 1..Len(s) : t[i + 1] = s[i]
  OBVIOUS
<1>2. /\ Marked(s, y) \subseteq 1..Len(s)
      /\ Marked(t, y) \subseteq 1..Len(t) /\ DOMAIN t = 1..Len(t)
  BY DEF Marked
<1>3. Marked(t, y) = M \cup (IF x = y THEN {1} ELSE {})
  <2>1. ASSUME NEW j \in Marked(t, y), j # 1
        PROVE  j \in M
    <3>1. j - 1 \in 1..Len(s) /\ t[(j - 1) + 1] = y /\ j = (j - 1) + 1
      BY <1>1, <1>2, <2>1 DEF Marked
    <3>. QED
      BY <3>1, <1>1 DEF Marked
  <2>2. \A i \in Marked(s, y) : i + 1 \in Marked(t, y)
    BY <1>1, <1>2 DEF Marked
  <2>3. 1 \in Marked(t, y) <=> x = y
    BY <1>1, <1>2 DEF Marked
  <2>. QED
    BY <2>1, <2>2, <2>3
<1>4. f \in Bijection(Marked(s, y), M)
  BY <1>2 DEF Bijection, Injection, Surjection, IsInjective
<1>5. IsFiniteSet(M) /\ Cardinality(M) = Depth(s, y) /\ 1 \notin M
  <2>1. 1 \notin M
    BY <1>2
  <2>. HIDE DEF M, f
  <2>2. ExistsBijection(Marked(s, y), M)
    BY <1>4 DEF ExistsBijection
  <2>. QED
    BY <2>1, <2>2, DepthIs, FS_Bijection
<1>6. Depth(t, y) = Cardinality(Marked(t, y)) /\ Depth(s, y) \in Nat
  BY <1>1, DepthIs
<1>. HIDE DEF t, M
<1>7. CASE x = y
  <2>1. Marked(t, y) = M \cup {1}
    BY <1>3, <1>7
  <2>2. Cardinality(M \cup {1}) = Cardinality(M) + 1
    BY <1>5, FS_AddElement
  <2>. QED
    BY <2>1, <2>2, <1>5, <1>6, <1>7 DEF t
<1>8. CASE x # y
  <2>1. Marked(t, y) = M
    BY <1>3, <1>8
  <2>. QED
    BY <2>1, <1>5, <1>6, <1>8 DEF t
<1>. QED
  BY <1>7, <1>8

\* Outside every value nothing is counted; leaving one uncounts it.
LEMMA DepthPopped ==
  /\ \A y : Depth(<<>>, y) = 0
  /\ \A s \in Seq(Scopes), y \in Scopes :
       s # <<>> => /\ Depth(Tail(s), y) \in Nat
                   /\ Depth(s, y) = Depth(Tail(s), y) + (IF s[1] = y THEN 1 ELSE 0)
<1>1. \A y : Depth(<<>>, y) = 0
  <2>1. \A y : Marked(<<>>, y) = {}
    BY DEF Marked
  <2>. QED
    BY <2>1, FS_EmptySet DEF Depth, Marked
<1>2. ASSUME NEW s \in Seq(Scopes), NEW y \in Scopes, s # <<>>
      PROVE  /\ Depth(Tail(s), y) \in Nat
             /\ Depth(s, y) = Depth(Tail(s), y) + (IF s[1] = y THEN 1 ELSE 0)
  <2>1. s = <<s[1]>> \o Tail(s) /\ s[1] \in Scopes /\ Tail(s) \in Seq(Scopes)
    BY <1>2
  <2>2. Depth(<<s[1]>> \o Tail(s), y) = Depth(Tail(s), y) + (IF s[1] = y THEN 1 ELSE 0)
    BY <2>1, DepthPushed
  <2>3. Depth(s, y) = Depth(Tail(s), y) + (IF s[1] = y THEN 1 ELSE 0)
    BY <2>1, <2>2, Zenon
  <2>. QED
    BY <2>1, <2>3, DepthIs
<1>. QED
  BY <1>1, <1>2

-----------------------------------------------------------------------------
\* While a document is read, the parser, the grammar and the lexer agree.

LEMMA StandingIs ==
  /\ \A at \in {"tableKey", "tableMore", "arrayTableKey", "arrayTableMore", "headerEnd",
                "pairKey", "pairMore", "value", "element", "separator", "firstPair",
                "pairEnd", "parsed"} : Standing[at] = at
  /\ Standing["line"] = "document" /\ Standing["lineEnd"] = "document"
  /\ Standing["tableOpen"] = "tableKey" /\ Standing["arrayTableClose"] = "failed"
  BY DEF Standing, Cat, Positions, ParserMoves

LEMMA ReadingInStep == IInv /\ Reading => TypeOK /\ InStep /\ grammar.at # "parsed"
  BY StandingIs DEF IInv, Reading, InStep, Stopped

\* The depths, by what is innermost.
LEMMA DepthsBy ==
  ASSUME TypeOK, InStep
  PROVE  /\ Enclosing(grammar.nest) \in {"document"} \cup Scopes
         /\ Enclosing(grammar.nest) = "document" <=> grammar.nest = <<>>
         /\ Enclosing(grammar.nest) = "document" => arrayDepth = 0 /\ inlineTableDepth = 0
         /\ Enclosing(grammar.nest) = "array" => arrayDepth > 0
         /\ Enclosing(grammar.nest) = "inline" => inlineTableDepth > 0
  BY DepthPopped, DepthIs DEF InStep, TypeOK, Descents, Enclosing, Scopes

\* What a token makes of the two descents, and why they stay in step: both lost,
\* both moved on one level, both back in what surrounds a finished value, both
\* a level down or up.
LEMMA LostIs ==
  Lost \in Descents(ParserPlaces) /\ Lost \in Descents(GrammarPlaces) /\ Lost.at = "failed"
  BY DEF Lost, Descents, GrammarPlaces, ParserPlaces

LEMMA BothLost ==
  ASSUME LexerOK', parser' = Lost, grammar' = Lost
  PROVE  IInv'
  BY LostIs DEF IInv, TypeOK, Stopped

Goes == GrammarPlaces \ {"arrayTableClose", "sameLine", "failed"}

LEMMA BothMoved ==
  ASSUME TypeOK, InStep, LexerOK', NEW at \in Goes,
         parser' = To(parser, Standing[at]), grammar' = To(grammar, at),
         UNCHANGED Depths, Placed', Contexts'
  PROVE  IInv'
<1>1. Standing[at] \in ParserPlaces
  BY StandingIs DEF Goes, GrammarPlaces, ParserPlaces
<1>2. parser' \in Descents(ParserPlaces) /\ grammar' \in Descents(GrammarPlaces)
  BY <1>1 DEF TypeOK, Descents, To, Goes
<1>. QED
  BY <1>2 DEF IInv, TypeOK, InStep, To, Goes, Depths

LEMMA ResumeIs ==
  /\ Parser.resume["document"] = "document" /\ Grammar.resume["document"] = "lineEnd"
  /\ Parser.resume["array"] = "separator" /\ Grammar.resume["array"] = "separator"
  /\ Parser.resume["inline"] = "pairEnd" /\ Grammar.resume["inline"] = "pairEnd"
  BY ParserIs, GrammarIs

LEMMA BothResumed ==
  ASSUME TypeOK, InStep, LexerOK', ~afterNewline',
         parser' = To(parser, Parser.resume[Enclosing(parser.nest)]),
         grammar' = To(grammar, Grammar.resume[Enclosing(grammar.nest)]),
         UNCHANGED Depths
  PROVE  IInv'
<1>. DEFINE within == Enclosing(grammar.nest)
            at == Grammar.resume[within]
<1>1. within \in {"document"} \cup Scopes /\ (within = "document" <=> grammar.nest = <<>>)
  BY DepthsBy
<1>2. /\ at \in {"lineEnd", "separator", "pairEnd"} /\ at \in Goes
      /\ at = "lineEnd" => within = "document"
      /\ at = "separator" => within = "array"
      /\ at = "pairEnd" => within = "inline"
      /\ Parser.resume[within] = Standing[at]
  BY <1>1, ResumeIs, StandingIs DEF Scopes, Goes, GrammarPlaces, ParserPlaces
<1>. HIDE DEF at
<1>3. grammar' = To(grammar, at) /\ parser' = To(parser, Standing[at])
  BY <1>2 DEF at, InStep
<1>4. Placed' /\ Contexts'
  BY <1>1, <1>2, <1>3 DEF Placed, Contexts, To
<1>. QED
  BY <1>2, <1>3, <1>4, BothMoved

LEMMA BothEntered ==
  ASSUME TypeOK, InStep, LexerOK',
         NEW at, NEW scope,
         <<at, scope>> \in {<<"element", "array">>, <<"firstPair", "inline">>},
         parser' = Into(parser, at, scope), grammar' = Into(grammar, at, scope),
         scopeStack' = <<scope>> \o scopeStack,
         arrayDepth' = arrayDepth + (IF scope = "array" THEN 1 ELSE 0),
         inlineTableDepth' = inlineTableDepth + (IF scope = "inline" THEN 1 ELSE 0),
         at = "element" => ctx' = "value", at = "firstPair" => ctx' = "key"
  PROVE  IInv'
<1>. DEFINE nest == <<scope>> \o grammar.nest
<1>1. /\ scope \in Scopes
      /\ at \in {"element", "firstPair"} /\ grammar.nest \in Seq(Scopes)
  BY DEF Scopes, TypeOK, Descents
<1>2. nest \in Seq(Scopes) /\ nest # <<>> /\ nest[1] = scope
  BY <1>1
<1>3. \A y : Depth(nest, y) = Depth(grammar.nest, y) + (IF scope = y THEN 1 ELSE 0)
  BY <1>1, DepthPushed
<1>4. grammar' = [at |-> at, nest |-> nest] /\ parser' = [at |-> at, nest |-> nest]
  BY DEF Into, InStep
<1>. HIDE DEF nest
<1>5. TypeOK'
  BY <1>1, <1>2, <1>4 DEF TypeOK, Descents, GrammarPlaces, ParserPlaces
<1>6. Placed' /\ Contexts'
  BY <1>1, <1>2, <1>4 DEF Placed, Contexts, Enclosing
<1>7. scopeStack' = nest
  BY DEF InStep, nest
<1>. QED
  BY <1>1, <1>3, <1>4, <1>5, <1>6, <1>7, StandingIs DEF IInv, InStep

LEMMA BothLeft ==
  ASSUME TypeOK, InStep, LexerOK', ~afterNewline',
         NEW scope \in Scopes, Enclosing(grammar.nest) = scope,
         parser' = OutOf(Parser, parser), grammar' = OutOf(Grammar, grammar),
         scopeStack' = Tail(scopeStack),
         arrayDepth' = arrayDepth - (IF scope = "array" THEN 1 ELSE 0),
         inlineTableDepth' = inlineTableDepth - (IF scope = "inline" THEN 1 ELSE 0)
  PROVE  IInv'
<1>. DEFINE nest == Tail(grammar.nest)
            at == Grammar.resume[Enclosing(nest)]
<1>1. grammar.nest \in Seq(Scopes) /\ grammar.nest # <<>> /\ grammar.nest[1] = scope
  BY DEF Enclosing, Scopes, TypeOK, Descents
<1>2. nest \in Seq(Scopes)
  BY <1>1
<1>3. \A y \in Scopes : /\ Depth(nest, y) \in Nat
                        /\ Depth(grammar.nest, y) = Depth(nest, y) + (IF scope = y THEN 1 ELSE 0)
  BY <1>1, DepthPopped
<1>4. /\ Enclosing(nest) \in {"document"} \cup Scopes
      /\ Enclosing(nest) = "document" <=> nest = <<>>
  BY <1>2 DEF Enclosing, Scopes
<1>5. /\ at \in {"lineEnd", "separator", "pairEnd"} /\ at \in Goes
      /\ at = "lineEnd" => Enclosing(nest) = "document"
      /\ at = "separator" => Enclosing(nest) = "array"
      /\ at = "pairEnd" => Enclosing(nest) = "inline"
      /\ Parser.resume[Enclosing(nest)] = Standing[at]
      /\ Standing[at] \in ParserPlaces
  BY <1>4, ResumeIs, StandingIs DEF Scopes, Goes, GrammarPlaces, ParserPlaces
<1>6. /\ grammar' = [at |-> at, nest |-> nest]
      /\ parser' = [at |-> Standing[at], nest |-> nest]
  BY <1>5 DEF OutOf, InStep
<1>7. scopeStack' = nest
  BY DEF InStep
<1>. HIDE DEF nest, at
<1>8. TypeOK'
  BY <1>2, <1>5, <1>6 DEF TypeOK, Descents, Goes
<1>9. Placed' /\ Contexts'
  BY <1>4, <1>5, <1>6 DEF Placed, Contexts
<1>. QED
  BY <1>3, <1>5, <1>6, <1>7, <1>8, <1>9 DEF IInv, InStep, Scopes, Goes

\* A token takes the parser to one of its places.
LEMMA ParserTyped ==
  ASSUME NEW p \in Descents(ParserPlaces), NEW s \in Tokens
  PROVE  Take(Parser, p, s) \in Descents(ParserPlaces)
<1>1. Take(Parser, p, s) = Taken(Parser, p, s)
  BY ParserTakes
<1>2. Enclosing(p.nest) \in {"document"} \cup Scopes /\ p.at \in ParserPlaces
  BY DEF Descents, Enclosing, Scopes
<1>3. CASE Moves(Parser, p, s)
  <2>1. ParserMoves[p.at][s] \in ParserPlaces
    BY <1>2, <1>3, ParserIs, ParserRange DEF Moves
  <2>. QED
    BY <1>1, <1>3, <2>1, ParserIs DEF Taken, To, Descents
<1>4. CASE ~Moves(Parser, p, s) /\ IsValue(Parser, p, s)
  BY <1>1, <1>2, <1>4, ResumeIs DEF Taken, To, Descents, Scopes, ParserPlaces
<1>5. CASE ~Moves(Parser, p, s) /\ ~IsValue(Parser, p, s) /\ IsOpening(Parser, p, s)
  BY <1>1, <1>5, ParserIs DEF Taken, Into, IsOpening, Descents, Scopes, ParserPlaces
<1>6. CASE /\ ~Moves(Parser, p, s) /\ ~IsValue(Parser, p, s) /\ ~IsOpening(Parser, p, s)
           /\ IsClosing(Parser, p, s)
  <2>1. Tail(p.nest) \in Seq(Scopes)
    BY <1>6 DEF IsClosing, Enclosing, Descents, Scopes
  <2>2. Enclosing(Tail(p.nest)) \in {"document"} \cup Scopes
    BY <2>1 DEF Enclosing
  <2>3. Parser.resume[Enclosing(Tail(p.nest))] \in ParserPlaces
    BY <2>2, ResumeIs DEF Scopes, ParserPlaces
  <2>. QED
    BY <1>1, <1>6, <2>1, <2>3 DEF Taken, OutOf, Descents
<1>7. CASE /\ ~Moves(Parser, p, s) /\ ~IsValue(Parser, p, s) /\ ~IsOpening(Parser, p, s)
           /\ ~IsClosing(Parser, p, s)
  BY <1>1, <1>7, LostIs DEF Taken
<1>. QED
  BY <1>3, <1>4, <1>5, <1>6, <1>7

\* Behind a pair, on its line, the grammar ends whatever the parser does.
LEMMA OnSameLine ==
  ASSUME TypeOK, LexerOK', parser' \in Descents(ParserPlaces),
         grammar' = To(grammar, "sameLine")
  PROVE  IInv'
  BY DEF IInv, TypeOK, Stopped, To, Descents, GrammarPlaces, ParserPlaces

-----------------------------------------------------------------------------
\* One action at a time.

\* Where a document is read, both descents can be taken apart.
LEMMA Reads ==
  ASSUME IInv, Reading
  PROVE  /\ TypeOK /\ InStep
         /\ parser \in Descents(ParserPlaces) /\ grammar \in Descents(GrammarPlaces)
         /\ grammar.at \in Goes \ {"parsed"}
         /\ parser.at = Standing[grammar.at]
  BY ReadingInStep DEF InStep, TypeOK, Goes, Descents

LEMMA StackTyped ==
  ASSUME NEW s \in Seq(Scopes)
  PROVE  /\ \A x \in Scopes : <<x>> \o s \in Seq(Scopes)
         /\ (IF s = <<>> THEN <<>> ELSE Tail(s)) \in Seq(Scopes)
<1>1. \A x \in Scopes : <<x>> \o s \in Seq(Scopes)
  OBVIOUS
<1>2. s # <<>> => Tail(s) \in Seq(Scopes)
  OBVIOUS
<1>. QED
  BY <1>1, <1>2

LEMMA NewlineStep == ASSUME IInv, Reading, LexNewline PROVE IInv'
<1>1. /\ parser' = Take(Parser, parser, "Newline")
      /\ grammar' = Take(Grammar, grammar, "newline")
      /\ LexerOK' /\ UNCHANGED Depths /\ afterNewline'
  BY Reads
  DEF LexNewline, Emits, Emit, Follow, Pieces, StartsLine, Depths, TypeOK, LexerOK
<1>2. CASE grammar.at \in {"line", "headerEnd", "lineEnd"}
  <2>1. parser' = To(parser, Standing["line"]) /\ grammar' = To(grammar, "line")
    BY <1>1, <1>2, Reads, StandingIs, ParserNewline, GrammarNewline
  <2>2. ctx' = "key"
    BY <1>2, Reads, DepthsBy DEF LexNewline, InStep, Placed
  <2>3. Placed' /\ Contexts'
    BY <1>1, <1>2, <2>1, <2>2, Reads DEF InStep, Placed, Contexts, To
  <2>. QED
    BY <1>1, <2>1, <2>3, Reads, BothMoved DEF Goes, GrammarPlaces
<1>3. CASE grammar.at \in {"element", "separator"}
  <2>1. parser' = To(parser, Standing[grammar.at]) /\ grammar' = To(grammar, grammar.at)
    BY <1>1, <1>3, Reads, StandingIs, ParserNewline, GrammarNewline
  <2>2. ctx' = ctx
    BY <1>3, Reads, DepthsBy DEF LexNewline, InStep, Placed, TypeOK, LexerOK
  <2>3. Placed' /\ Contexts'
    BY <1>3, <2>1, <2>2, Reads DEF InStep, Placed, Contexts, To
  <2>. QED
    BY <1>1, <2>1, <2>3, Reads, BothMoved
<1>4. CASE grammar.at \notin {"line", "headerEnd", "lineEnd", "element", "separator"}
  <2>1. parser' = Lost /\ grammar' = Lost
    BY <1>1, <1>4, Reads, StandingIs, ParserNewline, GrammarNewline
    DEF Goes, GrammarPlaces, ParserPlaces
  <2>. QED
    BY <1>1, <2>1, BothLost
<1>. QED
  BY <1>2, <1>3, <1>4

LEMMA WhitespaceStep == ASSUME IInv, Reading, LexWhitespace PROVE IInv'
<1>1. /\ parser' = Take(Parser, parser, "Whitespace")
      /\ grammar' = Take(Grammar, grammar, "space")
      /\ LexerOK' /\ UNCHANGED Depths /\ UNCHANGED <<ctx, afterNewline>>
  BY Reads
  DEF LexWhitespace, Emits, Emit, Follow, Pieces, Depths, lexer, TypeOK, LexerOK
<1>. DEFINE at == IF grammar.at = "tableOpen" THEN "tableKey" ELSE grammar.at
<1>2. at \in Goes \ {"tableOpen"} /\ Standing[at] = Standing[grammar.at]
  BY Reads, StandingIs DEF Goes, GrammarPlaces, ParserPlaces
<1>3. parser' = To(parser, Standing[at]) /\ grammar' = To(grammar, at)
  BY <1>1, <1>2, Reads, StandingIs, ParserWhitespace, GrammarSpace
  DEF Goes, GrammarPlaces, ParserPlaces
<1>4. Placed' /\ Contexts'
  BY <1>1, <1>2, <1>3, Reads DEF InStep, Placed, Contexts, To
<1>. QED
  BY <1>1, <1>2, <1>3, <1>4, Reads, BothMoved

LEMMA CommentStep == ASSUME IInv, Reading, LexComment PROVE IInv'
<1>1. /\ parser' = Take(Parser, parser, "Comment")
      /\ grammar' = Take(Grammar, grammar, "comment")
      /\ LexerOK' /\ UNCHANGED Depths /\ UNCHANGED <<ctx, afterNewline>>
  BY Reads DEF LexComment, Emits, Emit, Follow, Pieces, Depths, lexer, TypeOK, LexerOK
<1>2. CASE grammar.at \in {"line", "headerEnd", "lineEnd", "element", "separator"}
  <2>1. parser' = To(parser, Standing[grammar.at]) /\ grammar' = To(grammar, grammar.at)
    BY <1>1, <1>2, Reads, StandingIs, ParserComment, GrammarComment
  <2>2. Placed' /\ Contexts'
    BY <1>1, <1>2, <2>1, Reads DEF InStep, Placed, Contexts, To
  <2>. QED
    BY <1>1, <2>1, <2>2, Reads, BothMoved
<1>3. CASE grammar.at \notin {"line", "headerEnd", "lineEnd", "element", "separator"}
  <2>1. parser' = Lost /\ grammar' = Lost
    BY <1>1, <1>3, Reads, StandingIs, ParserComment, GrammarComment
    DEF Goes, GrammarPlaces, ParserPlaces
  <2>. QED
    BY <1>1, <2>1, BothLost
<1>. QED
  BY <1>2, <1>3

LEMMA EqualsStep == ASSUME IInv, Reading, LexEquals PROVE IInv'
<1>1. /\ parser' = Take(Parser, parser, "Equals")
      /\ grammar' = Take(Grammar, grammar, "equals")
      /\ LexerOK' /\ UNCHANGED Depths /\ ctx' = "value"
  BY Reads
  DEF LexEquals, Emits, Emit, Follow, Pieces, StartsLine, Depths, TypeOK, LexerOK
<1>2. CASE grammar.at = "pairMore"
  <2>1. parser' = To(parser, Standing["value"]) /\ grammar' = To(grammar, "value")
    BY <1>1, <1>2, Reads, StandingIs, ParserEquals, GrammarEquals
  <2>2. Placed' /\ Contexts'
    BY <1>1, <1>2, <2>1, Reads DEF InStep, Placed, Contexts, To
  <2>. QED
    BY <1>1, <2>1, <2>2, Reads, BothMoved DEF Goes, GrammarPlaces, ParserPlaces
<1>3. CASE grammar.at # "pairMore"
  <2>1. parser' = Lost /\ grammar' = Lost
    BY <1>1, <1>3, Reads, StandingIs, ParserEquals, GrammarEquals
    DEF Goes, GrammarPlaces, ParserPlaces
  <2>. QED
    BY <1>1, <2>1, BothLost
<1>. QED
  BY <1>2, <1>3

LEMMA DotStep == ASSUME IInv, Reading, LexDot PROVE IInv'
<1>1. /\ parser' = Take(Parser, parser, "Dot")
      /\ grammar' = Take(Grammar, grammar, "dot")
      /\ LexerOK' /\ UNCHANGED Depths /\ ctx' = "key"
  BY Reads DEF LexDot, Emits, Emit, Follow, Pieces, StartsLine, Depths, TypeOK, LexerOK
<1>2. ASSUME NEW more, NEW part,
             <<more, part>> \in {<<"tableMore", "tableKey">>, <<"pairMore", "pairKey">>,
                                 <<"arrayTableMore", "arrayTableKey">>},
             grammar.at = more
      PROVE  IInv'
  <2>1. parser' = To(parser, Standing[part]) /\ grammar' = To(grammar, part)
    BY <1>1, <1>2, Reads, StandingIs, ParserDot, GrammarDot
  <2>2. Placed' /\ Contexts'
    BY <1>1, <1>2, <2>1, Reads DEF InStep, Placed, Contexts, To
  <2>. QED
    BY <1>1, <1>2, <2>1, <2>2, Reads, BothMoved DEF Goes, GrammarPlaces, ParserPlaces
<1>3. CASE grammar.at \notin {"tableMore", "arrayTableMore", "pairMore"}
  <2>1. parser' = Lost /\ grammar' = Lost
    BY <1>1, <1>3, Reads, StandingIs, ParserDot, GrammarDot
    DEF Goes, GrammarPlaces, ParserPlaces
  <2>. QED
    BY <1>1, <2>1, BothLost
<1>. QED
  BY <1>2, <1>3

LEMMA CommaStep == ASSUME IInv, Reading, LexComma PROVE IInv'
<1>1. /\ parser' = Take(Parser, parser, "Comma")
      /\ grammar' = Take(Grammar, grammar, "comma")
      /\ LexerOK' /\ UNCHANGED Depths /\ ctx' = CommaContext
  <2>1. scopeStack # <<>> => scopeStack[1] \in Scopes
    BY Reads DEF TypeOK, LexerOK
  <2>2. CommaContext \in {"key", "value"}
    BY <2>1, Reads DEF CommaContext, Scopes, TypeOK, LexerOK
  <2>. QED
    BY <2>2, Reads
    DEF LexComma, Emits, Emit, Follow, Pieces, StartsLine, Depths, TypeOK, LexerOK
<1>2. ASSUME NEW end, NEW next, NEW scope,
             <<end, next, scope>> \in
               {<<"separator", "element", "array">>, <<"pairEnd", "pairKey", "inline">>},
             grammar.at = end
      PROVE  IInv'
  <2>1. parser' = To(parser, Standing[next]) /\ grammar' = To(grammar, next)
    BY <1>1, <1>2, Reads, StandingIs, ParserComma, GrammarComma
  <2>2. scopeStack # <<>> /\ scopeStack[1] = scope
    BY <1>2, Reads DEF InStep, Placed, Enclosing
  <2>3. ctx' = [array |-> "value", inline |-> "key"][scope]
    BY <1>1, <2>2 DEF CommaContext
  <2>4. Placed' /\ Contexts'
    BY <1>2, <2>1, <2>3, Reads DEF InStep, Placed, Contexts, To
  <2>. QED
    BY <1>1, <1>2, <2>1, <2>4, Reads, BothMoved DEF Goes, GrammarPlaces, ParserPlaces
<1>3. CASE grammar.at \notin {"separator", "pairEnd"}
  <2>1. parser' = Lost /\ grammar' = Lost
    BY <1>1, <1>3, Reads, StandingIs, ParserComma, GrammarComma
    DEF Goes, GrammarPlaces, ParserPlaces
  <2>. QED
    BY <1>1, <2>1, BothLost
<1>. QED
  BY <1>2, <1>3

LEMMA LeftBracketStep == ASSUME IInv, Reading, LexLeftBracket PROVE IInv'
<1>1. /\ ch = "leftBracket" /\ afterNewline' = FALSE
      /\ inlineTableDepth' = inlineTableDepth /\ ctx' = ctx
  BY DEF LexLeftBracket, StartsLine
\* An array is entered, wherever the lexer takes the bracket for one.
<1>2. CASE ctx = "value"
  <2>1. /\ parser' = Take(Parser, parser, "LeftBracket")
        /\ grammar' = Take(Grammar, grammar, "leftBracket")
        /\ scopeStack' = <<"array">> \o scopeStack /\ arrayDepth' = arrayDepth + 1
        /\ ch' \in Pieces
    BY <1>1, <1>2 DEF LexLeftBracket, Emits, Emit, Push, Follow, Pieces
  <2>2. LexerOK'
    <3>1. scopeStack' \in Seq(Scopes)
      BY <1>1, <2>1, Reads, StackTyped DEF TypeOK, LexerOK, Scopes
    <3>2. afterNewline' \in BOOLEAN
      BY <1>1
    <3>3. arrayDepth' \in Nat /\ inlineTableDepth' \in Nat
      BY <1>1, <2>1, Reads DEF TypeOK, LexerOK
    <3>4. ch' \in Pieces /\ ctx' \in {"key", "value"}
      BY <1>1, <2>1, Reads DEF TypeOK, LexerOK
    <3>. QED
      BY <3>1, <3>2, <3>3, <3>4 DEF LexerOK
  <2>3. CASE grammar.at \in {"value", "element"}
    <3>1. /\ parser' = Into(parser, "element", "array")
          /\ grammar' = Into(grammar, "element", "array")
      BY <2>1, <2>3, Reads, StandingIs, ParserLeftBracket, GrammarLeftBracket
    <3>. QED
      BY <1>1, <1>2, <2>1, <2>2, <3>1, Reads, BothEntered DEF TypeOK, LexerOK
  <2>4. CASE grammar.at = "lineEnd"
    BY <2>1, <2>2, <2>4, Reads, OnSameLine, ParserTyped, GrammarLeftBracket DEF Tokens
  <2>5. CASE grammar.at \notin {"value", "element", "lineEnd"}
    <3>1. grammar.at \in {"separator", "pairEnd"}
      BY <1>2, <2>5, Reads DEF InStep, Contexts, Goes, GrammarPlaces, ParserPlaces
    <3>2. parser' = Lost /\ grammar' = Lost
      BY <2>1, <3>1, Reads, StandingIs, ParserLeftBracket, GrammarLeftBracket
    <3>. QED
      BY <2>2, <3>2, BothLost
  <2>. QED
    BY <2>3, <2>4, <2>5
\* A header is opened, by one bracket or by two.
<1>3. CASE ctx = "key"
  <2>1. LexerOK' /\ UNCHANGED Depths
    BY <1>1, <1>3, Reads
    DEF LexLeftBracket, Emits, EmitsDouble, Follow, Pieces, Depths, TypeOK, LexerOK
  <2>2. grammar.at \notin {"value", "element", "tableOpen"}
    BY <1>1, <1>3, Reads DEF InStep, Contexts
  <2>3. CASE afterNewline /\ EmitsDouble("DoubleLeftBracket")
    <3>1. /\ parser' = Take(Parser, parser, "DoubleLeftBracket")
          /\ grammar' = Take(Grammar, Take(Grammar, grammar, "leftBracket"), "leftBracket")
      BY <1>1, <2>3 DEF EmitsDouble
    <3>2. CASE grammar.at = "line"
      <4>1. parser' = To(parser, Standing["arrayTableKey"])
        BY <3>1, <3>2, Reads, StandingIs, ParserDoubleLeftBracket
      <4>2. Take(Grammar, grammar, "leftBracket") = To(grammar, "tableOpen")
        BY <3>2, Reads, GrammarLeftBracket
      <4>3. To(grammar, "tableOpen") \in Descents(GrammarPlaces)
        BY Reads DEF To, Descents, GrammarPlaces
      <4>4. grammar' = To(grammar, "arrayTableKey")
        BY <3>1, <4>2, <4>3, GrammarLeftBracket DEF To
      <4>5. Placed' /\ Contexts'
        BY <1>1, <1>3, <3>2, <4>4, Reads DEF InStep, Placed, Contexts, To
      <4>. QED
        BY <2>1, <4>1, <4>4, <4>5, Reads, BothMoved
        DEF Goes, GrammarPlaces, ParserPlaces
    <3>3. CASE grammar.at # "line"
      <4>1. grammar.at # "lineEnd"
        BY <2>3, Reads DEF InStep, Contexts
      <4>2. parser' = Lost
        BY <3>1, <3>3, <4>1, Reads, StandingIs, ParserDoubleLeftBracket
        DEF Goes, GrammarPlaces, ParserPlaces
      <4>3. Take(Grammar, grammar, "leftBracket") = Lost
        BY <2>2, <3>3, <4>1, Reads, GrammarLeftBracket
      <4>4. grammar' = Lost
        BY <3>1, <4>3, LostIs, GrammarLeftBracket
      <4>. QED
        BY <2>1, <4>2, <4>4, BothLost
    <3>. QED
      BY <3>2, <3>3
  <2>4. CASE Emits("LeftBracket") /\ ~(afterNewline /\ ch' = "leftBracket")
    <3>1. /\ parser' = Take(Parser, parser, "LeftBracket")
          /\ grammar' = Take(Grammar, grammar, "leftBracket")
      BY <1>1, <2>4 DEF Emits, Emit
    <3>2. CASE grammar.at = "line"
      <4>1. /\ parser' = To(parser, Standing["tableOpen"])
            /\ grammar' = To(grammar, "tableOpen")
        BY <3>1, <3>2, Reads, StandingIs, ParserLeftBracket, GrammarLeftBracket
      <4>2. Placed' /\ Contexts'
        BY <1>1, <1>3, <2>4, <3>2, <4>1, Reads DEF InStep, Placed, Contexts, To
      <4>. QED
        BY <2>1, <4>1, <4>2, Reads, BothMoved DEF Goes, GrammarPlaces, ParserPlaces
    <3>3. CASE grammar.at = "lineEnd"
      BY <2>1, <3>1, <3>3, Reads, OnSameLine, ParserTyped, GrammarLeftBracket DEF Tokens
    <3>4. CASE grammar.at \notin {"line", "lineEnd"}
      <4>1. parser' = Lost /\ grammar' = Lost
        BY <2>2, <3>1, <3>4, Reads, StandingIs, ParserLeftBracket, GrammarLeftBracket
        DEF Goes, GrammarPlaces, ParserPlaces
      <4>. QED
        BY <2>1, <4>1, BothLost
    <3>. QED
      BY <3>2, <3>3, <3>4
  <2>. QED
    BY <1>1, <1>3, <2>3, <2>4 DEF LexLeftBracket
<1>. QED
  BY <1>2, <1>3, Reads DEF TypeOK, LexerOK

LEMMA RightBracketStep == ASSUME IInv, Reading, LexRightBracket PROVE IInv'
<1>1. /\ ch = "rightBracket"
      /\ afterNewline' = FALSE /\ inlineTableDepth' = inlineTableDepth
  BY DEF LexRightBracket, StartsLine
<1>2. CASE ClosesArray
  <2>1. /\ parser' = Take(Parser, parser, "RightBracket")
        /\ grammar' = Take(Grammar, grammar, "rightBracket")
        /\ arrayDepth' = arrayDepth - 1 /\ ctx' = ctx /\ ch' \in Pieces
        /\ scopeStack' = IF scopeStack = <<>> THEN <<>> ELSE Tail(scopeStack)
    BY <1>1, <1>2 DEF LexRightBracket, Emits, Emit, Pop, Follow, Pieces
  <2>2. LexerOK'
    <3>1. scopeStack' \in Seq(Scopes)
      BY <1>1, <1>2, <2>1, Reads, StackTyped DEF TypeOK, LexerOK, Scopes
    <3>2. afterNewline' \in BOOLEAN
      BY <1>1
    <3>3. arrayDepth' \in Nat /\ inlineTableDepth' \in Nat
      BY <1>1, <1>2, <2>1, Reads DEF TypeOK, LexerOK, ClosesArray
    <3>4. ch' \in Pieces /\ ctx' \in {"key", "value"}
      BY <1>1, <1>2, <2>1, Reads DEF TypeOK, LexerOK
    <3>. QED
      BY <3>1, <3>2, <3>3, <3>4 DEF LexerOK
  <2>3. CASE grammar.at \in {"element", "separator"}
    <3>1. /\ Enclosing(grammar.nest) = "array"
          /\ Enclosing(parser.nest) = "array" /\ scopeStack # <<>>
      BY <2>3, Reads DEF InStep, Placed, Enclosing
    <3>2. parser' = OutOf(Parser, parser) /\ grammar' = OutOf(Grammar, grammar)
      BY <2>1, <2>3, <3>1, Reads, StandingIs, ParserRightBracket, GrammarRightBracket
    <3>. QED
      BY <1>1, <2>1, <2>2, <3>1, <3>2, Reads, BothLeft DEF TypeOK, LexerOK, Scopes
  <2>4. CASE grammar.at \notin {"element", "separator"}
    <3>1. grammar.at \notin {"tableMore", "arrayTableMore"}
      BY <1>2, Reads, DepthsBy DEF ClosesArray, InStep, Placed
    <3>2. grammar.at \in {"firstPair", "pairEnd"} =>
            Enclosing(grammar.nest) # "array" /\ Enclosing(parser.nest) # "array"
      BY Reads DEF InStep, Placed
    <3>3. parser' = Lost /\ grammar' = Lost
      BY <2>1, <2>4, <3>1, <3>2, Reads, StandingIs, ParserRightBracket, GrammarRightBracket
      DEF Goes, GrammarPlaces, ParserPlaces
    <3>. QED
      BY <2>2, <3>3, BothLost
  <2>. QED
    BY <2>3, <2>4
\* Outside every array the bracket ends a header, one or two of them.
<1>3. CASE ~ClosesArray
  <2>1. LexerOK' /\ UNCHANGED Depths /\ ctx' = "key"
    BY <1>1, <1>3, Reads
    DEF LexRightBracket, Emits, EmitsDouble, Follow, Pieces, Depths, TypeOK, LexerOK
  <2>2. grammar.at \notin {"element", "separator"} /\ Enclosing(grammar.nest) # "array"
    BY <1>3, Reads, DepthsBy DEF ClosesArray, InStep, Placed
  <2>3. Enclosing(parser.nest) # "array"
    BY <2>2, Reads DEF InStep
  <2>4. CASE EmitsDouble("DoubleRightBracket")
    <3>1. /\ parser' = Take(Parser, parser, "DoubleRightBracket")
          /\ grammar' = Take(Grammar, Take(Grammar, grammar, "rightBracket"), "rightBracket")
      BY <1>1, <2>4 DEF EmitsDouble
    <3>2. CASE grammar.at = "arrayTableMore"
      <4>1. parser' = To(parser, Standing["headerEnd"])
        BY <3>1, <3>2, Reads, StandingIs, ParserDoubleRightBracket
      <4>2. Take(Grammar, grammar, "rightBracket") = To(grammar, "arrayTableClose")
        BY <3>2, Reads, GrammarRightBracket
      <4>3. To(grammar, "arrayTableClose") \in Descents(GrammarPlaces)
        BY Reads DEF To, Descents, GrammarPlaces
      <4>4. grammar' = To(grammar, "headerEnd")
        BY <3>1, <4>2, <4>3, GrammarRightBracket DEF To
      <4>5. Placed' /\ Contexts'
        BY <2>1, <3>2, <4>4, Reads DEF InStep, Placed, Contexts, To
      <4>. QED
        BY <2>1, <4>1, <4>4, <4>5, Reads, BothMoved
        DEF Goes, GrammarPlaces, ParserPlaces
    <3>3. CASE grammar.at # "arrayTableMore"
      <4>1. parser' = Lost
        BY <3>1, <3>3, Reads, StandingIs, ParserDoubleRightBracket
        DEF Goes, GrammarPlaces, ParserPlaces
      <4>2. \/ Take(Grammar, grammar, "rightBracket") = Lost
            \/ Take(Grammar, grammar, "rightBracket") = To(grammar, "headerEnd")
        BY <2>2, <3>3, Reads, GrammarRightBracket DEF Goes, GrammarPlaces, ParserPlaces
      <4>3. To(grammar, "headerEnd") \in Descents(GrammarPlaces)
        BY Reads DEF To, Descents, GrammarPlaces, ParserPlaces
      <4>4. Take(Grammar, Lost, "rightBracket") = Lost
        BY LostIs, GrammarRightBracket
      <4>5. Take(Grammar, To(grammar, "headerEnd"), "rightBracket") = Lost
        BY <4>3, GrammarRightBracket DEF To
      <4>6. grammar' = Lost
        BY <3>1, <4>2, <4>4, <4>5
      <4>. QED
        BY <2>1, <4>1, <4>6, BothLost
    <3>. QED
      BY <3>2, <3>3
  <2>5. CASE Emits("RightBracket") /\ ch' # "rightBracket"
    <3>1. /\ parser' = Take(Parser, parser, "RightBracket")
          /\ grammar' = Take(Grammar, grammar, "rightBracket")
      BY <1>1, <2>5 DEF Emits, Emit
    <3>2. CASE grammar.at = "tableMore"
      <4>1. /\ parser' = To(parser, Standing["headerEnd"])
            /\ grammar' = To(grammar, "headerEnd")
        BY <3>1, <3>2, Reads, StandingIs, ParserRightBracket, GrammarRightBracket
      <4>2. Placed' /\ Contexts'
        BY <2>1, <3>2, <4>1, Reads DEF InStep, Placed, Contexts, To
      <4>. QED
        BY <2>1, <4>1, <4>2, Reads, BothMoved DEF Goes, GrammarPlaces, ParserPlaces
    <3>3. CASE grammar.at = "arrayTableMore"
      <4>1. parser' = Lost /\ grammar' = To(grammar, "arrayTableClose")
        BY <3>1, <3>3, Reads, StandingIs, ParserRightBracket, GrammarRightBracket
      <4>. QED
        BY <2>1, <2>5, <4>1, Reads, LostIs
        DEF IInv, TypeOK, Stopped, To, Descents, GrammarPlaces
    <3>4. CASE grammar.at \notin {"tableMore", "arrayTableMore"}
      <4>1. parser' = Lost /\ grammar' = Lost
        BY <2>2, <2>3, <3>1, <3>4, Reads, StandingIs, ParserRightBracket, GrammarRightBracket
        DEF Goes, GrammarPlaces, ParserPlaces
      <4>. QED
        BY <2>1, <4>1, BothLost
    <3>. QED
      BY <3>2, <3>3, <3>4
  <2>. QED
    BY <1>3, <2>4, <2>5 DEF LexRightBracket
<1>. QED
  BY <1>2, <1>3

LEMMA LeftBraceStep == ASSUME IInv, Reading, LexLeftBrace PROVE IInv'
<1>1. /\ parser' = Take(Parser, parser, "LeftBrace")
      /\ grammar' = Take(Grammar, grammar, "leftBrace")
      /\ scopeStack' = <<"inline">> \o scopeStack
      /\ arrayDepth' = arrayDepth /\ inlineTableDepth' = inlineTableDepth + 1
      /\ ctx' = "key" /\ afterNewline' = FALSE /\ ch' \in Pieces
  BY DEF LexLeftBrace, Emits, Emit, Push, StartsLine, Follow, Pieces
<1>2. LexerOK'
  <2>1. scopeStack' \in Seq(Scopes)
    BY <1>1, Reads, StackTyped DEF TypeOK, LexerOK, Scopes
  <2>2. afterNewline' \in BOOLEAN
    BY <1>1
  <2>3. arrayDepth' \in Nat /\ inlineTableDepth' \in Nat
    BY <1>1, Reads DEF TypeOK, LexerOK
  <2>4. ch' \in Pieces /\ ctx' \in {"key", "value"}
    BY <1>1, Reads DEF TypeOK, LexerOK
  <2>. QED
    BY <2>1, <2>2, <2>3, <2>4 DEF LexerOK
<1>3. CASE grammar.at \in {"value", "element"}
  <2>1. /\ parser' = Into(parser, "firstPair", "inline")
        /\ grammar' = Into(grammar, "firstPair", "inline")
    BY <1>1, <1>3, Reads, StandingIs, ParserLeftBrace, GrammarLeftBrace
  <2>. QED
    BY <1>1, <1>2, <2>1, Reads, BothEntered DEF TypeOK, LexerOK
<1>4. CASE grammar.at \notin {"value", "element"}
  <2>1. parser' = Lost /\ grammar' = Lost
    BY <1>1, <1>4, Reads, StandingIs, ParserLeftBrace, GrammarLeftBrace
    DEF Goes, GrammarPlaces, ParserPlaces
  <2>. QED
    BY <1>2, <2>1, BothLost
<1>. QED
  BY <1>3, <1>4

LEMMA RightBraceStep == ASSUME IInv, Reading, LexRightBrace PROVE IInv'
<1>1. /\ parser' = Take(Parser, parser, "RightBrace")
      /\ grammar' = Take(Grammar, grammar, "rightBrace")
      /\ scopeStack' = IF scopeStack = <<>> THEN <<>> ELSE Tail(scopeStack)
      /\ inlineTableDepth' = IF inlineTableDepth > 0 THEN inlineTableDepth - 1 ELSE 0
      /\ arrayDepth' = arrayDepth /\ ctx' = ctx /\ afterNewline' = FALSE /\ ch' \in Pieces
  BY DEF LexRightBrace, Emits, Emit, PopsBrace, Pop, StartsLine, Follow, Pieces
<1>2. LexerOK'
  <2>1. scopeStack' \in Seq(Scopes)
    BY <1>1, Reads, StackTyped DEF TypeOK, LexerOK, Scopes
  <2>2. afterNewline' \in BOOLEAN
    BY <1>1
  <2>3. arrayDepth' \in Nat /\ inlineTableDepth' \in Nat
    BY <1>1, Reads DEF TypeOK, LexerOK
  <2>4. ch' \in Pieces /\ ctx' \in {"key", "value"}
    BY <1>1, Reads DEF TypeOK, LexerOK
  <2>. QED
    BY <2>1, <2>2, <2>3, <2>4 DEF LexerOK
<1>3. CASE grammar.at \in {"firstPair", "pairEnd"}
  <2>1. /\ Enclosing(grammar.nest) = "inline" /\ Enclosing(parser.nest) = "inline"
        /\ scopeStack # <<>> /\ inlineTableDepth > 0
    BY <1>3, Reads, DepthsBy DEF InStep, Placed, Enclosing
  <2>2. parser' = OutOf(Parser, parser) /\ grammar' = OutOf(Grammar, grammar)
    BY <1>1, <1>3, <2>1, Reads, StandingIs, ParserRightBrace, GrammarRightBrace
  <2>. QED
    BY <1>1, <1>2, <2>1, <2>2, Reads, BothLeft DEF TypeOK, LexerOK, Scopes
<1>4. CASE grammar.at \notin {"firstPair", "pairEnd"}
  <2>1. grammar.at \in {"element", "separator"} =>
          Enclosing(grammar.nest) # "inline" /\ Enclosing(parser.nest) # "inline"
    BY Reads DEF InStep, Placed
  <2>2. parser' = Lost /\ grammar' = Lost
    BY <1>1, <1>4, <2>1, Reads, StandingIs, ParserRightBrace, GrammarRightBrace
    DEF Goes, GrammarPlaces, ParserPlaces
  <2>. QED
    BY <1>2, <2>2, BothLost
<1>. QED
  BY <1>3, <1>4

\* The places a part of a key may stand at, and where it leads.
PartAt ==
  [line |-> "pairMore", pairKey |-> "pairMore", firstPair |-> "pairMore",
   tableOpen |-> "tableMore", tableKey |-> "tableMore", arrayTableKey |-> "arrayTableMore"]
AtPart == {"line", "pairKey", "firstPair", "tableOpen", "tableKey", "arrayTableKey"}

\* A part of a key, read in the context of keys.
LEMMA PartRead ==
  ASSUME TypeOK, InStep, LexerOK', UNCHANGED Depths, ctx' = ctx, grammar.at \in AtPart,
         parser' = To(parser, Standing[PartAt[grammar.at]]),
         grammar' = To(grammar, PartAt[grammar.at])
  PROVE  IInv'
<1>. DEFINE more == PartAt[grammar.at]
<1>1. more \in {"pairMore", "tableMore", "arrayTableMore"} /\ more \in Goes
  BY DEF PartAt, AtPart, Goes, GrammarPlaces, ParserPlaces
<1>2. more \in {"tableMore", "arrayTableMore"} <=>
        grammar.at \in {"tableOpen", "tableKey", "arrayTableKey"}
  BY DEF PartAt, AtPart
<1>. HIDE DEF more
<1>3. grammar' = To(grammar, more) /\ parser' = To(parser, Standing[more])
  BY DEF more
<1>4. Placed' /\ Contexts'
  BY <1>1, <1>2, <1>3 DEF InStep, Placed, Contexts, To, AtPart, Enclosing
<1>. QED
  BY <1>1, <1>3, <1>4, BothMoved

LEMMA StringStep == ASSUME IInv, Reading, LexString PROVE IInv'
<1>1. LexerOK' /\ UNCHANGED Depths /\ ctx' = ctx /\ ~afterNewline'
  BY Reads
  DEF LexString, Emits, Emit, Follow, Pieces, StartsLine, Depths, TypeOK, LexerOK
<1>2. CASE ch = "string" /\ Emits("String")
  <2>1. /\ parser' = Take(Parser, parser, "String")
        /\ grammar' = Take(Grammar, grammar, "string")
    BY <1>2 DEF Emits, Emit
  <2>2. CASE grammar.at \in AtPart
    <3>1. /\ parser' = To(parser, Standing[PartAt[grammar.at]])
          /\ grammar' = To(grammar, PartAt[grammar.at])
      BY <2>1, <2>2, Reads, StandingIs, ParserString, GrammarString DEF AtPart, PartAt
    <3>. QED
      BY <1>1, <2>2, <3>1, Reads, PartRead
  <2>3. CASE grammar.at = "lineEnd"
    BY <1>1, <2>1, <2>3, Reads, OnSameLine, ParserTyped, GrammarString DEF Tokens
  <2>4. CASE grammar.at \in {"value", "element"}
    <3>1. /\ parser' = To(parser, Parser.resume[Enclosing(parser.nest)])
          /\ grammar' = To(grammar, Grammar.resume[Enclosing(grammar.nest)])
      BY <2>1, <2>4, Reads, StandingIs, ParserString, GrammarString
    <3>. QED
      BY <1>1, <3>1, Reads, BothResumed
  <2>5. CASE grammar.at \notin AtPart \cup {"lineEnd", "value", "element"}
    <3>1. parser' = Lost /\ grammar' = Lost
      BY <2>1, <2>5, Reads, StandingIs, ParserString, GrammarString
      DEF AtPart, Goes, GrammarPlaces, ParserPlaces
    <3>. QED
      BY <1>1, <3>1, BothLost
  <2>. QED
    BY <2>2, <2>3, <2>4, <2>5
<1>3. CASE ch = "multiline" /\ Emits("MultiLine")
  <2>1. /\ parser' = Take(Parser, parser, "MultiLine")
        /\ grammar' = Take(Grammar, grammar, "multiline")
    BY <1>3 DEF Emits, Emit
  <2>2. CASE grammar.at \in {"value", "element"}
    <3>1. /\ parser' = To(parser, Parser.resume[Enclosing(parser.nest)])
          /\ grammar' = To(grammar, Grammar.resume[Enclosing(grammar.nest)])
      BY <2>1, <2>2, Reads, StandingIs, ParserMultiLine, GrammarMultiLine
    <3>. QED
      BY <1>1, <3>1, Reads, BothResumed
  <2>3. CASE grammar.at \notin {"value", "element"}
    <3>1. parser' = Lost /\ grammar' = Lost
      BY <2>1, <2>3, Reads, StandingIs, ParserMultiLine, GrammarMultiLine
      DEF Goes, GrammarPlaces, ParserPlaces
    <3>. QED
      BY <1>1, <3>1, BothLost
  <2>. QED
    BY <2>2, <2>3
<1>. QED
  BY <1>2, <1>3 DEF LexString

LEMMA BareKeyStep == ASSUME IInv, Reading, LexBareKey PROVE IInv'
<1>1. LexerOK' /\ UNCHANGED Depths /\ ctx' = ctx /\ ctx = "key"
  BY Reads
  DEF LexBareKey, Emits, Emit, Follow, Pieces, StartsLine, Depths, TypeOK, LexerOK
<1>2. /\ parser' = Take(Parser, parser, "BareKey")
      /\ \/ grammar' = Take(Grammar, grammar, "word")
         \/ grammar' = Take(Grammar, grammar, "number")
  BY DEF LexBareKey, Emits, Emit
<1>3. grammar.at \notin {"value", "element"}
  BY <1>1, Reads DEF InStep, Contexts
<1>4. CASE grammar.at \in AtPart
  <2>1. /\ parser' = To(parser, Standing[PartAt[grammar.at]])
        /\ grammar' = To(grammar, PartAt[grammar.at])
    BY <1>2, <1>4, Reads, StandingIs, ParserBareKey, GrammarWord, GrammarNumber
    DEF AtPart, PartAt
  <2>. QED
    BY <1>1, <1>4, <2>1, Reads, PartRead
<1>5. CASE grammar.at = "lineEnd"
  <2>1. grammar' = To(grammar, "sameLine")
    BY <1>2, <1>5, Reads, GrammarWord, GrammarNumber
  <2>. QED
    BY <1>1, <1>2, <2>1, Reads, OnSameLine, ParserTyped DEF Tokens
<1>6. CASE grammar.at \notin AtPart \cup {"lineEnd"}
  <2>1. parser' = Lost /\ grammar' = Lost
    BY <1>2, <1>3, <1>6, Reads, StandingIs, ParserBareKey, GrammarWord, GrammarNumber
    DEF AtPart, Goes, GrammarPlaces, ParserPlaces
  <2>. QED
    BY <1>1, <2>1, BothLost
<1>. QED
  BY <1>4, <1>5, <1>6

LEMMA ValueStep == ASSUME IInv, Reading, LexValue PROVE IInv'
<1>1. /\ ctx = "value"
      /\ grammar.at \in {"value", "element", "separator", "pairEnd", "lineEnd"}
  BY Reads DEF LexValue, InStep, Contexts, Goes, GrammarPlaces, ParserPlaces
<1>2. CASE /\ ch = "number" /\ StartsLine(FALSE)
           /\ UNCHANGED <<ctx, Depths>> /\ Emits("Scalar")
  <2>1. LexerOK' /\ UNCHANGED Depths /\ ctx' = ctx /\ ~afterNewline'
    BY <1>2, Reads DEF Emits, Emit, Follow, Pieces, StartsLine, Depths, TypeOK, LexerOK
  <2>2. /\ parser' = Take(Parser, parser, "Scalar")
        /\ grammar' = Take(Grammar, grammar, "number")
    BY <1>2 DEF Emits, Emit
  <2>3. CASE grammar.at \in {"value", "element"}
    <3>1. /\ parser' = To(parser, Parser.resume[Enclosing(parser.nest)])
          /\ grammar' = To(grammar, Grammar.resume[Enclosing(grammar.nest)])
      BY <2>2, <2>3, Reads, StandingIs, ParserScalar, GrammarNumber
    <3>. QED
      BY <2>1, <3>1, Reads, BothResumed
  <2>4. CASE grammar.at = "lineEnd"
    BY <2>1, <2>2, <2>4, Reads, OnSameLine, ParserTyped, GrammarNumber DEF Tokens
  <2>5. CASE grammar.at \in {"separator", "pairEnd"}
    <3>1. parser' = Lost /\ grammar' = Lost
      BY <2>2, <2>5, Reads, StandingIs, ParserScalar, GrammarNumber
    <3>. QED
      BY <2>1, <3>1, BothLost
  <2>. QED
    BY <1>1, <2>3, <2>4, <2>5
<1>3. CASE ch \in {"word", "dot"} /\ Refuse
  <2>1. LexerOK' /\ parser' = Lost
    BY <1>3, Reads DEF Refuse, Lost, Pieces, lexer, TypeOK, LexerOK
  <2>2. \/ grammar' = Take(Grammar, grammar, "word")
        \/ grammar' = Take(Grammar, grammar, "dot")
    BY <1>3 DEF Refuse
  <2>3. grammar' = Lost \/ grammar' = To(grammar, "sameLine")
    BY <1>1, <2>2, Reads, GrammarWord, GrammarDot
  <2>. QED
    BY <2>1, <2>3, Reads, LostIs, BothLost, OnSameLine
<1>. QED
  BY <1>2, <1>3 DEF LexValue

LEMMA EOFStep == ASSUME IInv, Reading, LexEOF PROVE IInv'
<1>1. /\ parser' = Take(Parser, parser, "EOF")
      /\ grammar' = Take(Grammar, grammar, "eof")
      /\ LexerOK' /\ UNCHANGED Depths
  BY Reads DEF LexEOF, Emit, Depths, lexer, TypeOK, LexerOK
<1>2. CASE grammar.at \in {"line", "headerEnd", "lineEnd"}
  <2>1. parser' = To(parser, Standing["parsed"]) /\ grammar' = To(grammar, "parsed")
    BY <1>1, <1>2, Reads, StandingIs, ParserEOF, GrammarEof
  <2>2. Placed' /\ Contexts'
    BY <1>2, <2>1, Reads DEF InStep, Placed, Contexts, To
  <2>. QED
    BY <1>1, <2>1, <2>2, Reads, BothMoved DEF Goes, GrammarPlaces, ParserPlaces
<1>3. CASE grammar.at \notin {"line", "headerEnd", "lineEnd"}
  <2>1. parser' = Lost /\ grammar' = Lost
    BY <1>1, <1>3, Reads, StandingIs, ParserEOF, GrammarEof
    DEF Goes, GrammarPlaces, ParserPlaces
  <2>. QED
    BY <1>1, <2>1, BothLost
<1>. QED
  BY <1>2, <1>3

-----------------------------------------------------------------------------
\* The theorems.

LEMMA InitInv == Init => IInv
<1>. SUFFICES ASSUME Init PROVE IInv
  OBVIOUS
<1>1. /\ LexerOK /\ parser.at = "document"
      /\ grammar.at = "line" /\ grammar.nest = <<>> /\ parser.nest = <<>>
  BY DEF Init, LexerOK
<1>2. TypeOK
  BY <1>1 DEF Init, TypeOK, Descents, GrammarPlaces, ParserPlaces
<1>3. InStep
  BY <1>1, StandingIs, DepthPopped DEF Init, InStep, Placed, Contexts, Enclosing
<1>. QED
  BY <1>2, <1>3 DEF IInv

LEMMA NextInv == IInv /\ [Next]_vars => IInv'
<1>. SUFFICES ASSUME IInv, [Next]_vars PROVE IInv'
  OBVIOUS
<1>1. CASE UNCHANGED vars
  BY <1>1 DEF vars, lexer, IInv, TypeOK, LexerOK, InStep, Stopped, Placed, Contexts
<1>2. CASE Next
  <2>1. Reading
    BY <1>2 DEF Next
  <2>. QED
    BY <1>2, <2>1, NewlineStep, WhitespaceStep, CommentStep, EqualsStep, DotStep, CommaStep,
       LeftBracketStep, RightBracketStep, LeftBraceStep, RightBraceStep, StringStep,
       BareKeyStep, ValueStep, EOFStep DEF Next
<1>. QED
  BY <1>1, <1>2

\* The lexer, the parser and the grammar have the values they should, and agree
\* on where they are, however long the text and however deep its nesting.
THEOREM ReadsAsOne == Spec => []IInv
<1>1. Init => IInv
  BY InitInv
<1>2. IInv /\ [Next]_vars => IInv'
  BY NextInv
<1>. QED
  BY <1>1, <1>2, PTL DEF Spec

\* What TOML 1.0 allows is read the way its grammar says (lex, parseDocument).
THEOREM EveryTomlIsRead == Spec => []AcceptsToml
<1>1. IInv => AcceptsToml
  BY StandingIs DEF IInv, InStep, Stopped, AcceptsToml, Grammatical
<1>. QED
  BY <1>1, ReadsAsOne, PTL

\* What the grammar refuses is refused, at the same piece.
THEOREM TheRestIsRefused == Spec => []RefusesTheRest
<1>1. IInv => RefusesTheRest
  BY DEF IInv, InStep, Stopped, RefusesTheRest
<1>. QED
  BY <1>1, ReadsAsOne, PTL

\* The lexer's scopes and depths are those of the values the parser is inside.
THEOREM LexerKnowsWhere == Spec => []ScopesAgree
<1>1. IInv => ScopesAgree
  BY DEF IInv, InStep, Stopped, ScopesAgree, Grammatical
<1>. QED
  BY <1>1, ReadsAsOne, PTL

=============================================================================
