----------------------------- MODULE TomlSyntax -----------------------------
(* Reading a document: lexer.go turns source text into tokens, parser.go      *)
(* descends through the tokens.  Whether a bracket opens an array or a header, *)
(* whether two brackets are one token or two, and whether a run of letters is  *)
(* a key or a value, the lexer guesses from the contexts it has entered: it    *)
(* does not ask the parser.  The text is unbounded and chosen piece by piece,  *)
(* and beside the two runs the grammar of TOML 1.0, which knows no contexts.   *)
(*                                                                             *)
(* A piece is a maximal run the lexer consumes in one go: "word" is a run of   *)
(* bare-key characters that is no value, "number" one that is (an integer, a   *)
(* date, true; where a value is read its dots and colons are its own),         *)
(* "string" and "multiline" a whole string.  What is wrong inside a piece is   *)
(* not modelled.  The program lexes the whole text and parses the tokens       *)
(* afterwards; taken token by token, either's refusal is the document's.       *)
EXTENDS Integers, Sequences, FiniteSets

CONSTANT MaxDepth       \* arrays and inline tables inside one another
ASSUME DepthAssumption == MaxDepth \in Nat

VARIABLES
  ch,                \* the piece at l.pos
  ctx,               \* lexer.ctx: "key" or "value"
  arrayDepth,        \* lexer.arrayDepth
  inlineTableDepth,  \* lexer.inlineTableDepth
  scopeStack,        \* lexer.scopeStack, the innermost scope first
  afterNewline,      \* lexer.afterNewline
  parser,            \* where the parser stands, and the values it is inside of
  grammar            \* the same of the grammar
lexer == <<ctx, arrayDepth, inlineTableDepth, scopeStack, afterNewline>>
vars == <<ch, lexer, parser, grammar>>

Pieces == {"newline", "space", "comment", "equals", "dot", "comma",
           "leftBracket", "rightBracket", "leftBrace", "rightBrace",
           "string", "multiline", "number", "word", "eof"}
Scopes == {"array", "inline"}

On(symbols, at) == [s \in symbols |-> at]
Cat(f, g) == [s \in DOMAIN f \cup DOMAIN g |-> IF s \in DOMAIN f THEN f[s] ELSE g[s]]
Nothing == On({}, "")

(* A descent through nested values.  "moves" are the symbols taken on one      *)
(* level, "opens" those that go a level down, "closes" the symbol that leaves  *)
(* the level, "values" those that are a value by themselves, and "resume" is   *)
(* where a finished value leaves its surroundings.                             *)
Enclosing(nest) == IF nest = <<>> THEN "document" ELSE nest[1]
Take(A, p, symbol) ==
  LET at == p.at
      within == Enclosing(p.nest)
  IN  CASE symbol \in DOMAIN A.moves[at] -> [p EXCEPT !.at = A.moves[at][symbol]]
        [] at \in A.values /\ symbol \in A.simple -> [p EXCEPT !.at = A.resume[within]]
        [] at \in A.values /\ symbol \in DOMAIN A.opens ->
             [at |-> A.opens[symbol].at, nest |-> <<A.opens[symbol].scope>> \o p.nest]
        [] at \in A.ends /\ within \in Scopes /\ symbol = A.closes[within] ->
             [at |-> A.resume[Enclosing(Tail(p.nest))], nest |-> Tail(p.nest)]
        [] OTHER -> [at |-> "failed", nest |-> <<>>]

-----------------------------------------------------------------------------
(* parser.go.  A table body is read like the document's own beginning, and a   *)
(* finished pair leaves the parser there: the newline behind it is optional.   *)
KeyTokens == {"BareKey", "String"}
Trivia == {"Whitespace", "Newline", "Comment"}
Starts == On(KeyTokens, "pairMore")

ParseDocument ==
  Cat(On(Trivia, "document"),
      Cat(Starts, [LeftBracket |-> "tableKey", DoubleLeftBracket |-> "arrayTableKey",
                   EOF |-> "parsed"]))
ParseKeyPart(part, more) == Cat([Whitespace |-> part], On(KeyTokens, more))
ParseKeyPath(part, more, close) ==
  Cat([Whitespace |-> more, Dot |-> part], On({close}, "headerEnd"))
ParseHeaderEnd ==
  [Whitespace |-> "headerEnd", Comment |-> "headerEnd", Newline |-> "document",
   EOF |-> "parsed"]
ParseKey == [Whitespace |-> "pairMore", Dot |-> "pairKey", Equals |-> "value"]
\* A faulty array: a comma may follow a comma.
ParseElementsTwoCommas == Cat(On(Trivia, "element"), [Comma |-> "element"])
ParseElements == On(Trivia, "element")
ParseSeparator == Cat(On(Trivia, "separator"), [Comma |-> "element"])
ParseInlineTable == Cat([Whitespace |-> "firstPair"], Starts)
ParsePairEnd == [Whitespace |-> "pairEnd", Comma |-> "pairKey"]

ParserMoves ==
  [document |-> ParseDocument,
   tableKey |-> ParseKeyPart("tableKey", "tableMore"),
   tableMore |-> ParseKeyPath("tableKey", "tableMore", "RightBracket"),
   arrayTableKey |-> ParseKeyPart("arrayTableKey", "arrayTableMore"),
   arrayTableMore |-> ParseKeyPath("arrayTableKey", "arrayTableMore", "DoubleRightBracket"),
   headerEnd |-> ParseHeaderEnd,
   pairKey |-> ParseKeyPart("pairKey", "pairMore"), pairMore |-> ParseKey,
   value |-> [Whitespace |-> "value"],
   element |-> ParseElements, separator |-> ParseSeparator,
   firstPair |-> ParseInlineTable, pairEnd |-> ParsePairEnd,
   parsed |-> Nothing, failed |-> Nothing]

ParseValue ==
  [LeftBracket |-> [at |-> "element", scope |-> "array"],
   LeftBrace |-> [at |-> "firstPair", scope |-> "inline"]]
Parser ==
  [moves |-> ParserMoves, opens |-> ParseValue,
   values |-> {"value", "element"}, simple |-> {"String", "MultiLine", "Scalar"},
   ends |-> {"element", "separator", "firstPair", "pairEnd"},
   closes |-> [array |-> "RightBracket", inline |-> "RightBrace"],
   resume |-> [document |-> "document", array |-> "separator", inline |-> "pairEnd"]]

-----------------------------------------------------------------------------
(* TOML 1.0 (toml.abnf), over the pieces themselves.  One expression stands on *)
(* a line; "sameLine" is a second one behind a pair.                           *)
Blank == {"space", "newline", "comment"}
Keys == {"word", "number", "string"}
KeyPart(part, more) == Cat([space |-> part], On(Keys, more))
GrammarMoves ==
  [line |-> Cat(On(Blank, "line"),
                Cat(On(Keys, "pairMore"), [leftBracket |-> "tableOpen", eof |-> "parsed"])),
   tableOpen |-> Cat(KeyPart("tableKey", "tableMore"), [leftBracket |-> "arrayTableKey"]),
   tableKey |-> KeyPart("tableKey", "tableMore"),
   tableMore |-> [space |-> "tableMore", dot |-> "tableKey", rightBracket |-> "headerEnd"],
   arrayTableKey |-> KeyPart("arrayTableKey", "arrayTableMore"),
   arrayTableMore |-> [space |-> "arrayTableMore", dot |-> "arrayTableKey",
                       rightBracket |-> "arrayTableClose"],
   arrayTableClose |-> [rightBracket |-> "headerEnd"],
   headerEnd |-> [space |-> "headerEnd", comment |-> "headerEnd", newline |-> "line",
                  eof |-> "parsed"],
   pairKey |-> KeyPart("pairKey", "pairMore"),
   pairMore |-> [space |-> "pairMore", dot |-> "pairKey", equals |-> "value"],
   value |-> [space |-> "value"],
   lineEnd |-> Cat([space |-> "lineEnd", comment |-> "lineEnd", newline |-> "line",
                    eof |-> "parsed"],
                   On(Keys \cup {"leftBracket"}, "sameLine")),
   element |-> On(Blank, "element"),
   separator |-> Cat(On(Blank, "separator"), [comma |-> "element"]),
   firstPair |-> KeyPart("firstPair", "pairMore"),
   pairEnd |-> [space |-> "pairEnd", comma |-> "pairKey"],
   sameLine |-> Nothing, parsed |-> Nothing, failed |-> Nothing]
Grammar ==
  [moves |-> GrammarMoves,
   opens |-> [leftBracket |-> [at |-> "element", scope |-> "array"],
              leftBrace |-> [at |-> "firstPair", scope |-> "inline"]],
   values |-> {"value", "element"}, simple |-> {"string", "multiline", "number"},
   ends |-> {"element", "separator", "firstPair", "pairEnd"},
   closes |-> [array |-> "rightBracket", inline |-> "rightBrace"],
   resume |-> [document |-> "lineEnd", array |-> "separator", inline |-> "pairEnd"]]

-----------------------------------------------------------------------------
(* lexer.go: one action per kind of token.  A piece is a maximal run, so some  *)
(* pieces cannot follow one another.                                           *)
Follow(piece) ==
  CASE piece = "comment" -> {"newline", "eof"}
    [] piece = "space" -> Pieces \ {"space"}
    [] piece = "word" -> Pieces \ {"word", "number"}
    [] piece = "number" ->
         Pieces \ ({"word", "number"} \cup IF ctx = "value" THEN {"dot"} ELSE {})
    [] OTHER -> Pieces

Emit(token) ==
  /\ parser' = Take(Parser, parser, token)
  /\ grammar' = Take(Grammar, grammar, ch)
Emits(token) == Emit(token) /\ ch' \in Follow(ch)

\* errorf: nothing of the document is parsed.
Refuse ==
  /\ parser' = [at |-> "failed", nest |-> <<>>]
  /\ grammar' = Take(Grammar, grammar, ch)
  /\ ch' = "eof"
  /\ UNCHANGED lexer

\* Two brackets in one token.
EmitsDouble(token) ==
  /\ parser' = Take(Parser, parser, token)
  /\ grammar' = Take(Grammar, Take(Grammar, grammar, ch), ch)
  /\ ch' \in Follow(ch)

StartsLine(b) == afterNewline' = b
Depths == <<arrayDepth, inlineTableDepth, scopeStack>>

LexNewline ==
  /\ ch = "newline"
  /\ ctx' = IF arrayDepth = 0 /\ inlineTableDepth = 0 THEN "key" ELSE ctx
  /\ StartsLine(TRUE)
  /\ UNCHANGED Depths
  /\ Emits("Newline")
LexWhitespace == ch = "space" /\ UNCHANGED lexer /\ Emits("Whitespace")
LexComment == ch = "comment" /\ UNCHANGED lexer /\ Emits("Comment")

LexEquals ==
  ch = "equals" /\ ctx' = "value" /\ StartsLine(FALSE) /\ UNCHANGED Depths /\ Emits("Equals")
LexDot ==
  ch = "dot" /\ ctx = "key" /\ StartsLine(FALSE) /\ UNCHANGED <<ctx, Depths>> /\ Emits("Dot")

\* A faulty comma: it separates what the depths say, inline tables first.
CommaContextByDepth ==
  IF inlineTableDepth > 0 THEN "key" ELSE IF arrayDepth > 0 THEN "value" ELSE ctx
\* What a comma separates is the innermost scope's business.
CommaContext ==
  IF scopeStack = <<>> THEN ctx ELSE [array |-> "value", inline |-> "key"][scopeStack[1]]
LexComma ==
  ch = "comma" /\ ctx' = CommaContext /\ StartsLine(FALSE) /\ UNCHANGED Depths /\ Emits("Comma")

Push(scope) == Len(scopeStack) < MaxDepth /\ scopeStack' = <<scope>> \o scopeStack
Pop == scopeStack' = IF scopeStack = <<>> THEN <<>> ELSE Tail(scopeStack)

LexLeftBracket ==
  /\ ch = "leftBracket"
  /\ StartsLine(FALSE)
  /\ UNCHANGED <<ctx, inlineTableDepth>>
  /\ \/ /\ ctx = "value"
        /\ Push("array")
        /\ arrayDepth' = arrayDepth + 1
        /\ Emits("LeftBracket")
     \/ /\ ctx = "key"
        /\ UNCHANGED <<arrayDepth, scopeStack>>
        /\ \/ afterNewline /\ EmitsDouble("DoubleLeftBracket")
           \/ /\ Emits("LeftBracket")
              /\ ~(afterNewline /\ ch' = "leftBracket")

ClosesArray == arrayDepth > 0
LexRightBracket ==
  /\ ch = "rightBracket"
  /\ StartsLine(FALSE)
  /\ UNCHANGED inlineTableDepth
  /\ \/ /\ ClosesArray
        /\ arrayDepth' = arrayDepth - 1
        /\ Pop
        /\ UNCHANGED ctx
        /\ Emits("RightBracket")
     \/ /\ ~ClosesArray
        /\ ctx' = "key"
        /\ UNCHANGED <<arrayDepth, scopeStack>>
        /\ \/ EmitsDouble("DoubleRightBracket")
           \/ Emits("RightBracket") /\ ch' # "rightBracket"

LexLeftBrace ==
  /\ ch = "leftBrace"
  /\ Push("inline")
  /\ inlineTableDepth' = inlineTableDepth + 1
  /\ ctx' = "key"
  /\ StartsLine(FALSE)
  /\ UNCHANGED arrayDepth
  /\ Emits("LeftBrace")
\* A faulty closing brace: the scope stays entered.
KeepsBrace == UNCHANGED scopeStack
PopsBrace == Pop
LexRightBrace ==
  /\ ch = "rightBrace"
  /\ PopsBrace
  /\ inlineTableDepth' = IF inlineTableDepth > 0 THEN inlineTableDepth - 1 ELSE 0
  /\ StartsLine(FALSE)
  /\ UNCHANGED <<ctx, arrayDepth>>
  /\ Emits("RightBrace")

LexString ==
  /\ StartsLine(FALSE)
  /\ UNCHANGED <<ctx, Depths>>
  /\ \/ ch = "string" /\ Emits("String")
     \/ ch = "multiline" /\ Emits("MultiLine")
LexBareKey ==
  /\ ctx = "key" /\ ch \in {"word", "number"}
  /\ StartsLine(FALSE)
  /\ UNCHANGED <<ctx, Depths>>
  /\ Emits("BareKey")
LexValue ==
  /\ ctx = "value"
  /\ \/ ch = "number" /\ StartsLine(FALSE) /\ UNCHANGED <<ctx, Depths>> /\ Emits("Scalar")
     \/ ch \in {"word", "dot"} /\ Refuse
LexEOF == ch = "eof" /\ UNCHANGED lexer /\ Emit("EOF") /\ UNCHANGED ch

Init ==
  /\ ch \in Pieces
  /\ ctx = "key" /\ afterNewline = TRUE
  /\ arrayDepth = 0 /\ inlineTableDepth = 0 /\ scopeStack = <<>>
  /\ parser = [at |-> "document", nest |-> <<>>]
  /\ grammar = [at |-> "line", nest |-> <<>>]

Reading == parser.at \notin {"parsed", "failed"} /\ grammar.at \notin {"sameLine", "failed"}
Next ==
  /\ Reading
  /\ \/ LexNewline \/ LexWhitespace \/ LexComment \/ LexEquals \/ LexDot \/ LexComma
     \/ LexLeftBracket \/ LexRightBracket \/ LexLeftBrace \/ LexRightBrace
     \/ LexString \/ LexBareKey \/ LexValue \/ LexEOF
Spec == Init /\ [][Next]_vars

-----------------------------------------------------------------------------
Positions == DOMAIN ParserMoves

\* Where the parser stands when the grammar stands at a point.
Standing ==
  Cat([p \in Positions \ {"document", "parsed", "failed"} |-> p],
      [line |-> "document", lineEnd |-> "document", tableOpen |-> "tableKey",
       parsed |-> "parsed", arrayTableClose |-> "failed"])
Grammatical == grammar.at \notin {"sameLine", "failed"}

\* Every text TOML 1.0 allows is read, piece for piece, the way its grammar
\* says: the same headers, pairs, arrays and inline tables, inside one another
\* in the same way (lex, parseDocument).  Of [[a], whose second closing bracket
\* is not there, the lexer knows one piece before the grammar does.
AcceptsToml ==
  Grammatical =>
    /\ parser.at = Standing[grammar.at]
    /\ grammar.at # "arrayTableClose" => parser.nest = grammar.nest
    /\ grammar.at = "arrayTableClose" => ch # "rightBracket"

\* What the grammar refuses, Parse refuses, and at the same piece; a second
\* construct on the line of a pair is the subject of PairsEndTheirLine.
RefusesTheRest == grammar.at = "failed" => parser.at = "failed"

\* The lexer's own account of where it is -- the stack its commas are read by,
\* the depth its closing brackets and newlines are read by -- is the descent the
\* parser is really in.
Depth(stack, scope) == Cardinality({i \in DOMAIN stack : stack[i] = scope})
ScopesAgree ==
  (Grammatical /\ parser.at # "failed") =>
    /\ scopeStack = parser.nest
    /\ arrayDepth = Depth(scopeStack, "array")
    /\ inlineTableDepth = Depth(scopeStack, "inline")

\* A document Parse accepts is TOML 1.0, in which a pair is followed by a
\* newline or the end of the file (parseKeyValue, consumeTrailingNewline).
PairsEndTheirLine == grammar.at = "sameLine" => parser.at = "failed"

=============================================================================
