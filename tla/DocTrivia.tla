----------------------------- MODULE DocTrivia ------------------------------
(***************************************************************************)
(* A document and what stands around its pairs and headers: blank lines,   *)
(* comment lines, inline comments and whitespace.                          *)
(*                                                                         *)
(* The parser gives the trivia above a construct to the construct and the  *)
(* trivia at the end of the input to nodes of their own.  Bytes writes a   *)
(* construct nothing touched as it was read and any other fragment by      *)
(* fragment; Format lays all of them out anew.  A text is a sequence of    *)
(* lines; keys and values are opaque, and which construct a path names is  *)
(* TomlEdit's matter: here every construct may be the one.  One construct  *)
(* to a line, though the parser reads two (TomlSyntax).                    *)
(***************************************************************************)
EXTENDS Integers, Sequences, SequencesExt, FiniteSets

CONSTANTS Names,        \* names of keys, values and comments
          Texts,        \* the documents read
          Values,       \* the keys and values calls write
          Comments,     \* the comments calls write
          IndentWidth,  \* FormatConfig.IndentWidth
          MaxNodes,     \* the nodes a document may grow to
          MaxCalls      \* the calls of one history

VARIABLES doc,   \* the document's children
          kept,  \* the comments read and written that no call took away
          calls

vars == <<doc, kept, calls>>

(***************************************************************************)
(* Lines.  A line has whitespace in front; a pair or a header, a comment   *)
(* on its own or nothing; the whitespace behind a construct and its inline *)
(* comment; and a newline, which the last line may lack.  The text of a    *)
(* comment is a sequence of names, so that another "#" put before it shows.*)
(***************************************************************************)
Hash == 0
Line(k, in, x, gap, note) ==
  [k |-> k, in |-> in, x |-> x, gap |-> gap, note |-> note, nl |-> TRUE]
Construct(k, x) == Line(k, 0, x, 0, <<>>)
CommentLine(in, c) == Line("comment", in, 0, 0, <<c>>)
BlankLine(in) == Line("blank", in, 0, 0, <<>>)
Unended(line) == [line EXCEPT !.nl = FALSE]

Lines == [k : {"pair", "header", "comment", "blank"}, in : Nat, x : Names \cup {0},
          gap : Nat, note : Seq(Names \cup {Hash}), nl : BOOLEAN]
\* A comment line has a comment, a blank line none.
TextLines == {line \in Lines : /\ line.k = "comment" => line.note # <<>>
                               /\ line.k = "blank" => line.note = <<>>}
Notes(text) == {text[i].note : i \in DOMAIN text} \ {<<>>}

\* Only the last line may lack its newline, and it is not empty then.
Readable(text) ==
  \A i \in DOMAIN text :
    ~text[i].nl => i = Len(text) /\ text[i] # Unended(BlankLine(0))

---------------------------------------------------------------------------
(***************************************************************************)
(* Nodes and the parser.                                                   *)
(***************************************************************************)
Leaf == [k : {"pair", "text"}, blanks : Seq(Seq(Lines)), comments : Seq(Lines),
         line : Lines, raw : Seq(Lines), dirty : BOOLEAN, children : {<<>>}]
Node == [k : {"pair", "text", "header"}, blanks : Seq(Seq(Lines)), comments : Seq(Lines),
         line : Lines, raw : Seq(Lines), dirty : BOOLEAN, children : Seq(Leaf)]

\* A pair or a header: blanks[i] is written before comments[i], and the entry
\* after the last comment before the construct itself.
ConstructNode(line, blanks, comments, raw) ==
  [k |-> line.k, blanks |-> blanks, comments |-> comments, line |-> line,
   raw |-> raw, dirty |-> (raw = <<>>), children |-> <<>>]
\* A CommentNode: a comment line or a run of blank lines nothing follows.
TextNode(raw) ==
  [k |-> "text", blanks |-> <<>>, comments |-> <<>>, line |-> raw[1],
   raw |-> raw, dirty |-> FALSE, children |-> <<>>]
\* newKeyValueNode, appendTable, newArrayTableAt.
NewNode(k, x) == ConstructNode(Construct(k, x), <<>>, <<>>, <<>>)

NoTrivia == [blanks |-> << <<>> >>, comments |-> <<>>, raw |-> <<>>]

\* addBlank: a blank line belongs to the run being built.
AddBlank(lt, line) == [lt EXCEPT !.blanks[Len(lt.blanks)] = Append(@, line),
                                 !.raw = Append(@, line)]
\* A comment line, behind which the next run begins.
AddComment(lt, line) == [lt EXCEPT !.comments = Append(@, line),
                                   !.blanks = Append(@, <<>>),
                                   !.raw = Append(@, line)]

\* buildAppend: a header is the document's child, everything else the child of
\* the header before it.
BuildAppend(nodes, n) ==
  IF n.k # "header" /\ nodes # <<>> /\ Last(nodes).k = "header"
    THEN [nodes EXCEPT ![Len(nodes)].children = Append(@, n)]
    ELSE Append(nodes, n)

\* collectLeadingTrivia and parseKeyValue, parseTable or parseArrayTable.
ReadLine(r, line) ==
  CASE line.k = "blank"   -> [r EXCEPT !.lt = AddBlank(@, line)]
    [] line.k = "comment" -> [r EXCEPT !.lt = AddComment(@, line)]
    [] OTHER ->
         [nodes |-> BuildAppend(r.nodes, ConstructNode(line, r.lt.blanks, r.lt.comments,
                                                       Append(r.lt.raw, line))),
          lt |-> NoTrivia]

\* emitBlankRun and emitOrphanTrivia.
EmitBlankRun(run) == IF run = <<>> THEN <<>> ELSE <<TextNode(run)>>
OrphanTrivia(lt) ==
  FlattenSeq([i \in DOMAIN lt.comments |->
                Append(EmitBlankRun(lt.blanks[i]), TextNode(<<lt.comments[i]>>))])
    \o EmitBlankRun(Last(lt.blanks))

ParseDocument(text) ==
  LET r == FoldLeft(ReadLine, [nodes |-> <<>>, lt |-> NoTrivia], text)
  IN FoldLeft(BuildAppend, r.nodes, OrphanTrivia(r.lt))

CommentsOf(n) ==
  {n.comments[i].note : i \in DOMAIN n.comments} \cup {n.line.note}
CommentsUnder(n) ==
  CommentsOf(n) \cup UNION {CommentsOf(n.children[i]) : i \in DOMAIN n.children}
\* The comments a document holds.
Held(d) == (UNION {CommentsUnder(d[i]) : i \in DOMAIN d}) \ {<<>>}

ASSUME InputsAssumption ==
  /\ Values \subseteq Names /\ Comments \subseteq Names /\ IndentWidth \in Nat
  /\ \A text \in Texts : text \in Seq(TextLines) /\ Readable(text)

---------------------------------------------------------------------------
(***************************************************************************)
(* Bytes.                                                                  *)
(***************************************************************************)
BlankRun(n, i) == IF i \in DOMAIN n.blanks THEN n.blanks[i] ELSE <<>>

RenderTrivia(n) ==
  FlattenSeq([i \in DOMAIN n.comments |-> Append(BlankRun(n, i), n.comments[i])])
    \o BlankRun(n, Len(n.comments) + 1)

\* renderLineTail: a construct that was built ends its line.
RenderLine(n) == [n.line EXCEPT !.nl = @ \/ n.raw = <<>>]

SerializeNode(n) == IF n.dirty THEN Append(RenderTrivia(n), RenderLine(n)) ELSE n.raw

\* A faulty serializeChildren: a line without a newline is continued.
EndLineNot(buf) == buf
\* serializeChildren: a construct does not continue another's line.
EndLine(buf) == IF buf = <<>> THEN buf ELSE [buf EXCEPT ![Len(buf)].nl = TRUE]

\* The nodes in the order they are written, a header before its children.
Nodes(d) == FlattenSeq([i \in DOMAIN d |-> <<d[i]>> \o d[i].children])

Serialize(buf, n) == EndLine(buf) \o SerializeNode(n)
Bytes(d) == FoldLeft(Serialize, <<>>, Nodes(d))

---------------------------------------------------------------------------
(***************************************************************************)
(* Format.                                                                 *)
(***************************************************************************)
EmptyLine == BlankLine(0)

\* A faulty writeBlankLine: one more where one stands already.
WriteBlankAlways(buf) == IF buf = <<>> THEN buf ELSE Append(buf, EmptyLine)
WriteBlankLine(buf) ==
  IF buf = <<>> \/ Last(buf) = EmptyLine THEN buf ELSE Append(buf, EmptyLine)
WriteRun(buf, run) == IF run = <<>> THEN buf ELSE WriteBlankLine(buf)

\* A comment keeps the whitespace it was read with.
FormatComment(buf, c) == Append(WriteRun(buf, c.run), c.line)
FormatLeadingTrivia(buf, n) ==
  LET comments == [i \in DOMAIN n.comments |-> [run |-> BlankRun(n, i), line |-> n.comments[i]]]
  IN WriteRun(FoldLeft(FormatComment, buf, comments), BlankRun(n, Len(n.comments) + 1))

\* formatStandaloneComment: text that does not begin with "#" gets one, and
\* text with whitespace before its "#" does not.
FormatStandaloneComment(buf, n) ==
  LET line == n.line IN
  CASE line.k = "comment" /\ line.in = 0 -> Append(buf, [line EXCEPT !.nl = TRUE])
    [] line.k = "comment" /\ line.in # 0 ->
         Append(buf, [line EXCEPT !.in = 0, !.note = <<Hash>> \o @, !.nl = TRUE])
    [] OTHER ->
         IF \E i \in DOMAIN n.raw : n.raw[i].nl THEN WriteBlankLine(buf) ELSE buf

\* The line of a pair or a header, its inline comment two spaces behind.
FormatLine(n, indent) ==
  Line(n.k, indent * IndentWidth, n.line.x, IF n.line.note = <<>> THEN 0 ELSE 2, n.line.note)

\* A faulty formatTableSeparation: the blank line, and nothing above the header.
FormatLeafBare(buf, n, indent) ==
  CASE n.k = "text"   -> FormatStandaloneComment(buf, n)
    [] n.k = "pair"   -> Append(FormatLeadingTrivia(buf, n), FormatLine(n, indent))
    [] n.k = "header" -> Append(WriteBlankLine(buf), FormatLine(n, indent))
\* formatTableSeparation comes before a header, trivia before both.
FormatLeaf(buf, n, indent) ==
  CASE n.k = "text"   -> FormatStandaloneComment(buf, n)
    [] n.k = "pair"   -> Append(FormatLeadingTrivia(buf, n), FormatLine(n, indent))
    [] n.k = "header" -> Append(FormatLeadingTrivia(WriteBlankLine(buf), n), FormatLine(n, indent))

FormatUnder(buf, child) == FormatLeaf(buf, child, 1)
FormatChild(buf, n) == FoldLeft(FormatUnder, FormatLeaf(buf, n, 0), n.children)

\* A faulty ensureTrailingNewline: a blank line at the end stays.
EnsureSomething(buf) == IF buf = <<>> THEN <<EmptyLine>> ELSE buf
\* ensureTrailingNewline: at most one blank line stands at the end.
EnsureTrailingNewline(buf) ==
  IF buf = <<>> THEN <<EmptyLine>>
  ELSE IF Last(buf) = EmptyLine THEN Front(buf) ELSE buf

Format(d) == EnsureTrailingNewline(FoldLeft(FormatChild, <<>>, d))

---------------------------------------------------------------------------
(***************************************************************************)
(* The edits.  A place is a child of the document, <<0, i>>, or of the     *)
(* header doc[h], <<h, i>>.                                                *)
(***************************************************************************)
Headers(d) == {h \in DOMAIN d : d[h].k = "header"}
Containers == {0} \cup Headers(doc)
ChildrenIn(d, c) == IF c = 0 THEN d ELSE d[c].children
At(p) == ChildrenIn(doc, p[1])[p[2]]
Places == UNION {{<<c, i>> : i \in DOMAIN ChildrenIn(doc, c)} : c \in Containers}
Pairs == {p \in Places : At(p).k = "pair"}
Constructs == {p \in Places : At(p).k # "text"}

\* storeContents.
StoreContents(c, items) == IF c = 0 THEN items ELSE [doc EXCEPT ![c].children = items]
Put(p, n) == StoreContents(p[1], [ChildrenIn(doc, p[1]) EXCEPT ![p[2]] = n])
InsertContent(c, i, n) == StoreContents(c, InsertAt(ChildrenIn(doc, c), i, n))

\* firstHeaderIndex.
FirstHeader == IF Headers(doc) = {} THEN Len(doc) + 1
               ELSE CHOOSE h \in Headers(doc) : \A g \in Headers(doc) : h <= g

Call == calls < MaxCalls /\ calls' = calls + 1
Room == Cardinality(Places) < MaxNodes

\* A faulty write: a construct made anew, without its trivia.
RewrittenAnew(n, v) == [NewNode(n.k, v) EXCEPT !.children = n.children]
\* What a write makes of a construct: its line's own fragments stay.
Rewritten(n, v) == [n EXCEPT !.line.x = v, !.dirty = TRUE]

\* Set of a key that is there (setVal).
Set(p, v) ==
  /\ doc' = Put(p, Rewritten(At(p), v))
  /\ UNCHANGED kept
  /\ Call

\* setKeyInDocument and setKeyInContainer: behind the last child, but ahead of
\* the document's headers.
PlaceOfNew(c) == IF c = 0 THEN FirstHeader ELSE Len(doc[c].children) + 1

\* Set of a key that is not.
SetNew(c, v) ==
  /\ Room
  /\ doc' = InsertContent(c, PlaceOfNew(c), NewNode("pair", v))
  /\ UNCHANGED kept
  /\ Call

\* ... or of a key of a table that dotted keys spell, beside the last of them
\* (insertDottedKey).
InsertDottedKey(p, v) ==
  /\ Room
  /\ doc' = InsertContent(p[1], p[2] + 1, NewNode("pair", v))
  /\ UNCHANGED kept
  /\ Call

\* NewTable and NewArrayTable, and Set into a table that a longer header
\* implies, which gets a header for its pair.
AppendTable(v, children) ==
  /\ Room
  /\ doc' = Append(doc, [NewNode("header", v) EXCEPT !.children = children])
  /\ UNCHANGED kept
  /\ Call

\* What binds one key: pairs of one container, and headers.
Bindings ==
  {s \in SUBSET Constructs \ {{}} :
     \E c \in Containers : \A p \in s :
       IF At(p).k = "pair" THEN p[1] = c ELSE p[2] # c}

\* The items at a container's places that are not in s.
Without(items, c, s) ==
  LET left == {j \in DOMAIN items : <<c, j>> \notin s}
      Nth(i) == CHOOSE j \in left : Cardinality({m \in left : m <= j}) = i
  IN [i \in 1..Cardinality(left) |-> items[Nth(i)]]

\* deleteKeyFromParent: the headers with all they contain, then the pairs.
Delete(s) ==
  LET within == [h \in DOMAIN doc |-> [doc[h] EXCEPT !.children = Without(@, h, s)]] IN
  /\ doc' = Without(within, 0, s)
  /\ kept' = kept \ UNION {CommentsUnder(At(p)) : p \in s}
  /\ Call

\* renameKeyInParent: a part of each key and header.
RenameKey(s, v) ==
  LET Named(n, p) == IF p \in s THEN Rewritten(n, v) ELSE n IN
  /\ doc' = [h \in DOMAIN doc |->
               [Named(doc[h], <<0, h>>) EXCEPT
                  !.children = [i \in DOMAIN @ |-> Named(@[i], <<h, i>>)]]]
  /\ UNCHANGED kept
  /\ Call

\* setComment: no comment takes the whitespace before it along, a comment
\* where none was gets a space.
WithComment(line, note) ==
  [line EXCEPT !.note = note,
               !.gap = CASE note = <<>>      -> 0
                         [] line.note = <<>> -> 1
                         [] OTHER            -> @]

SetComment(p, note) ==
  LET n == At(p) IN
  /\ doc' = Put(p, [n EXCEPT !.line = WithComment(@, note), !.dirty = TRUE])
  /\ kept' = (kept \ {n.line.note}) \cup ({note} \ {<<>>})
  /\ Call

\* A faulty setLeadingComments: a node without comments has its one run on
\* either side of the new ones.
BlanksAroundTwice(n, count) ==
  LET lead == BlankRun(n, 1)
      tail == BlankRun(n, Len(n.comments) + 1)
  IN IF count = 0 THEN <<lead \o tail>>
     ELSE [i \in 1..(count + 1) |-> CASE i = 1         -> lead
                                      [] i = count + 1 -> tail
                                      [] OTHER         -> <<>>]
\* setLeadingComments: the runs around the comments stay around the new ones,
\* and meet where there are none.
BlanksAround(n, count) ==
  LET lead == BlankRun(n, 1)
      tail == IF n.comments = <<>> THEN <<>> ELSE BlankRun(n, Len(n.comments) + 1)
  IN IF count = 0 THEN <<lead \o tail>>
     ELSE [i \in 1..(count + 1) |-> CASE i = 1         -> lead
                                      [] i = count + 1 -> tail
                                      [] OTHER         -> <<>>]

SetLeadingComments(p, notes) ==
  LET n == At(p)
      lines == [i \in DOMAIN notes |-> CommentLine(0, notes[i])]
  IN
  /\ doc' = Put(p, [n EXCEPT !.comments = lines, !.blanks = BlanksAround(n, Len(notes)),
                             !.dirty = TRUE])
  /\ kept' = (kept \ {n.comments[i].note : i \in DOMAIN n.comments})
               \cup {lines[i].note : i \in DOMAIN lines}
  /\ Call

\* PermuteChildren: position i gets the child at order[i].
PermuteChildren(c, order) ==
  /\ doc' = StoreContents(c, [i \in DOMAIN order |-> ChildrenIn(doc, c)[order[i]]])
  /\ UNCHANGED kept
  /\ Call

\* permuteNodes: every index in range and none twice.
Orders(c) == Bijection(DOMAIN ChildrenIn(doc, c), DOMAIN ChildrenIn(doc, c))
Written == {<<>>} \cup {<<c>> : c \in Comments}
MaxLead == 2
Leads == UNION {[1..n -> Comments] : n \in 0..MaxLead}

Init ==
  /\ \E text \in Texts :
       /\ doc = ParseDocument(text)
       /\ kept = Notes(text)
  /\ calls = 0

Next ==
  \/ \E p \in Pairs, v \in Values : Set(p, v)
  \/ \E c \in Containers, v \in Values : SetNew(c, v)
  \/ \E p \in Pairs, v \in Values : InsertDottedKey(p, v)
  \/ \E v \in Values :
       AppendTable(v, <<>>) \/ AppendTable(v, <<NewNode("pair", v)>>)
  \/ \E s \in Bindings : Delete(s)
  \/ \E s \in Bindings, v \in Values : RenameKey(s, v)
  \/ \E p \in Constructs, note \in Written : SetComment(p, note)
  \/ \E p \in Constructs, notes \in Leads : SetLeadingComments(p, notes)
  \/ \E c \in Containers : \E order \in Orders(c) : PermuteChildren(c, order)

Spec == Init /\ [][Next]_vars

---------------------------------------------------------------------------
(***************************************************************************)
(* Properties.                                                             *)
(***************************************************************************)
\* What a document tells: its constructs in order, each with its inline comment
\* and the comments above it, and the comments behind the last.
Nothing == [constructs |-> <<>>, above |-> <<>>]
Tell(told, n) ==
  LET above == told.above \o [i \in DOMAIN n.comments |-> n.comments[i].note]
  IN IF n.k = "text"
       THEN [told EXCEPT !.above =
               IF n.line.k = "comment" THEN Append(above, n.line.note) ELSE above]
       ELSE [constructs |-> Append(told.constructs,
                [k |-> n.k, x |-> n.line.x, note |-> n.line.note, above |-> above]),
             above |-> <<>>]
Told(d) == FoldLeft(Tell, Nothing, Nodes(d))

\* Whatever was edited and wherever a child was moved, Bytes writes lines that
\* end where the next begins and read back as the constructs of the document in
\* their order, under the comments that were theirs; a comment at the end of
\* the input goes to what was written behind it (serializeChildren,
\* emitOrphanTrivia, renderTrivia).
DocumentReadsBack ==
  LET text == Bytes(doc) IN Readable(text) /\ Told(ParseDocument(text)) = Told(doc)

\* A comment that was read or written stays until a call takes it or its
\* construct away (setVal, renamePart, setComment, setContents).
CommentsStay == kept \subseteq Held(doc)

\* The node at a place among all nodes, and the lines up to a node's end.
IndexOf(p) ==
  LET Before(h) == Len(Nodes(SubSeq(doc, 1, h - 1)))
  IN IF p[1] = 0 THEN Before(p[2]) + 1 ELSE Before(p[1]) + 1 + p[2]
UpTo(d, i) == Len(FoldLeft(Serialize, <<>>, SubSeq(Nodes(d), 1, i)))
Above(d, i) == SubSeq(Bytes(d), 1, UpTo(d, i - 1))
Own(d, i) == SubSeq(Bytes(d), UpTo(d, i - 1) + 1, UpTo(d, i))
Below(d, i) == SubSeq(Bytes(d), UpTo(d, i) + 1, Len(Bytes(d)))

\* A construct's lines with other comments where its own are, or right above it.
Recommented(lines, comments) ==
  LET at == {i \in DOMAIN lines : lines[i].k = "comment"}
      above == IF at = {} THEN Front(lines) ELSE SubSeq(lines, 1, Min(at) - 1)
      below == IF at = {} THEN <<Last(lines)>> ELSE SubSeq(lines, Max(at) + 1, Len(lines))
  IN above \o comments \o below
OnlyOwnLinesChange(i) == Above(doc', i) = Above(doc, i) /\ Below(doc', i) = Below(doc, i)

\* A call writes the fragment it is about and no other: a value, an inline
\* comment with the whitespace before it kept if one was there, the comment
\* lines above with the blank lines around them kept, and the ones between them
\* gone with them (renderKeyValue, renderLineTail, setComment,
\* setLeadingComments).
OtherLinesStand ==
  [][/\ \A p \in Pairs, v \in Values :
          Set(p, v) =>
            LET i == IndexOf(p) IN
            /\ OnlyOwnLinesChange(i)
            /\ Own(doc', i) = [Own(doc, i) EXCEPT ![Len(Own(doc, i))].x = v]
     /\ \A p \in Constructs, note \in Written :
          SetComment(p, note) =>
            LET i == IndexOf(p)
                was == Last(Own(doc, i))
                is == Last(Own(doc', i))
            IN
            /\ OnlyOwnLinesChange(i)
            /\ Front(Own(doc', i)) = Front(Own(doc, i))
            /\ is = [was EXCEPT !.note = note, !.gap = is.gap]
            /\ was.note # <<>> /\ note # <<>> => is.gap = was.gap
     /\ \A p \in Constructs, notes \in Leads :
          SetLeadingComments(p, notes) =>
            LET i == IndexOf(p) IN
            /\ OnlyOwnLinesChange(i)
            /\ Own(doc', i)
                 = Recommented(Own(doc, i), [j \in DOMAIN notes |-> CommentLine(0, notes[j])])]_vars

\* Format writes every construct in its place with the comments it has; see
\* FormatKeepsText for what it makes of their text.
Plain(told) ==
  LET Bare(note) == IF note = <<>> THEN <<>> ELSE <<Last(note)>>
      All(notes) == [i \in DOMAIN notes |-> Bare(notes[i])]
  IN [constructs |-> [i \in DOMAIN told.constructs |->
                        [told.constructs[i] EXCEPT !.note = Bare(@), !.above = All(@)]],
      above |-> All(told.above)]
FormatKeepsComments ==
  Plain(Told(ParseDocument(Format(doc)))) = Plain(Told(doc))

\* "What this library preserves is CONTENT -- the comments" (format.go:52).
FormatKeepsText == Told(ParseDocument(Format(doc))) = Told(doc)

\* What Format makes of a text that was read is formatted: doing it again
\* changes nothing.  (A header appended behind a comment at the end of the
\* input takes the comment over only when it is read back.)
FormatAgainChangesNothing ==
  LET text == Format(ParseDocument(Bytes(doc)))
  IN Format(ParseDocument(text)) = text

\* Which of the lines that are not blank have a blank line above; whitespace
\* the input ended with is none.
GroupLine(g, line) ==
  IF line.k = "blank" THEN [g EXCEPT !.blank = @ \/ line.nl]
  ELSE [blank |-> FALSE, above |-> Append(g.above, g.blank)]
Ungrouped == [blank |-> FALSE, above |-> <<>>]
Grouping(text) == FoldLeft(GroupLine, Ungrouped, text).above
WrittenLines(d) == FlattenSeq([i \in DOMAIN Nodes(d) |-> SerializeNode(Nodes(d)[i])])
\* ... and which of them open what belongs to a header.
Openings(d) ==
  LET Of(n) == IF n.k = "text"
                 THEN IF n.line.k = "comment" THEN <<FALSE>> ELSE <<>>
                 ELSE [i \in 1..(Len(n.comments) + 1) |-> n.k = "header" /\ i = 1]
  IN FlattenSeq([i \in DOMAIN Nodes(d) |-> Of(Nodes(d)[i])])

\* Format keeps the writer's groups: one blank line where one or more stood, a
\* new one above a header and its comments only, none at either end
\* (writeBlankLine, formatTableSeparation, ensureTrailingNewline).
FormatKeepsGroups ==
  LET text == Format(doc)
      was == Grouping(WrittenLines(doc))
      is == Grouping(text)
      opens == Openings(doc)
  IN
  /\ DOMAIN is = DOMAIN was
  /\ \A j \in DOMAIN is : is[j] <=> j > 1 /\ (was[j] \/ opens[j])
  /\ text = <<EmptyLine>> \/ \A i \in DOMAIN text :
       text[i].k = "blank" => /\ text[i] = EmptyLine /\ i \notin {1, Len(text)}
                              /\ text[i - 1].k # "blank"
=============================================================================
