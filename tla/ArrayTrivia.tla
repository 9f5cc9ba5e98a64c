---------------------------- MODULE ArrayTrivia -----------------------------
(***************************************************************************)
(* An array value and the comments written inside it.                      *)
(*                                                                         *)
(* The parser keeps them twice: in the trivia of the elements they belong  *)
(* to, and in the gaps, the bytes before, between and after the elements.  *)
(* Bytes splices the gaps as long as they describe the array and rebuilds  *)
(* it from the trivia otherwise; Format knows the trivia only.  What       *)
(* stands between the brackets is a sequence of tokens: a value, a comma,  *)
(* a newline, or a comment with the width of the whitespace before it,     *)
(* which is the only whitespace modelled.  A value is opaque.              *)
(***************************************************************************)
EXTENDS Integers, Sequences, SequencesExt, FiniteSets

CONSTANTS Names,        \* names of values and of comments
          Texts,        \* what may stand between the brackets of a parsed array
          Values,       \* the values Set and AppendToArray write
          Comments,     \* the comments SetComment and SetLeadingComments write
          IndentWidth,  \* FormatConfig.IndentWidth
          MaxElements,  \* the elements an array may grow to
          MaxCalls      \* the calls of one history

VARIABLES arr,    \* the node: elements, trailing comments, gaps
          kept,   \* the comments of the text and of calls that no call took away
          unread, \* the comments of the text that reading it passed over
          moved,  \* whether elements changed places under the gaps there are
          calls

vars == <<arr, kept, unread, moved, calls>>

Value(v) == [k |-> "value", x |-> v, in |-> 0]
Comment(c, in) == [k |-> "comment", x |-> c, in |-> in]
Comma == [k |-> "comma", x |-> 0, in |-> 0]
Newline == [k |-> "newline", x |-> 0, in |-> 0]

CommentsIn(tokens) == {t.x : t \in {u \in ToSet(tokens) : u.k = "comment"}}

\* What stands in a gap, and what stands in a text.
CommentTokens == [k : {"comment"}, x : Names, in : Nat]
GapTokens == CommentTokens \cup {Comma, Newline}
Tokens == GapTokens \cup {Value(v) : v \in Names}

\* An inline comment is kept without the whitespace before it.
Inline == {<<>>} \cup {<<Comment(c, 0)>> : c \in Names}
Node == [val : Names, lead : Seq(CommentTokens), inline : Inline]
ArrayNode ==
  [elements : Seq(Node), trailing : Seq(CommentTokens), gaps : Seq(Seq(GapTokens))]

---------------------------------------------------------------------------
(***************************************************************************)
(* parseArrayValue, a token at a time.                                     *)
(***************************************************************************)
Start == [at |-> "trivia", elements |-> <<>>, lead |-> <<>>, gap |-> <<>>, gaps |-> <<>>]

\* The token is one more of the gap that is being passed.
Passing(r, t, at) == [r EXCEPT !.gap = Append(@, t), !.at = at]
\* ... and the inline comment of the element before.
WithInline(r, t, at) ==
  [Passing(r, t, at) EXCEPT !.elements[Len(r.elements)].inline = <<[t EXCEPT !.in = 0]>>]
Refused(r) == [r EXCEPT !.at = "refused"]

\* A value ends its gap and takes the comments collected on the way.
ParseElement(r, t) ==
  [at |-> "value",
   elements |-> Append(r.elements, [val |-> t.x, lead |-> r.lead, inline |-> <<>>]),
   lead |-> <<>>, gap |-> <<>>, gaps |-> Append(r.gaps, r.gap)]

\* Before an element or the closing bracket.
CollectArrayTrivia(r, t) ==
  CASE t.k = "value"   -> ParseElement(r, t)
    [] t.k = "newline" -> Passing(r, t, "trivia")
    [] t.k = "comment" -> [Passing(r, t, "trivia") EXCEPT !.lead = Append(@, t)]
    [] OTHER           -> Refused(r)

\* Behind a value: newlines are skipped on the way to what comes next.
AfterValue(r, t) ==
  CASE t.k = "newline" -> Passing(r, t, "value")
    [] t.k = "comma"   -> Passing(r, t, "comma")
    [] t.k = "comment" -> WithInline(r, t, "skip")
    [] OTHER           -> Refused(r)

\* Behind a comma: a comment on its line is still the element's.
CollectArrayInlineTrivia(r, t) ==
  IF t.k = "comment" THEN WithInline(r, t, "trivia") ELSE CollectArrayTrivia(r, t)

\* Behind an inline comment that came before the comma: nothing is collected.
SkipArrayTrivia(r, t) ==
  CASE t.k \in {"newline", "comment"} -> Passing(r, t, "skip")
    [] t.k = "comma" -> Passing(r, t, "trivia")
    [] OTHER         -> Refused(r)

ReadToken(r, t) ==
  CASE r.at = "trivia" -> CollectArrayTrivia(r, t)
    [] r.at = "value"  -> AfterValue(r, t)
    [] r.at = "comma"  -> CollectArrayInlineTrivia(r, t)
    [] r.at = "skip"   -> SkipArrayTrivia(r, t)
    [] OTHER           -> r

Reading(tokens) == FoldLeft(ReadToken, Start, tokens)

\* The lexer ends a comment at its newline.
CommentsEnd(tokens) ==
  \A i \in DOMAIN tokens :
    tokens[i].k = "comment" => i < Len(tokens) /\ tokens[i + 1] = Newline

Readable(tokens) == CommentsEnd(tokens) /\ Reading(tokens).at # "refused"

ParseArrayValue(tokens) ==
  LET r == Reading(tokens) IN
  [elements |-> r.elements, trailing |-> r.lead, gaps |-> Append(r.gaps, r.gap)]

ASSUME InputsAssumption ==
  /\ Values \subseteq Names /\ Comments \subseteq Names /\ IndentWidth \in Nat
  /\ \A text \in Texts : text \in Seq(Tokens) /\ Readable(text)

---------------------------------------------------------------------------
(***************************************************************************)
(* renderArray and formatArray.                                            *)
(***************************************************************************)
\* containerGaps: whether the gaps still describe the array.
HasGaps(a) == Len(a.gaps) = Len(a.elements) + 1

SpliceContainer(a) ==
  FlattenSeq([i \in DOMAIN a.elements |-> Append(a.gaps[i], Value(a.elements[i].val))])
    \o a.gaps[Len(a.elements) + 1]

HasComments(a) ==
  \/ a.trailing # <<>>
  \/ \E i \in DOMAIN a.elements : a.elements[i].lead # <<>> \/ a.elements[i].inline # <<>>

\* Each comment on a line of its own.
Lines(comments) == FlattenSeq([i \in DOMAIN comments |-> <<comments[i], Newline>>])

InOneLine(a) ==
  FlattenSeq([i \in DOMAIN a.elements |->
                (IF i = 1 THEN <<>> ELSE <<Comma>>) \o <<Value(a.elements[i].val)>>])

\* A faulty line of an element: no comma behind the last.
ElementLineBare(a, i) ==
  LET e == a.elements[i]
      comma == IF i = Len(a.elements) THEN <<>> ELSE <<Comma>>
  IN Lines(e.lead) \o <<Value(e.val)>> \o comma \o Append(e.inline, Newline)
ElementLine(a, i) ==
  LET e == a.elements[i]
  IN Lines(e.lead) \o <<Value(e.val), Comma>> \o Append(e.inline, Newline)

MultiLine(a) ==
  <<Newline>> \o FlattenSeq([i \in DOMAIN a.elements |-> ElementLine(a, i)])
    \o Lines(a.trailing)

RenderArray(a) ==
  IF HasGaps(a) THEN SpliceContainer(a)
  ELSE IF HasComments(a) THEN MultiLine(a)
  ELSE InOneLine(a)

\* formatArrayMultiLine indents a comment's line, which brings the whitespace
\* it was read with.
Indented(a) ==
  LET In(comments) == [i \in DOMAIN comments |-> [comments[i] EXCEPT !.in = @ + IndentWidth]]
  IN [a EXCEPT !.elements = [i \in DOMAIN @ |-> [a.elements[i] EXCEPT !.lead = In(@)]],
               !.trailing = In(@)]

\* Whether an array without comments fits the line is the caller's to say.
FormatArray(a, fits) ==
  IF a.elements = <<>> THEN <<>>
  ELSE IF HasComments(a) \/ ~fits THEN MultiLine(Indented(a))
  ELSE InOneLine(a)

---------------------------------------------------------------------------
(***************************************************************************)
(* The edits.  An index out of range and an order that is no permutation   *)
(* are refused and change nothing.                                         *)
(***************************************************************************)
CommentsOf(e) == CommentsIn(e.lead) \cup CommentsIn(e.inline)
Elements == DOMAIN arr.elements
\* The comments the accessors answer (Comment, LeadingComments).
Told(a) ==
  CommentsIn(a.trailing) \cup UNION {CommentsOf(a.elements[i]) : i \in DOMAIN a.elements}

\* A faulty setContents: whatever was written, the gaps are dropped.
SetContentsDropping(items) == [arr EXCEPT !.elements = items, !.gaps = <<>>]
\* setContents: gaps for another number of elements are dropped.
SetContents(items) ==
  [arr EXCEPT !.elements = items,
              !.gaps = IF Len(items) = Len(arr.elements) THEN @ ELSE <<>>]

\* A faulty setComment: the element's parent keeps its gaps.
SetTriviaOnly(i, e) == [arr EXCEPT !.elements[i] = e]
\* dropGapsOf the element's parent, which setComment and setLeadingComments do.
SetTrivia(i, e) == [arr EXCEPT !.elements[i] = e, !.gaps = <<>>]

Call ==
  /\ calls < MaxCalls /\ calls' = calls + 1
  /\ moved' = (moved /\ arr'.gaps # <<>>)
  /\ UNCHANGED unread

\* A faulty replacement: the new node starts with trivia of its own.
ReplacedAnew(e, v) == [val |-> v, lead |-> <<>>, inline |-> <<>>]
Replaced(e, v) == [e EXCEPT !.val = v]

\* Set("a[i]", v) (setIndexInParent).
Set(i, v) ==
  /\ arr' = SetContents([arr.elements EXCEPT ![i] = Replaced(@, v)])
  /\ UNCHANGED kept
  /\ Call

AppendToArray(v) ==
  /\ Len(arr.elements) < MaxElements
  /\ arr' = SetContents(Append(arr.elements, [val |-> v, lead |-> <<>>, inline |-> <<>>]))
  /\ UNCHANGED kept
  /\ Call

\* RemoveFromArray, and Delete("a[i]"): the element's comments go with it.
RemoveFromArray(i) ==
  /\ arr' = SetContents(RemoveAt(arr.elements, i))
  /\ kept' = kept \ CommentsOf(arr.elements[i])
  /\ Call

\* PermuteChildren: position j gets the element at order[j].
PermuteChildren(order) ==
  /\ arr' = SetContents([j \in Elements |-> arr.elements[order[j]]])
  /\ UNCHANGED <<kept, unread>>
  /\ calls < MaxCalls /\ calls' = calls + 1
  /\ moved' = (arr.gaps # <<>>)

\* SetComment("a[i]", text); comment is empty when the text is.
SetComment(i, comment) ==
  LET e == arr.elements[i] IN
  /\ arr' = SetTrivia(i, [e EXCEPT !.inline = comment])
  /\ kept' = (kept \ CommentsIn(e.inline)) \cup CommentsIn(comment)
  /\ Call

SetLeadingComments(i, comments) ==
  LET e == arr.elements[i] IN
  /\ arr' = SetTrivia(i, [e EXCEPT !.lead = comments])
  /\ kept' = (kept \ CommentsIn(e.lead)) \cup CommentsIn(comments)
  /\ Call

\* permuteNodes: every index in range and none twice.
Orders == Bijection(Elements, Elements)
Written == {<<>>} \cup {<<Comment(c, 0)>> : c \in Comments}

Init ==
  /\ \E text \in Texts :
       /\ arr = ParseArrayValue(text)
       /\ kept = CommentsIn(text)
       /\ unread = CommentsIn(text) \ Told(arr)
  /\ moved = FALSE /\ calls = 0

Next ==
  \/ \E i \in Elements, v \in Values : Set(i, v)
  \/ \E v \in Values : AppendToArray(v)
  \/ \E i \in Elements : RemoveFromArray(i)
  \/ \E order \in Orders : PermuteChildren(order)
  \/ \E i \in Elements, comment \in Written : SetComment(i, comment)
  \/ \E i \in Elements, comments \in Written : SetLeadingComments(i, comments)

Spec == Init /\ [][Next]_vars

---------------------------------------------------------------------------
(***************************************************************************)
(* Properties.                                                             *)
(***************************************************************************)
Contents(a) == [elements |-> a.elements, trailing |-> a.trailing]
ReadsAs(tokens, contents) ==
  Readable(tokens) /\ Contents(ParseArrayValue(tokens)) = contents

\* What Bytes writes after any edits is an array that reads back as the values
\* and comments the document answers, each comment at the element it was at:
\* the gaps and the trivia never tell two stories (containerGaps, dropGapsOf),
\* and a rebuilt array puts a comma before every inline comment (renderArray).
\* Elements that changed places under their gaps lose none, but see
\* TriviaTravels.
BytesReadBack ==
  /\ ~moved => ReadsAs(RenderArray(arr), Contents(arr))
  /\ Told(arr) \subseteq CommentsIn(RenderArray(arr))

\* PermuteChildren's word: a child's comments travel with it.
TriviaTravels == ReadsAs(RenderArray(arr), Contents(arr))

\* A comment that was read or written stays with the array, at some element or
\* behind the last, until a call takes it or its element away
\* (setIndexInParent, permuteNodes, setComment).
EditsKeepComments == kept \ unread \subseteq Told(arr)

\* The README's word: every comment is preserved through arbitrary edits.
EveryCommentKept == kept \subseteq CommentsIn(RenderArray(arr))

\* Format writes an array of elements so that it reads back with the same
\* values and the same comments at each, however wide the line may be.
Flush(comments) == [i \in DOMAIN comments |-> [comments[i] EXCEPT !.in = 0]]
Unindented(a) ==
  [elements |-> [i \in DOMAIN a.elements |-> [a.elements[i] EXCEPT !.lead = Flush(@)]],
   trailing |-> Flush(a.trailing)]
FormatReadsBack ==
  \A fits \in BOOLEAN :
    LET tokens == FormatArray(arr, fits) IN
    arr.elements # <<>> =>
      Readable(tokens) /\ Unindented(ParseArrayValue(tokens)) = Unindented(arr)

\* Writing an element replaces the bytes of its value and no others, whatever
\* stands in the gaps and whatever was edited before (setContents).
ValueAt(tokens, i) ==
  CHOOSE j \in DOMAIN tokens :
    /\ tokens[j].k = "value"
    /\ Cardinality({m \in 1..j : tokens[m].k = "value"}) = i
RestStands ==
  [][\A i \in Elements, v \in Values :
       Set(i, v) =>
         RenderArray(arr') =
           [RenderArray(arr) EXCEPT ![ValueAt(RenderArray(arr), i)] = Value(v)]]_vars
=============================================================================
