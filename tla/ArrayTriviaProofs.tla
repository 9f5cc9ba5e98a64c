------------------------- MODULE ArrayTriviaProofs --------------------------
(***************************************************************************)
(* What Bytes and Format write of an array reads back, no edit loses a     *)
(* comment that no call took away, and a write replaces the bytes of one   *)
(* value, for arrays of any length and calls in any number.  The reading   *)
(* is a fold over the tokens; what it makes of a text is followed a piece  *)
(* at a time, on the facts of FoldLemmas.                                  *)
(***************************************************************************)
EXTENDS ArrayTrivia, SequenceTheorems, FiniteSetTheorems, TLAPS

R == INSTANCE FoldLemmas WITH Step <- ReadToken

---------------------------------------------------------------------------
(***************************************************************************)
(* Reading from a place, and the facts about folds it is known by.         *)
(***************************************************************************)
From(r, tokens) == R!Fold(r, tokens)

LEMMA ReadingIs == \A tokens : Reading(tokens) = From(Start, tokens)
BY DEF Reading, From, R!Fold, FoldLeft, MapThenFoldSet, R!FoldLeft, R!MapThenFoldSet,
       Max, R!Max

LEMMA FlattenIs == \A ss : FlattenSeq(ss) = R!FlattenSeq(ss)
BY DEF FlattenSeq, R!FlattenSeq

LEMMA Induct ==
  ASSUME NEW S, 0 \in S, \A n \in Nat : n \in S => n + 1 \in S
  PROVE  Nat \subseteq S
BY R!Induct, Zenon

LEMMA FlattenStages ==
  ASSUME NEW T, NEW ss \in Seq(Seq(T))
  PROVE  /\ FlattenSeq(SubSeq(ss, 1, 0)) = <<>>
         /\ FlattenSeq(SubSeq(ss, 1, Len(ss))) = FlattenSeq(ss)
         /\ \A n \in 0..Len(ss) : FlattenSeq(SubSeq(ss, 1, n)) \in Seq(T)
         /\ \A n \in Nat : n < Len(ss) =>
              FlattenSeq(SubSeq(ss, 1, n + 1)) = FlattenSeq(SubSeq(ss, 1, n)) \o ss[n + 1]
BY R!FlattenStages, FlattenIs, Zenon

LEMMA FlattenKeeps ==
  ASSUME NEW T, NEW I \in SUBSET Seq(T), <<>> \in I, \A s, t \in I : s \o t \in I,
         NEW ss \in Seq(I)
  PROVE  FlattenSeq(ss) \in I
<1>1. R!FlattenSeq(ss) \in I
  BY R!FlattenKeeps, Zenon
<1>2. QED
  BY <1>1, FlattenIs

LEMMA FromNone == \A r : From(r, <<>>) = r
BY R!FoldEmpty DEF From

LEMMA FromOne ==
  ASSUME NEW r, NEW t \in Tokens
  PROVE  From(r, <<t>>) = ReadToken(r, t)
<1> DEFINE u == <<>>
<1>1. u \in Seq(Tokens) /\ <<t>> = Append(u, t) /\ From(r, u) = r
  BY FromNone
<1> HIDE DEF u
<1>2. R!Fold(r, Append(u, t)) = ReadToken(R!Fold(r, u), t)
  BY <1>1, R!FoldAppend
<1>3. QED
  BY <1>1, <1>2 DEF From

LEMMA FromConcat ==
  ASSUME NEW r, NEW s \in Seq(Tokens), NEW t \in Seq(Tokens)
  PROVE  From(r, s \o t) = From(From(r, s), t)
BY R!FoldConcat DEF From

LEMMA FromTwo ==
  ASSUME NEW r, NEW s \in Tokens, NEW t \in Tokens
  PROVE  From(r, <<s, t>>) = ReadToken(ReadToken(r, s), t)
<1> DEFINE u == <<s>>
<1>1. u \in Seq(Tokens) /\ <<s, t>> = Append(u, t) /\ From(r, u) = ReadToken(r, s)
  BY FromOne
<1> HIDE DEF u
<1>2. R!Fold(r, Append(u, t)) = ReadToken(R!Fold(r, u), t)
  BY <1>1, R!FoldAppend
<1>3. QED
  BY <1>1, <1>2 DEF From

---------------------------------------------------------------------------
(***************************************************************************)
(* Tokens and places.                                                      *)
(***************************************************************************)
LEMMA TokenCases ==
  ASSUME NEW t \in Tokens
  PROVE  \/ \E v \in Names : t = Value(v)
         \/ t \in CommentTokens
         \/ t = Comma
         \/ t = Newline
BY DEF Tokens, GapTokens

LEMMA Kinds ==
  /\ \A v : Value(v).k = "value" /\ Value(v).x = v
  /\ \A c \in CommentTokens : c.k = "comment"
  /\ Comma.k = "comma" /\ Newline.k = "newline"
  /\ \A v \in Names : Value(v) \in Tokens
  /\ CommentTokens \subseteq GapTokens /\ GapTokens \subseteq Tokens
  /\ Comma \in GapTokens /\ Newline \in GapTokens
  /\ \A t \in GapTokens : t.k # "value"
<1>1. /\ \A v : Value(v).k = "value" /\ Value(v).x = v
      /\ Comma.k = "comma" /\ Newline.k = "newline"
  BY DEF Value, Comma, Newline
<1>2. \A c \in CommentTokens : c.k = "comment"
  BY DEF CommentTokens
<1>3. /\ CommentTokens \subseteq GapTokens /\ GapTokens \subseteq Tokens
      /\ Comma \in GapTokens /\ Newline \in GapTokens
      /\ \A v \in Names : Value(v) \in Tokens
  BY DEF GapTokens, Tokens
<1>4. \A t \in GapTokens : t.k # "value"
  BY <1>1, <1>2 DEF GapTokens
<1>5. QED
  BY <1>1, <1>2, <1>3, <1>4

\* The places in the loop of parseArrayValue.
Places == [at : {"trivia", "value", "comma", "skip", "refused"}, elements : Seq(Node),
           lead : Seq(CommentTokens), gap : Seq(GapTokens), gaps : Seq(Seq(GapTokens))]
\* Where an inline comment may come, there is an element it belongs to.
Sound(r) == /\ r \in Places /\ Len(r.gaps) = Len(r.elements)
            /\ r.at \in {"value", "comma"} => r.elements # <<>>

LEMMA PassingSound ==
  ASSUME NEW r, Sound(r), NEW t \in GapTokens, NEW at \in {"trivia", "value", "comma", "skip"},
         at \in {"value", "comma"} => r.elements # <<>>
  PROVE  LET q == Passing(r, t, at) IN
         /\ Sound(q) /\ q.at = at /\ q.elements = r.elements /\ q.lead = r.lead
         /\ q.gap = Append(r.gap, t) /\ q.gaps = r.gaps
<1> DEFINE q == Passing(r, t, at)
<1>1. r \in Places /\ Append(r.gap, t) \in Seq(GapTokens)
  BY DEF Sound, Places
<1> DEFINE g == Append(r.gap, t)
<1> HIDE DEF g
<1>2. q = [r EXCEPT !.gap = g, !.at = at]
  BY DEF Passing, g
<1>3. /\ q \in Places /\ q.at = at /\ q.elements = r.elements /\ q.lead = r.lead
      /\ q.gap = g /\ q.gaps = r.gaps
  BY <1>1, <1>2 DEF Places, g
<1> HIDE DEF q
<1>4. Sound(q)
  BY <1>3 DEF Sound
<1>5. QED
  BY <1>3, <1>4 DEF g, q


\* A token that is refused, or read where all is refused.
LEMMA RefusedSound ==
  ASSUME NEW r, Sound(r)
  PROVE  LET q == Refused(r) IN
         /\ Sound(q) /\ q.at = "refused" /\ q.elements = r.elements /\ q.lead = r.lead
         /\ q.gap = r.gap /\ q.gaps = r.gaps
<1> DEFINE q == Refused(r)
<1>1. /\ q \in Places /\ q.at = "refused" /\ q.elements = r.elements /\ q.lead = r.lead
      /\ q.gap = r.gap /\ q.gaps = r.gaps
  BY DEF Refused, Sound, Places
<1> HIDE DEF q
<1>2. Sound(q)
  BY <1>1 DEF Sound
<1>3. QED
  BY <1>1, <1>2 DEF q

\* Which turn of the loop a token is.
LEMMA Turns ==
  ASSUME NEW r, NEW t
  PROVE  /\ r.at = "trivia" => ReadToken(r, t) = CollectArrayTrivia(r, t)
         /\ r.at = "value" => ReadToken(r, t) = AfterValue(r, t)
         /\ r.at = "comma" /\ t.k = "comment" => ReadToken(r, t) = WithInline(r, t, "trivia")
         /\ r.at = "comma" /\ t.k # "comment" => ReadToken(r, t) = CollectArrayTrivia(r, t)
         /\ r.at = "skip" => ReadToken(r, t) = SkipArrayTrivia(r, t)
         /\ r.at = "refused" => ReadToken(r, t) = r
<1>1. CASE r.at = "trivia"
  BY <1>1, Zenon DEF ReadToken
<1>2. CASE r.at = "value"
  <2>1. r.at # "trivia"
    BY <1>2
  <2>2. QED
    BY <1>2, <2>1, Zenon DEF ReadToken
<1>3. CASE r.at = "comma"
  <2>1. r.at # "trivia" /\ r.at # "value"
    BY <1>3
  <2>2. ReadToken(r, t) = CollectArrayInlineTrivia(r, t)
    BY <1>3, <2>1, Zenon DEF ReadToken
  <2>3. QED
    BY <1>3, <2>2 DEF CollectArrayInlineTrivia
<1>4. CASE r.at = "skip"
  <2>1. r.at # "trivia" /\ r.at # "value" /\ r.at # "comma"
    BY <1>4
  <2>2. QED
    BY <1>4, <2>1, Zenon DEF ReadToken
<1>5. CASE r.at = "refused"
  <2>1. r.at # "trivia" /\ r.at # "value" /\ r.at # "comma" /\ r.at # "skip"
    BY <1>5
  <2>2. QED
    BY <1>5, <2>1, Zenon DEF ReadToken
<1>6. QED
  BY <1>1, <1>2, <1>3, <1>4, <1>5, Zenon

LEMMA ReadNewline ==
  ASSUME NEW r, Sound(r), r.at # "refused"
  PROVE  LET q == ReadToken(r, Newline) IN
         /\ Sound(q) /\ q.elements = r.elements /\ q.lead = r.lead
         /\ q.gap = Append(r.gap, Newline) /\ q.gaps = r.gaps
         /\ q.at = IF r.at = "comma" THEN "trivia" ELSE r.at
<1> DEFINE at == IF r.at = "comma" THEN "trivia" ELSE r.at
<1>1. Newline.k = "newline" /\ Newline.k # "value" /\ Newline.k # "comment" /\ Newline.k # "comma"
      /\ Newline \in GapTokens /\ Newline.k \in {"newline", "comment"}
  BY Kinds
<1>2. CollectArrayTrivia(r, Newline) = Passing(r, Newline, "trivia")
  BY <1>1, Zenon DEF CollectArrayTrivia
<1>3. AfterValue(r, Newline) = Passing(r, Newline, "value")
  BY <1>1, Zenon DEF AfterValue
<1>4. SkipArrayTrivia(r, Newline) = Passing(r, Newline, "skip")
  BY <1>1, Zenon DEF SkipArrayTrivia
<1>5. r.at \in {"trivia", "value", "comma", "skip"}
  BY DEF Sound, Places
<1>6. /\ at \in {"trivia", "value", "comma", "skip"}
      /\ at \in {"value", "comma"} => r.elements # <<>>
  BY <1>5 DEF Sound
<1>7. ReadToken(r, Newline) = Passing(r, Newline, at)
  <2>1. CASE r.at = "trivia"
    BY <1>2, <2>1, Turns
  <2>2. CASE r.at = "value"
    BY <1>3, <2>2, Turns
  <2>3. CASE r.at = "comma"
    BY <1>1, <1>2, <2>3, Turns
  <2>4. CASE r.at = "skip"
    BY <1>4, <2>4, Turns
  <2>5. QED
    BY <1>5, <2>1, <2>2, <2>3, <2>4
<1> HIDE DEF at
<1>8. QED
  BY <1>1, <1>6, <1>7, PassingSound, SMTT(40) DEF at

LEMMA ReadComma ==
  ASSUME NEW r, Sound(r), r.at # "refused"
  PROVE  LET q == ReadToken(r, Comma) IN
         /\ Sound(q) /\ q.elements = r.elements /\ q.lead = r.lead /\ q.gaps = r.gaps
         /\ q.gap = IF r.at \in {"value", "skip"} THEN Append(r.gap, Comma) ELSE r.gap
         /\ q.at = IF r.at = "value" THEN "comma"
                   ELSE IF r.at = "skip" THEN "trivia" ELSE "refused"
<1>1. Comma.k = "comma" /\ Comma.k # "value" /\ Comma.k # "comment" /\ Comma.k # "newline"
      /\ Comma \in GapTokens /\ Comma.k \notin {"newline", "comment"}
  BY Kinds
<1>2. CollectArrayTrivia(r, Comma) = Refused(r)
  BY <1>1, Zenon DEF CollectArrayTrivia
<1>3. AfterValue(r, Comma) = Passing(r, Comma, "comma")
  BY <1>1, Zenon DEF AfterValue
<1>4. SkipArrayTrivia(r, Comma) = Passing(r, Comma, "trivia")
  BY <1>1, Zenon DEF SkipArrayTrivia
<1>5. r.at \in {"trivia", "value", "comma", "skip"}
  BY DEF Sound, Places
<1>6. CASE r.at = "trivia" \/ r.at = "comma"
  <2>1. ReadToken(r, Comma) = Refused(r)
    BY <1>1, <1>2, <1>6, Turns
  <2>2. r.at # "value" /\ r.at # "skip"
    BY <1>6
  <2>3. QED
    BY <2>1, <2>2, RefusedSound, Zenon
<1>7. CASE r.at = "value"
  <2>1. ReadToken(r, Comma) = Passing(r, Comma, "comma")
    BY <1>3, <1>7, Turns
  <2>2. r.elements # <<>>
    BY <1>7 DEF Sound
  <2>3. LET q == Passing(r, Comma, "comma") IN
        /\ Sound(q) /\ q.at = "comma" /\ q.elements = r.elements /\ q.lead = r.lead
        /\ q.gap = Append(r.gap, Comma) /\ q.gaps = r.gaps
    BY <1>1, <2>2, PassingSound
  <2>4. QED
    BY <1>7, <2>1, <2>3, Zenon
<1>8. CASE r.at = "skip"
  <2>1. ReadToken(r, Comma) = Passing(r, Comma, "trivia") /\ r.at # "value"
    BY <1>4, <1>8, Turns
  <2>2. LET q == Passing(r, Comma, "trivia") IN
        /\ Sound(q) /\ q.at = "trivia" /\ q.elements = r.elements /\ q.lead = r.lead
        /\ q.gap = Append(r.gap, Comma) /\ q.gaps = r.gaps
    BY <1>1, PassingSound
  <2>3. QED
    BY <1>8, <2>1, <2>2, Zenon
<1>9. QED
  BY <1>5, <1>6, <1>7, <1>8

\* An element with an inline comment.
Noted(e, c) == [val |-> e.val, lead |-> e.lead, inline |-> <<Comment(c.x, 0)>>]

LEMMA NotedTyped ==
  ASSUME NEW e \in Node, NEW c \in CommentTokens
  PROVE  Noted(e, c) \in Node
<1>1. c.x \in Names
  BY DEF CommentTokens
<1>2. <<Comment(c.x, 0)>> \in Inline
  BY <1>1 DEF Inline
<1>3. QED
  BY <1>2 DEF Noted, Node

LEMMA WithInlineSound ==
  ASSUME NEW r, Sound(r), r.elements # <<>>, NEW c \in CommentTokens,
         NEW at \in {"trivia", "skip"}
  PROVE  LET q == WithInline(r, c, at)
             n == Len(r.elements)
         IN /\ Sound(q) /\ q.at = at /\ q.lead = r.lead
            /\ q.gap = Append(r.gap, c) /\ q.gaps = r.gaps
            /\ q.elements = [r.elements EXCEPT ![n] = Noted(@, c)]
<1> DEFINE q == WithInline(r, c, at)
           n == Len(r.elements)
           p == Passing(r, c, at)
           new == [c EXCEPT !.in = 0]
           els == [r.elements EXCEPT ![n] = Noted(@, c)]
<1>1. /\ Sound(p) /\ p.at = at /\ p.elements = r.elements /\ p.lead = r.lead
      /\ p.gap = Append(r.gap, c) /\ p.gaps = r.gaps
  <2>1. c \in GapTokens /\ at \notin {"value", "comma"}
    BY Kinds
  <2>2. QED
    BY <2>1, PassingSound, SMTT(40)
<1>2. r.elements \in Seq(Node) /\ n \in 1..n /\ n \in Nat
  BY DEF Sound, Places
<1>3. r.elements[n] \in Node
  BY <1>2
<1>4. new = Comment(c.x, 0)
  BY DEF CommentTokens, Comment
<1>5. [r.elements[n] EXCEPT !.inline = <<new>>] = Noted(r.elements[n], c)
  BY <1>3, <1>4 DEF Noted, Node
<1>6. els \in Seq(Node) /\ Len(els) = n /\ els # <<>>
  BY <1>2, <1>3, NotedTyped
<1>7. q = [p EXCEPT !.elements = els]
  <2> HIDE DEF p
  <2>1. q = [p EXCEPT !.elements = [p.elements EXCEPT ![n] = [@ EXCEPT !.inline = <<new>>]]]
    BY DEF WithInline, p
  <2>2. [p.elements EXCEPT ![n] = [@ EXCEPT !.inline = <<new>>]] = els
    BY <1>1, <1>5
  <2>3. QED
    BY <2>1, <2>2
<1> HIDE DEF p, els, q
<1>8. /\ q \in Places /\ q.at = at /\ q.elements = els /\ q.lead = p.lead
      /\ q.gap = p.gap /\ q.gaps = p.gaps
  BY <1>1, <1>6, <1>7 DEF Sound, Places
<1>9. Sound(q)
  BY <1>1, <1>6, <1>8 DEF Sound
<1>10. QED
  BY <1>1, <1>8, <1>9 DEF q, els

LEMMA ReadComment ==
  ASSUME NEW r, Sound(r), r.at # "refused", NEW c \in CommentTokens
  PROVE  LET q == ReadToken(r, c)
             n == Len(r.elements)
         IN /\ Sound(q) /\ q.gap = Append(r.gap, c) /\ q.gaps = r.gaps
            /\ q.at = IF r.at \in {"trivia", "comma"} THEN "trivia" ELSE "skip"
            /\ q.lead = IF r.at = "trivia" THEN Append(r.lead, c) ELSE r.lead
            /\ q.elements = IF r.at \in {"value", "comma"}
                            THEN [r.elements EXCEPT ![n] = Noted(@, c)] ELSE r.elements
<1> DEFINE q == ReadToken(r, c)
           n == Len(r.elements)
<1>1. c.k = "comment" /\ c.k # "value" /\ c.k # "newline" /\ c.k # "comma" /\ c \in GapTokens
      /\ c.k \in {"newline", "comment"}
  BY Kinds
<1>2. CollectArrayTrivia(r, c) = [Passing(r, c, "trivia") EXCEPT !.lead = Append(@, c)]
  BY <1>1, Zenon DEF CollectArrayTrivia
<1>3. AfterValue(r, c) = WithInline(r, c, "skip")
  BY <1>1, Zenon DEF AfterValue
<1>4. SkipArrayTrivia(r, c) = Passing(r, c, "skip")
  BY <1>1, Zenon DEF SkipArrayTrivia
<1>5. r.at \in {"trivia", "value", "comma", "skip"}
  BY DEF Sound, Places
<1>6. CASE r.at = "trivia"
  <2> DEFINE p == Passing(r, c, "trivia")
             lead == Append(r.lead, c)
  <2>1. /\ Sound(p) /\ p.at = "trivia" /\ p.elements = r.elements /\ p.lead = r.lead
        /\ p.gap = Append(r.gap, c) /\ p.gaps = r.gaps
    BY <1>1, PassingSound
  <2>2. lead \in Seq(CommentTokens)
    BY DEF Sound, Places
  <2> HIDE DEF p, lead
  <2>3. q = [p EXCEPT !.lead = lead]
    BY <1>2, <1>6, <2>1, Turns DEF p, lead
  <2> HIDE DEF q
  <2>4. /\ q \in Places /\ q.at = "trivia" /\ q.elements = p.elements /\ q.lead = lead
        /\ q.gap = p.gap /\ q.gaps = p.gaps
    BY <2>1, <2>2, <2>3 DEF Sound, Places
  <2>5. Sound(q)
    BY <2>1, <2>4 DEF Sound
  <2>6. QED
    BY <1>6, <2>1, <2>4, <2>5 DEF q, lead
<1>7. CASE r.at = "value"
  <2>1. q = WithInline(r, c, "skip") /\ r.elements # <<>>
    BY <1>3, <1>7, Turns DEF Sound
  <2>2. /\ Sound(q) /\ q.at = "skip" /\ q.lead = r.lead
        /\ q.gap = Append(r.gap, c) /\ q.gaps = r.gaps
        /\ q.elements = [r.elements EXCEPT ![n] = Noted(@, c)]
    BY <2>1, WithInlineSound
  <2> HIDE DEF q
  <2>3. QED
    BY <1>7, <2>2 DEF q
<1>8. CASE r.at = "comma"
  <2>1. q = WithInline(r, c, "trivia") /\ r.elements # <<>>
    BY <1>1, <1>8, Turns DEF Sound
  <2>2. /\ Sound(q) /\ q.at = "trivia" /\ q.lead = r.lead
        /\ q.gap = Append(r.gap, c) /\ q.gaps = r.gaps
        /\ q.elements = [r.elements EXCEPT ![n] = Noted(@, c)]
    BY <2>1, WithInlineSound
  <2> HIDE DEF q
  <2>3. QED
    BY <1>8, <2>2 DEF q
<1>9. CASE r.at = "skip"
  <2>1. q = Passing(r, c, "skip")
    BY <1>4, <1>9, Turns
  <2>2. /\ Sound(q) /\ q.at = "skip" /\ q.elements = r.elements /\ q.lead = r.lead
        /\ q.gap = Append(r.gap, c) /\ q.gaps = r.gaps
    BY <1>1, <2>1, PassingSound
  <2> HIDE DEF q
  <2>3. QED
    BY <1>9, <2>2 DEF q
<1>10. QED
  BY <1>5, <1>6, <1>7, <1>8, <1>9

\* A new element.
Bare(v, lead) == [val |-> v, lead |-> lead, inline |-> <<>>]

LEMMA ReadValue ==
  ASSUME NEW r, Sound(r), r.at # "refused", NEW v \in Names
  PROVE  LET q == ReadToken(r, Value(v)) IN
         IF r.at \in {"trivia", "comma"}
         THEN /\ Sound(q) /\ q.at = "value" /\ q.lead = <<>> /\ q.gap = <<>>
              /\ q.elements = Append(r.elements, Bare(v, r.lead))
              /\ q.gaps = Append(r.gaps, r.gap)
         ELSE q = Refused(r)
<1> DEFINE q == ReadToken(r, Value(v))
<1>1. /\ Value(v).k = "value" /\ Value(v).x = v
      /\ Value(v).k # "comment" /\ Value(v).k # "newline" /\ Value(v).k # "comma"
      /\ Value(v).k \notin {"newline", "comment"}
  BY Kinds
<1>2. CollectArrayTrivia(r, Value(v)) = ParseElement(r, Value(v))
  BY <1>1, Zenon DEF CollectArrayTrivia
<1>3. AfterValue(r, Value(v)) = Refused(r)
  BY <1>1, Zenon DEF AfterValue
<1>4. SkipArrayTrivia(r, Value(v)) = Refused(r)
  BY <1>1, Zenon DEF SkipArrayTrivia
<1>5. r.at \in {"trivia", "value", "comma", "skip"}
  BY DEF Sound, Places
<1>6. CASE r.at \in {"trivia", "comma"}
  <2> DEFINE els == Append(r.elements, Bare(v, r.lead))
             gaps == Append(r.gaps, r.gap)
  <2>1. q = ParseElement(r, Value(v))
    BY <1>1, <1>2, <1>6, Turns
  <2>2. /\ r.elements \in Seq(Node) /\ r.gaps \in Seq(Seq(GapTokens)) /\ r.gap \in Seq(GapTokens)
        /\ r.lead \in Seq(CommentTokens) /\ Len(r.gaps) = Len(r.elements)
    BY DEF Sound, Places
  <2>3. Bare(v, r.lead) \in Node
    BY <2>2 DEF Bare, Node, Inline
  <2>4. els \in Seq(Node) /\ els # <<>> /\ Len(els) = Len(r.elements) + 1
    BY <2>2, <2>3, SMTT(40)
  <2>5. gaps \in Seq(Seq(GapTokens)) /\ Len(gaps) = Len(r.gaps) + 1
    BY <2>2, AppendProperties
  <2>6. q = [at |-> "value", elements |-> els, lead |-> <<>>, gap |-> <<>>, gaps |-> gaps]
    BY <1>1, <2>1 DEF ParseElement, Bare
  <2> HIDE DEF els, gaps, q
  <2>7. /\ q \in Places /\ q.at = "value" /\ q.elements = els /\ q.lead = <<>>
        /\ q.gap = <<>> /\ q.gaps = gaps
    BY <2>4, <2>5, <2>6 DEF Places
  <2>8. Sound(q)
    BY <2>2, <2>4, <2>5, <2>7 DEF Sound
  <2>9. QED
    BY <1>6, <2>7, <2>8 DEF q, els, gaps
<1>7. CASE r.at \notin {"trivia", "comma"}
  <2>1. q = Refused(r)
    BY <1>3, <1>4, <1>5, <1>7, Turns
  <2> HIDE DEF q
  <2>2. QED
    BY <1>7, <2>1 DEF q
<1>8. QED
  BY <1>6, <1>7

---------------------------------------------------------------------------
(***************************************************************************)
(* What is written.  Every comment is followed by a newline, and lines of  *)
(* comments are read into the trivia of what follows.                      *)
(***************************************************************************)
Ended == {s \in Seq(Tokens) : CommentsEnd(s)}

LEMMA EndedConcat == \A s, t \in Ended : s \o t \in Ended
<1> SUFFICES ASSUME NEW s \in Ended, NEW t \in Ended PROVE s \o t \in Ended
  OBVIOUS
<1> DEFINE u == s \o t
<1>1. s \in Seq(Tokens) /\ t \in Seq(Tokens) /\ CommentsEnd(s) /\ CommentsEnd(t)
  BY DEF Ended
<1>2. /\ u \in Seq(Tokens) /\ Len(u) = Len(s) + Len(t)
      /\ \A i \in 1..Len(s) + Len(t) : u[i] = IF i <= Len(s) THEN s[i] ELSE t[i - Len(s)]
  BY <1>1, ConcatProperties
<1>3. /\ Len(s) \in Nat /\ Len(t) \in Nat
      /\ DOMAIN s = 1..Len(s) /\ DOMAIN t = 1..Len(t) /\ DOMAIN u = 1..Len(u)
  BY <1>1, <1>2
<1> HIDE DEF u
<1>4. ASSUME NEW i \in DOMAIN u, u[i].k = "comment"
      PROVE  i < Len(u) /\ u[i + 1] = Newline
  <2>1. i \in 1..Len(s) + Len(t)
    BY <1>2, <1>3
  <2>2. CASE i <= Len(s)
    <3>1. i \in DOMAIN s /\ u[i] = s[i]
      BY <1>2, <1>3, <2>1, <2>2
    <3>2. i < Len(s) /\ s[i + 1] = Newline
      BY <1>1, <1>4, <3>1 DEF CommentsEnd
    <3>3. i + 1 \in 1..Len(s) + Len(t) /\ i + 1 <= Len(s)
      BY <1>3, <2>1, <3>2
    <3>4. QED
      BY <1>2, <1>3, <3>2, <3>3
  <2>3. CASE ~(i <= Len(s))
    <3>1. i - Len(s) \in DOMAIN t /\ u[i] = t[i - Len(s)]
      BY <1>2, <1>3, <2>1, <2>3
    <3>2. i - Len(s) < Len(t) /\ t[(i - Len(s)) + 1] = Newline
      BY <1>1, <1>4, <3>1 DEF CommentsEnd
    <3>3. /\ i + 1 \in 1..Len(s) + Len(t) /\ ~(i + 1 <= Len(s))
          /\ (i - Len(s)) + 1 = (i + 1) - Len(s)
      BY <1>3, <2>1, <2>3, <3>2
    <3>4. QED
      BY <1>2, <1>3, <3>2, <3>3
  <2>4. QED
    BY <2>2, <2>3
<1>5. u \in Ended
  BY <1>2, <1>4 DEF Ended, CommentsEnd
<1>6. QED
  BY <1>5 DEF u

LEMMA EndedFew ==
  /\ <<>> \in Ended
  /\ \A t \in Tokens : t.k # "comment" => <<t>> \in Ended
  /\ \A c \in CommentTokens : <<c, Newline>> \in Ended
<1>1. <<>> \in Ended
  BY DEF Ended, CommentsEnd
<1>2. ASSUME NEW t \in Tokens, t.k # "comment" PROVE <<t>> \in Ended
  BY <1>2 DEF Ended, CommentsEnd
<1>3. ASSUME NEW c \in CommentTokens PROVE <<c, Newline>> \in Ended
  <2> DEFINE u == <<c, Newline>>
  <2>1. c \in Tokens /\ Newline \in Tokens /\ Newline.k # "comment"
    BY Kinds
  <2>2. u \in Seq(Tokens) /\ DOMAIN u = {1, 2} /\ Len(u) = 2 /\ u[1] = c /\ u[2] = Newline
    BY <2>1
  <2> HIDE DEF u
  <2>3. CommentsEnd(u)
    BY <2>1, <2>2 DEF CommentsEnd
  <2>4. QED
    BY <2>2, <2>3 DEF Ended, u
<1>4. QED
  BY <1>1, <1>2, <1>3

LineBlocks(cs) == [i \in DOMAIN cs |-> <<cs[i], Newline>>]

LEMMA LineBlocksTyped ==
  ASSUME NEW cs \in Seq(CommentTokens)
  PROVE  /\ LineBlocks(cs) \in Seq(Ended) /\ LineBlocks(cs) \in Seq(Seq(Tokens))
         /\ Len(LineBlocks(cs)) = Len(cs)
         /\ \A i \in 1..Len(cs) : LineBlocks(cs)[i] = <<cs[i], Newline>>
         /\ Lines(cs) = FlattenSeq(LineBlocks(cs))
<1> DEFINE B == LineBlocks(cs)
<1>1. DOMAIN cs = 1..Len(cs) /\ Len(cs) \in Nat
  OBVIOUS
<1>2. \A i \in 1..Len(cs) : <<cs[i], Newline>> \in Ended
  BY <1>1, EndedFew
<1>3. B = [i \in 1..Len(cs) |-> <<cs[i], Newline>>]
  BY <1>1 DEF LineBlocks
<1>4. B \in Seq(Ended) /\ Len(B) = Len(cs)
  BY <1>1, <1>2, <1>3
<1>5. Ended \subseteq Seq(Tokens)
  BY DEF Ended
<1>6. B \in Seq(Seq(Tokens))
  BY <1>4, <1>5, SeqMonotonic
<1>7. Lines(cs) = FlattenSeq(B)
  BY DEF Lines, LineBlocks
<1> HIDE DEF B
<1>8. QED
  BY <1>3, <1>4, <1>6, <1>7 DEF B

LEMMA LinesEnded ==
  ASSUME NEW cs \in Seq(CommentTokens)
  PROVE  Lines(cs) \in Ended
<1>1. Ended \in SUBSET Seq(Tokens) /\ <<>> \in Ended /\ LineBlocks(cs) \in Seq(Ended)
  BY EndedFew, LineBlocksTyped DEF Ended
<1> DEFINE B == LineBlocks(cs)
<1> HIDE DEF B
<1>2. FlattenSeq(B) \in Ended
  BY <1>1, EndedConcat, FlattenKeeps DEF B
<1>3. QED
  BY <1>2, LineBlocksTyped DEF B

---------------------------------------------------------------------------
(***************************************************************************)
(* Reading stage by stage: G[n] is a set of places that stage n ends in.   *)
(***************************************************************************)
LEMMA StagesOf ==
  ASSUME NEW B \in Seq(Seq(Tokens))
  PROVE  LET X == [n \in Nat |-> FlattenSeq(SubSeq(B, 1, n))] IN
         /\ X[0] = <<>> /\ X[Len(B)] = FlattenSeq(B) /\ Len(B) \in Nat
         /\ \A n \in 0..Len(B) : X[n] \in Seq(Tokens)
         /\ \A n \in Nat : n < Len(B) => X[n + 1] = X[n] \o B[n + 1]
<1> DEFINE X == [n \in Nat |-> FlattenSeq(SubSeq(B, 1, n))]
<1>1. \A n \in Nat : X[n] = FlattenSeq(SubSeq(B, 1, n))
  OBVIOUS
<1>2. /\ FlattenSeq(SubSeq(B, 1, 0)) = <<>>
      /\ FlattenSeq(SubSeq(B, 1, Len(B))) = FlattenSeq(B)
      /\ \A n \in 0..Len(B) : FlattenSeq(SubSeq(B, 1, n)) \in Seq(Tokens)
      /\ \A n \in Nat : n < Len(B) =>
           FlattenSeq(SubSeq(B, 1, n + 1)) = FlattenSeq(SubSeq(B, 1, n)) \o B[n + 1]
  BY FlattenStages
<1>3. Len(B) \in Nat /\ 0..Len(B) \subseteq Nat
  OBVIOUS
<1> HIDE DEF X
<1>4. X[0] = <<>> /\ X[Len(B)] = FlattenSeq(B)
  BY <1>1, <1>2, <1>3
<1>5. \A n \in 0..Len(B) : X[n] \in Seq(Tokens)
  BY <1>1, <1>2, <1>3, Zenon
<1>6. ASSUME NEW n \in Nat, n < Len(B) PROVE X[n + 1] = X[n] \o B[n + 1]
  <2>1. n + 1 \in Nat
    OBVIOUS
  <2>2. X[n + 1] = FlattenSeq(SubSeq(B, 1, n + 1))
    BY <1>1, <2>1, Zenon
  <2>3. X[n] = FlattenSeq(SubSeq(B, 1, n))
    BY <1>1
  <2>4. FlattenSeq(SubSeq(B, 1, n + 1)) = FlattenSeq(SubSeq(B, 1, n)) \o B[n + 1]
    BY <1>2, <1>6, Zenon
  <2>5. QED
    BY <2>2, <2>3, <2>4
<1>7. QED
  BY <1>3, <1>4, <1>5, <1>6 DEF X

LEMMA Stages ==
  ASSUME NEW B \in Seq(Seq(Tokens)), NEW G, NEW r, r \in G[0],
         \A n \in Nat : n < Len(B) => \A q \in G[n] : From(q, B[n + 1]) \in G[n + 1]
  PROVE  From(r, FlattenSeq(B)) \in G[Len(B)]
<1> DEFINE X == [n \in Nat |-> FlattenSeq(SubSeq(B, 1, n))]
           S == {n \in Nat : n <= Len(B) => From(r, X[n]) \in G[n]}
<1>1. /\ X[0] = <<>> /\ X[Len(B)] = FlattenSeq(B) /\ Len(B) \in Nat
      /\ \A n \in 0..Len(B) : X[n] \in Seq(Tokens)
      /\ \A n \in Nat : n < Len(B) => X[n + 1] = X[n] \o B[n + 1]
  BY StagesOf
<1>2. \A n \in Nat : n < Len(B) => B[n + 1] \in Seq(Tokens)
  OBVIOUS
<1> HIDE DEF X
<1>3. 0 \in S
  BY <1>1, FromNone
<1>4. ASSUME NEW n \in Nat, n \in S PROVE n + 1 \in S
  <2> SUFFICES ASSUME n + 1 <= Len(B) PROVE From(r, X[n + 1]) \in G[n + 1]
    OBVIOUS
  <2>1. n < Len(B) /\ n \in 0..Len(B) /\ From(r, X[n]) \in G[n]
    BY <1>1, <1>4
  <2> DEFINE x == X[n]
             b == B[n + 1]
  <2>2. x \in Seq(Tokens) /\ b \in Seq(Tokens) /\ X[n + 1] = x \o b
    BY <1>1, <1>2, <2>1
  <2>3. From(From(r, x), b) \in G[n + 1]
    BY <2>1
  <2> HIDE DEF x, b
  <2>4. QED
    BY <2>2, <2>3, FromConcat
<1> HIDE DEF S
<1>5. Nat \subseteq S
  BY <1>3, <1>4, Induct, Zenon
<1>6. QED
  BY <1>1, <1>5 DEF S

LEMMA TokenStages ==
  ASSUME NEW s \in Seq(Tokens), NEW G, NEW r, r \in G[0],
         \A n \in Nat : n < Len(s) => \A q \in G[n] : ReadToken(q, s[n + 1]) \in G[n + 1]
  PROVE  From(r, s) \in G[Len(s)]
<1>1. Len(s) \in Nat /\ DOMAIN s = 1..Len(s)
  OBVIOUS
<1>2. PICK f : R!IsRun(f, r, s, Len(s)) /\ f[Len(s)] = From(r, s)
  BY <1>1, R!FoldIs DEF From
<1> DEFINE S == {n \in Nat : n <= Len(s) => f[n] \in G[n]}
<1>3. 0 \in S
  BY <1>2 DEF R!IsRun
<1>4. ASSUME NEW n \in Nat, n \in S PROVE n + 1 \in S
  <2> SUFFICES ASSUME n + 1 <= Len(s) PROVE f[n + 1] \in G[n + 1]
    OBVIOUS
  <2>1. n < Len(s) /\ n + 1 \in 1..Len(s) /\ (n + 1) - 1 = n /\ f[n] \in G[n]
    BY <1>1, <1>4
  <2>2. f[n + 1] = ReadToken(f[n], s[n + 1])
    BY <1>2, <2>1 DEF R!IsRun
  <2>3. QED
    BY <2>1, <2>2
<1> HIDE DEF S
<1>5. Nat \subseteq S
  BY <1>3, <1>4, Induct, Zenon
<1>6. QED
  BY <1>1, <1>2, <1>5 DEF S

\* The places of the loop that has read these elements and these comments.
At(at, elements, lead) ==
  {q \in Places : Sound(q) /\ q.at = at /\ q.elements = elements /\ q.lead = lead}

LEMMA LineRead ==
  ASSUME NEW els, NEW lead, NEW r \in At("trivia", els, lead), NEW c \in CommentTokens
  PROVE  From(r, <<c, Newline>>) \in At("trivia", els, Append(lead, c))
<1> DEFINE p == ReadToken(r, c)
           q == ReadToken(p, Newline)
<1>1. c \in Tokens /\ Newline \in Tokens
  BY Kinds
<1>2. From(r, <<c, Newline>>) = q
  BY <1>1, FromTwo
<1>3. Sound(r) /\ r.at = "trivia" /\ r.elements = els /\ r.lead = lead
  BY DEF At
<1>4. Sound(p) /\ p.at = "trivia" /\ p.elements = els /\ p.lead = Append(lead, c)
  BY <1>3, ReadComment
<1> HIDE DEF p
<1>5. Sound(q) /\ q.at = "trivia" /\ q.elements = p.elements /\ q.lead = p.lead
  BY <1>4, ReadNewline
<1> HIDE DEF q
<1>6. QED
  BY <1>2, <1>4, <1>5 DEF At, Sound

LEMMA LinesRead ==
  ASSUME NEW els, NEW lead \in Seq(CommentTokens), NEW r \in At("trivia", els, lead),
         NEW cs \in Seq(CommentTokens)
  PROVE  From(r, Lines(cs)) \in At("trivia", els, lead \o cs)
<1> DEFINE B == LineBlocks(cs)
           m == [n \in Nat |-> lead \o SubSeq(cs, 1, n)]
           G == [n \in Nat |-> At("trivia", els, m[n])]
<1>1. /\ B \in Seq(Seq(Tokens)) /\ Len(B) = Len(cs) /\ Lines(cs) = FlattenSeq(B)
      /\ \A i \in 1..Len(cs) : B[i] = <<cs[i], Newline>>
  BY LineBlocksTyped
<1>2. Len(cs) \in Nat
  OBVIOUS
<1> HIDE DEF B
<1>3. m[0] = lead
  <2>1. SubSeq(cs, 1, 0) = <<>> /\ lead \o <<>> = lead
    BY SubSeqEmpty, ConcatEmptySeq
  <2>2. m[0] = lead \o SubSeq(cs, 1, 0)
    OBVIOUS
  <2>3. QED
    BY <2>1, <2>2
<1>4. m[Len(cs)] = lead \o cs
  <2>1. m[Len(cs)] = lead \o SubSeq(cs, 1, Len(cs))
    BY <1>2
  <2>2. SubSeq(cs, 1, Len(cs)) = cs
    BY SubSeqFull
  <2>3. QED
    BY <2>1, <2>2
<1>5. ASSUME NEW n \in Nat, n < Len(cs) PROVE m[n + 1] = Append(m[n], cs[n + 1])
  <2>1. Append(lead \o SubSeq(cs, 1, n), cs[n + 1]) = lead \o SubSeq(cs, 1, n + 1)
    BY <1>2, <1>5, SMTT(40)
  <2>2. n + 1 \in Nat
    OBVIOUS
  <2>3. m[n] = lead \o SubSeq(cs, 1, n) /\ m[n + 1] = lead \o SubSeq(cs, 1, n + 1)
    BY <2>2, Zenon
  <2>4. QED
    BY <2>1, <2>3
<1> HIDE DEF m
<1>6. \A n \in Nat : G[n] = At("trivia", els, m[n])
  OBVIOUS
<1> HIDE DEF G
<1>7. ASSUME NEW n \in Nat, n < Len(B), NEW q \in G[n]
      PROVE  From(q, B[n + 1]) \in G[n + 1]
  <2> DEFINE c == cs[n + 1]
  <2>1. /\ n + 1 \in Nat /\ n < Len(cs) /\ c \in CommentTokens
        /\ B[n + 1] = <<c, Newline>> /\ q \in At("trivia", els, m[n])
    BY <1>1, <1>2, <1>6, <1>7
  <2>2. G[n + 1] = At("trivia", els, Append(m[n], c))
    BY <1>5, <1>6, <2>1
  <2> HIDE DEF c
  <2>3. QED
    BY <2>1, <2>2, LineRead
<1>8. From(r, FlattenSeq(B)) \in G[Len(B)]
  <2>1. r \in G[0]
    BY <1>3, <1>6
  <2>2. QED
    BY <1>1, <1>7, <2>1, Stages
<1>9. QED
  BY <1>1, <1>2, <1>4, <1>6, <1>8
---------------------------------------------------------------------------
(***************************************************************************)
(* A rebuilt array reads back as the array it was built from.              *)
(***************************************************************************)
LEMMA EndedTwo == \A s, t \in Tokens : s.k # "comment" /\ t.k # "comment" => <<s, t>> \in Ended
<1> SUFFICES ASSUME NEW s \in Tokens, NEW t \in Tokens, s.k # "comment", t.k # "comment"
             PROVE  <<s, t>> \in Ended
  OBVIOUS
<1> DEFINE u == <<s, t>>
<1>1. u \in Seq(Tokens) /\ DOMAIN u = {1, 2} /\ u[1] = s /\ u[2] = t
  OBVIOUS
<1> HIDE DEF u
<1>2. u \in Ended
  BY <1>1 DEF Ended, CommentsEnd
<1>3. QED
  BY <1>2 DEF u

LEMMA AppendOne == \A s, t : Append(<<s>>, t) = <<s, t>>
<1> SUFFICES ASSUME NEW s, NEW t PROVE Append(<<s>>, t) = <<s, t>>
  BY Zenon
<1> DEFINE T == {s, t}
           u == <<s>>
<1>1. s \in T /\ t \in T
  OBVIOUS
<1> HIDE DEF T
<1>2. u \in Seq(T) /\ <<s, t>> = Append(u, t)
  BY <1>1
<1>3. QED
  BY <1>2

LEMMA InlineTyped ==
  ASSUME NEW i \in Inline
  PROVE  i = <<>> \/ \E c \in Names : i = <<Comment(c, 0)>> /\ Comment(c, 0) \in CommentTokens
BY DEF Inline, Comment, CommentTokens

\* The line of one element.
Line(e) == Lines(e.lead) \o <<Value(e.val), Comma>> \o Append(e.inline, Newline)

LEMMA LineEnded ==
  ASSUME NEW e \in Node
  PROVE  Line(e) \in Ended
<1>1. e.val \in Names /\ e.lead \in Seq(CommentTokens) /\ e.inline \in Inline
  BY DEF Node
<1> DEFINE x == Lines(e.lead)
           y == <<Value(e.val), Comma>>
           z == Append(e.inline, Newline)
<1>2. x \in Ended
  BY <1>1, LinesEnded
<1>3. y \in Ended
  BY <1>1, Kinds, EndedTwo
<1>4. z \in Ended
  <2>1. CASE e.inline = <<>>
    <3>1. z = <<Newline>>
      BY <2>1
    <3>2. QED
      BY <3>1, Kinds, EndedFew
  <2>2. CASE e.inline # <<>>
    <3>1. PICK c \in Names : e.inline = <<Comment(c, 0)>> /\ Comment(c, 0) \in CommentTokens
      BY <1>1, <2>2, InlineTyped
    <3>2. z = <<Comment(c, 0), Newline>>
      BY <3>1, AppendOne
    <3>3. QED
      BY <3>1, <3>2, EndedFew
  <2>3. QED
    BY <2>1, <2>2
<1>5. Line(e) = x \o y \o z
  BY DEF Line
<1> HIDE DEF x, y, z
<1>6. QED
  BY <1>2, <1>3, <1>4, <1>5, EndedConcat

LEMMA ElementRead ==
  ASSUME NEW els \in Seq(Node), NEW r \in At("trivia", els, <<>>), NEW e \in Node
  PROVE  From(r, Line(e)) \in At("trivia", Append(els, e), <<>>)
<1>1. e.val \in Names /\ e.lead \in Seq(CommentTokens) /\ e.inline \in Inline
  BY DEF Node
<1> DEFINE x == Lines(e.lead)
           y == <<Value(e.val), Comma>>
           z == Append(e.inline, Newline)
           p == From(r, x)
           q == ReadToken(p, Value(e.val))
           s == ReadToken(q, Comma)
           bare == Bare(e.val, e.lead)
           new == Append(els, bare)
<1>2. Value(e.val) \in Tokens /\ Comma \in Tokens /\ Newline \in Tokens
  BY <1>1, Kinds
<1>3. Sound(p) /\ p.at = "trivia" /\ p.elements = els /\ p.lead = e.lead
  <2>1. <<>> \in Seq(CommentTokens) /\ <<>> \o e.lead = e.lead
    BY <1>1, ConcatEmptySeq
  <2>2. p \in At("trivia", els, <<>> \o e.lead)
    BY <1>1, <2>1, LinesRead
  <2>3. QED
    BY <2>1, <2>2 DEF At
<1>4. x \in Seq(Tokens) /\ y \in Seq(Tokens)
  BY <1>1, <1>2, LinesEnded DEF Ended
<1>5. z \in Seq(Tokens)
  <2>1. e.inline \in Seq(Tokens)
    <3>1. CASE e.inline = <<>>
      BY <3>1
    <3>2. CASE e.inline # <<>>
      <4>1. PICK c \in Names : e.inline = <<Comment(c, 0)>> /\ Comment(c, 0) \in CommentTokens
        BY <1>1, <3>2, InlineTyped
      <4>2. Comment(c, 0) \in Tokens
        BY <4>1, Kinds
      <4>3. QED
        BY <4>1, <4>2
    <3>3. QED
      BY <3>1, <3>2
  <2>2. QED
    BY <1>1, <1>2, <2>1
<1>6. From(p, y) = s
  BY <1>2, FromTwo
<1>7. From(r, Line(e)) = From(s, z)
  <2>1. Line(e) = (x \o y) \o z
    BY DEF Line
  <2> HIDE DEF x, y, z, s
  <2>2. x \o y \in Seq(Tokens) /\ From(r, x \o y) = From(p, y)
    BY <1>4, FromConcat
  <2>3. From(r, (x \o y) \o z) = From(From(r, x \o y), z)
    BY <1>5, <2>2, FromConcat
  <2>4. QED
    BY <1>6, <2>1, <2>2, <2>3
<1> HIDE DEF x, y, p
<1>8. /\ Sound(q) /\ q.at = "value" /\ q.lead = <<>> /\ q.elements = new
  <2>1. p.at # "refused" /\ p.at \in {"trivia", "comma"}
    BY <1>3
  <2>2. /\ Sound(q) /\ q.at = "value" /\ q.lead = <<>>
        /\ q.elements = Append(p.elements, Bare(e.val, p.lead))
    BY <1>1, <1>3, <2>1, ReadValue
  <2> HIDE DEF q
  <2>3. QED
    BY <1>3, <2>2
<1> HIDE DEF q
<1>9. Sound(s) /\ s.at = "comma" /\ s.lead = <<>> /\ s.elements = new
  BY <1>8, ReadComma
<1> HIDE DEF s
<1>10. bare \in Node /\ bare.val = e.val /\ bare.lead = e.lead /\ bare.inline = <<>>
  BY <1>1 DEF Bare, Node, Inline
<1>11. CASE e.inline = <<>>
  <2> DEFINE t == ReadToken(s, Newline)
  <2>1. z = <<Newline>> /\ From(s, z) = t
    BY <1>2, <1>11, FromOne
  <2>2. Sound(t) /\ t.at = "trivia" /\ t.elements = s.elements /\ t.lead = s.lead
    BY <1>9, ReadNewline
  <2>3. bare = e
    BY <1>10, <1>11 DEF Node, Bare
  <2> HIDE DEF t
  <2>4. QED
    BY <1>7, <1>9, <2>1, <2>2, <2>3 DEF At, Sound
<1>12. CASE e.inline # <<>>
  <2>1. PICK c \in Names : e.inline = <<Comment(c, 0)>>
    BY <1>1, <1>12 DEF Inline
  <2> DEFINE w == Comment(c, 0)
             p1 == ReadToken(s, w)
             t == ReadToken(p1, Newline)
  <2>2. w \in CommentTokens /\ w.x = c
    BY DEF Comment, CommentTokens
  <2>3. z = <<w, Newline>> /\ w \in Tokens
    BY <2>1, <2>2, AppendOne, Kinds
  <2>4. From(s, z) = t
    BY <1>2, <2>3, FromTwo
  <2>5. Noted(bare, w) = e
    <3>1. Noted(bare, w) = [val |-> e.val, lead |-> e.lead, inline |-> e.inline]
      BY <1>10, <2>1, <2>2 DEF Noted
    <3>2. QED
      BY <3>1 DEF Node
  <2>6. Len(new) = Len(els) + 1 /\ [new EXCEPT ![Len(new)] = Noted(@, w)] = Append(els, e)
    <3> HIDE DEF bare, w
    <3>1. Len(new) = Len(els) + 1 /\ new[Len(new)] = bare /\ new \in Seq(Node)
          /\ Len(els) \in Nat
      BY <1>10
    <3>2. \A i \in 1..Len(els) : new[i] = els[i]
      BY <1>10
    <3> DEFINE changed == [new EXCEPT ![Len(new)] = e]
    <3> HIDE DEF new
    <3>3. changed \in Seq(Node) /\ Len(changed) = Len(els) + 1
          /\ changed[Len(els) + 1] = e /\ \A i \in 1..Len(els) : changed[i] = els[i]
      BY <3>1, <3>2
    <3>4. changed = Append(els, e)
      <4> HIDE DEF changed
      <4>1. QED
        BY <3>3
    <3>5. [new EXCEPT ![Len(new)] = Noted(@, w)] = changed
      BY <2>5, <3>1
    <3>6. QED
      BY <3>1, <3>4, <3>5
  <2> HIDE DEF w, new, z
  <2>7. /\ Sound(p1) /\ p1.at = "trivia" /\ p1.lead = <<>>
        /\ p1.elements = [s.elements EXCEPT ![Len(s.elements)] = Noted(@, w)]
    BY <1>9, <2>2, ReadComment
  <2>8. p1.elements = Append(els, e)
    BY <1>9, <2>6, <2>7
  <2> HIDE DEF p1
  <2>9. Sound(t) /\ t.at = "trivia" /\ t.elements = p1.elements /\ t.lead = p1.lead
    BY <2>7, ReadNewline
  <2> HIDE DEF t
  <2>10. QED
    BY <1>7, <2>4, <2>7, <2>8, <2>9 DEF At, Sound
<1>13. QED
  BY <1>11, <1>12

LEMMA StartAt == Start \in At("trivia", <<>>, <<>>)
<1>1. /\ Start \in Places /\ Start.at = "trivia" /\ Start.elements = <<>> /\ Start.lead = <<>>
      /\ Start.gaps = <<>>
  BY DEF Start, Places
<1>2. Sound(Start)
  BY <1>1 DEF Sound
<1>3. QED
  BY <1>1, <1>2 DEF At

LEMMA ReadsAsIs ==
  ASSUME NEW tokens \in Ended, NEW at, at # "refused", NEW els, NEW lead,
         From(Start, tokens) \in At(at, els, lead)
  PROVE  ReadsAs(tokens, [elements |-> els, trailing |-> lead])
<1> DEFINE q == Reading(tokens)
<1>1. q \in At(at, els, lead)
  BY ReadingIs
<1> HIDE DEF q
<1>2. q.at # "refused" /\ q.elements = els /\ q.lead = lead
  BY <1>1 DEF At
<1>3. Readable(tokens)
  BY <1>2 DEF Readable, Ended, q
<1>4. Contents(ParseArrayValue(tokens)) = [elements |-> els, trailing |-> lead]
  BY <1>2 DEF Contents, ParseArrayValue, q
<1>5. QED
  BY <1>3, <1>4 DEF ReadsAs

LEMMA MakeSeq ==
  ASSUME NEW S, NEW n \in Nat, NEW f, f = [i \in 1..n |-> f[i]], \A i \in 1..n : f[i] \in S
  PROVE  f \in Seq(S) /\ Len(f) = n
<1>1. f \in [1..n -> S]
  OBVIOUS
<1>2. f \in Seq(S)
  BY <1>1
<1>3. DOMAIN f = 1..n
  BY <1>1
<1>4. QED
  BY <1>2, <1>3, LenProperties

LEMMA ConcatOne ==
  ASSUME NEW T, NEW s \in T, NEW t \in T
  PROVE  <<>> \o <<t>> = <<t>> /\ <<s>> \o <<t>> = <<s, t>>
<1>1. <<s>> \in Seq(T) /\ <<t>> \in Seq(T)
  OBVIOUS
<1>2. <<>> \o <<t>> = <<t>>
  BY <1>1, ConcatEmptySeq
<1> DEFINE u == <<s>>
           v == <<t>>
           w == <<s, t>>
<1>3. /\ u \in Seq(T) /\ Len(u) = 1 /\ u[1] = s /\ v \in Seq(T) /\ Len(v) = 1 /\ v[1] = t
      /\ w \in Seq(T) /\ Len(w) = 2 /\ w[1] = s /\ w[2] = t
  OBVIOUS
<1> HIDE DEF u, v, w
<1>4. u \o v = w
  <2> DEFINE x == u \o v
  <2>1. /\ x \in Seq(T) /\ Len(x) = Len(u) + Len(v)
        /\ \A i \in 1..Len(u) + Len(v) : x[i] = IF i <= Len(u) THEN u[i] ELSE v[i - Len(u)]
    BY <1>3, ConcatProperties, SMTT(40)
  <2> HIDE DEF x
  <2>2. Len(x) = 2 /\ x[1] = s /\ x[2] = t
    BY <1>3, <2>1
  <2>3. x = w
    BY <1>3, <2>1, <2>2
  <2>4. QED
    BY <2>3 DEF x
<1>5. QED
  BY <1>2, <1>4 DEF u, v, w

\* An array as renderArray and formatArray see it.
Rebuildable(a) == a.elements \in Seq(Node) /\ a.trailing \in Seq(CommentTokens)

LEMMA MultiReads ==
  ASSUME NEW a, Rebuildable(a)
  PROVE  MultiLine(a) \in Ended /\ ReadsAs(MultiLine(a), Contents(a))
<1> DEFINE els == a.elements
           B == [i \in DOMAIN els |-> ElementLine(a, i)]
           m == [n \in Nat |-> SubSeq(els, 1, n)]
           G == [n \in Nat |-> At("trivia", m[n], <<>>)]
<1>1. els \in Seq(Node) /\ a.trailing \in Seq(CommentTokens) /\ Len(els) \in Nat
      /\ DOMAIN els = 1..Len(els)
  BY DEF Rebuildable
<1>2. ASSUME NEW i \in 1..Len(els) PROVE B[i] = Line(els[i]) /\ B[i] \in Ended
  <2>1. els[i] \in Node
    BY <1>1, SMTT(40)
  <2>2. B[i] = Line(els[i])
    BY <1>1, Zenon DEF ElementLine, Line
  <2>3. QED
    BY <2>1, <2>2, LineEnded
<1>3. B \in Seq(Ended) /\ Len(B) = Len(els)
  <2>1. B = [i \in 1..Len(els) |-> B[i]]
    BY <1>1
  <2> HIDE DEF B
  <2>2. QED
    BY <1>1, <1>2, <2>1, MakeSeq
<1>4. MultiLine(a) = (<<Newline>> \o FlattenSeq(B)) \o Lines(a.trailing)
  BY DEF MultiLine
<1> HIDE DEF B
<1>5. Ended \in SUBSET Seq(Tokens) /\ <<>> \in Ended
  BY EndedFew DEF Ended
<1>6. FlattenSeq(B) \in Ended
  BY <1>3, <1>5, EndedConcat, FlattenKeeps
<1>7. B \in Seq(Seq(Tokens))
  BY <1>3, <1>5, SeqMonotonic
<1>8. Lines(a.trailing) \in Ended
  BY <1>1, LinesEnded
<1>9. <<Newline>> \in Ended /\ Newline \in Tokens
  BY Kinds, EndedFew
<1> DEFINE x == <<Newline>>
           y == FlattenSeq(B)
           z == Lines(a.trailing)
<1>10. x \in Seq(Tokens) /\ y \in Seq(Tokens) /\ z \in Seq(Tokens)
  BY <1>5, <1>6, <1>8, <1>9
<1>11. From(Start, x) = ReadToken(Start, Newline)
  BY <1>9, FromOne
<1> HIDE DEF x, z
<1>12. MultiLine(a) \in Ended
  BY <1>4, <1>6, <1>8, <1>9, EndedConcat DEF x, z
<1>13. From(Start, x) \in At("trivia", <<>>, <<>>)
  <2> DEFINE q == ReadToken(Start, Newline)
  <2>1. Sound(Start) /\ Start.at = "trivia" /\ Start.elements = <<>> /\ Start.lead = <<>>
    BY StartAt DEF At
  <2>2. Sound(q) /\ q.at = "trivia" /\ q.elements = <<>> /\ q.lead = <<>>
    BY <2>1, ReadNewline
  <2> HIDE DEF q
  <2>3. QED
    BY <1>11, <2>2 DEF At, Sound, q
<1>14. m[0] = <<>> /\ m[Len(els)] = els
  <2>1. m[0] = SubSeq(els, 1, 0) /\ SubSeq(els, 1, 0) = <<>>
    BY <1>1, SubSeqEmpty
  <2>2. m[Len(els)] = SubSeq(els, 1, Len(els))
    BY <1>1
  <2>3. SubSeq(els, 1, Len(els)) = els
    BY <1>1, SubSeqFull
  <2>4. QED
    BY <2>1, <2>2, <2>3
<1>15. ASSUME NEW n \in Nat, n < Len(els)
       PROVE  m[n] \in Seq(Node) /\ m[n + 1] = Append(m[n], els[n + 1])
  <2>1. SubSeq(els, 1, n) \in Seq(Node)
        /\ Append(SubSeq(els, 1, n), els[n + 1]) = SubSeq(els, 1, n + 1)
    BY <1>1, <1>15
  <2>2. n + 1 \in Nat
    OBVIOUS
  <2>3. m[n] = SubSeq(els, 1, n) /\ m[n + 1] = SubSeq(els, 1, n + 1)
    BY <2>2, Zenon
  <2>4. QED
    BY <2>1, <2>3
<1> HIDE DEF m
<1>16. \A n \in Nat : G[n] = At("trivia", m[n], <<>>)
  OBVIOUS
<1> HIDE DEF G
<1>17. ASSUME NEW n \in Nat, n < Len(B), NEW q \in G[n]
       PROVE  From(q, B[n + 1]) \in G[n + 1]
  <2> DEFINE e == els[n + 1]
  <2>1. n < Len(els) /\ n + 1 \in 1..Len(els) /\ n + 1 \in Nat /\ e \in Node
    BY <1>1, <1>3, <1>17
  <2>2. G[n + 1] = At("trivia", Append(m[n], e), <<>>) /\ m[n] \in Seq(Node)
        /\ B[n + 1] = Line(e) /\ q \in At("trivia", m[n], <<>>)
    BY <1>2, <1>15, <1>16, <1>17, <2>1
  <2> HIDE DEF e
  <2>3. QED
    BY <2>1, <2>2, ElementRead
<1>18. From(From(Start, x), y) \in At("trivia", els, <<>>)
  <2>1. From(Start, x) \in G[0]
    BY <1>13, <1>14, <1>16
  <2>2. From(From(Start, x), y) \in G[Len(B)]
    BY <1>7, <1>17, <2>1, Stages
  <2>3. QED
    BY <1>1, <1>3, <1>14, <1>16, <2>2
<1> HIDE DEF y
<1>19. From(Start, x \o y) \in At("trivia", els, <<>>) /\ x \o y \in Seq(Tokens)
  BY <1>10, <1>18, FromConcat
<1>20. From(From(Start, x \o y), z) \in At("trivia", els, a.trailing)
  <2>1. <<>> \in Seq(CommentTokens) /\ <<>> \o a.trailing = a.trailing
    BY <1>1, ConcatEmptySeq
  <2>2. From(From(Start, x \o y), z) \in At("trivia", els, <<>> \o a.trailing)
    BY <1>1, <1>19, <2>1, LinesRead DEF z
  <2>3. QED
    BY <2>1, <2>2
<1>21. From(Start, MultiLine(a)) \in At("trivia", els, a.trailing)
  <2> DEFINE w == x \o y
  <2>1. MultiLine(a) = w \o z
    BY <1>4 DEF x, y, z
  <2> HIDE DEF w
  <2>2. From(Start, w \o z) = From(From(Start, w), z)
    BY <1>10, <1>19, FromConcat, ZenonT(40) DEF w
  <2>3. QED
    BY <1>20, <2>1, <2>2 DEF w
<1>22. QED
  BY <1>12, <1>21, ReadsAsIs DEF Contents

LEMMA OneLineReads ==
  ASSUME NEW a, Rebuildable(a), ~HasComments(a)
  PROVE  InOneLine(a) \in Ended /\ ReadsAs(InOneLine(a), Contents(a))
<1> DEFINE els == a.elements
           B == [i \in DOMAIN els |->
                   (IF i = 1 THEN <<>> ELSE <<Comma>>) \o <<Value(els[i].val)>>]
           m == [n \in Nat |-> SubSeq(els, 1, n)]
           at == [n \in Nat |-> IF n = 0 THEN "trivia" ELSE "value"]
           G == [n \in Nat |-> At(at[n], m[n], <<>>)]
<1>1. els \in Seq(Node) /\ Len(els) \in Nat /\ DOMAIN els = 1..Len(els)
  BY DEF Rebuildable
<1>2. a.trailing = <<>> /\ \A i \in 1..Len(els) : els[i].lead = <<>> /\ els[i].inline = <<>>
  BY <1>1 DEF HasComments
<1>3. ASSUME NEW i \in 1..Len(els)
      PROVE  /\ els[i] = Bare(els[i].val, <<>>) /\ els[i].val \in Names /\ els[i] \in Node
             /\ Value(els[i].val) \in Tokens /\ Value(els[i].val).k # "comment"
  <2>1. els[i] \in Node
    BY <1>1
  <2>2. els[i] = Bare(els[i].val, <<>>) /\ els[i].val \in Names
    BY <1>2, <2>1 DEF Node, Bare
  <2>3. QED
    BY <2>1, <2>2, Kinds
<1>4. Comma \in Tokens /\ Comma.k # "comment"
  BY Kinds
<1>5. ASSUME NEW i \in 1..Len(els)
      PROVE  /\ i = 1 => B[i] = <<Value(els[i].val)>>
             /\ i # 1 => B[i] = <<Comma, Value(els[i].val)>>
             /\ B[i] \in Ended
  <2> DEFINE v == Value(els[i].val)
  <2>1. v \in Tokens /\ v.k # "comment"
    BY <1>3
  <2>2. B[i] = (IF i = 1 THEN <<>> ELSE <<Comma>>) \o <<v>>
    BY <1>1
  <2> HIDE DEF v
  <2>3. <<>> \o <<v>> = <<v>> /\ <<Comma>> \o <<v>> = <<Comma, v>>
    BY <1>4, <2>1, ConcatOne
  <2>4. <<v>> \in Ended /\ <<Comma, v>> \in Ended
    BY <1>4, <2>1, EndedFew, EndedTwo
  <2> HIDE DEF B
  <2>5. QED
    BY <2>2, <2>3, <2>4 DEF v
<1>6. B \in Seq(Ended) /\ Len(B) = Len(els)
  <2>1. B = [i \in 1..Len(els) |-> B[i]]
    BY <1>1
  <2> HIDE DEF B
  <2>2. QED
    BY <1>1, <1>5, <2>1, MakeSeq
<1>7. InOneLine(a) = FlattenSeq(B)
  BY DEF InOneLine
<1> HIDE DEF B
<1>8. Ended \in SUBSET Seq(Tokens) /\ <<>> \in Ended
  BY EndedFew DEF Ended
<1>9. FlattenSeq(B) \in Ended
  BY <1>6, <1>8, EndedConcat, FlattenKeeps
<1>10. B \in Seq(Seq(Tokens))
  BY <1>6, <1>8, SeqMonotonic
<1>11. m[0] = <<>> /\ m[Len(els)] = els
  <2>1. m[0] = SubSeq(els, 1, 0) /\ SubSeq(els, 1, 0) = <<>>
    BY <1>1, SubSeqEmpty
  <2>2. m[Len(els)] = SubSeq(els, 1, Len(els))
    BY <1>1
  <2>3. SubSeq(els, 1, Len(els)) = els
    BY <1>1, SubSeqFull
  <2>4. QED
    BY <2>1, <2>2, <2>3
<1>12. ASSUME NEW n \in Nat, n < Len(els)
       PROVE  m[n + 1] = Append(m[n], els[n + 1])
  <2>1. Append(SubSeq(els, 1, n), els[n + 1]) = SubSeq(els, 1, n + 1)
    BY <1>1, <1>12
  <2>2. n + 1 \in Nat
    OBVIOUS
  <2>3. m[n] = SubSeq(els, 1, n) /\ m[n + 1] = SubSeq(els, 1, n + 1)
    BY <2>2, Zenon
  <2>4. QED
    BY <2>1, <2>3
<1> HIDE DEF m
<1>13. \A n \in Nat : G[n] = At(at[n], m[n], <<>>)
  OBVIOUS
<1>14. /\ at[0] = "trivia" /\ \A n \in Nat : n # 0 => at[n] = "value"
       /\ \A n \in Nat : at[n] # "refused"
  OBVIOUS
<1> HIDE DEF G, at
<1>15. ASSUME NEW n \in Nat, n < Len(B), NEW q \in G[n]
       PROVE  From(q, B[n + 1]) \in G[n + 1]
  <2> DEFINE e == els[n + 1]
             v == Value(e.val)
  <2>1. /\ n < Len(els) /\ n + 1 \in 1..Len(els) /\ n + 1 \in Nat /\ n + 1 # 0
        /\ (n + 1 = 1 <=> n = 0)
    BY <1>1, <1>6, <1>15
  <2>2. /\ e = Bare(e.val, <<>>) /\ e.val \in Names /\ v \in Tokens
        /\ n = 0 => B[n + 1] = <<v>>
        /\ n # 0 => B[n + 1] = <<Comma, v>>
    BY <1>3, <1>5, <2>1
  <2>3. G[n + 1] = At("value", Append(m[n], e), <<>>)
    BY <1>12, <1>13, <1>14, <2>1
  <2>4. Sound(q) /\ q.at = at[n] /\ q.elements = m[n] /\ q.lead = <<>>
    BY <1>13, <1>15 DEF At
  <2> DEFINE c == IF n = 0 THEN q ELSE ReadToken(q, Comma)
             w == ReadToken(c, v)
  <2>5. From(q, B[n + 1]) = w
    <3>1. CASE n = 0
      BY <2>2, <3>1, FromOne
    <3>2. CASE n # 0
      BY <1>4, <2>2, <3>2, FromTwo, ZenonT(40)
    <3>3. QED
      BY <3>1, <3>2
  <2>6. Sound(c) /\ c.at \in {"trivia", "comma"} /\ c.elements = m[n] /\ c.lead = <<>>
    <3>1. CASE n = 0
      BY <1>14, <2>4, <3>1
    <3>2. CASE n # 0
      <4>1. q.at = "value"
        BY <1>14, <2>4, <3>2
      <4>2. LET d == ReadToken(q, Comma) IN
            Sound(d) /\ d.at = "comma" /\ d.elements = q.elements /\ d.lead = q.lead
        BY <2>4, <4>1, ReadComma
      <4>3. QED
        BY <2>4, <3>2, <4>2
    <3>3. QED
      BY <3>1, <3>2
  <2> HIDE DEF c
  <2>7. /\ Sound(w) /\ w.at = "value" /\ w.lead = <<>>
        /\ w.elements = Append(c.elements, Bare(e.val, c.lead))
    <3>1. c.at # "refused"
      BY <2>6
    <3>2. QED
      BY <2>2, <2>6, <3>1, ReadValue
  <2> HIDE DEF w, e
  <2>8. QED
    BY <2>2, <2>3, <2>5, <2>6, <2>7 DEF At, Sound
<1>16. From(Start, FlattenSeq(B)) \in At(at[Len(els)], els, <<>>)
  <2>1. Start \in G[0]
    BY <1>11, <1>13, <1>14, StartAt
  <2>2. From(Start, FlattenSeq(B)) \in G[Len(B)]
    BY <1>10, <1>15, <2>1, Stages
  <2>3. QED
    BY <1>1, <1>6, <1>11, <1>13, <2>2
<1>17. at[Len(els)] # "refused"
  BY <1>1, <1>14
<1>18. ReadsAs(FlattenSeq(B), [elements |-> els, trailing |-> <<>>])
  BY <1>9, <1>16, <1>17, ReadsAsIs
<1>19. QED
  BY <1>2, <1>7, <1>9, <1>18 DEF Contents
---------------------------------------------------------------------------
(***************************************************************************)
(* What is read is spliced to the same bytes, and what is told was read.   *)
(***************************************************************************)
LEMMA CommentAt ==
  ASSUME NEW s \in Seq(Tokens), NEW x
  PROVE  x \in CommentsIn(s) <=> \E i \in 1..Len(s) : s[i].k = "comment" /\ s[i].x = x
<1>1. DOMAIN s = 1..Len(s)
  OBVIOUS
<1>2. QED
  BY <1>1 DEF CommentsIn, ToSet

LEMMA CommentsAppend ==
  ASSUME NEW s \in Seq(Tokens), NEW t \in Tokens
  PROVE  CommentsIn(Append(s, t)) = CommentsIn(s) \cup {x \in {t.x} : t.k = "comment"}
<1> DEFINE u == Append(s, t)
<1>1. /\ u \in Seq(Tokens) /\ Len(u) = Len(s) + 1 /\ u[Len(s) + 1] = t /\ Len(s) \in Nat
      /\ \A i \in 1..Len(s) : u[i] = s[i]
  BY AppendProperties
<1> HIDE DEF u
<1>2. \A i \in 1..Len(u) : i \in 1..Len(s) \/ i = Len(s) + 1
  BY <1>1
<1>3. \A i \in 1..Len(s) : i \in 1..Len(u)
  BY <1>1
<1>4. Len(s) + 1 \in 1..Len(u)
  BY <1>1
<1>5. \A x : x \in CommentsIn(u) <=> x \in CommentsIn(s) \/ (t.k = "comment" /\ t.x = x)
  <2> SUFFICES ASSUME NEW x
               PROVE  x \in CommentsIn(u) <=> x \in CommentsIn(s) \/ (t.k = "comment" /\ t.x = x)
    OBVIOUS
  <2>1. x \in CommentsIn(u) <=> \E i \in 1..Len(u) : u[i].k = "comment" /\ u[i].x = x
    BY <1>1, CommentAt
  <2>2. x \in CommentsIn(s) <=> \E i \in 1..Len(s) : s[i].k = "comment" /\ s[i].x = x
    BY CommentAt
  <2>3. QED
    BY <1>1, <1>2, <1>3, <1>4, <2>1, <2>2
<1>6. QED
  BY <1>5 DEF u

LEMMA CommentsNone == CommentsIn(<<>>) = {}
BY DEF CommentsIn, ToSet

LEMMA CommentsOne ==
  ASSUME NEW t \in Tokens
  PROVE  CommentsIn(<<t>>) = {x \in {t.x} : t.k = "comment"}
<1> DEFINE u == <<t>>
<1>1. u \in Seq(Tokens) /\ Len(u) = 1 /\ u[1] = t
  OBVIOUS
<1> HIDE DEF u
<1>2. \A x : x \in CommentsIn(u) <=> \E i \in 1..Len(u) : u[i].k = "comment" /\ u[i].x = x
  BY <1>1, CommentAt
<1>3. QED
  BY <1>1, <1>2 DEF u

\* What the loop knows of comments so far.
Known(r) == Told([elements |-> r.elements, trailing |-> r.lead])

\* A comment of a node is at one of its elements or behind the last.
LEMMA ToldWhere ==
  ASSUME NEW a, a.elements \in Seq(Node), NEW x
  PROVE  x \in Told(a) <=> \/ x \in CommentsIn(a.trailing)
                           \/ \E i \in 1..Len(a.elements) : x \in CommentsOf(a.elements[i])
<1>1. DOMAIN a.elements = 1..Len(a.elements)
  OBVIOUS
<1>2. QED
  BY <1>1 DEF Told

LEMMA KnownWhere ==
  ASSUME NEW r, Sound(r), NEW x
  PROVE  x \in Known(r) <=> \/ x \in CommentsIn(r.lead)
                            \/ \E i \in 1..Len(r.elements) : x \in CommentsOf(r.elements[i])
<1> DEFINE a == [elements |-> r.elements, trailing |-> r.lead]
<1>1. a.elements = r.elements /\ a.trailing = r.lead /\ r.elements \in Seq(Node)
  BY DEF Sound, Places
<1> HIDE DEF a
<1>2. QED
  BY <1>1, ToldWhere DEF Known, a

\* The values of some elements are those of others.
SameValues(els, fls) == Len(els) = Len(fls) /\ \A i \in 1..Len(fls) : els[i].val = fls[i].val

\* What one token does: it is refused, or it is one more of the gap, or it is
\* an element.
LEMMA ReadCases ==
  ASSUME NEW r, Sound(r), r.at # "refused", NEW t \in Tokens
  PROVE  LET q == ReadToken(r, t) IN
         /\ Sound(q)
         /\ \/ q.at = "refused"
            \/ /\ t \in GapTokens /\ q.gap = Append(r.gap, t) /\ q.gaps = r.gaps
               /\ SameValues(q.elements, r.elements)
               /\ Known(q) \subseteq Known(r) \cup {x \in {t.x} : t.k = "comment"}
            \/ \E v \in Names :
                 /\ t = Value(v) /\ q.lead = <<>> /\ q.gap = <<>>
                 /\ q.gaps = Append(r.gaps, r.gap)
                 /\ q.elements = Append(r.elements, Bare(v, r.lead))
<1> DEFINE q == ReadToken(r, t)
<1>1. /\ r.elements \in Seq(Node) /\ r.lead \in Seq(CommentTokens) /\ Len(r.elements) \in Nat
      /\ r.at \in {"value", "comma"} => r.elements # <<>>
  BY DEF Sound, Places
<1>2. CASE \E v \in Names : t = Value(v)
  <2>1. PICK v \in Names : t = Value(v)
    BY <1>2
  <2>2. CASE r.at \in {"trivia", "comma"}
    <3>1. /\ Sound(q) /\ q.lead = <<>> /\ q.gap = <<>> /\ q.gaps = Append(r.gaps, r.gap)
          /\ q.elements = Append(r.elements, Bare(v, r.lead))
      BY <2>1, <2>2, ReadValue
    <3> HIDE DEF q
    <3>2. QED
      BY <2>1, <3>1 DEF q
  <2>3. CASE r.at \notin {"trivia", "comma"}
    <3>1. q = Refused(r)
      BY <2>1, <2>3, ReadValue
    <3>2. Sound(q) /\ q.at = "refused"
      BY <3>1, RefusedSound
    <3>3. QED
      BY <3>2
  <2>4. QED
    BY <2>2, <2>3
<1>3. CASE t \in CommentTokens
  <2> DEFINE n == Len(r.elements)
             new == [r.elements EXCEPT ![n] = Noted(@, t)]
  <2>1. t.k = "comment" /\ t \in GapTokens /\ t \in Tokens
    BY <1>3, Kinds
  <2>2. /\ Sound(q) /\ q.gap = Append(r.gap, t) /\ q.gaps = r.gaps
        /\ q.lead = IF r.at = "trivia" THEN Append(r.lead, t) ELSE r.lead
        /\ q.elements = IF r.at \in {"value", "comma"} THEN new ELSE r.elements
    BY <1>3, ReadComment
  <2>3. CASE r.at \in {"value", "comma"}
    <3>1. n \in 1..n /\ r.elements[n] \in Node
      BY <1>1, <2>3
    <3> DEFINE e == r.elements[n]
               f == Noted(e, t)
    <3>2. /\ new \in Seq(Node) /\ Len(new) = n /\ new[n] = f
          /\ \A i \in 1..n : i # n => new[i] = r.elements[i]
      BY <1>1, <1>3, <3>1, NotedTyped
    <3>3. f.val = e.val /\ f.lead = e.lead /\ f.inline = <<Comment(t.x, 0)>>
      BY DEF Noted
    <3>4. CommentsIn(<<Comment(t.x, 0)>>) \subseteq {t.x}
      <4>1. Comment(t.x, 0) \in Tokens /\ Comment(t.x, 0).x = t.x
        BY <1>3, Kinds DEF Comment, CommentTokens
      <4>2. QED
        BY <4>1, CommentsOne
    <3>5. CommentsOf(f) \subseteq CommentsOf(e) \cup {t.x}
      BY <3>3, <3>4 DEF CommentsOf
    <3> HIDE DEF q, f, new
    <3>6. q.elements = new /\ q.lead = r.lead
      BY <2>2, <2>3
    <3>7. SameValues(q.elements, r.elements)
      BY <3>2, <3>3, <3>6 DEF SameValues
    <3>8. ASSUME NEW x \in Known(q) PROVE x \in Known(r) \cup {t.x}
      <4>1. CASE x \in CommentsIn(r.lead)
        BY <4>1, KnownWhere
      <4>2. CASE \E i \in 1..n : x \in CommentsOf(new[i])
        <5>1. PICK i \in 1..n : x \in CommentsOf(new[i])
          BY <4>2
        <5>2. x \in CommentsOf(r.elements[i]) \/ x = t.x
          BY <3>2, <3>5, <5>1
        <5>3. QED
          BY <5>2, KnownWhere
      <4>3. QED
        BY <2>2, <3>2, <3>6, <3>8, <4>1, <4>2, KnownWhere
    <3>9. QED
      BY <2>1, <2>2, <3>7, <3>8 DEF q
  <2>4. CASE r.at \notin {"value", "comma"}
    <3> HIDE DEF q
    <3>1. q.elements = r.elements
      BY <2>2, <2>4
    <3>2. SameValues(q.elements, r.elements)
      BY <3>1 DEF SameValues
    <3>3. CommentsIn(q.lead) \subseteq CommentsIn(r.lead) \cup {t.x}
      <4>1. CommentTokens \subseteq Tokens
        BY Kinds
      <4>2. r.lead \in Seq(Tokens)
        BY <1>1, <4>1, SeqMonotonic
      <4>3. QED
        BY <2>1, <2>2, <4>2, CommentsAppend
    <3>4. ASSUME NEW x \in Known(q) PROVE x \in Known(r) \cup {t.x}
      BY <2>2, <3>1, <3>3, <3>4, KnownWhere
    <3>5. QED
      BY <2>1, <2>2, <3>2, <3>4 DEF q
  <2>5. QED
    BY <2>3, <2>4
<1>4. CASE t = Comma \/ t = Newline
  <2>1. /\ Sound(q) /\ q.elements = r.elements /\ q.lead = r.lead /\ q.gaps = r.gaps
        /\ q.at # "refused" => q.gap = Append(r.gap, t)
    BY <1>4, ReadComma, ReadNewline, ZenonT(40)
  <2> HIDE DEF q
  <2>2. SameValues(q.elements, r.elements) /\ Known(q) = Known(r)
    BY <2>1 DEF SameValues, Known
  <2>3. t \in GapTokens
    BY <1>4, Kinds
  <2>4. QED
    BY <2>1, <2>2, <2>3 DEF q
<1>5. QED
  BY <1>2, <1>3, <1>4, TokenCases

LEMMA FlattenAppend ==
  ASSUME NEW T, NEW ss \in Seq(Seq(T)), NEW s \in Seq(T)
  PROVE  FlattenSeq(Append(ss, s)) = FlattenSeq(ss) \o s
BY R!FlattenAppend, FlattenIs

\* The elements of an array, each behind its gap.
Blocks(gaps, els) == [i \in DOMAIN els |-> Append(gaps[i], Value(els[i].val))]

LEMMA BlocksTyped ==
  ASSUME NEW els \in Seq(Node), NEW gaps \in Seq(Seq(GapTokens)), Len(els) <= Len(gaps)
  PROVE  /\ Blocks(gaps, els) \in Seq(Seq(Tokens)) /\ Len(Blocks(gaps, els)) = Len(els)
         /\ DOMAIN Blocks(gaps, els) = 1..Len(els)
         /\ \A i \in 1..Len(els) :
              /\ gaps[i] \in Seq(Tokens) /\ gaps[i] \in Seq(GapTokens)
              /\ Value(els[i].val) \in Tokens /\ els[i].val \in Names
              /\ Blocks(gaps, els)[i] = Append(gaps[i], Value(els[i].val))
              /\ Blocks(gaps, els)[i] \in Seq(Tokens)
<1> DEFINE B == Blocks(gaps, els)
<1>1. DOMAIN els = 1..Len(els) /\ Len(els) \in Nat /\ Len(gaps) \in Nat
  OBVIOUS
<1>2. DOMAIN B = 1..Len(els) /\ B = [i \in 1..Len(els) |-> B[i]]
  BY <1>1 DEF Blocks
<1>3. ASSUME NEW i \in 1..Len(els)
      PROVE  /\ gaps[i] \in Seq(Tokens) /\ gaps[i] \in Seq(GapTokens)
             /\ Value(els[i].val) \in Tokens /\ els[i].val \in Names
             /\ B[i] = Append(gaps[i], Value(els[i].val)) /\ B[i] \in Seq(Tokens)
  <2>1. els[i] \in Node /\ gaps[i] \in Seq(GapTokens)
    BY <1>1
  <2>2. els[i].val \in Names
    BY <2>1 DEF Node
  <2>3. Value(els[i].val) \in Tokens /\ GapTokens \subseteq Tokens
    BY <2>2, Kinds
  <2>4. gaps[i] \in Seq(Tokens)
    BY <2>1, <2>3, SeqMonotonic
  <2>5. B[i] = Append(gaps[i], Value(els[i].val))
    BY <1>1 DEF Blocks
  <2> HIDE DEF B
  <2>6. B[i] \in Seq(Tokens)
    BY <2>3, <2>4, <2>5, AppendProperties
  <2>7. QED
    BY <2>1, <2>2, <2>3, <2>4, <2>5, <2>6
<1> HIDE DEF B
<1>4. B \in Seq(Seq(Tokens)) /\ Len(B) = Len(els)
  BY <1>1, <1>2, <1>3, MakeSeq
<1>5. QED
  BY <1>2, <1>3, <1>4 DEF B

\* The bytes the loop has passed.
Passed(r) == FlattenSeq(Blocks(r.gaps, r.elements)) \o r.gap

LEMMA FlattenTyped ==
  ASSUME NEW T, NEW ss \in Seq(Seq(T))
  PROVE  FlattenSeq(ss) \in Seq(T)
BY R!FlattenTyped, FlattenIs

LEMMA PassedStep ==
  ASSUME NEW r, Sound(r), r.at # "refused", NEW t \in Tokens, ReadToken(r, t).at # "refused"
  PROVE  /\ Passed(ReadToken(r, t)) = Append(Passed(r), t)
         /\ Known(ReadToken(r, t)) \subseteq Known(r) \cup {x \in {t.x} : t.k = "comment"}
<1> DEFINE q == ReadToken(r, t)
           B == Blocks(r.gaps, r.elements)
           C == Blocks(q.gaps, q.elements)
           F == FlattenSeq(B)
<1>1. /\ r.elements \in Seq(Node) /\ r.lead \in Seq(CommentTokens) /\ Len(r.elements) \in Nat
      /\ r.gap \in Seq(GapTokens) /\ r.gaps \in Seq(Seq(GapTokens))
      /\ Len(r.gaps) = Len(r.elements)
  BY DEF Sound, Places
<1>2. /\ Sound(q)
      /\ \/ /\ t \in GapTokens /\ q.gap = Append(r.gap, t) /\ q.gaps = r.gaps
            /\ SameValues(q.elements, r.elements)
            /\ Known(q) \subseteq Known(r) \cup {x \in {t.x} : t.k = "comment"}
         \/ \E v \in Names :
                 /\ t = Value(v) /\ q.lead = <<>> /\ q.gap = <<>>
                 /\ q.gaps = Append(r.gaps, r.gap)
                 /\ q.elements = Append(r.elements, Bare(v, r.lead))
  BY ReadCases, Zenon
<1> HIDE DEF q
<1>3. /\ q.elements \in Seq(Node) /\ q.gaps \in Seq(Seq(GapTokens))
      /\ Len(q.gaps) = Len(q.elements)
  BY <1>2 DEF Sound, Places
<1>4. /\ B \in Seq(Seq(Tokens)) /\ DOMAIN B = 1..Len(r.elements) /\ Len(B) = Len(r.elements)
      /\ \A i \in 1..Len(r.elements) : B[i] = Append(r.gaps[i], Value(r.elements[i].val))
  <2>1. Len(r.elements) <= Len(r.gaps)
    BY <1>1
  <2>2. QED
    BY <1>1, <2>1, BlocksTyped, Zenon
<1>5. /\ C \in Seq(Seq(Tokens)) /\ DOMAIN C = 1..Len(q.elements) /\ Len(C) = Len(q.elements)
      /\ \A i \in 1..Len(q.elements) : C[i] = Append(q.gaps[i], Value(q.elements[i].val))
  <2>1. Len(q.elements) <= Len(q.gaps)
    BY <1>3
  <2>2. QED
    BY <1>3, <2>1, BlocksTyped, Zenon
<1> HIDE DEF B, C
<1>6. F \in Seq(Tokens)
  BY <1>4, FlattenTyped
<1>7. r.gap \in Seq(Tokens)
  <2>1. GapTokens \subseteq Tokens
    BY Kinds
  <2>2. QED
    BY <1>1, <2>1, SeqMonotonic
<1> DEFINE g == r.gap
<1> HIDE DEF F, g
<1>8. CASE /\ t \in GapTokens /\ q.gap = Append(r.gap, t) /\ q.gaps = r.gaps
           /\ SameValues(q.elements, r.elements)
           /\ Known(q) \subseteq Known(r) \cup {x \in {t.x} : t.k = "comment"}
  <2>1. C = B
    <3>1. Len(q.elements) = Len(r.elements)
      BY <1>8 DEF SameValues
    <3>2. ASSUME NEW i \in 1..Len(r.elements) PROVE C[i] = B[i]
      <4>1. q.elements[i].val = r.elements[i].val /\ q.gaps = r.gaps
        BY <1>8 DEF SameValues
      <4>2. B[i] = Append(r.gaps[i], Value(r.elements[i].val))
        BY <1>4, Zenon
      <4>3. C[i] = Append(q.gaps[i], Value(q.elements[i].val))
        BY <1>5, <3>1, Zenon
      <4>4. QED
        BY <4>1, <4>2, <4>3, Zenon
    <3>3. Len(B) = Len(C) /\ \A i \in 1..Len(B) : B[i] = C[i]
      BY <1>4, <1>5, <3>1, <3>2, Zenon
    <3>4. QED
      BY <1>4, <1>5, <3>3, R!SameSeq, Zenon
  <2>2. Passed(q) = F \o Append(g, t) /\ Passed(r) = F \o g
    BY <1>8, <2>1 DEF Passed, F, B, C, g
  <2>3. g \in Seq(Tokens)
    BY <1>7 DEF g
  <2>4. F \o Append(g, t) = Append(F \o g, t)
    BY <1>6, <2>3
  <2>5. QED
    BY <1>8, <2>2, <2>4 DEF q
<1>9. CASE \E v \in Names :
                 /\ t = Value(v) /\ q.lead = <<>> /\ q.gap = <<>>
                 /\ q.gaps = Append(r.gaps, r.gap)
                 /\ q.elements = Append(r.elements, Bare(v, r.lead))
  <2>1. PICK v \in Names : /\ t = Value(v) /\ q.lead = <<>> /\ q.gap = <<>>
                           /\ q.gaps = Append(r.gaps, r.gap)
                           /\ q.elements = Append(r.elements, Bare(v, r.lead))
    BY <1>9
  <2> DEFINE e == Bare(v, r.lead)
             n == Len(r.elements)
             b == Append(g, t)
  <2>2. e \in Node /\ e.val = v /\ e.lead = r.lead /\ e.inline = <<>>
    BY <1>1 DEF Bare, Node, Inline
  <2> HIDE DEF e
  <2>3. /\ Len(q.elements) = n + 1 /\ q.elements[n + 1] = e
        /\ \A i \in 1..n : q.elements[i] = r.elements[i]
    BY <1>1, <2>1, <2>2 DEF e
  <2>4. q.gaps[n + 1] = g /\ \A i \in 1..n : q.gaps[i] = r.gaps[i]
    BY <1>1, <2>1, AppendProperties DEF g
  <2>5. b \in Seq(Tokens)
    BY <1>7, AppendProperties DEF g
  <2>6. ASSUME NEW i \in 1..n PROVE C[i] = B[i]
    <3>1. i \in 1..Len(q.elements)
      BY <1>1, <2>3
    <3>2. q.elements[i] = r.elements[i] /\ q.gaps[i] = r.gaps[i]
      BY <2>3, <2>4, Zenon
    <3>3. B[i] = Append(r.gaps[i], Value(r.elements[i].val))
      BY <1>4, Zenon
    <3>4. C[i] = Append(q.gaps[i], Value(q.elements[i].val))
      BY <1>5, <3>1, Zenon
    <3>5. QED
      BY <3>2, <3>3, <3>4, Zenon
  <2>7. C[n + 1] = b
    <3>1. n + 1 \in 1..Len(q.elements)
      BY <1>1, <2>3
    <3>2. C[n + 1] = Append(q.gaps[n + 1], Value(q.elements[n + 1].val))
      BY <1>5, <3>1, Zenon
    <3>3. QED
      BY <2>1, <2>2, <2>3, <2>4, <3>2, Zenon
  <2> HIDE DEF b
  <2>8. C = Append(B, b)
    <3> DEFINE D == Append(B, b)
    <3>1. /\ D \in Seq(Seq(Tokens)) /\ Len(D) = n + 1 /\ D[n + 1] = b
          /\ \A i \in 1..n : D[i] = B[i]
      BY <1>4, <2>5, AppendProperties
    <3> HIDE DEF D
    <3>2. ASSUME NEW i \in 1..(n + 1) PROVE D[i] = C[i]
      <4>1. i \in 1..n \/ i = n + 1
        BY <1>1
      <4>2. QED
        BY <2>6, <2>7, <3>1, <4>1
    <3>3. Len(D) = Len(C) /\ \A i \in 1..Len(D) : D[i] = C[i]
      BY <1>5, <2>3, <3>1, <3>2, Zenon
    <3>4. D = C
      BY <1>5, <3>1, <3>3, R!SameSeq, Zenon
    <3>5. QED
      BY <3>4 DEF D
  <2>9. FlattenSeq(C) = F \o b /\ F \o b \in Seq(Tokens)
    BY <1>4, <1>6, <2>5, <2>8, FlattenAppend DEF F
  <2>10. Passed(q) = (F \o b) \o <<>> /\ Passed(r) = F \o g
    BY <2>1, <2>9 DEF Passed, C, B, F, g
  <2>11. (F \o b) \o <<>> = F \o b
    BY <2>9, ConcatEmptySeq
  <2>12. F \o b = Append(F \o g, t)
    <3>1. g \in Seq(Tokens)
      BY <1>7 DEF g
    <3>2. QED
      BY <1>6, <3>1 DEF b
  <2>13. Known(q) \subseteq Known(r)
    <3> SUFFICES ASSUME NEW x \in Known(q) PROVE x \in Known(r)
      OBVIOUS
    <3>1. x \in CommentsIn(q.lead) \/ \E i \in 1..Len(q.elements) : x \in CommentsOf(q.elements[i])
      BY <1>2, KnownWhere
    <3>2. x \notin CommentsIn(q.lead)
      BY <2>1, CommentsNone
    <3>3. PICK i \in 1..(n + 1) : x \in CommentsOf(q.elements[i])
      BY <2>3, <3>1, <3>2
    <3>4. CASE i \in 1..n
      BY <2>3, <3>3, <3>4, KnownWhere
    <3>5. CASE i = n + 1
      <4>1. CommentsOf(e) = CommentsIn(r.lead)
        BY <2>2, CommentsNone DEF CommentsOf
      <4>2. QED
        BY <2>3, <3>3, <3>5, <4>1, KnownWhere
    <3>6. QED
      BY <1>1, <3>3, <3>4, <3>5
  <2>14. QED
    BY <2>10, <2>11, <2>12, <2>13 DEF q
<1>10. QED
  BY <1>2, <1>8, <1>9

\* Refused is refused.
LEMMA ReadSound ==
  ASSUME NEW r, Sound(r), NEW t \in Tokens
  PROVE  Sound(ReadToken(r, t)) /\ (r.at = "refused" => ReadToken(r, t).at = "refused")
<1>1. CASE r.at = "refused"
  <2>1. ReadToken(r, t) = r
    BY <1>1, Turns
  <2>2. QED
    BY <1>1, <2>1
<1>2. CASE r.at # "refused"
  BY <1>2, ReadCases, Zenon
<1>3. QED
  BY <1>1, <1>2

LEMMA StagesPassed ==
  ASSUME NEW tokens \in Seq(Tokens)
  PROVE  /\ Sound(Reading(tokens))
         /\ Reading(tokens).at # "refused" =>
              Passed(Reading(tokens)) = tokens /\ Known(Reading(tokens)) \subseteq CommentsIn(tokens)
<1> DEFINE x == [n \in Nat |-> SubSeq(tokens, 1, n)]
           G == [n \in Nat |-> {q \in Places : /\ Sound(q)
                                               /\ q.at # "refused" => /\ Passed(q) = x[n]
                                                                      /\ Known(q) \subseteq CommentsIn(x[n])}]
<1>1. Len(tokens) \in Nat
  OBVIOUS
<1>2. x[0] = <<>> /\ x[Len(tokens)] = tokens
  <2>1. x[0] = SubSeq(tokens, 1, 0) /\ SubSeq(tokens, 1, 0) = <<>>
    BY SubSeqEmpty
  <2>2. x[Len(tokens)] = SubSeq(tokens, 1, Len(tokens))
    BY <1>1
  <2>3. SubSeq(tokens, 1, Len(tokens)) = tokens
    BY SubSeqFull
  <2>4. QED
    BY <2>1, <2>2, <2>3
<1>3. ASSUME NEW n \in Nat, n < Len(tokens)
      PROVE  x[n] \in Seq(Tokens) /\ x[n + 1] = Append(x[n], tokens[n + 1])
  <2>1. SubSeq(tokens, 1, n) \in Seq(Tokens)
        /\ Append(SubSeq(tokens, 1, n), tokens[n + 1]) = SubSeq(tokens, 1, n + 1)
    BY <1>1, <1>3
  <2>2. n + 1 \in Nat
    OBVIOUS
  <2>3. x[n] = SubSeq(tokens, 1, n) /\ x[n + 1] = SubSeq(tokens, 1, n + 1)
    BY <2>2, Zenon
  <2>4. QED
    BY <2>1, <2>3
<1> HIDE DEF x
<1>4. ASSUME NEW n \in Nat, NEW q
      PROVE  q \in G[n] <=> /\ Sound(q)
                            /\ q.at # "refused" => Passed(q) = x[n] /\ Known(q) \subseteq CommentsIn(x[n])
  BY DEF Sound
<1> HIDE DEF G
<1>5. Start \in G[0]
  <2>1. /\ Sound(Start) /\ Start.elements = <<>> /\ Start.lead = <<>> /\ Start.gap = <<>>
        /\ Start.gaps = <<>>
    BY StartAt DEF At, Start
  <2>2. Known(Start) = {}
    <3>1. \A y : y \notin CommentsIn(<<>>)
      BY CommentsNone
    <3>2. \A y : y \notin Known(Start)
      BY <2>1, <3>1, KnownWhere
    <3>3. QED
      BY <3>2
  <2>3. Passed(Start) = <<>>
    <3>1. Blocks(<<>>, <<>>) = <<>>
      BY DEF Blocks
    <3>2. FlattenSeq(<<>>) = <<>>
      BY R!FlattenEmpty, FlattenIs
    <3>3. <<>> \o <<>> = <<>>
      OBVIOUS
    <3>4. QED
      BY <2>1, <3>1, <3>2, <3>3 DEF Passed
  <2>4. QED
    BY <1>2, <1>4, <2>1, <2>2, <2>3
<1>6. ASSUME NEW n \in Nat, n < Len(tokens), NEW q \in G[n]
      PROVE  ReadToken(q, tokens[n + 1]) \in G[n + 1]
  <2> DEFINE t == tokens[n + 1]
             p == ReadToken(q, t)
  <2>1. t \in Tokens /\ n + 1 \in Nat
    BY <1>6
  <2>2. /\ Sound(q)
        /\ q.at # "refused" => Passed(q) = x[n] /\ Known(q) \subseteq CommentsIn(x[n])
    BY <1>4, <1>6
  <2> HIDE DEF t
  <2>3. Sound(p) /\ (p.at # "refused" => q.at # "refused")
    BY <2>1, <2>2, ReadSound
  <2>4. ASSUME p.at # "refused"
        PROVE  Passed(p) = x[n + 1] /\ Known(p) \subseteq CommentsIn(x[n + 1])
    <3>1. /\ Passed(p) = Append(Passed(q), t)
          /\ Known(p) \subseteq Known(q) \cup {y \in {t.x} : t.k = "comment"}
      BY <2>1, <2>2, <2>3, <2>4, PassedStep, Zenon
    <3>2. x[n] \in Seq(Tokens) /\ x[n + 1] = Append(x[n], t)
      BY <1>3, <1>6 DEF t
    <3>3. CommentsIn(x[n + 1]) = CommentsIn(x[n]) \cup {y \in {t.x} : t.k = "comment"}
      BY <2>1, <3>2, CommentsAppend
    <3> HIDE DEF p
    <3>4. QED
      BY <2>2, <2>3, <2>4, <3>1, <3>2, <3>3
  <2> HIDE DEF p
  <2>5. p \in G[n + 1]
    BY <1>4, <2>1, <2>3, <2>4
  <2>6. QED
    BY <2>5 DEF p, t
<1>7. From(Start, tokens) \in G[Len(tokens)]
  BY <1>5, <1>6, TokenStages
<1>8. Reading(tokens) \in G[Len(tokens)]
  BY <1>7, ReadingIs
<1>9. QED
  BY <1>1, <1>2, <1>4, <1>8
---------------------------------------------------------------------------
(***************************************************************************)
(* Set: the reading of the bytes goes through the same places, and the     *)
(* element it wrote is the only one that differs.                          *)
(***************************************************************************)
LEMMA ParsedNode ==
  ASSUME NEW text \in Seq(Tokens), Readable(text)
  PROVE  LET a == ParseArrayValue(text) IN
         /\ a \in ArrayNode /\ HasGaps(a) /\ SpliceContainer(a) = text
         /\ Told(a) \subseteq CommentsIn(text)
<1> DEFINE r == Reading(text)
           a == ParseArrayValue(text)
           gaps == Append(r.gaps, r.gap)
           n == Len(r.elements)
<1>1. /\ Sound(r) /\ Passed(r) = text /\ Known(r) \subseteq CommentsIn(text)
  BY StagesPassed DEF Readable
<1>2. a = [elements |-> r.elements, trailing |-> r.lead, gaps |-> gaps]
  BY DEF ParseArrayValue
<1> HIDE DEF r, a
<1>3. /\ r.elements \in Seq(Node) /\ r.lead \in Seq(CommentTokens) /\ n \in Nat
      /\ r.gap \in Seq(GapTokens) /\ r.gaps \in Seq(Seq(GapTokens))
      /\ Len(r.gaps) = n
  BY <1>1 DEF Sound, Places
<1>4. /\ gaps \in Seq(Seq(GapTokens)) /\ Len(gaps) = n + 1 /\ gaps[n + 1] = r.gap
      /\ \A i \in 1..n : gaps[i] = r.gaps[i]
  BY <1>3, AppendProperties, SMTT(40)
<1> HIDE DEF gaps
<1>5. a \in ArrayNode /\ HasGaps(a)
  BY <1>2, <1>3, <1>4 DEF ArrayNode, HasGaps
<1>6. Told(a) = Known(r)
  BY <1>2 DEF Told, Known
<1>7. Blocks(gaps, r.elements) = Blocks(r.gaps, r.elements)
  <2>1. DOMAIN r.elements = 1..n
    BY <1>3
  <2>2. \A i \in 1..n : gaps[i] = r.gaps[i]
    BY <1>4
  <2>3. QED
    BY <2>1, <2>2, Zenon DEF Blocks
<1>8. SpliceContainer(a) = FlattenSeq(Blocks(a.gaps, a.elements)) \o a.gaps[Len(a.elements) + 1]
  BY DEF SpliceContainer, Blocks
<1>9. SpliceContainer(a) = Passed(r)
  BY <1>2, <1>4, <1>7, <1>8 DEF Passed
<1>10. QED
  BY <1>1, <1>5, <1>6, <1>9 DEF a

LEMMA Reread ==
  ASSUME NEW e \in Node, NEW v \in Names
  PROVE  /\ Replaced(e, v) \in Node /\ Replaced(e, v).val = v
         /\ Replaced(e, v).lead = e.lead /\ Replaced(e, v).inline = e.inline
         /\ \A c \in CommentTokens : Replaced(Noted(e, c), v) = Noted(Replaced(e, v), c)
BY DEF Replaced, Node, Noted

\* The place with another value of element i.
Swapped(els, i, v) == [els EXCEPT ![i] = Replaced(@, v)]
Swap(q, i, v) == [q EXCEPT !.elements = Swapped(q.elements, i, v)]

LEMMA SwapSound ==
  ASSUME NEW q, Sound(q), NEW i \in 1..Len(q.elements), NEW v \in Names
  PROVE  LET p == Swap(q, i, v) IN
         /\ Sound(p) /\ p.at = q.at /\ p.lead = q.lead /\ p.gap = q.gap /\ p.gaps = q.gaps
         /\ p.elements = Swapped(q.elements, i, v)
         /\ p.elements \in Seq(Node) /\ Len(p.elements) = Len(q.elements)
<1> DEFINE p == Swap(q, i, v)
           els == Swapped(q.elements, i, v)
<1>1. q \in Places /\ q.elements \in Seq(Node) /\ q.elements[i] \in Node
  BY DEF Sound, Places
<1>2. els \in Seq(Node) /\ Len(els) = Len(q.elements)
  BY <1>1, Reread DEF Swapped
<1>3. els # <<>>
  BY <1>1, <1>2
<1> HIDE DEF els
<1>4. p = [q EXCEPT !.elements = els]
  BY DEF Swap, els
<1> HIDE DEF p
<1>5. /\ p \in Places /\ p.at = q.at /\ p.lead = q.lead /\ p.gap = q.gap /\ p.gaps = q.gaps
      /\ p.elements = els
  BY <1>1, <1>2, <1>4 DEF Places
<1>6. Sound(p)
  BY <1>2, <1>3, <1>5 DEF Sound
<1>7. QED
  BY <1>2, <1>5, <1>6 DEF p, els

LEMMA SamePlace ==
  ASSUME NEW q, NEW p, Sound(q), Sound(p), q.at = p.at, q.elements = p.elements,
         q.lead = p.lead, q.gap = p.gap, q.gaps = p.gaps
  PROVE  q = p
<1>1. \A r \in Places : r = [at |-> r.at, elements |-> r.elements, lead |-> r.lead,
                            gap |-> r.gap, gaps |-> r.gaps]
  BY DEF Places
<1>2. q \in Places /\ p \in Places
  BY DEF Sound
<1>3. QED
  BY <1>1, <1>2, Zenon

LEMMA SwapRead ==
  ASSUME NEW q, Sound(q), NEW i \in 1..Len(q.elements), NEW v \in Names, NEW t \in Tokens
  PROVE  /\ ReadToken(Swap(q, i, v), t) = Swap(ReadToken(q, t), i, v)
         /\ i \in 1..Len(ReadToken(q, t).elements)
<1> DEFINE p == Swap(q, i, v)
           q1 == ReadToken(q, t)
           p1 == ReadToken(p, t)
           s == Swap(q1, i, v)
           n == Len(q.elements)
           els == Swapped(q.elements, i, v)
<1>1. /\ Sound(p) /\ p.at = q.at /\ p.lead = q.lead /\ p.gap = q.gap /\ p.gaps = q.gaps
      /\ p.elements = els /\ els \in Seq(Node) /\ Len(els) = n
  <2>1. /\ Sound(p) /\ p.at = q.at /\ p.lead = q.lead /\ p.gap = q.gap /\ p.gaps = q.gaps
        /\ p.elements = els /\ p.elements \in Seq(Node) /\ Len(p.elements) = n
    BY SwapSound
  <2> HIDE DEF p, els
  <2>2. QED
    BY <2>1
<1>2. q.elements \in Seq(Node) /\ n \in Nat /\ i \in 1..n /\ q.at \in {"trivia", "value", "comma", "skip", "refused"}
  BY DEF Sound, Places
<1>3. \A j \in 1..n : els[j] = IF j = i THEN Replaced(q.elements[i], v) ELSE q.elements[j]
  BY <1>2 DEF Swapped
<1>4. Sound(q1) /\ Sound(p1)
  BY <1>1, ReadSound
<1> HIDE DEF p, els
<1>5. SUFFICES /\ i \in 1..Len(q1.elements)
               /\ p1.at = q1.at /\ p1.lead = q1.lead /\ p1.gap = q1.gap /\ p1.gaps = q1.gaps
               /\ p1.elements = Swapped(q1.elements, i, v)
  <2>1. /\ Sound(s) /\ s.at = q1.at /\ s.lead = q1.lead /\ s.gap = q1.gap /\ s.gaps = q1.gaps
        /\ s.elements = Swapped(q1.elements, i, v)
    BY <1>4, <1>5, SwapSound
  <2> HIDE DEF q1, p1, s
  <2>2. p1 = s
    BY <1>4, <1>5, <2>1, SamePlace
  <2>3. QED
    BY <1>5, <2>2 DEF p, q1, p1, s
<1>6. CASE q.at = "refused"
  <2>1. q1 = q /\ p1 = p
    BY <1>1, <1>6, Turns
  <2>2. QED
    BY <1>1, <1>2, <2>1 DEF els
<1>7. ASSUME q.at # "refused", q1.elements = q.elements, p1.elements = p.elements
      PROVE  i \in 1..Len(q1.elements) /\ p1.elements = Swapped(q1.elements, i, v)
  BY <1>1, <1>2, <1>7 DEF els
<1>8. CASE q.at # "refused" /\ t = Newline
  <2>1. /\ q1.elements = q.elements /\ q1.lead = q.lead /\ q1.gap = Append(q.gap, t)
        /\ q1.gaps = q.gaps /\ q1.at = IF q.at = "comma" THEN "trivia" ELSE q.at
    BY <1>8, ReadNewline
  <2>2. /\ p1.elements = p.elements /\ p1.lead = p.lead /\ p1.gap = Append(p.gap, t)
        /\ p1.gaps = p.gaps /\ p1.at = IF p.at = "comma" THEN "trivia" ELSE p.at
    BY <1>1, <1>8, ReadNewline
  <2> HIDE DEF q1, p1
  <2>3. QED
    BY <1>1, <1>7, <1>8, <2>1, <2>2
<1>9. CASE q.at # "refused" /\ t = Comma
  <2>1. /\ q1.elements = q.elements /\ q1.lead = q.lead
        /\ q1.gap = (IF q.at \in {"value", "skip"} THEN Append(q.gap, t) ELSE q.gap)
        /\ q1.gaps = q.gaps /\ q1.at = IF q.at = "value" THEN "comma"
                   ELSE IF q.at = "skip" THEN "trivia" ELSE "refused"
    BY <1>9, ReadComma
  <2>2. /\ p1.elements = p.elements /\ p1.lead = p.lead
        /\ p1.gap = (IF p.at \in {"value", "skip"} THEN Append(p.gap, t) ELSE p.gap)
        /\ p1.gaps = p.gaps /\ p1.at = IF p.at = "value" THEN "comma"
                   ELSE IF p.at = "skip" THEN "trivia" ELSE "refused"
    BY <1>1, <1>9, ReadComma
  <2> HIDE DEF q1, p1
  <2>3. QED
    BY <1>1, <1>7, <1>9, <2>1, <2>2
<1>10. CASE q.at # "refused" /\ t \in CommentTokens
  <2>1. /\ q1.gap = Append(q.gap, t) /\ q1.gaps = q.gaps
        /\ q1.at = IF q.at \in {"trivia", "comma"} THEN "trivia" ELSE "skip"
        /\ q1.lead = IF q.at = "trivia" THEN Append(q.lead, t) ELSE q.lead
        /\ q1.elements = IF q.at \in {"value", "comma"}
                         THEN [q.elements EXCEPT ![n] = Noted(@, t)] ELSE q.elements
    BY <1>10, ReadComment
  <2>2. /\ p1.gap = Append(p.gap, t) /\ p1.gaps = p.gaps
        /\ p1.at = IF p.at \in {"trivia", "comma"} THEN "trivia" ELSE "skip"
        /\ p1.lead = IF p.at = "trivia" THEN Append(p.lead, t) ELSE p.lead
        /\ p1.elements = IF p.at \in {"value", "comma"}
                         THEN [p.elements EXCEPT ![n] = Noted(@, t)] ELSE p.elements
    BY <1>1, <1>10, ReadComment, SMTT(40)
  <2> HIDE DEF q1, p1
  <2>3. CASE q.at \notin {"value", "comma"}
    BY <1>1, <1>7, <1>10, <2>1, <2>2, <2>3
  <2>4. CASE q.at \in {"value", "comma"}
    <3> DEFINE new == [q.elements EXCEPT ![n] = Noted(@, t)]
               pew == [els EXCEPT ![n] = Noted(@, t)]
               rep == Swapped(new, i, v)
    <3>1. n \in 1..n /\ q.elements[n] \in Node /\ els[n] \in Node /\ q.elements[i] \in Node
      BY <1>1, <1>2
    <3>2. /\ new \in Seq(Node) /\ Len(new) = n
          /\ \A j \in 1..n : new[j] = IF j = n THEN Noted(q.elements[n], t) ELSE q.elements[j]
      BY <1>2, <1>10, <3>1, NotedTyped
    <3>3. /\ pew \in Seq(Node) /\ Len(pew) = n
          /\ \A j \in 1..n : pew[j] = IF j = n THEN Noted(els[n], t) ELSE els[j]
      BY <1>1, <1>2, <1>10, <3>1, NotedTyped
    <3> HIDE DEF new, pew
    <3>4. new[i] \in Node /\ Replaced(new[i], v) \in Node
      BY <3>2, Reread
    <3>5. /\ rep \in Seq(Node) /\ Len(rep) = n
          /\ \A j \in 1..n : rep[j] = IF j = i THEN Replaced(new[i], v) ELSE new[j]
      BY <3>2, <3>4 DEF Swapped
    <3> HIDE DEF rep
    <3>6. \A c \in CommentTokens :
            Replaced(Noted(q.elements[i], c), v) = Noted(Replaced(q.elements[i], v), c)
      BY <3>1, Reread
    <3>7. ASSUME NEW j \in 1..n PROVE pew[j] = rep[j]
      <4>1. CASE j = i /\ j = n
        BY <1>3, <1>10, <3>2, <3>3, <3>5, <3>6, <4>1
      <4>2. CASE j = i /\ j # n
        BY <1>3, <3>2, <3>3, <3>5, <4>2
      <4>3. CASE j # i /\ j = n
        BY <1>3, <3>2, <3>3, <3>5, <4>3
      <4>4. CASE j # i /\ j # n
        BY <1>3, <3>2, <3>3, <3>5, <4>4
      <4>5. QED
        BY <4>1, <4>2, <4>3, <4>4
    <3>8. pew = rep
      <4>1. Len(pew) = Len(rep) /\ \A j \in 1..Len(pew) : pew[j] = rep[j]
        BY <3>3, <3>5, <3>7
      <4>2. QED
        BY <3>3, <3>5, <4>1, R!SameSeq, Zenon
    <3>9. q1.elements = new /\ p1.elements = pew
      BY <1>1, <2>1, <2>2, <2>4 DEF new, pew
    <3>10. i \in 1..Len(q1.elements) /\ p1.elements = Swapped(q1.elements, i, v)
      BY <1>2, <3>2, <3>8, <3>9 DEF rep
    <3>11. QED
      BY <1>1, <2>1, <2>2, <3>10
  <2>5. QED
    BY <2>3, <2>4
<1>11. CASE q.at # "refused" /\ \E x \in Names : t = Value(x)
  <2>1. PICK x \in Names : t = Value(x)
    BY <1>11
  <2>2. CASE q.at \notin {"trivia", "comma"}
    <3>1. q1 = Refused(q) /\ p1 = Refused(p)
      BY <1>1, <1>11, <2>1, <2>2, ReadValue
    <3>2. /\ q1.at = "refused" /\ q1.elements = q.elements /\ q1.lead = q.lead
          /\ q1.gap = q.gap /\ q1.gaps = q.gaps
      BY <3>1, RefusedSound
    <3>3. /\ p1.at = "refused" /\ p1.elements = p.elements /\ p1.lead = p.lead
          /\ p1.gap = p.gap /\ p1.gaps = p.gaps
      BY <1>1, <3>1, RefusedSound
    <3> HIDE DEF q1, p1
    <3>4. QED
      BY <1>1, <1>7, <1>11, <3>2, <3>3
  <2>3. CASE q.at \in {"trivia", "comma"}
    <3> DEFINE e == Bare(x, q.lead)
               new == Append(q.elements, e)
               pew == Append(els, e)
               rep == Swapped(new, i, v)
    <3>1. /\ q1.at = "value" /\ q1.lead = <<>> /\ q1.gap = <<>>
          /\ q1.elements = new /\ q1.gaps = Append(q.gaps, q.gap)
      BY <1>11, <2>1, <2>3, ReadValue
    <3>2. /\ p1.at = "value" /\ p1.lead = <<>> /\ p1.gap = <<>>
          /\ p1.elements = pew /\ p1.gaps = Append(p.gaps, p.gap)
      <4>1. /\ p1.at = "value" /\ p1.lead = <<>> /\ p1.gap = <<>>
            /\ p1.elements = Append(p.elements, Bare(x, p.lead)) /\ p1.gaps = Append(p.gaps, p.gap)
        BY <1>1, <1>11, <2>1, <2>3, ReadValue
      <4>2. QED
        BY <1>1, <4>1
    <3>3. e \in Node
      BY DEF Bare, Node, Inline, Sound, Places
    <3> HIDE DEF q1, p1, e
    <3>4. /\ new \in Seq(Node) /\ Len(new) = n + 1 /\ new[n + 1] = e
          /\ \A j \in 1..n : new[j] = q.elements[j]
      BY <1>2, <3>3
    <3>5. /\ pew \in Seq(Node) /\ Len(pew) = n + 1 /\ pew[n + 1] = e
          /\ \A j \in 1..n : pew[j] = els[j]
      BY <1>1, <1>2, <3>3
    <3> HIDE DEF new, pew
    <3>6. i \in 1..(n + 1) /\ new[i] \in Node /\ Replaced(new[i], v) \in Node
      BY <1>2, <3>4, Reread, SMTT(40)
    <3>7. /\ rep \in Seq(Node) /\ Len(rep) = n + 1
          /\ \A j \in 1..(n + 1) : rep[j] = IF j = i THEN Replaced(new[i], v) ELSE new[j]
      BY <3>4, <3>6 DEF Swapped
    <3> HIDE DEF rep
    <3>8. ASSUME NEW j \in 1..(n + 1) PROVE pew[j] = rep[j]
      <4>1. CASE j \in 1..n
        BY <1>2, <1>3, <3>4, <3>5, <3>7, <4>1
      <4>2. CASE j = n + 1
        BY <1>2, <3>4, <3>5, <3>7, <4>2
      <4>3. QED
        BY <1>2, <4>1, <4>2
    <3>9. pew = rep
      <4>1. Len(pew) = Len(rep) /\ \A j \in 1..Len(pew) : pew[j] = rep[j]
        BY <3>5, <3>7, <3>8
      <4>2. QED
        BY <3>5, <3>7, <4>1, R!SameSeq, Zenon
    <3>10. i \in 1..Len(q1.elements) /\ p1.elements = Swapped(q1.elements, i, v)
      BY <3>1, <3>2, <3>4, <3>6, <3>9 DEF rep
    <3>11. QED
      BY <1>1, <3>1, <3>2, <3>10
  <2>4. QED
    BY <2>2, <2>3
<1>12. QED
  BY <1>6, <1>8, <1>9, <1>10, <1>11, TokenCases

LEMMA FlattenSplit ==
  ASSUME NEW T, NEW ss \in Seq(Seq(T)), NEW i \in 1..Len(ss)
  PROVE  FlattenSeq(ss) = FlattenSeq(SubSeq(ss, 1, i - 1))
                            \o (ss[i] \o FlattenSeq(SubSeq(ss, i + 1, Len(ss))))
BY R!FlattenSplit, FlattenIs

LEMMA SwapFrom ==
  ASSUME NEW r, Sound(r), NEW i \in 1..Len(r.elements), NEW v \in Names, NEW s \in Seq(Tokens)
  PROVE  /\ From(Swap(r, i, v), s) = Swap(From(r, s), i, v)
         /\ Sound(From(r, s)) /\ i \in 1..Len(From(r, s).elements)
<1> DEFINE p == Swap(r, i, v)
<1>1. Len(s) \in Nat /\ DOMAIN s = 1..Len(s)
  OBVIOUS
<1>2. PICK f : R!IsRun(f, r, s, Len(s)) /\ f[Len(s)] = From(r, s)
  BY <1>1, R!FoldIs DEF From
<1>3. PICK g : R!IsRun(g, p, s, Len(s)) /\ g[Len(s)] = From(p, s)
  BY <1>1, R!FoldIs DEF From
<1> DEFINE S == {n \in Nat : n <= Len(s) => /\ g[n] = Swap(f[n], i, v)
                                           /\ Sound(f[n]) /\ i \in 1..Len(f[n].elements)}
<1>4. 0 \in S
  BY <1>2, <1>3 DEF R!IsRun
<1>5. ASSUME NEW n \in Nat, n \in S PROVE n + 1 \in S
  <2> SUFFICES ASSUME n + 1 <= Len(s)
               PROVE  /\ g[n + 1] = Swap(f[n + 1], i, v)
                      /\ Sound(f[n + 1]) /\ i \in 1..Len(f[n + 1].elements)
    OBVIOUS
  <2>1. /\ n + 1 \in 1..Len(s) /\ (n + 1) - 1 = n /\ s[n + 1] \in Tokens
        /\ g[n] = Swap(f[n], i, v) /\ Sound(f[n]) /\ i \in 1..Len(f[n].elements)
    BY <1>1, <1>5
  <2>2. f[n + 1] = ReadToken(f[n], s[n + 1]) /\ g[n + 1] = ReadToken(g[n], s[n + 1])
    BY <1>2, <1>3, <2>1 DEF R!IsRun
  <2>3. /\ ReadToken(Swap(f[n], i, v), s[n + 1]) = Swap(ReadToken(f[n], s[n + 1]), i, v)
        /\ i \in 1..Len(ReadToken(f[n], s[n + 1]).elements)
    BY <2>1, SwapRead
  <2>4. Sound(ReadToken(f[n], s[n + 1]))
    BY <2>1, ReadSound
  <2>5. QED
    BY <2>1, <2>2, <2>3, <2>4
<1> HIDE DEF S
<1>6. Nat \subseteq S
  BY <1>4, <1>5, Induct, Zenon
<1>7. QED
  BY <1>1, <1>2, <1>3, <1>6 DEF S

LEMMA FromSound ==
  ASSUME NEW r, Sound(r), NEW s \in Seq(Tokens)
  PROVE  Sound(From(r, s)) /\ (r.at = "refused" => From(r, s).at = "refused")
<1> DEFINE Q == {q \in Places : Sound(q) /\ (r.at = "refused" => q.at = "refused")}
           G == [n \in Nat |-> Q]
<1>1. \A n \in Nat : G[n] = Q
  OBVIOUS
<1>2. \A q : q \in Q <=> Sound(q) /\ (r.at = "refused" => q.at = "refused")
  BY DEF Sound
<1> HIDE DEF G, Q
<1>3. r \in G[0]
  BY <1>1, <1>2
<1>4. ASSUME NEW n \in Nat, n < Len(s), NEW q \in G[n]
      PROVE  ReadToken(q, s[n + 1]) \in G[n + 1]
  <2>1. s[n + 1] \in Tokens /\ n + 1 \in Nat /\ q \in Q
    BY <1>1, <1>4
  <2>2. Sound(ReadToken(q, s[n + 1]))
        /\ (q.at = "refused" => ReadToken(q, s[n + 1]).at = "refused")
    BY <1>2, <2>1, ReadSound
  <2>3. ReadToken(q, s[n + 1]) \in Q
    BY <1>2, <2>1, <2>2
  <2>4. QED
    BY <1>1, <2>1, <2>3
<1>5. From(r, s) \in G[Len(s)] /\ Len(s) \in Nat
  BY <1>3, <1>4, TokenStages
<1>6. From(r, s) \in Q
  BY <1>1, <1>5
<1>7. QED
  BY <1>2, <1>6

\* A place before which so many elements were read.
Counted(n) == {q \in Places : Sound(q) /\ (q.at # "refused" => Len(q.elements) = n)}

LEMMA CountRead ==
  ASSUME NEW n \in Nat, NEW q \in Counted(n)
  PROVE  /\ \A t \in GapTokens : ReadToken(q, t) \in Counted(n)
         /\ \A v \in Names : ReadToken(q, Value(v)) \in Counted(n + 1)
<1>1. Sound(q) /\ (q.at # "refused" => Len(q.elements) = n)
  BY DEF Counted
<1>2. \A p, m : p \in Counted(m) <=> Sound(p) /\ (p.at # "refused" => Len(p.elements) = m)
  BY DEF Counted, Sound
<1>3. ASSUME NEW t \in GapTokens PROVE ReadToken(q, t) \in Counted(n)
  <2> DEFINE p == ReadToken(q, t)
  <2>1. t \in Tokens /\ t.k # "value" /\ \A v : Value(v).k = "value"
    BY Kinds
  <2>2. Sound(p) /\ (q.at = "refused" => p.at = "refused")
    BY <1>1, <2>1, ReadSound
  <2>3. ASSUME p.at # "refused" PROVE Len(p.elements) = n
    <3>1. q.at # "refused"
      BY <2>2, <2>3
    <3>2. \/ SameValues(p.elements, q.elements)
          \/ \E v \in Names : t = Value(v)
      BY <1>1, <2>1, <2>3, <3>1, ReadCases, Zenon
    <3>3. \A v \in Names : t # Value(v)
      BY <2>1
    <3> HIDE DEF p
    <3>4. SameValues(p.elements, q.elements)
      BY <3>2, <3>3
    <3>5. QED
      BY <1>1, <3>1, <3>4 DEF SameValues
  <2> HIDE DEF p
  <2>4. p \in Counted(n)
    BY <1>2, <2>2, <2>3
  <2>5. QED
    BY <2>4 DEF p
<1>4. ASSUME NEW v \in Names PROVE ReadToken(q, Value(v)) \in Counted(n + 1)
  <2> DEFINE p == ReadToken(q, Value(v))
  <2>1. Value(v) \in Tokens
    BY Kinds
  <2>2. Sound(p) /\ (q.at = "refused" => p.at = "refused")
    BY <1>1, <2>1, ReadSound
  <2>3. ASSUME p.at # "refused" PROVE Len(p.elements) = n + 1
    <3>1. q.at # "refused"
      BY <2>2, <2>3
    <3>2. CASE q.at \in {"trivia", "comma"}
      <4>1. p.elements = Append(q.elements, Bare(v, q.lead))
        BY <1>1, <3>1, <3>2, ReadValue
      <4> HIDE DEF p
      <4>2. q.elements \in Seq(Node) /\ Bare(v, q.lead) \in Node
        BY <1>1 DEF Sound, Places, Bare, Node, Inline
      <4>3. QED
        BY <1>1, <3>1, <4>1, <4>2
    <3>3. CASE q.at \notin {"trivia", "comma"}
      <4>1. p = Refused(q)
        BY <1>1, <3>1, <3>3, ReadValue
      <4>2. p.at = "refused"
        BY <1>1, <4>1, RefusedSound
      <4>3. QED
        BY <2>3, <4>2
    <3>4. QED
      BY <3>2, <3>3
  <2> HIDE DEF p
  <2>4. p \in Counted(n + 1)
    BY <1>2, <2>2, <2>3
  <2>5. QED
    BY <2>4 DEF p
<1>5. QED
  BY <1>3, <1>4

LEMMA CountGap ==
  ASSUME NEW m \in Nat, NEW q \in Counted(m), NEW g \in Seq(GapTokens)
  PROVE  From(q, g) \in Counted(m)
<1> DEFINE G == [n \in Nat |-> Counted(m)]
<1>1. \A n \in Nat : G[n] = Counted(m)
  OBVIOUS
<1>2. g \in Seq(Tokens) /\ Len(g) \in Nat
  BY Kinds, SeqMonotonic
<1> HIDE DEF G
<1>3. ASSUME NEW n \in Nat, n < Len(g), NEW p \in G[n]
      PROVE  ReadToken(p, g[n + 1]) \in G[n + 1]
  <2>1. g[n + 1] \in GapTokens /\ n + 1 \in Nat /\ p \in Counted(m)
    BY <1>1, <1>3
  <2>2. QED
    BY <1>1, <2>1, CountRead
<1>4. From(q, g) \in G[Len(g)]
  BY <1>1, <1>2, <1>3, TokenStages
<1>5. QED
  BY <1>1, <1>2, <1>4

LEMMA CountBlocks ==
  ASSUME NEW els \in Seq(Node), NEW gaps \in Seq(Seq(GapTokens)), Len(els) <= Len(gaps),
         NEW m \in 0..Len(els)
  PROVE  From(Start, FlattenSeq(SubSeq(Blocks(gaps, els), 1, m))) \in Counted(m)
<1> DEFINE B == Blocks(gaps, els)
           D == SubSeq(B, 1, m)
           G == [n \in Nat |-> Counted(n)]
<1>1. /\ B \in Seq(Seq(Tokens)) /\ Len(B) = Len(els)
      /\ \A i \in 1..Len(els) :
              /\ gaps[i] \in Seq(Tokens) /\ gaps[i] \in Seq(GapTokens)
              /\ Value(els[i].val) \in Tokens /\ els[i].val \in Names
              /\ B[i] = Append(gaps[i], Value(els[i].val))
  BY BlocksTyped, Zenon
<1>2. Len(els) \in Nat /\ m \in Nat /\ m <= Len(els)
  OBVIOUS
<1> HIDE DEF B
<1>3. D \in Seq(Seq(Tokens)) /\ Len(D) = m /\ \A i \in 1..m : D[i] = B[i]
  BY <1>1, <1>2, SubSeqProperties, SMTT(40)
<1>4. \A n \in Nat : G[n] = Counted(n)
  OBVIOUS
<1> HIDE DEF D, G
<1>5. ASSUME NEW n \in Nat, n < Len(D), NEW q \in G[n]
      PROVE  From(q, D[n + 1]) \in G[n + 1]
  <2> DEFINE g == gaps[n + 1]
             t == Value(els[n + 1].val)
             p == From(q, g)
  <2>1. n + 1 \in 1..Len(els) /\ n + 1 \in 1..m /\ n + 1 \in Nat /\ q \in Counted(n)
    BY <1>2, <1>3, <1>4, <1>5
  <2>2. g \in Seq(Tokens) /\ g \in Seq(GapTokens) /\ t \in Tokens /\ els[n + 1].val \in Names
        /\ B[n + 1] = Append(g, t)
    BY <1>1, <2>1, Zenon
  <2>3. D[n + 1] = B[n + 1]
    BY <1>3, <2>1
  <2>4. p \in Counted(n)
    BY <2>1, <2>2, CountGap
  <2>5. ReadToken(p, t) \in Counted(n + 1)
    BY <2>2, <2>4, CountRead
  <2> HIDE DEF g, t
  <2>6. From(q, Append(g, t)) = ReadToken(From(q, g), t)
    BY <2>2, R!FoldAppend DEF From
  <2>7. QED
    BY <1>4, <2>1, <2>2, <2>3, <2>5, <2>6
<1>6. Start \in G[0]
  BY <1>4, StartAt DEF At, Counted, Start
<1>7. From(Start, FlattenSeq(D)) \in G[Len(D)]
  BY <1>3, <1>5, <1>6, Stages
<1>8. QED
  BY <1>2, <1>3, <1>4, <1>7 DEF D, B

\* The array with another value at element i.
Reval(a, i, v) == [a EXCEPT !.elements = Swapped(a.elements, i, v)]

LEMMA RevalTyped ==
  ASSUME NEW a \in ArrayNode, NEW i \in 1..Len(a.elements), NEW v \in Names
  PROVE  LET b == Reval(a, i, v) IN
         /\ b \in ArrayNode /\ b.gaps = a.gaps /\ b.trailing = a.trailing
         /\ b.elements = Swapped(a.elements, i, v) /\ Len(b.elements) = Len(a.elements)
         /\ b.elements[i].val = v
         /\ \A j \in 1..Len(a.elements) :
              /\ b.elements[j].lead = a.elements[j].lead
              /\ b.elements[j].inline = a.elements[j].inline
              /\ j # i => b.elements[j] = a.elements[j]
         /\ HasGaps(a) <=> HasGaps(b)
<1> DEFINE els == Swapped(a.elements, i, v)
           b == Reval(a, i, v)
           n == Len(a.elements)
<1>1. a.elements \in Seq(Node) /\ a.elements[i] \in Node
  BY DEF ArrayNode
<1>2. /\ Replaced(a.elements[i], v) \in Node /\ Replaced(a.elements[i], v).val = v
      /\ Replaced(a.elements[i], v).lead = a.elements[i].lead
      /\ Replaced(a.elements[i], v).inline = a.elements[i].inline
  BY <1>1, Reread
<1>3. /\ els \in Seq(Node) /\ Len(els) = n /\ els[i] = Replaced(a.elements[i], v)
      /\ \A j \in 1..n : j # i => els[j] = a.elements[j]
  BY <1>1, <1>2 DEF Swapped
<1> HIDE DEF els
<1>4. b = [a EXCEPT !.elements = els]
  BY DEF Reval, els
<1> HIDE DEF b
<1>5. b \in ArrayNode /\ b.gaps = a.gaps /\ b.trailing = a.trailing /\ b.elements = els
  BY <1>3, <1>4 DEF ArrayNode
<1>6. \A j \in 1..n : els[j].lead = a.elements[j].lead /\ els[j].inline = a.elements[j].inline
  BY <1>2, <1>3
<1>7. HasGaps(a) <=> HasGaps(b)
  BY <1>3, <1>5 DEF HasGaps
<1>8. QED
  BY <1>2, <1>3, <1>5, <1>6, <1>7 DEF b, els

LEMMA SpliceIs ==
  \A a : SpliceContainer(a) = FlattenSeq(Blocks(a.gaps, a.elements)) \o a.gaps[Len(a.elements) + 1]
BY DEF SpliceContainer, Blocks

\* Five sequences, however they are put together.
IsAround(f, g, d, k, h) == (f \o ((g \o d) \o k)) \o h = (f \o g) \o (d \o (k \o h))

LEMMA ConcatAround ==
  ASSUME NEW T, NEW f \in Seq(T), NEW g \in Seq(T), NEW d \in Seq(T), NEW k \in Seq(T),
         NEW h \in Seq(T)
  PROVE  IsAround(f, g, d, k, h)
<1>1. (g \o d) \o k = g \o (d \o k)
  BY SMTT(60)
<1>2. (d \o k) \o h = d \o (k \o h)
  BY SMTT(60)
<1> DEFINE p == d \o k
           q == g \o p
           r == p \o h
<1>3. p \in Seq(T) /\ q \in Seq(T) /\ r \in Seq(T)
  OBVIOUS
<1> HIDE DEF p
<1>4. q \o h = g \o r
  BY <1>3, SMTT(60)
<1>5. f \o (g \o r) = (f \o g) \o r
  <2> HIDE DEF r
  <2>1. QED
    BY <1>3, SMTT(60)
<1>6. (f \o q) \o h = f \o (q \o h)
  <2> HIDE DEF q
  <2>1. QED
    BY <1>3, SMTT(60)
<1>7. (g \o d) \o k = q /\ r = d \o (k \o h)
  BY <1>1, <1>2 DEF p
<1> HIDE DEF q, r
<1>8. QED
  BY <1>4, <1>5, <1>6, <1>7 DEF IsAround

LEMMA ConcatParts ==
  ASSUME NEW T, NEW s \in Seq(T), NEW t \in Seq(T)
  PROVE  /\ s \o t \in Seq(T) /\ Len(s \o t) = Len(s) + Len(t)
         /\ \A j \in 1..Len(s) : (s \o t)[j] = s[j]
         /\ \A j \in 1..Len(t) : (s \o t)[Len(s) + j] = t[j]
<1> DEFINE u == s \o t
<1>1. /\ u \in Seq(T) /\ Len(u) = Len(s) + Len(t) /\ Len(s) \in Nat /\ Len(t) \in Nat
      /\ \A i \in 1..Len(s) + Len(t) : u[i] = IF i <= Len(s) THEN s[i] ELSE t[i - Len(s)]
  BY ConcatProperties
<1> HIDE DEF u
<1>2. ASSUME NEW j \in 1..Len(s) PROVE u[j] = s[j]
  <2>1. j \in 1..Len(s) + Len(t) /\ j <= Len(s)
    BY <1>1
  <2>2. QED
    BY <1>1, <2>1
<1>3. ASSUME NEW j \in 1..Len(t) PROVE u[Len(s) + j] = t[j]
  <2>1. Len(s) + j \in 1..Len(s) + Len(t) /\ ~(Len(s) + j <= Len(s)) /\ (Len(s) + j) - Len(s) = j
    BY <1>1
  <2>2. QED
    BY <1>1, <2>1
<1>4. QED
  BY <1>1, <1>2, <1>3 DEF u

\* What is spliced before and behind an element's value.
LEMMA SpliceAround ==
  ASSUME NEW a \in ArrayNode, HasGaps(a), NEW i \in 1..Len(a.elements), NEW v \in Names
  PROVE  \E x, y \in Seq(Tokens) :
           /\ SpliceContainer(a) = x \o (<<Value(a.elements[i].val)>> \o y)
           /\ SpliceContainer(Reval(a, i, v)) = x \o (<<Value(v)>> \o y)
           /\ From(Start, x) \in Counted(i - 1)
<1> DEFINE b == Reval(a, i, v)
           n == Len(a.elements)
           B == Blocks(a.gaps, a.elements)
           C == Blocks(b.gaps, b.elements)
           u == SubSeq(B, 1, i - 1)
           w == SubSeq(B, i + 1, n)
           g == a.gaps[i]
           h == a.gaps[n + 1]
           s == Value(a.elements[i].val)
           t == Value(v)
           f == FlattenSeq(u)
           k == FlattenSeq(w)
<1>1. /\ b \in ArrayNode /\ b.gaps = a.gaps /\ Len(b.elements) = n /\ b.elements[i].val = v
      /\ \A j \in 1..n : j # i => b.elements[j] = a.elements[j]
      /\ HasGaps(b)
  BY RevalTyped
<1> HIDE DEF b
<1>2. /\ a.elements \in Seq(Node) /\ a.gaps \in Seq(Seq(GapTokens)) /\ Len(a.gaps) = n + 1
      /\ b.elements \in Seq(Node) /\ n \in Nat /\ i \in Nat /\ 1 <= i /\ i <= n
      /\ n <= Len(a.gaps) /\ n + 1 \in 1..Len(a.gaps)
  BY <1>1, SMTT(40) DEF ArrayNode, HasGaps
<1>3. /\ B \in Seq(Seq(Tokens)) /\ Len(B) = n /\ DOMAIN B = 1..n
      /\ \A j \in 1..n : /\ a.gaps[j] \in Seq(Tokens) /\ a.gaps[j] \in Seq(GapTokens)
                         /\ Value(a.elements[j].val) \in Tokens
                         /\ B[j] = Append(a.gaps[j], Value(a.elements[j].val))
                         /\ B[j] \in Seq(Tokens)
  BY <1>2, BlocksTyped, Zenon
<1>4. /\ C \in Seq(Seq(Tokens)) /\ Len(C) = n /\ DOMAIN C = 1..n
      /\ \A j \in 1..n : C[j] = Append(a.gaps[j], Value(b.elements[j].val))
  <2> DEFINE fls == b.elements
             D == Blocks(a.gaps, fls)
  <2>1. fls \in Seq(Node) /\ Len(fls) = n /\ Len(fls) <= Len(a.gaps) /\ C = D
    BY <1>1, <1>2
  <2> HIDE DEF fls, C
  <2>2. /\ D \in Seq(Seq(Tokens)) /\ Len(D) = Len(fls) /\ DOMAIN D = 1..Len(fls)
        /\ \A j \in 1..Len(fls) : D[j] = Append(a.gaps[j], Value(fls[j].val))
    BY <1>2, <2>1, BlocksTyped, Zenon
  <2>3. QED
    BY <2>1, <2>2, Zenon DEF fls
<1>5. h \in Seq(GapTokens) /\ h \in Seq(Tokens)
  BY <1>2, Kinds, SeqMonotonic, SMTT(40)
<1> HIDE DEF B, C
<1>6. B[i] = Append(g, s) /\ C[i] = Append(g, t)
  BY <1>1, <1>3, <1>4, Zenon
<1>7. g \in Seq(Tokens) /\ g \in Seq(GapTokens) /\ s \in Tokens /\ t \in Tokens
  BY <1>3, Kinds
<1>8. \A j \in 1..n : j # i => C[j] = B[j]
  BY <1>1, <1>3, <1>4, Zenon
<1>9. /\ u \in Seq(Seq(Tokens)) /\ Len(u) = i - 1 /\ \A j \in 1..(i - 1) : u[j] = B[j]
  BY <1>2, <1>3, SubSeqProperties, SMTT(40)
<1>10. /\ w \in Seq(Seq(Tokens)) /\ Len(w) = n - i /\ \A j \in 1..(n - i) : w[j] = B[i + j]
  BY <1>2, <1>3, SubSeqProperties, SMTT(40)
<1>11. u = SubSeq(C, 1, i - 1)
  <2> DEFINE z == SubSeq(C, 1, i - 1)
  <2>1. z \in Seq(Seq(Tokens)) /\ Len(z) = i - 1 /\ \A j \in 1..(i - 1) : z[j] = C[j]
    BY <1>2, <1>4, SubSeqProperties, SMTT(40)
  <2> HIDE DEF z, u
  <2>2. ASSUME NEW j \in 1..(i - 1) PROVE u[j] = z[j]
    <3>1. j \in 1..n /\ j # i
      BY <1>2
    <3>2. QED
      BY <1>8, <1>9, <2>1, <3>1
  <2>3. Len(u) = Len(z) /\ \A j \in 1..Len(u) : u[j] = z[j]
    BY <1>9, <2>1, <2>2
  <2>4. QED
    BY <1>9, <2>1, <2>3, R!SameSeq, Zenon DEF z
<1>12. w = SubSeq(C, i + 1, n)
  <2> DEFINE z == SubSeq(C, i + 1, n)
  <2>1. z \in Seq(Seq(Tokens)) /\ Len(z) = n - i /\ \A j \in 1..(n - i) : z[j] = C[i + j]
    BY <1>2, <1>4, SubSeqProperties, SMTT(40)
  <2> HIDE DEF z, w
  <2>2. ASSUME NEW j \in 1..(n - i) PROVE w[j] = z[j]
    <3>1. i + j \in 1..n /\ i + j # i
      BY <1>2
    <3>2. QED
      BY <1>8, <1>10, <2>1, <3>1
  <2>3. Len(w) = Len(z) /\ \A j \in 1..Len(w) : w[j] = z[j]
    BY <1>10, <2>1, <2>2
  <2>4. QED
    BY <1>10, <2>1, <2>3, R!SameSeq, Zenon DEF z
<1> HIDE DEF u, w
<1>13. From(Start, f) \in Counted(i - 1)
  <2> DEFINE m == i - 1
  <2>1. m \in 0..n
    BY <1>2
  <2> HIDE DEF m
  <2>2. From(Start, FlattenSeq(SubSeq(Blocks(a.gaps, a.elements), 1, m))) \in Counted(m)
    BY <1>2, <2>1, CountBlocks
  <2>3. QED
    BY <2>2, Zenon DEF B, m, u
<1>14. i - 1 \in Nat /\ f \in Seq(Tokens) /\ k \in Seq(Tokens)
  BY <1>2, <1>9, <1>10, FlattenTyped
<1>15. FlattenSeq(B) = f \o (B[i] \o k) /\ FlattenSeq(C) = f \o (C[i] \o k)
  <2>1. FlattenSeq(B) = FlattenSeq(SubSeq(B, 1, i - 1))
                          \o (B[i] \o FlattenSeq(SubSeq(B, i + 1, n)))
    BY <1>2, <1>3, FlattenSplit
  <2>2. FlattenSeq(C) = FlattenSeq(SubSeq(C, 1, i - 1))
                          \o (C[i] \o FlattenSeq(SubSeq(C, i + 1, n)))
    BY <1>2, <1>4, FlattenSplit
  <2>3. QED
    BY <1>11, <1>12, <2>1, <2>2 DEF u, w
<1>16. SpliceContainer(a) = FlattenSeq(B) \o h /\ SpliceContainer(b) = FlattenSeq(C) \o h
  BY <1>1, SpliceIs DEF B, C
<1> DEFINE x == f \o g
           y == k \o h
<1> HIDE DEF f, k, g, h, s, t
<1>17. x \in Seq(Tokens) /\ y \in Seq(Tokens)
  BY <1>5, <1>7, <1>14
<1>18. From(Start, x) \in Counted(i - 1)
  <2>1. From(Start, x) = From(From(Start, f), g)
    BY <1>7, <1>14, FromConcat
  <2>2. QED
    BY <1>7, <1>13, <1>14, <2>1, CountGap
<1>19. ASSUME NEW c \in Tokens
       PROVE  (f \o (Append(g, c) \o k)) \o h = x \o (<<c>> \o y)
  <2> DEFINE d == <<c>>
  <2>1. d \in Seq(Tokens) /\ Append(g, c) = g \o d
    BY <1>7
  <2> HIDE DEF d
  <2>2. IsAround(f, g, d, k, h)
    <3>1. /\ f \in Seq(Tokens) /\ g \in Seq(Tokens) /\ d \in Seq(Tokens)
          /\ k \in Seq(Tokens) /\ h \in Seq(Tokens)
      BY <1>5, <1>7, <1>14, <2>1
    <3>2. QED
      BY <3>1, ConcatAround
  <2>3. QED
    BY <2>1, <2>2 DEF d, IsAround
<1>20. /\ SpliceContainer(a) = x \o (<<s>> \o y)
       /\ SpliceContainer(b) = x \o (<<t>> \o y)
  BY <1>6, <1>7, <1>15, <1>16, <1>19
<1> HIDE DEF x, y
<1>21. QED
  BY <1>17, <1>18, <1>20 DEF s, t, b

LEMMA AroundEnded ==
  ASSUME NEW x \in Seq(Tokens), NEW y \in Seq(Tokens), NEW s \in Tokens, NEW t \in Tokens,
         s.k # "comment", t.k # "comment", s # Newline,
         CommentsEnd(x \o (<<s>> \o y))
  PROVE  CommentsEnd(x \o (<<t>> \o y))
<1> DEFINE u == x \o (<<s>> \o y)
           w == x \o (<<t>> \o y)
           n == Len(x)
<1>1. ASSUME NEW c \in Tokens
      PROVE  LET z == x \o (<<c>> \o y) IN
             /\ z \in Seq(Tokens) /\ Len(z) = n + 1 + Len(y) /\ z[n + 1] = c
             /\ \A j \in 1..n : z[j] = x[j]
             /\ \A j \in 1..Len(y) : z[n + 1 + j] = y[j]
  <2> DEFINE d == <<c>>
             p == d \o y
             z == x \o p
  <2>1. d \in Seq(Tokens) /\ Len(d) = 1 /\ d[1] = c
    OBVIOUS
  <2> HIDE DEF d
  <2>2. /\ p \in Seq(Tokens) /\ Len(p) = 1 + Len(y) /\ p[1] = c
        /\ \A j \in 1..Len(y) : p[1 + j] = y[j]
    <3>1. /\ p \in Seq(Tokens) /\ Len(p) = Len(d) + Len(y)
          /\ \A j \in 1..Len(d) : p[j] = d[j]
          /\ \A j \in 1..Len(y) : p[Len(d) + j] = y[j]
      BY <2>1, ConcatParts, SMTT(40)
    <3> HIDE DEF p
    <3>2. QED
      BY <2>1, <3>1
  <2> HIDE DEF p
  <2>3. /\ z \in Seq(Tokens) /\ Len(z) = n + Len(p)
        /\ \A j \in 1..n : z[j] = x[j]
        /\ \A j \in 1..Len(p) : z[n + j] = p[j]
    <3>1. p \in Seq(Tokens)
      BY <2>2
    <3>2. QED
      BY <3>1, ConcatParts
  <2> HIDE DEF z
  <2>4. z[n + 1] = c
    BY <2>2, <2>3
  <2>5. ASSUME NEW j \in 1..Len(y) PROVE z[n + 1 + j] = y[j]
    <3>1. 1 + j \in 1..Len(p) /\ n + 1 + j = n + (1 + j)
      BY <2>2
    <3>2. QED
      BY <2>2, <2>3, <3>1
  <2>6. Len(z) = n + 1 + Len(y)
    BY <2>2, <2>3
  <2>7. QED
    BY <2>3, <2>4, <2>5, <2>6 DEF z, p, d
<1>2. /\ u \in Seq(Tokens) /\ Len(u) = n + 1 + Len(y) /\ u[n + 1] = s
      /\ \A j \in 1..n : u[j] = x[j]
      /\ \A j \in 1..Len(y) : u[n + 1 + j] = y[j]
  BY <1>1
<1>3. /\ w \in Seq(Tokens) /\ Len(w) = n + 1 + Len(y) /\ w[n + 1] = t
      /\ \A j \in 1..n : w[j] = x[j]
      /\ \A j \in 1..Len(y) : w[n + 1 + j] = y[j]
  BY <1>1
<1>4. CommentsEnd(u) /\ n \in Nat /\ Len(y) \in Nat
  OBVIOUS
<1> HIDE DEF u, w
<1>5. ASSUME NEW j \in 1..(n + 1 + Len(y)), j # n + 1 PROVE u[j] = w[j]
  <2>1. CASE j <= n
    BY <1>2, <1>3, <1>4, <2>1
  <2>2. CASE j > n + 1
    <3>1. j - (n + 1) \in 1..Len(y) /\ n + 1 + (j - (n + 1)) = j
      BY <1>4, <2>2
    <3>2. QED
      BY <1>2, <1>3, <3>1, ZenonT(40)
  <2>3. QED
    BY <1>4, <1>5, <2>1, <2>2
<1>6. ASSUME NEW j \in DOMAIN w, w[j].k = "comment"
      PROVE  j < Len(w) /\ w[j + 1] = Newline
  <2>1. j \in 1..(n + 1 + Len(y)) /\ j # n + 1 /\ j \in DOMAIN u
    BY <1>2, <1>3, <1>6
  <2>2. j < Len(u) /\ u[j + 1] = Newline
    BY <1>4, <1>5, <1>6, <2>1 DEF CommentsEnd
  <2>3. j + 1 \in 1..(n + 1 + Len(y)) /\ j + 1 # n + 1
    BY <1>2, <1>4, <2>1, <2>2
  <2>4. QED
    BY <1>2, <1>3, <1>5, <2>2, <2>3
<1>7. CommentsEnd(w)
  BY <1>6 DEF CommentsEnd
<1>8. QED
  BY <1>7 DEF w

LEMMA RevalReads ==
  ASSUME NEW a \in ArrayNode, HasGaps(a), NEW i \in 1..Len(a.elements), NEW v \in Names,
         ReadsAs(SpliceContainer(a), Contents(a))
  PROVE  ReadsAs(SpliceContainer(Reval(a, i, v)), Contents(Reval(a, i, v)))
<1> DEFINE b == Reval(a, i, v)
           o == a.elements[i].val
<1>1. /\ b \in ArrayNode /\ b.trailing = a.trailing /\ b.elements = Swapped(a.elements, i, v)
  BY RevalTyped
<1>2. a.elements \in Seq(Node) /\ o \in Names
  <2>1. a.elements \in Seq(Node) /\ a.elements[i] \in Node
    BY DEF ArrayNode
  <2>2. QED
    BY <2>1 DEF Node
<1>3. PICK x \in Seq(Tokens), y \in Seq(Tokens) :
         /\ SpliceContainer(a) = x \o (<<Value(o)>> \o y)
         /\ SpliceContainer(b) = x \o (<<Value(v)>> \o y)
         /\ From(Start, x) \in Counted(i - 1)
  BY SpliceAround
<1>4. /\ Value(o) \in Tokens /\ Value(v) \in Tokens
      /\ Value(o).k # "comment" /\ Value(v).k # "comment" /\ Value(o) # Newline
  BY <1>2, Kinds
<1>5. CommentsEnd(SpliceContainer(b))
  <2>1. CommentsEnd(x \o (<<Value(o)>> \o y))
    BY <1>3 DEF ReadsAs, Readable
  <2>2. CommentsEnd(x \o (<<Value(v)>> \o y))
    BY <1>4, <2>1, AroundEnded
  <2>3. QED
    BY <1>3, <2>2
<1> DEFINE p == From(Start, x)
           q == ReadToken(p, Value(o))
           r == ReadToken(p, Value(v))
<1>6. ASSUME NEW c \in Tokens
      PROVE  Reading(x \o (<<c>> \o y)) = From(ReadToken(p, c), y)
  <2> DEFINE d == <<c>>
             z == d \o y
  <2>1. d \in Seq(Tokens) /\ From(p, d) = ReadToken(p, c)
    BY <1>6, FromOne
  <2> HIDE DEF d, p
  <2>2. z \in Seq(Tokens) /\ From(p, z) = From(From(p, d), y)
    BY <2>1, FromConcat
  <2> HIDE DEF z
  <2>3. From(Start, x \o z) = From(p, z)
    BY <2>2, FromConcat DEF p
  <2>4. Reading(x \o z) = From(Start, x \o z)
    BY ReadingIs
  <2>5. QED
    BY <2>1, <2>2, <2>3, <2>4 DEF z, d
<1>7. Reading(SpliceContainer(a)) = From(q, y) /\ Reading(SpliceContainer(b)) = From(r, y)
  BY <1>3, <1>4, <1>6
<1>8. /\ From(q, y).at # "refused" /\ From(q, y).elements = a.elements
      /\ From(q, y).lead = a.trailing
  <2>1. /\ Reading(SpliceContainer(a)).at # "refused"
        /\ Reading(SpliceContainer(a)).elements = a.elements
        /\ Reading(SpliceContainer(a)).lead = a.trailing
    BY DEF ReadsAs, Readable, Contents, ParseArrayValue
  <2>2. QED
    BY <1>7, <2>1
<1>9. Sound(p) /\ (p.at # "refused" => Len(p.elements) = i - 1)
  BY <1>3 DEF Counted
<1> HIDE DEF p
<1>10. Sound(q) /\ (p.at = "refused" => q.at = "refused") /\ q.at # "refused"
  <2>1. Sound(q) /\ (p.at = "refused" => q.at = "refused")
    BY <1>4, <1>9, ReadSound
  <2>2. q.at # "refused"
    BY <1>8, <2>1, FromSound
  <2>3. QED
    BY <2>1, <2>2
<1>11. p.at # "refused" /\ p.at \in {"trivia", "comma"}
  <2>1. p.at # "refused"
    BY <1>10
  <2>2. CASE p.at \notin {"trivia", "comma"}
    <3>1. q = Refused(p)
      BY <1>2, <1>9, <2>1, <2>2, ReadValue
    <3>2. q.at = "refused"
      BY <1>9, <3>1, RefusedSound
    <3>3. QED
      BY <1>10, <3>2
  <2>3. QED
    BY <2>1, <2>2
<1>12. i \in 1..Len(q.elements) /\ r = Swap(q, i, v)
  <2> DEFINE e == Bare(o, p.lead)
             f == Bare(v, p.lead)
             s == Swap(q, i, v)
  <2>1. /\ q.at = "value" /\ q.lead = <<>> /\ q.gap = <<>>
        /\ q.elements = Append(p.elements, e) /\ q.gaps = Append(p.gaps, p.gap)
    BY <1>2, <1>9, <1>11, ReadValue
  <2>2. /\ Sound(r) /\ r.at = "value" /\ r.lead = <<>> /\ r.gap = <<>>
        /\ r.elements = Append(p.elements, f) /\ r.gaps = Append(p.gaps, p.gap)
    BY <1>9, <1>11, ReadValue
  <2>3. p.elements \in Seq(Node) /\ Len(p.elements) = i - 1 /\ i \in Nat
    BY <1>9, <1>11 DEF Sound, Places
  <2>4. e \in Node /\ f \in Node /\ Replaced(e, v) = f
    <3>1. p.lead \in Seq(CommentTokens) /\ <<>> \in Inline
      BY <1>9 DEF Sound, Places, Inline
    <3>2. QED
      BY <1>2, <3>1 DEF Bare, Node, Replaced
  <2> HIDE DEF q, r, e, f
  <2>5. /\ q.elements \in Seq(Node) /\ Len(q.elements) = i /\ q.elements[i] = e
        /\ \A j \in 1..(i - 1) : q.elements[j] = p.elements[j]
    BY <2>1, <2>3, <2>4
  <2>6. /\ r.elements \in Seq(Node) /\ Len(r.elements) = i /\ r.elements[i] = f
        /\ \A j \in 1..(i - 1) : r.elements[j] = p.elements[j]
    BY <2>2, <2>3, <2>4
  <2>7. i \in 1..Len(q.elements)
    BY <2>3, <2>5
  <2>8. /\ Sound(s) /\ s.at = q.at /\ s.lead = q.lead /\ s.gap = q.gap /\ s.gaps = q.gaps
        /\ s.elements = Swapped(q.elements, i, v)
    BY <1>10, <2>7, SwapSound
  <2>9. Swapped(q.elements, i, v) = r.elements
    <3> DEFINE z == Swapped(q.elements, i, v)
    <3>1. /\ z \in Seq(Node) /\ Len(z) = i /\ z[i] = f
          /\ \A j \in 1..(i - 1) : z[j] = p.elements[j]
      BY <2>3, <2>4, <2>5 DEF Swapped
    <3> HIDE DEF z
    <3>2. \A j \in 1..i : j \in 1..(i - 1) \/ j = i
      BY <2>3
    <3>3. Len(z) = Len(r.elements) /\ \A j \in 1..Len(z) : z[j] = r.elements[j]
      BY <2>6, <3>1, <3>2, SMTT(60)
    <3>4. z = r.elements
      BY <2>6, <3>1, <3>3, R!SameSeq, Zenon
    <3>5. QED
      BY <3>4 DEF z
  <2> HIDE DEF s
  <2>10. r = s
    BY <2>1, <2>2, <2>8, <2>9, SamePlace
  <2>11. QED
    BY <2>7, <2>10 DEF s
<1> HIDE DEF q, r, b
<1>13. /\ From(r, y) = Swap(From(q, y), i, v) /\ Sound(From(q, y))
       /\ i \in 1..Len(From(q, y).elements)
  BY <1>10, <1>12, SwapFrom
<1>14. /\ From(r, y).at # "refused" /\ From(r, y).lead = a.trailing
       /\ From(r, y).elements = Swapped(a.elements, i, v)
  BY <1>8, <1>13, SwapSound
<1>15. /\ Reading(SpliceContainer(b)).at # "refused"
       /\ Reading(SpliceContainer(b)).elements = b.elements
       /\ Reading(SpliceContainer(b)).lead = b.trailing
  BY <1>1, <1>7, <1>14
<1>16. ReadsAs(SpliceContainer(b), Contents(b))
  BY <1>5, <1>15 DEF ReadsAs, Readable, Contents, ParseArrayValue
<1>17. QED
  BY <1>16 DEF b
---------------------------------------------------------------------------
(***************************************************************************)
(* The comments of a spliced array are those of its gaps.                  *)
(***************************************************************************)
LEMMA CommentsConcat ==
  ASSUME NEW s \in Seq(Tokens), NEW t \in Seq(Tokens), NEW x
  PROVE  x \in CommentsIn(s \o t) <=> x \in CommentsIn(s) \/ x \in CommentsIn(t)
<1> DEFINE u == s \o t
           n == Len(s)
<1>1. /\ u \in Seq(Tokens) /\ Len(u) = n + Len(t)
      /\ \A j \in 1..n : u[j] = s[j]
      /\ \A j \in 1..Len(t) : u[n + j] = t[j]
  BY ConcatParts
<1>2. n \in Nat /\ Len(t) \in Nat
  OBVIOUS
<1> HIDE DEF u
<1>3. x \in CommentsIn(u) <=> \E i \in 1..Len(u) : u[i].k = "comment" /\ u[i].x = x
  BY <1>1, CommentAt
<1>4. x \in CommentsIn(s) <=> \E i \in 1..n : s[i].k = "comment" /\ s[i].x = x
  BY CommentAt
<1>5. x \in CommentsIn(t) <=> \E i \in 1..Len(t) : t[i].k = "comment" /\ t[i].x = x
  BY CommentAt
<1>6. ASSUME NEW i \in 1..Len(u)
      PROVE  \/ i \in 1..n /\ u[i] = s[i]
             \/ \E j \in 1..Len(t) : u[i] = t[j]
  <2>1. CASE i <= n
    BY <1>1, <1>2, <2>1
  <2>2. CASE ~(i <= n)
    <3>1. i - n \in 1..Len(t) /\ n + (i - n) = i
      BY <1>1, <1>2, <2>2
    <3>2. QED
      BY <1>1, <3>1
  <2>3. QED
    BY <2>1, <2>2
<1>7. \A j \in 1..n : j \in 1..Len(u)
  BY <1>1, <1>2
<1>8. \A j \in 1..Len(t) : n + j \in 1..Len(u)
  BY <1>1, <1>2
<1>9. x \in CommentsIn(u) => x \in CommentsIn(s) \/ x \in CommentsIn(t)
  BY <1>3, <1>4, <1>5, <1>6
<1>10. x \in CommentsIn(s) => x \in CommentsIn(u)
  BY <1>1, <1>3, <1>4, <1>7
<1>11. x \in CommentsIn(t) => x \in CommentsIn(u)
  BY <1>1, <1>3, <1>5, <1>8
<1>12. QED
  BY <1>9, <1>10, <1>11 DEF u

LEMMA CommentsFlat ==
  ASSUME NEW ss \in Seq(Seq(Tokens)), NEW x
  PROVE  x \in CommentsIn(FlattenSeq(ss)) <=> \E i \in 1..Len(ss) : x \in CommentsIn(ss[i])
<1> DEFINE X == [n \in Nat |-> FlattenSeq(SubSeq(ss, 1, n))]
           S == {n \in Nat : n <= Len(ss) =>
                   (x \in CommentsIn(X[n]) <=> \E i \in 1..n : x \in CommentsIn(ss[i]))}
<1>1. /\ X[0] = <<>> /\ X[Len(ss)] = FlattenSeq(ss) /\ Len(ss) \in Nat
      /\ \A n \in 0..Len(ss) : X[n] \in Seq(Tokens)
      /\ \A n \in Nat : n < Len(ss) => X[n + 1] = X[n] \o ss[n + 1]
  BY StagesOf
<1> HIDE DEF X
<1>2. 0 \in S
  BY <1>1, CommentsNone
<1>3. ASSUME NEW n \in Nat, n \in S PROVE n + 1 \in S
  <2> SUFFICES ASSUME n + 1 <= Len(ss)
               PROVE  x \in CommentsIn(X[n + 1]) <=> \E i \in 1..(n + 1) : x \in CommentsIn(ss[i])
    OBVIOUS
  <2>1. n < Len(ss) /\ n \in 0..Len(ss) /\ n + 1 \in 1..Len(ss)
    BY <1>1
  <2>2. x \in CommentsIn(X[n]) <=> \E i \in 1..n : x \in CommentsIn(ss[i])
    BY <1>1, <1>3, <2>1
  <2> DEFINE p == X[n]
             q == ss[n + 1]
  <2>3. p \in Seq(Tokens)
    BY <1>1, <2>1, Zenon
  <2>31. q \in Seq(Tokens)
    BY <2>1
  <2>32. X[n + 1] = p \o q
    BY <1>1, <2>1, Zenon
  <2> HIDE DEF p, q
  <2>4. x \in CommentsIn(p \o q) <=> x \in CommentsIn(p) \/ x \in CommentsIn(q)
    BY <2>3, <2>31, CommentsConcat
  <2>5. \A i : i \in 1..(n + 1) <=> i \in 1..n \/ i = n + 1
    OBVIOUS
  <2>6. QED
    BY <2>2, <2>32, <2>4, <2>5 DEF p, q
<1> HIDE DEF S
<1>4. Nat \subseteq S
  BY <1>2, <1>3, Induct, Zenon
<1>5. Len(ss) \in S
  BY <1>1, <1>4
<1>6. x \in CommentsIn(X[Len(ss)]) <=> \E i \in 1..Len(ss) : x \in CommentsIn(ss[i])
  BY <1>1, <1>5 DEF S
<1>7. QED
  BY <1>1, <1>6

LEMMA SpliceComments ==
  ASSUME NEW a \in ArrayNode, HasGaps(a), NEW x
  PROVE  x \in CommentsIn(SpliceContainer(a)) <=> \E i \in 1..Len(a.gaps) : x \in CommentsIn(a.gaps[i])
<1> DEFINE B == Blocks(a.gaps, a.elements)
           n == Len(a.elements)
           f == FlattenSeq(B)
           h == a.gaps[n + 1]
<1>1. /\ a.elements \in Seq(Node) /\ a.gaps \in Seq(Seq(GapTokens)) /\ Len(a.gaps) = n + 1
      /\ n \in Nat /\ n <= Len(a.gaps) /\ n + 1 \in 1..Len(a.gaps)
  BY DEF ArrayNode, HasGaps
<1>2. /\ B \in Seq(Seq(Tokens)) /\ Len(B) = n
      /\ \A j \in 1..n : /\ a.gaps[j] \in Seq(Tokens)
                         /\ Value(a.elements[j].val) \in Tokens
                         /\ B[j] = Append(a.gaps[j], Value(a.elements[j].val))
  BY <1>1, BlocksTyped, Zenon
<1>3. h \in Seq(Tokens)
  <2>1. h \in Seq(GapTokens)
    BY <1>1
  <2>2. QED
    BY <2>1, Kinds, SeqMonotonic
<1>4. SpliceContainer(a) = f \o h
  BY SpliceIs
<1> HIDE DEF B
<1>5. f \in Seq(Tokens)
  BY <1>2, FlattenTyped
<1>6. x \in CommentsIn(f) <=> \E i \in 1..n : x \in CommentsIn(B[i])
  BY <1>2, CommentsFlat
<1>7. ASSUME NEW i \in 1..n PROVE CommentsIn(B[i]) = CommentsIn(a.gaps[i])
  <2> DEFINE g == a.gaps[i]
             t == Value(a.elements[i].val)
  <2>1. g \in Seq(Tokens) /\ t \in Tokens /\ B[i] = Append(g, t) /\ t.k # "comment"
    BY <1>2, Kinds, Zenon
  <2> HIDE DEF g, t
  <2>4. CommentsIn(Append(g, t)) = CommentsIn(g) \cup {c \in {t.x} : t.k = "comment"}
    BY <2>1, CommentsAppend
  <2>5. {c \in {t.x} : t.k = "comment"} = {}
    BY <2>1
  <2>2. CommentsIn(Append(g, t)) = CommentsIn(g)
    BY <2>4, <2>5
  <2>3. QED
    BY <2>1, <2>2 DEF g
<1> HIDE DEF f, h
<1>8. x \in CommentsIn(f \o h) <=> x \in CommentsIn(f) \/ x \in CommentsIn(h)
  BY <1>3, <1>5, CommentsConcat
<1>9. \A i : i \in 1..(n + 1) <=> i \in 1..n \/ i = n + 1
  BY <1>1
<1>10. QED
  BY <1>1, <1>4, <1>6, <1>7, <1>8, <1>9 DEF h

\* What is read back is told by the bytes.
LEMMA ToldRead ==
  ASSUME NEW a, NEW tokens \in Seq(Tokens), ReadsAs(tokens, Contents(a))
  PROVE  Told(a) \subseteq CommentsIn(tokens)
<1> DEFINE b == ParseArrayValue(tokens)
<1>1. Told(b) \subseteq CommentsIn(tokens)
  BY ParsedNode DEF ReadsAs
<1>2. b.elements = a.elements /\ b.trailing = a.trailing
  BY DEF ReadsAs, Contents
<1> HIDE DEF b
<1>3. Told(b) = Told(a)
  BY <1>2 DEF Told
<1>4. QED
  BY <1>1, <1>3
---------------------------------------------------------------------------
(***************************************************************************)
(* The inductive invariant: the node is one, the comments stay, and while  *)
(* the gaps describe the array they tell its contents.                     *)
(***************************************************************************)
GapsTell ==
  HasGaps(arr) =>
    /\ ~moved => ReadsAs(SpliceContainer(arr), Contents(arr))
    /\ Told(arr) \subseteq CommentsIn(SpliceContainer(arr))

IInv == arr \in ArrayNode /\ EditsKeepComments /\ GapsTell

\* Gaps that were dropped describe no array.
LEMMA Dropped == \A a \in ArrayNode : a.gaps = <<>> => ~HasGaps(a)
<1> SUFFICES ASSUME NEW a \in ArrayNode, a.gaps = <<>> PROVE ~HasGaps(a)
  OBVIOUS
<1>1. Len(a.gaps) = 0 /\ Len(a.elements) \in Nat
  BY DEF ArrayNode
<1>2. QED
  BY <1>1 DEF HasGaps

\* Under the gaps they had, elements tell no comment that the bytes do not.
LEMMA SameGaps ==
  ASSUME NEW a \in ArrayNode, NEW b \in ArrayNode, b.gaps = a.gaps, HasGaps(a), HasGaps(b),
         Told(b) \subseteq Told(a), Told(a) \subseteq CommentsIn(SpliceContainer(a))
  PROVE  Told(b) \subseteq CommentsIn(SpliceContainer(b))
<1> SUFFICES ASSUME NEW x \in Told(b) PROVE x \in CommentsIn(SpliceContainer(b))
  OBVIOUS
<1>1. x \in CommentsIn(SpliceContainer(a))
  OBVIOUS
<1>2. \E i \in 1..Len(a.gaps) : x \in CommentsIn(a.gaps[i])
  BY <1>1, SpliceComments
<1>3. \E i \in 1..Len(b.gaps) : x \in CommentsIn(b.gaps[i])
  BY <1>2
<1>4. QED
  BY <1>3, SpliceComments

\* A node whose elements took over each comment but those in S.
LEMMA Carried ==
  ASSUME NEW a \in ArrayNode, NEW b \in ArrayNode, b.trailing = a.trailing, NEW S,
         \A i \in 1..Len(a.elements) : \A x \in CommentsOf(a.elements[i]) :
            x \in S \/ \E j \in 1..Len(b.elements) : x \in CommentsOf(b.elements[j])
  PROVE  Told(a) \subseteq Told(b) \cup S
<1> SUFFICES ASSUME NEW x \in Told(a), x \notin S PROVE x \in Told(b)
  OBVIOUS
<1> a.elements \in Seq(Node) /\ b.elements \in Seq(Node)
  BY DEF ArrayNode
<1>1. CASE x \in CommentsIn(a.trailing)
  BY <1>1, ToldWhere
<1>2. CASE \E i \in 1..Len(a.elements) : x \in CommentsOf(a.elements[i])
  BY <1>2, ToldWhere
<1>3. QED
  BY <1>1, <1>2, ToldWhere

\* What setContents makes of an array.
LEMMA ContentsSet ==
  ASSUME arr \in ArrayNode, NEW items \in Seq(Node)
  PROVE  /\ SetContents(items) \in ArrayNode
         /\ SetContents(items).elements = items
         /\ SetContents(items).trailing = arr.trailing
         /\ Len(items) = Len(arr.elements) => SetContents(items).gaps = arr.gaps
         /\ Len(items) # Len(arr.elements) => SetContents(items).gaps = <<>>
<1> DEFINE gaps == IF Len(items) = Len(arr.elements) THEN arr.gaps ELSE <<>>
<1>1. arr.gaps \in Seq(Seq(GapTokens)) /\ arr.trailing \in Seq(CommentTokens)
  BY DEF ArrayNode
<1>2. gaps \in Seq(Seq(GapTokens))
  BY <1>1
<1>3. SetContents(items) = [arr EXCEPT !.elements = items, !.gaps = gaps]
  BY DEF SetContents
<1>4. /\ Len(items) = Len(arr.elements) => gaps = arr.gaps
      /\ Len(items) # Len(arr.elements) => gaps = <<>>
  OBVIOUS
<1> HIDE DEF gaps
<1>5. QED
  BY <1>2, <1>3, <1>4 DEF ArrayNode

\* Written comments are sequences of comments, and inline ones.
LEMMA WrittenTokens == Written \subseteq Seq(CommentTokens) /\ Written \subseteq Inline
<1>1. \A c \in Comments : c \in Names /\ Comment(c, 0) \in CommentTokens
  BY InputsAssumption DEF Comment, CommentTokens
<1>2. \A c \in Comments : <<Comment(c, 0)>> \in Seq(CommentTokens)
  BY <1>1
<1>3. <<>> \in Seq(CommentTokens)
  OBVIOUS
<1>4. QED
  BY <1>1, <1>2, <1>3 DEF Written, Inline

\* What SetTrivia makes of an array.
LEMMA TriviaSet ==
  ASSUME arr \in ArrayNode, NEW i \in 1..Len(arr.elements), NEW e \in Node
  PROVE  /\ SetTrivia(i, e) \in ArrayNode
         /\ SetTrivia(i, e).elements = [arr.elements EXCEPT ![i] = e]
         /\ SetTrivia(i, e).trailing = arr.trailing /\ SetTrivia(i, e).gaps = <<>>
<1> DEFINE items == [arr.elements EXCEPT ![i] = e]
<1>1. arr.elements \in Seq(Node) /\ arr.trailing \in Seq(CommentTokens)
  BY DEF ArrayNode
<1>2. items \in Seq(Node)
  BY <1>1
<1>3. <<>> \in Seq(Seq(GapTokens))
  OBVIOUS
<1>4. SetTrivia(i, e) = [arr EXCEPT !.elements = items, !.gaps = <<>>]
  BY DEF SetTrivia
<1> HIDE DEF items
<1>5. SetTrivia(i, e) \in ArrayNode /\ SetTrivia(i, e).elements = items
      /\ SetTrivia(i, e).trailing = arr.trailing /\ SetTrivia(i, e).gaps = <<>>
  BY <1>2, <1>3, <1>4 DEF ArrayNode
<1>6. QED
  BY <1>5 DEF items

LEMMA InitInv == Init => IInv
<1> SUFFICES ASSUME Init PROVE IInv
  OBVIOUS
<1>1. PICK text \in Texts : /\ arr = ParseArrayValue(text) /\ kept = CommentsIn(text)
                            /\ unread = CommentsIn(text) \ Told(arr)
  BY DEF Init
<1>2. text \in Seq(Tokens) /\ Readable(text)
  BY InputsAssumption
<1>3. /\ arr \in ArrayNode /\ SpliceContainer(arr) = text
      /\ Told(arr) \subseteq CommentsIn(text)
  BY <1>1, <1>2, ParsedNode
<1>4. ReadsAs(text, Contents(arr))
  BY <1>1, <1>2 DEF ReadsAs
<1>5. EditsKeepComments
  BY <1>1 DEF EditsKeepComments
<1>6. QED
  BY <1>3, <1>4, <1>5 DEF IInv, GapsTell

LEMMA SetInv ==
  ASSUME IInv, NEW i \in Elements, NEW v \in Values, Set(i, v)
  PROVE  IInv'
<1> DEFINE items == [arr.elements EXCEPT ![i] = Replaced(@, v)]
<1>1. arr.elements \in Seq(Node) /\ i \in 1..Len(arr.elements)
  BY DEF IInv, ArrayNode, Elements
<1>2. Replaced(arr.elements[i], v) \in Node
  <2>1. /\ arr.elements[i] \in Node /\ v \in Names
    BY <1>1, InputsAssumption
  <2>2. Replaced(arr.elements[i], v)
          = [val |-> v, lead |-> arr.elements[i].lead, inline |-> arr.elements[i].inline]
    BY <2>1 DEF Replaced, Node
  <2>3. QED
    BY <2>1, <2>2 DEF Node
<1>3. items \in Seq(Node) /\ Len(items) = Len(arr.elements)
  BY <1>1, <1>2
<1>4. \A j \in 1..Len(arr.elements) : CommentsOf(items[j]) = CommentsOf(arr.elements[j])
  <2>1. \A j \in 1..Len(arr.elements) :
          items[j].lead = arr.elements[j].lead /\ items[j].inline = arr.elements[j].inline
    BY <1>1 DEF Replaced, Node
  <2>2. QED
    BY <2>1 DEF CommentsOf
<1>5. arr' = SetContents(items) /\ kept' = kept /\ unread' = unread
  BY DEF Set, Call
<1>6. /\ arr' \in ArrayNode /\ arr'.elements = items /\ arr'.trailing = arr.trailing
      /\ arr'.gaps = arr.gaps
  BY <1>3, <1>5, ContentsSet DEF IInv
<1>7. Told(arr) \subseteq Told(arr') \cup {}
  BY <1>3, <1>4, <1>6, Carried DEF IInv
<1>8. Told(arr') \subseteq Told(arr) \cup {}
  BY <1>3, <1>4, <1>6, Carried DEF IInv
<1>9. GapsTell'
  <2> SUFFICES ASSUME HasGaps(arr')
               PROVE  /\ ~moved' => ReadsAs(SpliceContainer(arr'), Contents(arr'))
                      /\ Told(arr') \subseteq CommentsIn(SpliceContainer(arr'))
    BY DEF GapsTell
  <2>1. HasGaps(arr) /\ Len(arr.gaps) = Len(arr.elements) + 1
    BY <1>3, <1>6 DEF HasGaps
  <2>2. Told(arr) \subseteq CommentsIn(SpliceContainer(arr))
    BY <2>1 DEF IInv, GapsTell
  <2>3. Told(arr') \subseteq CommentsIn(SpliceContainer(arr'))
    BY <1>6, <1>8, <2>1, <2>2, SameGaps DEF IInv
  <2>4. ASSUME ~moved' PROVE ReadsAs(SpliceContainer(arr'), Contents(arr'))
    <3>1. arr.gaps # <<>>
      <4>1. Len(arr.gaps) # 0
        BY <1>1, <2>1
      <4>2. QED
        BY <4>1
    <3>2. ~moved
      BY <1>6, <2>4, <3>1 DEF Set, Call
    <3>3. ReadsAs(SpliceContainer(arr), Contents(arr))
      BY <2>1, <3>2 DEF IInv, GapsTell
    <3>4. arr' = Reval(arr, i, v)
      <4> DEFINE b == Reval(arr, i, v)
      <4>1. v \in Names /\ arr \in ArrayNode
        BY InputsAssumption DEF IInv
      <4>2. /\ b \in ArrayNode /\ b.gaps = arr.gaps /\ b.trailing = arr.trailing
            /\ b.elements = items
        BY <1>1, <4>1, RevalTyped DEF Swapped
      <4> HIDE DEF b, items
      <4>3. arr' = b
        BY <1>6, <4>2 DEF ArrayNode
      <4>4. QED
        BY <4>3 DEF b
    <3>5. v \in Names /\ arr \in ArrayNode
      BY InputsAssumption DEF IInv
    <3>6. ReadsAs(SpliceContainer(Reval(arr, i, v)), Contents(Reval(arr, i, v)))
      BY <1>1, <2>1, <3>3, <3>5, RevalReads
    <3>7. QED
      BY <3>4, <3>6
  <2>5. QED
    BY <2>3, <2>4
<1>10. QED
  BY <1>5, <1>6, <1>7, <1>9 DEF IInv, EditsKeepComments

LEMMA AppendInv ==
  ASSUME IInv, NEW v \in Values, AppendToArray(v)
  PROVE  IInv'
<1> DEFINE new == [val |-> v, lead |-> <<>>, inline |-> <<>>]
           items == Append(arr.elements, new)
<1>1. arr.elements \in Seq(Node) /\ new \in Node
  BY InputsAssumption DEF IInv, ArrayNode, Node, Inline
<1>2. /\ items \in Seq(Node) /\ Len(items) = Len(arr.elements) + 1
      /\ \A j \in 1..Len(arr.elements) : items[j] = arr.elements[j]
  BY <1>1
<1>3. arr' = SetContents(items) /\ kept' = kept /\ unread' = unread
  BY DEF AppendToArray, Call
<1>4. /\ arr' \in ArrayNode /\ arr'.elements = items /\ arr'.trailing = arr.trailing
      /\ arr'.gaps = <<>>
  <2>1. arr \in ArrayNode /\ Len(items) # Len(arr.elements)
    BY <1>1, <1>2 DEF IInv
  <2> HIDE DEF items
  <2>2. QED
    BY <1>2, <1>3, <2>1, ContentsSet
<1>5. \A j \in 1..Len(arr.elements) : j \in 1..Len(items)
  BY <1>1, <1>2
<1>6. Told(arr) \subseteq Told(arr') \cup {}
  BY <1>2, <1>4, <1>5, Carried DEF IInv
<1>7. ~HasGaps(arr')
  BY <1>4, Dropped
<1>8. QED
  BY <1>3, <1>4, <1>6, <1>7 DEF IInv, EditsKeepComments, GapsTell

\* The elements that RemoveAt leaves.
LEMMA Removed ==
  ASSUME NEW s \in Seq(Node), NEW i \in 1..Len(s)
  PROVE  /\ RemoveAt(s, i) \in Seq(Node) /\ Len(RemoveAt(s, i)) = Len(s) - 1
         /\ \A j \in 1..Len(s) : j # i => \E k \in 1..Len(RemoveAt(s, i)) : RemoveAt(s, i)[k] = s[j]
<1> DEFINE f == SubSeq(s, 1, i - 1)
           g == SubSeq(s, i + 1, Len(s))
           h == f \o g
<1>1. Len(s) \in Nat /\ i \in Nat /\ 1 <= i /\ i <= Len(s)
  OBVIOUS
<1>2. f \in Seq(Node) /\ Len(f) = i - 1 /\ \A k \in 1..(i - 1) : f[k] = s[k]
  BY <1>1, SubSeqProperties
<1>3. g \in Seq(Node) /\ Len(g) = Len(s) - i /\ \A k \in 1..(Len(s) - i) : g[k] = s[i + k]
  BY <1>1, SubSeqProperties
<1> HIDE DEF f, g
<1>4. h \in Seq(Node) /\ Len(h) = Len(f) + Len(g)
  BY <1>2, <1>3, ConcatProperties
<1>5. \A k \in 1..Len(f) + Len(g) : h[k] = IF k <= Len(f) THEN f[k] ELSE g[k - Len(f)]
  BY <1>2, <1>3, ConcatProperties
<1> HIDE DEF h
<1>6. ASSUME NEW j \in 1..Len(s), j # i
      PROVE  \E k \in 1..Len(h) : h[k] = s[j]
  <2>1. CASE j < i
    <3>1. j \in 1..(i - 1) /\ j \in 1..Len(h) /\ j \in 1..Len(f) + Len(g) /\ j <= Len(f)
      BY <1>1, <1>2, <1>3, <1>4, <2>1, SMTT(40)
    <3>2. h[j] = s[j]
      BY <1>2, <1>5, <3>1
    <3>3. QED
      BY <3>1, <3>2
  <2>2. CASE j > i
    <3>1. /\ j - i \in 1..(Len(s) - i) /\ j - 1 \in 1..Len(h)
          /\ j - 1 \in 1..Len(f) + Len(g) /\ ~(j - 1 <= Len(f))
          /\ j - 1 - Len(f) = j - i /\ i + (j - i) = j
      BY <1>1, <1>2, <1>3, <1>4, <2>2
    <3>2. h[j - 1] = g[j - i]
      BY <1>5, <3>1
    <3>3. g[j - i] = s[j]
      BY <1>3, <3>1
    <3>4. QED
      BY <3>1, <3>2, <3>3
  <2>3. QED
    BY <1>1, <1>6, <2>1, <2>2
<1>7. RemoveAt(s, i) = h
  BY DEF RemoveAt, f, g, h
<1>8. Len(h) = Len(s) - 1
  BY <1>1, <1>2, <1>3, <1>4
<1>9. QED
  BY <1>4, <1>6, <1>7, <1>8

LEMMA RemoveInv ==
  ASSUME IInv, NEW i \in Elements, RemoveFromArray(i)
  PROVE  IInv'
<1> DEFINE items == RemoveAt(arr.elements, i)
           S == CommentsOf(arr.elements[i])
<1>1. arr.elements \in Seq(Node) /\ i \in 1..Len(arr.elements)
  BY DEF IInv, ArrayNode, Elements
<1>2. items \in Seq(Node) /\ Len(items) # Len(arr.elements)
  BY <1>1, Removed
<1>3. arr' = SetContents(items) /\ kept' = kept \ S /\ unread' = unread
  BY DEF RemoveFromArray, Call
<1>4. /\ arr' \in ArrayNode /\ arr'.elements = items /\ arr'.trailing = arr.trailing
      /\ arr'.gaps = <<>>
  BY <1>2, <1>3, ContentsSet DEF IInv
<1>5. \A j \in 1..Len(arr.elements) : \A x \in CommentsOf(arr.elements[j]) :
         x \in S \/ \E k \in 1..Len(items) : x \in CommentsOf(items[k])
  <2>1. \A j \in 1..Len(arr.elements) :
           j # i => \E k \in 1..Len(items) : items[k] = arr.elements[j]
    BY <1>1, Removed
  <2> HIDE DEF items
  <2>2. QED
    BY <2>1
<1>6. Told(arr) \subseteq Told(arr') \cup S
  BY <1>4, <1>5, Carried DEF IInv
<1>7. ~HasGaps(arr')
  BY <1>4, Dropped
<1>8. QED
  BY <1>3, <1>4, <1>6, <1>7 DEF IInv, EditsKeepComments, GapsTell

LEMMA PermuteInv ==
  ASSUME IInv, NEW order \in Orders, PermuteChildren(order)
  PROVE  IInv'
<1> DEFINE items == [j \in Elements |-> arr.elements[order[j]]]
<1>1. arr.elements \in Seq(Node) /\ Elements = 1..Len(arr.elements)
  BY DEF IInv, ArrayNode, Elements
<1>2. /\ order \in [Elements -> Elements]
      /\ \A i \in Elements : \E j \in Elements : order[j] = i
  BY DEF Orders, Bijection, Surjection
<1>3. items \in Seq(Node) /\ Len(items) = Len(arr.elements)
  <2>1. items \in [1..Len(arr.elements) -> Node]
    BY <1>1, <1>2, SMTT(60)
  <2>2. Len(arr.elements) \in Nat
    BY <1>1
  <2> HIDE DEF items
  <2>3. QED
    BY <2>1, <2>2
<1>4. arr' = SetContents(items) /\ kept' = kept /\ unread' = unread
  BY DEF PermuteChildren
<1>5. /\ arr' \in ArrayNode /\ arr'.elements = items /\ arr'.trailing = arr.trailing
      /\ arr'.gaps = arr.gaps
  BY <1>3, <1>4, ContentsSet DEF IInv
<1>6. \A i \in 1..Len(arr.elements) : \E j \in 1..Len(items) : items[j] = arr.elements[i]
  BY <1>1, <1>2, <1>3
<1>7. Told(arr) \subseteq Told(arr') \cup {}
  BY <1>5, <1>6, Carried DEF IInv
<1>8. Told(arr') \subseteq Told(arr) \cup {}
  <2>1. \A j \in 1..Len(items) : \A x \in CommentsOf(items[j]) :
           x \in {} \/ \E i \in 1..Len(arr.elements) : x \in CommentsOf(arr.elements[i])
    BY <1>1, <1>2, <1>3
  <2>2. QED
    BY <1>5, <2>1, Carried DEF IInv
<1>9. GapsTell'
  <2> SUFFICES ASSUME HasGaps(arr')
               PROVE  /\ ~moved' => ReadsAs(SpliceContainer(arr'), Contents(arr'))
                      /\ Told(arr') \subseteq CommentsIn(SpliceContainer(arr'))
    BY DEF GapsTell
  <2>1. HasGaps(arr) /\ Len(arr.gaps) = Len(arr.elements) + 1
    BY <1>3, <1>5 DEF HasGaps
  <2>2. Told(arr) \subseteq CommentsIn(SpliceContainer(arr))
    BY <2>1 DEF IInv, GapsTell
  <2>3. Told(arr') \subseteq CommentsIn(SpliceContainer(arr'))
    BY <1>5, <1>8, <2>1, <2>2, SameGaps DEF IInv
  <2>4. moved'
    <3>1. Len(arr.gaps) # 0
      BY <1>1, <2>1
    <3>2. arr.gaps # <<>>
      BY <3>1
    <3>3. moved' = (arr.gaps # <<>>)
      BY DEF PermuteChildren
    <3>4. QED
      BY <3>2, <3>3
  <2>5. QED
    BY <2>3, <2>4
<1>10. QED
  BY <1>4, <1>5, <1>7, <1>9 DEF IInv, EditsKeepComments

\* A comment was written at an element: its own of that kind is gone.
LEMMA CommentInv ==
  ASSUME IInv, NEW i \in Elements, NEW e \in Node, NEW new, NEW old,
         arr' = SetTrivia(i, e), unread' = unread,
         kept' = (kept \ old) \cup new, new \subseteq CommentsOf(e),
         CommentsOf(arr.elements[i]) \subseteq old \cup CommentsOf(e)
  PROVE  IInv'
<1> DEFINE items == [arr.elements EXCEPT ![i] = e]
<1>1. arr.elements \in Seq(Node) /\ i \in 1..Len(arr.elements)
  BY DEF IInv, ArrayNode, Elements
<1>2. /\ Len(items) = Len(arr.elements) /\ items[i] = e
      /\ \A j \in 1..Len(arr.elements) : j # i => items[j] = arr.elements[j]
  BY <1>1
<1>3. /\ arr' \in ArrayNode /\ arr'.elements = items /\ arr'.trailing = arr.trailing
      /\ arr'.gaps = <<>>
  BY <1>1, TriviaSet DEF IInv
<1> HIDE DEF items
<1>4. \A j \in 1..Len(arr.elements) : \A x \in CommentsOf(arr.elements[j]) :
         x \in old \/ \E k \in 1..Len(items) : x \in CommentsOf(items[k])
  BY <1>1, <1>2
<1>5. Told(arr) \subseteq Told(arr') \cup old
  BY <1>3, <1>4, Carried DEF IInv
<1>6. new \subseteq Told(arr')
  <2>1. arr'.elements \in Seq(Node)
    BY <1>3 DEF ArrayNode
  <2>2. QED
    BY <1>1, <1>2, <1>3, <2>1, ToldWhere
<1>7. ~HasGaps(arr')
  BY <1>3, Dropped
<1>8. QED
  BY <1>3, <1>5, <1>6, <1>7 DEF IInv, EditsKeepComments, GapsTell

LEMMA SetCommentInv ==
  ASSUME IInv, NEW i \in Elements, NEW comment \in Written, SetComment(i, comment)
  PROVE  IInv'
<1> DEFINE old == arr.elements[i]
           e == [old EXCEPT !.inline = comment]
<1>1. old \in Node /\ comment \in Seq(CommentTokens) /\ comment \in Inline
  BY WrittenTokens DEF IInv, ArrayNode, Elements
<1>2. e \in Node /\ e.inline = comment /\ e.lead = old.lead
  BY <1>1 DEF Node
<1>3. /\ arr' = SetTrivia(i, e) /\ unread' = unread
      /\ kept' = (kept \ CommentsIn(old.inline)) \cup CommentsIn(comment)
  BY DEF SetComment, Call
<1> HIDE DEF e
<1>4. QED
  BY <1>2, <1>3, CommentInv DEF CommentsOf

LEMMA SetLeadingInv ==
  ASSUME IInv, NEW i \in Elements, NEW comments \in Written, SetLeadingComments(i, comments)
  PROVE  IInv'
<1> DEFINE old == arr.elements[i]
           e == [old EXCEPT !.lead = comments]
<1>1. old \in Node /\ comments \in Seq(CommentTokens) /\ comments \in Inline
  BY WrittenTokens DEF IInv, ArrayNode, Elements
<1>2. e \in Node /\ e.lead = comments /\ e.inline = old.inline
  BY <1>1 DEF Node
<1>3. /\ arr' = SetTrivia(i, e) /\ unread' = unread
      /\ kept' = (kept \ CommentsIn(old.lead)) \cup CommentsIn(comments)
  BY DEF SetLeadingComments, Call
<1> HIDE DEF e
<1>4. QED
  BY <1>2, <1>3, CommentInv DEF CommentsOf

LEMMA NextInv == IInv /\ [Next]_vars => IInv'
<1> SUFFICES ASSUME IInv, [Next]_vars PROVE IInv'
  OBVIOUS
<1>1. CASE \E i \in Elements, v \in Values : Set(i, v)
  BY <1>1, SetInv
<1>2. CASE \E v \in Values : AppendToArray(v)
  BY <1>2, AppendInv
<1>3. CASE \E i \in Elements : RemoveFromArray(i)
  BY <1>3, RemoveInv
<1>4. CASE \E order \in Orders : PermuteChildren(order)
  BY <1>4, PermuteInv
<1>5. CASE \E i \in Elements, comment \in Written : SetComment(i, comment)
  BY <1>5, SetCommentInv
<1>6. CASE \E i \in Elements, comments \in Written : SetLeadingComments(i, comments)
  BY <1>6, SetLeadingInv
<1>7. CASE UNCHANGED vars
  BY <1>7 DEF vars, IInv, EditsKeepComments, GapsTell
<1>8. QED
  BY <1>1, <1>2, <1>3, <1>4, <1>5, <1>6, <1>7 DEF Next


\* A comment that was read or written stays with the array until a call takes
\* it or its element away (setIndexInParent, permuteNodes, setComment).
THEOREM CommentsKept == Spec => []EditsKeepComments
<1>1. IInv => EditsKeepComments
  BY DEF IInv
<1>2. QED
  BY <1>1, InitInv, NextInv, PTL DEF Spec

LEMMA NodeRebuildable == \A a \in ArrayNode : Rebuildable(a)
BY DEF ArrayNode, Rebuildable

LEMMA EndedTyped == Ended \subseteq Seq(Tokens)
BY DEF Ended

LEMMA BytesTell == IInv => BytesReadBack
<1> SUFFICES ASSUME IInv PROVE BytesReadBack
  OBVIOUS
<1>1. arr \in ArrayNode /\ Rebuildable(arr)
  BY NodeRebuildable DEF IInv
<1>2. CASE HasGaps(arr)
  BY <1>2 DEF IInv, GapsTell, BytesReadBack, RenderArray
<1>3. ASSUME NEW tokens \in Seq(Tokens), ~HasGaps(arr), RenderArray(arr) = tokens,
             ReadsAs(tokens, Contents(arr))
      PROVE  BytesReadBack
  BY <1>3, ToldRead DEF BytesReadBack
<1>4. CASE ~HasGaps(arr) /\ HasComments(arr)
  <2>1. MultiLine(arr) \in Seq(Tokens) /\ ReadsAs(MultiLine(arr), Contents(arr))
    BY <1>1, MultiReads, EndedTyped
  <2>2. QED
    BY <1>3, <1>4, <2>1 DEF RenderArray
<1>5. CASE ~HasGaps(arr) /\ ~HasComments(arr)
  <2>1. InOneLine(arr) \in Seq(Tokens) /\ ReadsAs(InOneLine(arr), Contents(arr))
    BY <1>1, <1>5, OneLineReads, EndedTyped
  <2>2. QED
    BY <1>3, <1>5, <2>1 DEF RenderArray
<1>6. QED
  BY <1>2, <1>4, <1>5

\* What Bytes writes after any edits reads back as the values and comments the
\* document answers, each comment at its element, and loses no comment even
\* when elements changed places under their gaps (containerGaps, dropGapsOf,
\* renderArray, parseArrayValue).
THEOREM BytesRead == Spec => []BytesReadBack
<1>1. QED
  BY BytesTell, InitInv, NextInv, PTL DEF Spec

---------------------------------------------------------------------------
(***************************************************************************)
(* Format: an indented comment is the same comment.                        *)
(***************************************************************************)
Deeper(comments) == [i \in DOMAIN comments |-> [comments[i] EXCEPT !.in = @ + IndentWidth]]
DeeperNode(e) == [e EXCEPT !.lead = Deeper(@)]
FlushNode(e) == [e EXCEPT !.lead = Flush(@)]

LEMMA DeeperFlush ==
  ASSUME NEW cs \in Seq(CommentTokens)
  PROVE  Deeper(cs) \in Seq(CommentTokens) /\ Flush(Deeper(cs)) = Flush(cs)
<1>1. DOMAIN cs = 1..Len(cs) /\ Len(cs) \in Nat /\ \A i \in 1..Len(cs) : cs[i] \in CommentTokens
  OBVIOUS
<1>2. ASSUME NEW c \in CommentTokens
      PROVE  /\ [c EXCEPT !.in = @ + IndentWidth] \in CommentTokens
             /\ [[c EXCEPT !.in = @ + IndentWidth] EXCEPT !.in = 0] = [c EXCEPT !.in = 0]
  <2>1. c = [k |-> c.k, x |-> c.x, in |-> c.in] /\ c.k = "comment" /\ c.x \in Names /\ c.in \in Nat
    BY DEF CommentTokens
  <2>2. [c EXCEPT !.in = @ + IndentWidth] = [k |-> c.k, x |-> c.x, in |-> c.in + IndentWidth]
    BY <2>1
  <2>3. [k |-> c.k, x |-> c.x, in |-> c.in + IndentWidth] \in CommentTokens
    BY <2>1, InputsAssumption DEF CommentTokens
  <2>4. [[c EXCEPT !.in = @ + IndentWidth] EXCEPT !.in = 0] = [c EXCEPT !.in = 0]
    BY <2>1, <2>2
  <2>5. QED
    BY <2>2, <2>3, <2>4
<1>3. /\ DOMAIN Deeper(cs) = 1..Len(cs)
      /\ \A i \in 1..Len(cs) : Deeper(cs)[i] = [cs[i] EXCEPT !.in = @ + IndentWidth]
  BY <1>1 DEF Deeper
<1>4. Deeper(cs) \in Seq(CommentTokens)
  <2>1. \A i \in 1..Len(cs) : [cs[i] EXCEPT !.in = @ + IndentWidth] \in CommentTokens
    BY <1>1, <1>2, ZenonT(40)
  <2>2. Deeper(cs) \in [1..Len(cs) -> CommentTokens]
    BY <1>1, <2>1 DEF Deeper
  <2>3. QED
    BY <1>1, <2>2
<1>5. \A i \in 1..Len(cs) : [Deeper(cs)[i] EXCEPT !.in = 0] = [cs[i] EXCEPT !.in = 0]
  BY <1>1, <1>2, <1>3, ZenonT(40)
<1>6. Flush(Deeper(cs)) = Flush(cs)
  BY <1>1, <1>3, <1>5 DEF Flush
<1>7. QED
  BY <1>4, <1>6

LEMMA DeeperTyped ==
  ASSUME NEW e \in Node
  PROVE  DeeperNode(e) \in Node /\ FlushNode(DeeperNode(e)) = FlushNode(e)
<1>1. /\ e.lead \in Seq(CommentTokens) /\ e.val \in Names /\ e.inline \in Inline
      /\ e = [val |-> e.val, lead |-> e.lead, inline |-> e.inline]
  BY DEF Node
<1>2. Deeper(e.lead) \in Seq(CommentTokens) /\ Flush(Deeper(e.lead)) = Flush(e.lead)
  BY <1>1, DeeperFlush
<1>3. DeeperNode(e) = [val |-> e.val, lead |-> Deeper(e.lead), inline |-> e.inline]
  BY <1>1 DEF DeeperNode
<1>4. FlushNode(DeeperNode(e)) = [val |-> e.val, lead |-> Flush(Deeper(e.lead)), inline |-> e.inline]
  BY <1>3 DEF FlushNode
<1>5. FlushNode(e) = [val |-> e.val, lead |-> Flush(e.lead), inline |-> e.inline]
  BY <1>1 DEF FlushNode
<1>6. QED
  BY <1>1, <1>2, <1>3, <1>4, <1>5 DEF Node

LEMMA IndentedIs ==
  ASSUME NEW a \in ArrayNode
  PROVE  /\ Indented(a).elements = [i \in DOMAIN a.elements |-> DeeperNode(a.elements[i])]
         /\ Indented(a).trailing = Deeper(a.trailing)
<1>1. a = [elements |-> a.elements, trailing |-> a.trailing, gaps |-> a.gaps]
  BY DEF ArrayNode
<1> DEFINE els == [i \in DOMAIN a.elements |-> DeeperNode(a.elements[i])]
           t == Deeper(a.trailing)
<1>2. Indented(a) = [a EXCEPT !.elements = [i \in DOMAIN @ |-> DeeperNode(@[i])],
                           !.trailing = Deeper(@)]
  BY Zenon DEF Indented, Deeper, DeeperNode
<1>3. Indented(a).elements = els /\ Indented(a).trailing = t
  BY <1>1, <1>2
<1>4. QED
  BY <1>3 DEF els, t

LEMMA UnindentedIs ==
  \A a : Unindented(a) = [elements |-> [i \in DOMAIN a.elements |-> FlushNode(a.elements[i])],
                          trailing |-> Flush(a.trailing)]
BY DEF Unindented, FlushNode

LEMMA SameContents == \A a, b : Contents(a) = Contents(b) => Unindented(a) = Unindented(b)
<1> SUFFICES ASSUME NEW a, NEW b, Contents(a) = Contents(b) PROVE Unindented(a) = Unindented(b)
  OBVIOUS
<1>1. a.elements = b.elements /\ a.trailing = b.trailing
  BY DEF Contents
<1>2. QED
  BY <1>1 DEF Unindented

LEMMA IndentedSame ==
  ASSUME NEW a \in ArrayNode
  PROVE  Rebuildable(Indented(a)) /\ Unindented(Indented(a)) = Unindented(a)
<1> DEFINE b == Indented(a)
           els == [i \in DOMAIN a.elements |-> DeeperNode(a.elements[i])]
<1>1. b.elements = els /\ b.trailing = Deeper(a.trailing)
  BY IndentedIs
<1>2. /\ a.elements \in Seq(Node) /\ a.trailing \in Seq(CommentTokens)
      /\ DOMAIN a.elements = 1..Len(a.elements) /\ Len(a.elements) \in Nat
  BY DEF ArrayNode
<1>3. \A i \in 1..Len(a.elements) : /\ DeeperNode(a.elements[i]) \in Node
                                    /\ FlushNode(DeeperNode(a.elements[i])) = FlushNode(a.elements[i])
  BY <1>2, DeeperTyped
<1>4. els \in Seq(Node)
  <2>1. els \in [1..Len(a.elements) -> Node]
    BY <1>2, <1>3
  <2>2. QED
    BY <1>2, <2>1
<1>5. [i \in DOMAIN els |-> FlushNode(els[i])] = [i \in DOMAIN a.elements |-> FlushNode(a.elements[i])]
  <2>1. DOMAIN els = DOMAIN a.elements
    OBVIOUS
  <2>2. \A i \in DOMAIN a.elements : FlushNode(els[i]) = FlushNode(a.elements[i])
    BY <1>2, <1>3
  <2> HIDE DEF els
  <2>3. QED
    BY <2>1, <2>2
<1> HIDE DEF els, b
<1>6. Deeper(a.trailing) \in Seq(CommentTokens) /\ Flush(Deeper(a.trailing)) = Flush(a.trailing)
  BY <1>2, DeeperFlush
<1>7. Rebuildable(b)
  BY <1>1, <1>4, <1>6 DEF Rebuildable
<1>8. Unindented(b) = Unindented(a)
  BY <1>1, <1>5, <1>6, UnindentedIs
<1>9. QED
  BY <1>7, <1>8 DEF b

LEMMA FormatTells == IInv => FormatReadsBack
<1> SUFFICES ASSUME IInv, NEW fits \in BOOLEAN, arr.elements # <<>>
             PROVE  /\ Readable(FormatArray(arr, fits))
                    /\ Unindented(ParseArrayValue(FormatArray(arr, fits))) = Unindented(arr)
  BY DEF FormatReadsBack
<1>1. arr \in ArrayNode /\ Rebuildable(arr)
  BY NodeRebuildable DEF IInv
<1>2. CASE HasComments(arr) \/ ~fits
  <2>1. Rebuildable(Indented(arr)) /\ Unindented(Indented(arr)) = Unindented(arr)
    BY <1>1, IndentedSame
  <2>2. ReadsAs(MultiLine(Indented(arr)), Contents(Indented(arr)))
    BY <2>1, MultiReads
  <2>3. FormatArray(arr, fits) = MultiLine(Indented(arr))
    BY <1>2 DEF FormatArray
  <2>4. QED
    BY <2>1, <2>2, <2>3, SameContents DEF ReadsAs
<1>3. CASE ~(HasComments(arr) \/ ~fits)
  <2>1. ReadsAs(InOneLine(arr), Contents(arr))
    BY <1>1, <1>3, OneLineReads
  <2>2. FormatArray(arr, fits) = InOneLine(arr)
    BY <1>3 DEF FormatArray
  <2>3. QED
    BY <2>1, <2>2, SameContents DEF ReadsAs
<1>4. QED
  BY <1>2, <1>3

\* Format writes an array of elements so that it reads back with the same
\* values and the same comments at each, whatever was edited before and however
\* wide the line may be (formatArray, formatArrayMultiLine).
THEOREM FormatReads == Spec => []FormatReadsBack
<1>1. QED
  BY FormatTells, InitInv, NextInv, PTL DEF Spec

---------------------------------------------------------------------------
(***************************************************************************)
(* Which bytes a write replaces: the value behind so many others.          *)
(***************************************************************************)
ValuesUpTo(tokens, n) == {m \in 1..n : tokens[m].k = "value"}
Counts(tokens, n) ==
  /\ tokens \in Seq(Tokens)
  /\ IsFiniteSet(ValuesUpTo(tokens, Len(tokens)))
  /\ Cardinality(ValuesUpTo(tokens, Len(tokens))) = n

LEMMA ValuesFinite ==
  ASSUME NEW tokens, NEW n \in Nat
  PROVE  IsFiniteSet(ValuesUpTo(tokens, n))
<1>1. IsFiniteSet(1..n) /\ ValuesUpTo(tokens, n) \in SUBSET (1..n)
  BY FS_Interval DEF ValuesUpTo
<1>2. QED
  BY <1>1, FS_Subset

LEMMA NothingCounted == Counts(<<>>, 0)
<1> DEFINE e == <<>>
<1>1. e \in Seq(Tokens) /\ Len(e) = 0
  OBVIOUS
<1> HIDE DEF e
<1>2. ValuesUpTo(e, Len(e)) = {}
  BY <1>1 DEF ValuesUpTo
<1>3. QED
  BY <1>1, <1>2, FS_EmptySet DEF Counts, e

LEMMA GapCounted ==
  ASSUME NEW s, NEW n, Counts(s, n), NEW g \in Seq(GapTokens)
  PROVE  Counts(s \o g, n)
<1> DEFINE t == s \o g
<1>1. s \in Seq(Tokens) /\ g \in Seq(Tokens) /\ Len(s) \in Nat /\ Len(g) \in Nat
  BY Kinds, SeqMonotonic DEF Counts
<1>2. /\ t \in Seq(Tokens) /\ Len(t) = Len(s) + Len(g)
      /\ \A k \in 1..Len(s) + Len(g) : t[k] = IF k <= Len(s) THEN s[k] ELSE g[k - Len(s)]
  BY <1>1, ConcatProperties
<1>3. \A k \in 1..Len(g) : g[k].k # "value"
  BY Kinds
<1> HIDE DEF t
<1>4. ValuesUpTo(t, Len(t)) = ValuesUpTo(s, Len(s))
  <2>1. ASSUME NEW m \in 1..Len(t), t[m].k = "value" PROVE m \in 1..Len(s) /\ s[m].k = "value"
    <3>1. m <= Len(s)
      <4> SUFFICES ASSUME ~(m <= Len(s)) PROVE FALSE
        OBVIOUS
      <4>1. m - Len(s) \in 1..Len(g) /\ t[m] = g[m - Len(s)]
        BY <1>1, <1>2, <2>1
      <4>2. QED
        BY <1>3, <2>1, <4>1
    <3>2. QED
      BY <1>1, <1>2, <2>1, <3>1
  <2>2. ASSUME NEW m \in 1..Len(s), s[m].k = "value" PROVE m \in 1..Len(t) /\ t[m].k = "value"
    BY <1>1, <1>2, <2>2
  <2>3. QED
    BY <2>1, <2>2 DEF ValuesUpTo
<1>5. QED
  BY <1>2, <1>4 DEF Counts, t

LEMMA ValueCounted ==
  ASSUME NEW s, NEW n, Counts(s, n), NEW x \in Names
  PROVE  Counts(Append(s, Value(x)), n + 1)
<1> DEFINE t == Append(s, Value(x))
           m == Len(s)
<1>1. s \in Seq(Tokens) /\ m \in Nat /\ Value(x) \in Tokens /\ Value(x).k = "value"
  BY Kinds DEF Counts
<1>2. /\ t \in Seq(Tokens) /\ Len(t) = m + 1 /\ t[m + 1] = Value(x)
      /\ \A k \in 1..m : t[k] = s[k]
  BY <1>1, AppendProperties
<1> HIDE DEF t
<1>3. ValuesUpTo(t, Len(t)) = ValuesUpTo(s, m) \cup {m + 1}
  BY <1>1, <1>2 DEF ValuesUpTo
<1>4. m + 1 \notin ValuesUpTo(s, m)
  BY <1>1 DEF ValuesUpTo
<1>5. IsFiniteSet(ValuesUpTo(s, m)) /\ Cardinality(ValuesUpTo(s, m)) = n
  BY DEF Counts
<1>6. QED
  BY <1>2, <1>3, <1>4, <1>5, FS_AddElement DEF Counts, t

\* The value behind n others is where the definition of ValueAt finds it.
LEMMA ValueFound ==
  ASSUME NEW u, NEW n \in Nat, Counts(u, n), NEW x \in Names, NEW w \in Seq(Tokens)
  PROVE  ValueAt(u \o (<<Value(x)>> \o w), n + 1) = Len(u) + 1
<1> DEFINE y == Append(u, Value(x))
           z == <<Value(x)>> \o w
           t == u \o z
           m == Len(u)
           C(j) == ValuesUpTo(t, j)
<1>1. u \in Seq(Tokens) /\ m \in Nat /\ Value(x) \in Tokens /\ Value(x).k = "value"
  BY Kinds DEF Counts
<1>2. z \in Seq(Tokens) /\ Len(z) = Len(w) + 1 /\ Len(w) \in Nat /\ z[1] = Value(x)
  <2>1. <<Value(x)>> \in Seq(Tokens)
    BY <1>1
  <2>2. QED
    BY <1>1, <2>1, ConcatProperties
<1> HIDE DEF z
<1>3. /\ t \in Seq(Tokens) /\ Len(t) = m + Len(z)
      /\ \A k \in 1..m + Len(z) : t[k] = IF k <= m THEN u[k] ELSE z[k - m]
  BY <1>1, <1>2, ConcatProperties
<1>4. m + 1 \in 1..Len(t) /\ t[m + 1] = Value(x) /\ \A k \in 1..m : t[k] = u[k]
  BY <1>1, <1>2, <1>3
<1> HIDE DEF t
<1>10. DOMAIN t = 1..Len(t)
  BY <1>3
<1>5. Cardinality(C(m + 1)) = n + 1
  <2>1. Counts(y, n + 1)
    BY ValueCounted
  <2>2. /\ Len(y) = m + 1 /\ y[m + 1] = Value(x)
        /\ \A k \in 1..m : y[k] = u[k]
    BY <1>1, AppendProperties
  <2> HIDE DEF y
  <2>3. C(m + 1) = ValuesUpTo(y, Len(y))
    BY <1>1, <1>4, <2>2 DEF ValuesUpTo
  <2>4. QED
    BY <2>1, <2>3 DEF Counts
<1>6. ASSUME NEW j \in 1..Len(t), NEW k \in 1..Len(t), j < k, t[k].k = "value"
      PROVE  Cardinality(C(j)) # Cardinality(C(k))
  <2>1. C(j) \in SUBSET C(k) /\ k \in C(k) /\ k \notin C(j)
    BY <1>6 DEF ValuesUpTo
  <2>2. IsFiniteSet(C(k))
    <3>1. k \in Nat
      OBVIOUS
    <3>2. QED
      BY <3>1, ValuesFinite
  <2> HIDE DEF C
  <2>3. QED
    BY <2>1, <2>2, FS_Subset
<1>7. \A j \in 1..Len(t) : t[j].k = "value" /\ Cardinality(C(j)) = n + 1 <=> j = m + 1
  <2> SUFFICES ASSUME NEW j \in 1..Len(t), t[j].k = "value", Cardinality(C(j)) = n + 1
               PROVE  j = m + 1
    BY <1>1, <1>4, <1>5
  <2>1. ~(j < m + 1) /\ ~(m + 1 < j)
    BY <1>1, <1>4, <1>5, <1>6
  <2>2. QED
    BY <1>1, <2>1
<1>8. ValueAt(t, n + 1) = CHOOSE j \in 1..Len(t) : t[j].k = "value" /\ Cardinality(C(j)) = n + 1
  BY <1>10 DEF ValueAt, ValuesUpTo
<1> HIDE DEF C
<1>9. (CHOOSE j \in 1..Len(t) : t[j].k = "value" /\ Cardinality(C(j)) = n + 1) = m + 1
  BY <1>4, <1>7
<1>11. QED
  BY <1>8, <1>9 DEF t, z

\* A text with one value in it, and a text with another in its place.
Around(s, t, x, v) ==
  \E p, q \in Seq(GapTokens) : s = p \o (<<Value(x)>> \o q) /\ t = p \o (<<Value(v)>> \o q)
OneValue(s) == \E x \in Names : Around(s, s, x, x)

Regrouped(s, t, u) == (s \o t) \o u = s \o (t \o u)

LEMMA ConcatTokens == \A s, t, u \in Seq(Tokens) : Regrouped(s, t, u)
BY ConcatAssociative, SMTT(60) DEF Regrouped

LEMMA ConcatTyped == \A s, t \in Seq(Tokens) : s \o t \in Seq(Tokens)
BY ConcatProperties

LEMMA OneCounted ==
  ASSUME NEW s, NEW n, Counts(s, n), NEW b, OneValue(b)
  PROVE  Counts(s \o b, n + 1)
<1>1. PICK x \in Names : \E p, q \in Seq(GapTokens) : b = p \o (<<Value(x)>> \o q)
  BY DEF OneValue, Around
<1>2. PICK p \in Seq(GapTokens), q \in Seq(GapTokens) : b = p \o (<<Value(x)>> \o q)
  BY <1>1
<1> DEFINE y == <<Value(x)>>
<1>3. s \in Seq(Tokens) /\ p \in Seq(Tokens) /\ q \in Seq(Tokens) /\ y \in Seq(Tokens)
  BY Kinds, SeqMonotonic DEF Counts
<1>4. Counts(s \o p, n)
  BY <1>2, GapCounted
<1>5. Counts(Append(s \o p, Value(x)), n + 1)
  BY <1>4, ValueCounted
<1>6. Append(s \o p, Value(x)) = (s \o p) \o y
  <2>1. s \o p \in Seq(Tokens) /\ Value(x) \in Tokens
    BY <1>3, Kinds, ConcatProperties
  <2>2. QED
    BY <2>1, AppendIsConcat
<1> HIDE DEF y
<1>7. Counts(((s \o p) \o y) \o q, n + 1)
  BY <1>2, <1>5, <1>6, GapCounted
<1>8. ((s \o p) \o y) \o q = s \o (p \o (y \o q))
  <2> DEFINE a == s \o p
             z == y \o q
  <2>1. a \in Seq(Tokens) /\ z \in Seq(Tokens)
    BY <1>3, ConcatProperties
  <2> HIDE DEF a
  <2>2. Regrouped(a, y, q)
    BY <1>3, <2>1, ConcatTokens
  <2> HIDE DEF z
  <2>3. Regrouped(s, p, z)
    BY <1>3, <2>1, ConcatTokens
  <2>4. QED
    BY <2>2, <2>3 DEF Regrouped, a, z
<1>9. QED
  BY <1>2, <1>7, <1>8 DEF y

LEMMA StagesCounted ==
  ASSUME NEW h \in Seq(GapTokens), NEW ss \in Seq(Seq(Tokens)),
         \A j \in 1..Len(ss) : OneValue(ss[j]), NEW n \in 0..Len(ss)
  PROVE  Counts(h \o FlattenSeq(SubSeq(ss, 1, n)), n)
<1> DEFINE F(k) == FlattenSeq(SubSeq(ss, 1, k))
           S == {k \in Nat : k <= Len(ss) => Counts(h \o F(k), k)}
<1>1. /\ Len(ss) \in Nat /\ F(0) = <<>> /\ \A k \in 0..Len(ss) : F(k) \in Seq(Tokens)
      /\ \A k \in Nat : k < Len(ss) => F(k + 1) = F(k) \o ss[k + 1]
  <2>1. Len(ss) \in Nat
    OBVIOUS
  <2>2. QED
    BY <2>1, FlattenStages, Zenon
<1>2. h \in Seq(Tokens)
  BY Kinds, SeqMonotonic
<1> HIDE DEF F
<1>3. 0 \in S
  <2> DEFINE e == <<>>
  <2>1. Counts(e \o h, 0) /\ e \o h = h /\ h \o e = h
    BY <1>2, NothingCounted, GapCounted, ConcatEmptySeq
  <2>2. Counts(h \o F(0), 0)
    BY <1>1, <2>1
  <2>3. QED
    BY <2>2
<1>4. ASSUME NEW k \in Nat, k \in S PROVE k + 1 \in S
  <2> SUFFICES ASSUME k + 1 <= Len(ss) PROVE Counts(h \o F(k + 1), k + 1)
    OBVIOUS
  <2>1. /\ k \in 0..Len(ss) /\ k + 1 \in 1..Len(ss) /\ k < Len(ss) /\ k <= Len(ss)
    BY <1>1
  <2>2. Counts(h \o F(k), k) /\ OneValue(ss[k + 1]) /\ ss[k + 1] \in Seq(Tokens)
    BY <1>4, <2>1
  <2>3. Counts((h \o F(k)) \o ss[k + 1], k + 1)
    BY <2>2, OneCounted
  <2>4. (h \o F(k)) \o ss[k + 1] = h \o (F(k) \o ss[k + 1])
    <3>1. F(k) \in Seq(Tokens)
      BY <1>1, <2>1
    <3>2. QED
      BY <1>2, <2>2, <3>1, ConcatTokens DEF Regrouped
  <2>6. F(k + 1) = F(k) \o ss[k + 1]
    BY <1>1, <2>1
  <2>7. QED
    BY <2>3, <2>4, <2>6
<1> HIDE DEF S
<1>5. Nat \subseteq S
  BY <1>3, <1>4, Induct, Zenon
<1>6. n \in Nat /\ n <= Len(ss)
  OBVIOUS
<1>7. QED
  BY <1>5, <1>6 DEF S, F

\* Seven sequences, however they are put together.
Assembled(h, u, p, y, q, w, k) ==
  (h \o (u \o ((p \o (y \o q)) \o w))) \o k = ((h \o u) \o p) \o (y \o (q \o (w \o k)))

LEMMA Regroup ==
  \A h, u, p, y, q, w, k \in Seq(Tokens) : Assembled(h, u, p, y, q, w, k)
<1> SUFFICES ASSUME NEW h \in Seq(Tokens), NEW u \in Seq(Tokens), NEW p \in Seq(Tokens),
                    NEW y \in Seq(Tokens), NEW q \in Seq(Tokens), NEW w \in Seq(Tokens),
                    NEW k \in Seq(Tokens)
             PROVE  Assembled(h, u, p, y, q, w, k)
  OBVIOUS
<1> DEFINE a == y \o q
           b == p \o a
           c == w \o k
           d == q \o c
           e == y \o d
           f == u \o (b \o w)
           g == h \o u
<1>1. /\ a \in Seq(Tokens) /\ b \in Seq(Tokens) /\ c \in Seq(Tokens) /\ d \in Seq(Tokens)
      /\ e \in Seq(Tokens) /\ f \in Seq(Tokens) /\ g \in Seq(Tokens)
      /\ b \o w \in Seq(Tokens) /\ p \o e \in Seq(Tokens)
  BY ConcatTyped
<1>2. Regrouped(y, q, c) /\ Regrouped(p, a, c) /\ Regrouped(b, w, k)
  <2> HIDE DEF a, b, c
  <2>1. QED
    BY <1>1, ConcatTokens
<1>3. Regrouped(u, b \o w, k) /\ Regrouped(h, f, k)
  <2> DEFINE x == b \o w
  <2> HIDE DEF f, x
  <2>1. Regrouped(u, x, k) /\ Regrouped(h, f, k)
    BY <1>1, ConcatTokens DEF x
  <2>2. QED
    BY <2>1 DEF x
<1>4. Regrouped(h, u, p \o e) /\ Regrouped(g, p, e)
  <2> DEFINE x == p \o e
  <2> HIDE DEF g, e, x
  <2>1. Regrouped(h, u, x) /\ Regrouped(g, p, e)
    BY <1>1, ConcatTokens DEF x
  <2>2. QED
    BY <2>1 DEF x
<1>5. (b \o w) \o k = p \o e
  BY <1>2, Zenon DEF Regrouped
<1>6. (h \o f) \o k = h \o (u \o (p \o e))
  <2> HIDE DEF b, e
  <2>1. QED
    BY <1>3, <1>5, Zenon DEF Regrouped
<1>7. h \o (u \o (p \o e)) = (g \o p) \o e
  <2> HIDE DEF e
  <2>1. QED
    BY <1>4, Zenon DEF Regrouped
<1>8. (h \o f) \o k = (g \o p) \o e
  <2> HIDE DEF f, g, e
  <2>1. QED
    BY <1>6, <1>7, Zenon
<1>9. QED
  BY <1>8, Zenon DEF Assembled

Joined(r, s, t) ==
  /\ r \in Seq(Tokens) /\ Len(r) = Len(s) + Len(t)
  /\ \A j \in 1..Len(s) : r[j] = s[j]
  /\ \A j \in 1..Len(t) : r[Len(s) + j] = t[j]

LEMMA Joining == \A s, t \in Seq(Tokens) : Joined(s \o t, s, t)
BY ConcatParts DEF Joined

LEMMA HeadIs ==
  ASSUME NEW x \in Tokens, NEW c \in Seq(Tokens)
  PROVE  LET f == <<x>> \o c IN
         /\ f \in Seq(Tokens) /\ Len(f) = Len(c) + 1 /\ f[1] = x
         /\ \A j \in 1..Len(c) : f[1 + j] = c[j]
<1> DEFINE y == <<x>>
<1>1. y \in Seq(Tokens) /\ Len(y) = 1 /\ y[1] = x /\ Len(c) \in Nat
  OBVIOUS
<1> HIDE DEF y
<1> DEFINE f == y \o c
<1>2. Joined(f, y, c)
  BY <1>1, Joining
<1> HIDE DEF f
<1>3. /\ f \in Seq(Tokens) /\ Len(f) = Len(c) + 1 /\ f[1] = x
      /\ \A j \in 1..Len(c) : f[1 + j] = c[j]
  BY <1>1, <1>2 DEF Joined
<1>4. QED
  BY <1>3 DEF f, y

OtherHead(b, c, x, v) == b \o (<<v>> \o c) = [b \o (<<x>> \o c) EXCEPT ![Len(b) + 1] = v]

LEMMA HeadReplaced ==
  \A b, c \in Seq(Tokens) : \A x, v \in Tokens : OtherHead(b, c, x, v)
<1> SUFFICES ASSUME NEW b \in Seq(Tokens), NEW c \in Seq(Tokens), NEW x \in Tokens,
                    NEW v \in Tokens
             PROVE  OtherHead(b, c, x, v)
  OBVIOUS
<1> DEFINE f == <<x>> \o c
           g == <<v>> \o c
           old == b \o f
           new == b \o g
           m == Len(b)
           n == Len(c)
<1>1. /\ f \in Seq(Tokens) /\ Len(f) = n + 1 /\ \A j \in 1..n : f[1 + j] = c[j]
      /\ g \in Seq(Tokens) /\ Len(g) = n + 1 /\ g[1] = v /\ \A j \in 1..n : g[1 + j] = c[j]
      /\ m \in Nat /\ n \in Nat
  BY HeadIs
<1> HIDE DEF f, g
<1>10. Joined(old, b, f) /\ Joined(new, b, g)
  BY <1>1, Joining
<1> HIDE DEF old, new
<1>2. /\ old \in Seq(Tokens) /\ Len(old) = m + (n + 1)
      /\ \A j \in 1..m : old[j] = b[j]
      /\ \A j \in 1..(n + 1) : old[m + j] = f[j]
  BY <1>1, <1>10 DEF Joined
<1>3. /\ new \in Seq(Tokens) /\ Len(new) = m + (n + 1)
      /\ \A j \in 1..m : new[j] = b[j]
      /\ \A j \in 1..(n + 1) : new[m + j] = g[j]
  BY <1>1, <1>10 DEF Joined
<1> HIDE DEF m, n
<1>4. DOMAIN old = 1..(m + (n + 1)) /\ DOMAIN new = 1..(m + (n + 1))
  BY <1>2, <1>3
<1>5. new[m + 1] = v
  <2>1. 1 \in 1..(n + 1)
    BY <1>1
  <2>2. QED
    BY <1>1, <1>3, <2>1
<1>6. \A j \in 1..(m + (n + 1)) : j # m + 1 => new[j] = old[j]
  <2> SUFFICES ASSUME NEW j \in 1..(m + (n + 1)), j # m + 1 PROVE new[j] = old[j]
    OBVIOUS
  <2>1. CASE j \in 1..m
    BY <1>2, <1>3, <2>1
  <2>2. CASE j \notin 1..m
    <3> DEFINE l == j - (m + 1)
    <3>1. l \in 1..n /\ 1 + l \in 1..(n + 1) /\ j = m + (1 + l)
      BY <1>1, <2>2
    <3> HIDE DEF l
    <3>2. new[m + (1 + l)] = g[1 + l] /\ old[m + (1 + l)] = f[1 + l]
      BY <1>2, <1>3, <3>1
    <3>3. g[1 + l] = f[1 + l]
      BY <1>1, <3>1
    <3>4. QED
      BY <3>1, <3>2, <3>3
  <2>3. QED
    BY <2>1, <2>2
<1>7. /\ new = [j \in 1..(m + (n + 1)) |-> new[j]]
      /\ old = [j \in 1..(m + (n + 1)) |-> old[j]]
  BY <1>2, <1>3, <1>4
<1>8. new = [old EXCEPT ![m + 1] = v]
  BY <1>4, <1>5, <1>6, <1>7
<1>9. QED
  BY <1>8 DEF OtherHead, old, new, m, f, g

\* A text with another value in the place of its i-th.
Rewrites(old, new, i, v) == new = [old EXCEPT ![ValueAt(old, i)] = Value(v)]

\* Texts of one value each, with another value in the i-th.
LEMMA OneReplaced ==
  ASSUME NEW h \in Seq(GapTokens), NEW k \in Seq(Tokens), NEW v \in Names, NEW x \in Names,
         NEW ss \in Seq(Seq(Tokens)), NEW tt \in Seq(Seq(Tokens)), Len(tt) = Len(ss),
         \A j \in 1..Len(ss) : OneValue(ss[j]),
         NEW i \in 1..Len(ss), \A j \in 1..Len(ss) : j # i => tt[j] = ss[j],
         Around(ss[i], tt[i], x, v)
  PROVE  Rewrites((h \o FlattenSeq(ss)) \o k, (h \o FlattenSeq(tt)) \o k, i, v)
<1> DEFINE u == FlattenSeq(SubSeq(ss, 1, i - 1))
           w == FlattenSeq(SubSeq(ss, i + 1, Len(ss)))
           y == <<Value(x)>>
           z == <<Value(v)>>
           old == (h \o FlattenSeq(ss)) \o k
           new == (h \o FlattenSeq(tt)) \o k
<1>1. PICK p \in Seq(GapTokens), q \in Seq(GapTokens) : ss[i] = p \o (y \o q) /\ tt[i] = p \o (z \o q)
  BY DEF Around
<1>2. /\ h \in Seq(Tokens) /\ p \in Seq(Tokens) /\ q \in Seq(Tokens)
      /\ y \in Seq(Tokens) /\ z \in Seq(Tokens)
      /\ Value(x) \in Tokens /\ Value(v) \in Tokens
  BY Kinds, SeqMonotonic, SMTT(60)
<1>3. SubSeq(tt, 1, i - 1) = SubSeq(ss, 1, i - 1)
  OBVIOUS
<1>4. SubSeq(tt, i + 1, Len(tt)) = SubSeq(ss, i + 1, Len(ss))
  OBVIOUS
<1>5. FlattenSeq(ss) = u \o (ss[i] \o w)
  BY FlattenSplit
<1>6. FlattenSeq(tt) = u \o (tt[i] \o w)
  <2>1. i \in 1..Len(tt)
    OBVIOUS
  <2>2. FlattenSeq(tt) = FlattenSeq(SubSeq(tt, 1, i - 1))
                           \o (tt[i] \o FlattenSeq(SubSeq(tt, i + 1, Len(tt))))
    BY <2>1, FlattenSplit
  <2>3. QED
    BY <1>3, <1>4, <2>2
<1>7. u \in Seq(Tokens) /\ w \in Seq(Tokens)
  <2>1. SubSeq(ss, 1, i - 1) \in Seq(Seq(Tokens)) /\ SubSeq(ss, i + 1, Len(ss)) \in Seq(Seq(Tokens))
    BY SubSeqProperties, SMTT(60)
  <2>2. QED
    BY <2>1, FlattenTyped
<1>8. Counts(h \o u, i - 1)
  <2>1. i - 1 \in 0..Len(ss)
    OBVIOUS
  <2>2. QED
    BY <2>1, StagesCounted
<1> HIDE DEF u, w, y, z
<1>9. Counts((h \o u) \o p, i - 1)
  BY <1>8, GapCounted
<1> DEFINE b == (h \o u) \o p
           c == q \o (w \o k)
<1>10. c \in Seq(Tokens) /\ b \in Seq(Tokens)
  BY <1>2, <1>7, ConcatTyped
<1>11. old = b \o (y \o c) /\ new = b \o (z \o c)
  <2>1. /\ old = (h \o (u \o ((p \o (y \o q)) \o w))) \o k
        /\ new = (h \o (u \o ((p \o (z \o q)) \o w))) \o k
    BY <1>1, <1>5, <1>6, Zenon
  <2> HIDE DEF old, new
  <2>2. Assembled(h, u, p, y, q, w, k) /\ Assembled(h, u, p, z, q, w, k)
    BY <1>2, <1>7, Regroup
  <2>3. QED
    BY <2>1, <2>2, Zenon DEF Assembled
<1> HIDE DEF b, c, old, new
<1>12. ValueAt(old, i) = Len(b) + 1
  <2>1. i - 1 \in Nat /\ (i - 1) + 1 = i /\ Counts(b, i - 1)
    BY <1>9, SMTT(60) DEF b
  <2>2. ValueAt(b \o (<<Value(x)>> \o c), (i - 1) + 1) = Len(b) + 1
    BY <1>10, <2>1, ValueFound
  <2>3. QED
    BY <1>11, <2>1, <2>2 DEF y
<1>13. new = [old EXCEPT ![Len(b) + 1] = Value(v)]
  <2>1. OtherHead(b, c, Value(x), Value(v))
    BY <1>2, <1>10, HeadReplaced
  <2>2. QED
    BY <1>11, <2>1 DEF OtherHead, y, z
<1>14. QED
  BY <1>12, <1>13 DEF Rewrites, old, new

LEMMA GapsTyped ==
  /\ <<>> \in Seq(GapTokens) /\ <<Comma>> \in Seq(GapTokens) /\ <<Newline>> \in Seq(GapTokens)
  /\ Seq(GapTokens) \subseteq Seq(Tokens)
  /\ \A s, t \in Seq(GapTokens) : s \o t \in Seq(GapTokens)
  /\ \A cs \in Seq(CommentTokens) : Lines(cs) \in Seq(GapTokens)
<1>1. <<>> \in Seq(GapTokens) /\ <<Comma>> \in Seq(GapTokens) /\ <<Newline>> \in Seq(GapTokens)
  BY Kinds
<1>2. Seq(GapTokens) \subseteq Seq(Tokens)
  BY Kinds, SeqMonotonic
<1>3. \A s, t \in Seq(GapTokens) : s \o t \in Seq(GapTokens)
  BY ConcatProperties
<1>4. ASSUME NEW cs \in Seq(CommentTokens) PROVE Lines(cs) \in Seq(GapTokens)
  <2> DEFINE B == LineBlocks(cs)
  <2>1. B = [i \in 1..Len(cs) |-> <<cs[i], Newline>>] /\ Len(cs) \in Nat
    BY DEF LineBlocks
  <2>2. \A i \in 1..Len(cs) : <<cs[i], Newline>> \in Seq(GapTokens)
    <3>1. \A i \in 1..Len(cs) : cs[i] \in GapTokens
      BY Kinds
    <3>2. QED
      BY <3>1, Kinds
  <2>3. B \in Seq(Seq(GapTokens))
    BY <2>1, <2>2
  <2>4. Lines(cs) = FlattenSeq(B)
    BY LineBlocksTyped
  <2> HIDE DEF B
  <2>5. QED
    BY <2>3, <2>4, FlattenTyped
<1>5. QED
  BY <1>1, <1>2, <1>3, <1>4

\* A value behind a gap.
LEMMA BehindGap ==
  ASSUME NEW p \in Seq(GapTokens), NEW x \in Names
  PROVE  /\ Append(p, Value(x)) = p \o (<<Value(x)>> \o <<>>)
         /\ p \o <<Value(x)>> = p \o (<<Value(x)>> \o <<>>)
<1> DEFINE y == <<Value(x)>>
           e == <<>>
<1>1. p \in Seq(Tokens) /\ Value(x) \in Tokens /\ y \in Seq(Tokens)
  BY GapsTyped, Kinds
<1>2. Append(p, Value(x)) = p \o y
  BY <1>1, AppendIsConcat
<1> HIDE DEF y
<1>3. y \o e = y
  BY <1>1, ConcatEmptySeq
<1>4. QED
  BY <1>2, <1>3, Zenon DEF y, e

LEMMA SpliceReplaced ==
  ASSUME NEW a \in ArrayNode, HasGaps(a), NEW i \in 1..Len(a.elements), NEW v \in Names
  PROVE  Rewrites(SpliceContainer(a), SpliceContainer(Reval(a, i, v)), i, v)
<1> DEFINE b == Reval(a, i, v)
           n == Len(a.elements)
           B == Blocks(a.gaps, a.elements)
           C == Blocks(b.gaps, b.elements)
           k == a.gaps[n + 1]
           e == <<>>
           x == a.elements[i].val
<1>1. /\ b \in ArrayNode /\ b.gaps = a.gaps /\ Len(b.elements) = n /\ b.elements[i].val = v
      /\ \A j \in 1..n : j # i => b.elements[j] = a.elements[j]
  BY RevalTyped
<1> HIDE DEF b
<1>2. /\ a.elements \in Seq(Node) /\ b.elements \in Seq(Node) /\ n \in Nat
      /\ a.gaps \in Seq(Seq(GapTokens)) /\ Len(a.gaps) = n + 1
  BY <1>1 DEF ArrayNode, HasGaps
<1>3. /\ B \in Seq(Seq(Tokens)) /\ Len(B) = n
      /\ \A j \in 1..n : /\ a.gaps[j] \in Seq(GapTokens) /\ a.elements[j].val \in Names
                         /\ B[j] = Append(a.gaps[j], Value(a.elements[j].val))
  <2>1. n <= Len(a.gaps)
    BY <1>2
  <2>2. QED
    BY <1>2, <2>1, BlocksTyped, Zenon
<1>4. /\ C \in Seq(Seq(Tokens)) /\ Len(C) = n
      /\ \A j \in 1..n : C[j] = Append(a.gaps[j], Value(b.elements[j].val))
  <2>1. Len(b.elements) <= Len(b.gaps) /\ b.gaps \in Seq(Seq(GapTokens))
    BY <1>1, <1>2
  <2>2. /\ C \in Seq(Seq(Tokens)) /\ Len(C) = Len(b.elements)
        /\ \A j \in 1..Len(b.elements) : C[j] = Append(b.gaps[j], Value(b.elements[j].val))
    BY <1>2, <2>1, BlocksTyped, Zenon
  <2>3. QED
    BY <1>1, <2>2
<1> HIDE DEF B, C
<1>5. k \in Seq(Tokens)
  <2>1. k \in Seq(GapTokens)
    BY <1>2
  <2>2. QED
    BY <2>1, GapsTyped
<1>6. \A j \in 1..n : OneValue(B[j])
  <2> SUFFICES ASSUME NEW j \in 1..n PROVE OneValue(B[j])
    OBVIOUS
  <2>1. B[j] = a.gaps[j] \o (<<Value(a.elements[j].val)>> \o e)
    BY <1>3, BehindGap
  <2>2. QED
    BY <1>3, <2>1, GapsTyped DEF OneValue, Around
<1>7. Around(B[i], C[i], x, v) /\ x \in Names
  <2>1. B[i] = a.gaps[i] \o (<<Value(x)>> \o e) /\ C[i] = a.gaps[i] \o (<<Value(v)>> \o e)
    BY <1>1, <1>3, <1>4, BehindGap
  <2>2. QED
    BY <1>3, <2>1, GapsTyped DEF Around
<1>8. \A j \in 1..n : j # i => C[j] = B[j]
  BY <1>1, <1>3, <1>4
<1>9. Rewrites((e \o FlattenSeq(B)) \o k, (e \o FlattenSeq(C)) \o k, i, v)
  <2>1. e \in Seq(GapTokens) /\ i \in 1..Len(B) /\ Len(C) = Len(B)
    BY <1>3, <1>4, GapsTyped
  <2> HIDE DEF e, x, k
  <2>2. QED
    BY <1>3, <1>4, <1>5, <1>6, <1>7, <1>8, <2>1, OneReplaced
<1>10. e \o FlattenSeq(B) = FlattenSeq(B) /\ e \o FlattenSeq(C) = FlattenSeq(C)
  <2>1. FlattenSeq(B) \in Seq(Tokens) /\ FlattenSeq(C) \in Seq(Tokens)
    BY <1>3, <1>4, FlattenTyped
  <2>2. QED
    BY <2>1, ConcatEmptySeq
<1>11. SpliceContainer(a) = FlattenSeq(B) \o k /\ SpliceContainer(b) = FlattenSeq(C) \o k
  BY <1>1, SpliceIs DEF B, C
<1> HIDE DEF e, k
<1>12. QED
  BY <1>9, <1>10, <1>11 DEF b

Rest(e) == <<Comma>> \o Append(e.inline, Newline)

\* An element's line around its value.
LEMMA LineAround ==
  ASSUME NEW e \in Node
  PROVE  /\ Lines(e.lead) \in Seq(GapTokens) /\ Rest(e) \in Seq(GapTokens) /\ e.val \in Names
         /\ Line(e) = Lines(e.lead) \o (<<Value(e.val)>> \o Rest(e))
         /\ Line(e) \in Seq(Tokens)
<1> DEFINE p == Lines(e.lead)
           y == <<Value(e.val)>>
           c == <<Comma>>
           m == Append(e.inline, Newline)
<1>1. e.val \in Names /\ e.lead \in Seq(CommentTokens) /\ e.inline \in Inline
  BY DEF Node
<1>2. p \in Seq(GapTokens) /\ c \in Seq(GapTokens)
  BY <1>1, GapsTyped
<1>3. m \in Seq(GapTokens)
  <2>1. e.inline \in Seq(GapTokens)
    <3>1. e.inline \in Seq(CommentTokens)
      <4>1. \A z \in Inline : z \in Seq(CommentTokens)
        <5>1. \A t \in CommentTokens : <<t>> \in Seq(CommentTokens)
          OBVIOUS
        <5>2. <<>> \in Seq(CommentTokens)
          OBVIOUS
        <5>3. QED
          BY <5>1, <5>2, InlineTyped
      <4>2. QED
        BY <1>1, <4>1
    <3>2. Seq(CommentTokens) \subseteq Seq(GapTokens)
      BY Kinds, SeqMonotonic
    <3>3. QED
      BY <1>1, <3>1, <3>2
  <2>2. QED
    BY <2>1, Kinds, AppendProperties
<1>4. y \in Seq(Tokens) /\ Value(e.val) \in Tokens /\ Comma \in Tokens
  BY <1>1, Kinds
<1>5. <<Value(e.val), Comma>> = y \o c
  BY <1>4, ConcatOne
<1>6. Line(e) = (p \o (y \o c)) \o m
  BY <1>5 DEF Line
<1> HIDE DEF p, y, c, m
<1>7. p \in Seq(Tokens) /\ c \in Seq(Tokens) /\ m \in Seq(Tokens) /\ y \o c \in Seq(Tokens)
  BY <1>2, <1>3, <1>4, GapsTyped, ConcatTyped
<1>8. Regrouped(y, c, m)
  BY <1>4, <1>7, ConcatTokens
<1>9. Regrouped(p, y \o c, m)
  BY <1>7, ConcatTokens
<1>10. Line(e) = p \o (y \o (c \o m))
  BY <1>6, <1>8, <1>9, Zenon DEF Regrouped
<1>11. c \o m \in Seq(GapTokens) /\ Rest(e) = c \o m
  BY <1>2, <1>3, GapsTyped DEF Rest, c, m
<1>12. Line(e) \in Seq(Tokens)
  BY <1>6, <1>7, ConcatTyped
<1>13. QED
  BY <1>1, <1>2, <1>10, <1>11, <1>12 DEF p, y

LEMMA MultiReplaced ==
  ASSUME NEW a \in ArrayNode, NEW i \in 1..Len(a.elements), NEW v \in Names
  PROVE  Rewrites(MultiLine(a), MultiLine(Reval(a, i, v)), i, v)
<1> DEFINE b == Reval(a, i, v)
           n == Len(a.elements)
           B == [j \in DOMAIN a.elements |-> ElementLine(a, j)]
           C == [j \in DOMAIN b.elements |-> ElementLine(b, j)]
           h == <<Newline>>
           k == Lines(a.trailing)
           x == a.elements[i].val
<1>1. /\ b \in ArrayNode /\ b.trailing = a.trailing /\ Len(b.elements) = n
      /\ b.elements[i].val = v
      /\ b.elements[i].lead = a.elements[i].lead /\ b.elements[i].inline = a.elements[i].inline
      /\ \A j \in 1..n : j # i => b.elements[j] = a.elements[j]
  BY RevalTyped
<1> HIDE DEF b
<1>2. /\ a.elements \in Seq(Node) /\ b.elements \in Seq(Node) /\ n \in Nat
      /\ DOMAIN a.elements = 1..n /\ DOMAIN b.elements = 1..n
      /\ \A j \in 1..n : a.elements[j] \in Node /\ b.elements[j] \in Node
  BY <1>1 DEF ArrayNode
<1>3. /\ B = [j \in 1..n |-> Line(a.elements[j])] /\ C = [j \in 1..n |-> Line(b.elements[j])]
  BY <1>2 DEF ElementLine, Line
<1> HIDE DEF B, C
<1>4. /\ B \in Seq(Seq(Tokens)) /\ Len(B) = n /\ C \in Seq(Seq(Tokens)) /\ Len(C) = n
      /\ \A j \in 1..n : B[j] = Line(a.elements[j]) /\ C[j] = Line(b.elements[j])
  <2>1. \A j \in 1..n : Line(a.elements[j]) \in Seq(Tokens) /\ Line(b.elements[j]) \in Seq(Tokens)
    BY <1>2, LineAround
  <2>2. n \in Nat /\ B = [j \in 1..n |-> Line(a.elements[j])]
        /\ C = [j \in 1..n |-> Line(b.elements[j])]
    BY <1>2, <1>3
  <2> HIDE DEF n
  <2>3. B \in Seq(Seq(Tokens)) /\ Len(B) = n /\ \A j \in 1..n : B[j] = Line(a.elements[j])
    BY <2>1, <2>2
  <2>4. C \in Seq(Seq(Tokens)) /\ Len(C) = n /\ \A j \in 1..n : C[j] = Line(b.elements[j])
    BY <2>1, <2>2
  <2>5. QED
    BY <2>3, <2>4
<1>5. k \in Seq(Tokens) /\ h \in Seq(GapTokens)
  BY GapsTyped DEF ArrayNode
<1>6. \A j \in 1..n : OneValue(B[j])
  <2> SUFFICES ASSUME NEW j \in 1..n PROVE OneValue(B[j])
    OBVIOUS
  <2>1. a.elements[j] \in Node /\ B[j] = Line(a.elements[j])
    BY <1>2, <1>4
  <2>2. QED
    <3>1. Around(B[j], B[j], a.elements[j].val, a.elements[j].val)
      BY <2>1, LineAround, ZenonT(40) DEF Around
    <3>2. QED
      BY <2>1, <3>1, LineAround DEF OneValue
<1>7. Around(B[i], C[i], x, v) /\ x \in Names
  <2>1. a.elements[i] \in Node /\ b.elements[i] \in Node
    BY <1>2
  <2>2. Rest(b.elements[i]) = Rest(a.elements[i])
    BY <1>1 DEF Rest
  <2>3. B[i] = Line(a.elements[i]) /\ C[i] = Line(b.elements[i])
    BY <1>4
  <2>4. QED
    BY <1>1, <2>1, <2>2, <2>3, LineAround DEF Around
<1>8. \A j \in 1..n : j # i => C[j] = B[j]
  BY <1>1, <1>4
<1>9. Rewrites((h \o FlattenSeq(B)) \o k, (h \o FlattenSeq(C)) \o k, i, v)
  <2> HIDE DEF h, x, k
  <2>1. QED
    BY <1>4, <1>5, <1>6, <1>7, <1>8, OneReplaced
<1>10. MultiLine(a) = (h \o FlattenSeq(B)) \o k /\ MultiLine(b) = (h \o FlattenSeq(C)) \o k
  BY <1>1 DEF MultiLine, B, C
<1>11. QED
  BY <1>9, <1>10 DEF b

LEMMA InOneLineReplaced ==
  ASSUME NEW a \in ArrayNode, NEW i \in 1..Len(a.elements), NEW v \in Names
  PROVE  Rewrites(InOneLine(a), InOneLine(Reval(a, i, v)), i, v)
<1> DEFINE b == Reval(a, i, v)
           n == Len(a.elements)
           Gap(j) == IF j = 1 THEN <<>> ELSE <<Comma>>
           B == [j \in DOMAIN a.elements |-> Gap(j) \o <<Value(a.elements[j].val)>>]
           C == [j \in DOMAIN b.elements |-> Gap(j) \o <<Value(b.elements[j].val)>>]
           x == a.elements[i].val
           e == <<>>
<1>1. /\ b \in ArrayNode /\ Len(b.elements) = n /\ b.elements[i].val = v
      /\ \A j \in 1..n : j # i => b.elements[j] = a.elements[j]
  BY RevalTyped
<1> HIDE DEF b
<1>2. /\ a.elements \in Seq(Node) /\ b.elements \in Seq(Node) /\ n \in Nat
      /\ DOMAIN a.elements = 1..n /\ DOMAIN b.elements = 1..n
  BY <1>1 DEF ArrayNode
<1>3. \A j \in 1..n : /\ a.elements[j].val \in Names /\ b.elements[j].val \in Names
                      /\ Gap(j) \in Seq(GapTokens)
  <2>1. \A z \in Node : z.val \in Names
    BY DEF Node
  <2>2. \A j \in 1..n : a.elements[j] \in Node /\ b.elements[j] \in Node
    BY <1>2
  <2>3. \A j \in 1..n : Gap(j) \in Seq(GapTokens)
    BY GapsTyped
  <2>4. QED
    BY <2>1, <2>2, <2>3
<1>4. InOneLine(a) = FlattenSeq(B) /\ InOneLine(b) = FlattenSeq(C)
  BY DEF InOneLine
<1>5. /\ B = [j \in 1..n |-> Gap(j) \o <<Value(a.elements[j].val)>>]
      /\ C = [j \in 1..n |-> Gap(j) \o <<Value(b.elements[j].val)>>]
  BY <1>2
<1> HIDE DEF B, C, Gap
<1>6. ASSUME NEW j \in 1..n
      PROVE  /\ B[j] = Gap(j) \o (<<Value(a.elements[j].val)>> \o e)
             /\ C[j] = Gap(j) \o (<<Value(b.elements[j].val)>> \o e)
             /\ B[j] \in Seq(Tokens) /\ C[j] \in Seq(Tokens)
  <2>1. B[j] = Gap(j) \o <<Value(a.elements[j].val)>> /\ C[j] = Gap(j) \o <<Value(b.elements[j].val)>>
    BY <1>5
  <2>2. \A y \in Names : <<Value(y)>> \in Seq(Tokens)
    BY Kinds
  <2>3. B[j] \in Seq(Tokens) /\ C[j] \in Seq(Tokens)
    BY <1>3, <2>1, <2>2, GapsTyped, ConcatTyped
  <2>4. QED
    BY <1>3, <2>1, <2>3, BehindGap
<1>7. B \in Seq(Seq(Tokens)) /\ Len(B) = n /\ C \in Seq(Seq(Tokens)) /\ Len(C) = n
  <2>1. B = [j \in 1..n |-> B[j]] /\ C = [j \in 1..n |-> C[j]]
    BY <1>5
  <2>2. \A j \in 1..n : B[j] \in Seq(Tokens) /\ C[j] \in Seq(Tokens)
    BY <1>6
  <2>3. B \in Seq(Seq(Tokens)) /\ Len(B) = n
    BY <1>2, <2>1, <2>2, MakeSeq
  <2>4. C \in Seq(Seq(Tokens)) /\ Len(C) = n
    BY <1>2, <2>1, <2>2, MakeSeq
  <2>5. QED
    BY <2>3, <2>4
<1>8. \A j \in 1..n : OneValue(B[j])
  <2> SUFFICES ASSUME NEW j \in 1..n PROVE OneValue(B[j])
    OBVIOUS
  <2>1. Around(B[j], B[j], a.elements[j].val, a.elements[j].val)
    BY <1>3, <1>6, GapsTyped DEF Around
  <2>2. QED
    BY <1>3, <2>1 DEF OneValue
<1>9. Around(B[i], C[i], x, v) /\ x \in Names
  BY <1>1, <1>3, <1>6, GapsTyped DEF Around
<1>10. \A j \in 1..n : j # i => C[j] = B[j]
  BY <1>1, <1>5
<1>11. Rewrites((e \o FlattenSeq(B)) \o e, (e \o FlattenSeq(C)) \o e, i, v)
  <2>1. e \in Seq(GapTokens) /\ e \in Seq(Tokens)
    BY GapsTyped
  <2> HIDE DEF e, x
  <2>2. QED
    BY <1>7, <1>8, <1>9, <1>10, <2>1, OneReplaced
<1>12. (e \o FlattenSeq(B)) \o e = FlattenSeq(B) /\ (e \o FlattenSeq(C)) \o e = FlattenSeq(C)
  <2>1. FlattenSeq(B) \in Seq(Tokens) /\ FlattenSeq(C) \in Seq(Tokens)
    BY <1>7, FlattenTyped
  <2>2. QED
    BY <2>1, ConcatEmptySeq
<1> HIDE DEF e
<1>13. QED
  BY <1>4, <1>11, <1>12 DEF b

LEMMA RenderReplaced ==
  ASSUME NEW a \in ArrayNode, NEW i \in 1..Len(a.elements), NEW v \in Names
  PROVE  Rewrites(RenderArray(a), RenderArray(Reval(a, i, v)), i, v)
<1> DEFINE b == Reval(a, i, v)
<1>1. HasGaps(b) <=> HasGaps(a)
  BY RevalTyped
<1>2. HasComments(b) <=> HasComments(a)
  <2>1. /\ b.trailing = a.trailing /\ Len(b.elements) = Len(a.elements) /\ b \in ArrayNode
        /\ \A j \in 1..Len(a.elements) : /\ b.elements[j].lead = a.elements[j].lead
                                         /\ b.elements[j].inline = a.elements[j].inline
    BY RevalTyped
  <2> HIDE DEF b
  <2>2. DOMAIN a.elements = 1..Len(a.elements) /\ DOMAIN b.elements = 1..Len(a.elements)
    BY <2>1 DEF ArrayNode
  <2>3. QED
    BY <2>1, <2>2 DEF HasComments
<1> HIDE DEF b
<1>3. CASE HasGaps(a)
  BY <1>1, <1>3, SpliceReplaced DEF RenderArray, b
<1>4. CASE ~HasGaps(a) /\ HasComments(a)
  BY <1>1, <1>2, <1>4, MultiReplaced DEF RenderArray, b
<1>5. CASE ~HasGaps(a) /\ ~HasComments(a)
  BY <1>1, <1>2, <1>5, InOneLineReplaced DEF RenderArray, b
<1>6. QED
  BY <1>3, <1>4, <1>5 DEF b

\* A call that writes an element replaces the bytes of its value and no others,
\* whether the array is spliced from its gaps or laid out anew, and whatever was
\* edited before (setIndexInParent, setContents, containerGaps, renderArray).
THEOREM WritesOneValue == Spec => RestStands
<1> DEFINE Write(i, v) ==
             RenderArray(arr') = [RenderArray(arr) EXCEPT ![ValueAt(RenderArray(arr), i)] = Value(v)]
           OneValueWritten == \A i \in Elements, v \in Values : Set(i, v) => Write(i, v)
<1>1. ASSUME IInv PROVE OneValueWritten
  <2> SUFFICES ASSUME NEW i \in Elements, NEW v \in Values, Set(i, v) PROVE Write(i, v)
    OBVIOUS
  <2>1. arr \in ArrayNode /\ arr.elements \in Seq(Node) /\ i \in 1..Len(arr.elements) /\ v \in Names
    BY <1>1, InputsAssumption DEF IInv, ArrayNode, Elements
  <2>2. arr' = Reval(arr, i, v)
    <3>1. Swapped(arr.elements, i, v) = [arr.elements EXCEPT ![i] = Replaced(@, v)]
      BY DEF Swapped
    <3>2. Len(Swapped(arr.elements, i, v)) = Len(arr.elements)
      BY <2>1 DEF Swapped
    <3>3. arr' = SetContents(Swapped(arr.elements, i, v))
      BY <3>1 DEF Set
    <3>4. arr' = [arr EXCEPT !.elements = Swapped(arr.elements, i, v), !.gaps = arr.gaps]
      BY <3>2, <3>3 DEF SetContents
    <3>5. QED
      BY <2>1, <3>4 DEF Reval, ArrayNode
  <2>3. Rewrites(RenderArray(arr), RenderArray(Reval(arr, i, v)), i, v)
    BY <2>1, RenderReplaced
  <2>4. QED
    BY <2>2, <2>3 DEF Rewrites
<1>2. IInv /\ [Next]_vars => [OneValueWritten]_vars
  <2> HIDE DEF OneValueWritten
  <2>1. QED
    BY <1>1
<1>3. QED
  BY <1>2, InitInv, NextInv, PTL DEF Spec, RestStands
=============================================================================
