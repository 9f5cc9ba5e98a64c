-------------------------- MODULE DocTriviaProofs ---------------------------
(***************************************************************************)
(* What is edited reads back, formatted or not, and loses no comment: for  *)
(* documents of any size and calls in any number.                          *)
(*                                                                         *)
(* A document tells its constructs and comments node by node, and a text   *)
(* line by line.  Bytes and Format write what the document tells (BytesTold*)
(* and DocumentShown), the parser reads what the text tells (ParsedTold),  *)
(* and every call leaves nodes of which both are so (SoundNode).           *)
(***************************************************************************)
EXTENDS DocTrivia, SequenceTheorems, FiniteSetTheorems, WellFoundedInduction, TLAPS

---------------------------------------------------------------------------
(***************************************************************************)
(* Readings: what lines tell, and what nodes tell.                         *)
(***************************************************************************)
\* What a document tells, told by its lines.
TellLine(told, line) ==
  IF line.k = "blank" THEN told
  ELSE IF line.k = "comment" THEN [told EXCEPT !.above = Append(@, line.note)]
  ELSE [constructs |-> Append(told.constructs, [k |-> line.k, x |-> line.x, note |-> line.note,
                                                above |-> told.above]),
        above |-> <<>>]

Reads == INSTANCE FoldLemmas WITH Step <- ReadLine
Builds == INSTANCE FoldLemmas WITH Step <- BuildAppend
Lays == INSTANCE FoldLemmas WITH Step <- Serialize
ByLine == INSTANCE FoldLemmas WITH Step <- TellLine
ByNode == INSTANCE FoldLemmas WITH Step <- Tell

Read(r, text) == Reads!Fold(r, text)
Build(nodes, ns) == Builds!Fold(nodes, ns)
Lay(buf, ns) == Lays!Fold(buf, ns)
LinesTell(told, lines) == ByLine!Fold(told, lines)
NodesTell(told, ns) == ByNode!Fold(told, ns)

LEMMA ReadIs == \A r, s : FoldLeft(ReadLine, r, s) = Read(r, s)
BY DEF Read, Reads!Fold, FoldLeft, MapThenFoldSet, Reads!FoldLeft, Reads!MapThenFoldSet,
       Max, Reads!Max

LEMMA BuildIs == \A r, s : FoldLeft(BuildAppend, r, s) = Build(r, s)
BY DEF Build, Builds!Fold, FoldLeft, MapThenFoldSet, Builds!FoldLeft, Builds!MapThenFoldSet,
       Max, Builds!Max

LEMMA LayIs == \A r, s : FoldLeft(Serialize, r, s) = Lay(r, s)
BY DEF Lay, Lays!Fold, FoldLeft, MapThenFoldSet, Lays!FoldLeft, Lays!MapThenFoldSet,
       Max, Lays!Max

LEMMA TellIs == \A r, s : FoldLeft(Tell, r, s) = NodesTell(r, s)
BY DEF NodesTell, ByNode!Fold, FoldLeft, MapThenFoldSet, ByNode!FoldLeft, ByNode!MapThenFoldSet,
       Max, ByNode!Max

LEMMA FlattenIs == \A ss : FlattenSeq(ss) = ByLine!FlattenSeq(ss) /\ FlattenSeq(ss) = ByNode!FlattenSeq(ss)
BY DEF FlattenSeq, ByLine!FlattenSeq, ByNode!FlattenSeq

LEMMA Induct ==
  ASSUME NEW S, 0 \in S, \A n \in Nat : n \in S => n + 1 \in S
  PROVE  Nat \subseteq S
BY ByLine!Induct, Zenon

LEMMA FlattenTyped ==
  ASSUME NEW T, NEW ss \in Seq(Seq(T))
  PROVE  FlattenSeq(ss) \in Seq(T)
<1>1. ByLine!FlattenSeq(ss) \in Seq(T)
  BY ByLine!FlattenTyped, Zenon
<1>2. QED
  BY <1>1, FlattenIs

LEMMA FlattenAppend ==
  ASSUME NEW T, NEW ss \in Seq(Seq(T)), NEW s \in Seq(T)
  PROVE  FlattenSeq(Append(ss, s)) = FlattenSeq(ss) \o s
BY ByLine!FlattenAppend, FlattenIs, Zenon

\* Runs of each reading.
LEMMA ReadRun ==
  ASSUME NEW T, NEW base, NEW s \in Seq(T)
  PROVE  \E f : /\ f[0] = base /\ f[Len(s)] = Read(base, s) /\ DOMAIN f = 0..Len(s)
                /\ \A k \in 1..Len(s) : f[k] = ReadLine(f[k - 1], s[k])
BY Reads!FoldRun, SMTT(40) DEF Read

LEMMA LayRun ==
  ASSUME NEW T, NEW base, NEW s \in Seq(T)
  PROVE  \E f : /\ f[0] = base /\ f[Len(s)] = Lay(base, s) /\ DOMAIN f = 0..Len(s)
                /\ \A k \in 1..Len(s) : f[k] = Serialize(f[k - 1], s[k])
BY Lays!FoldRun, SMTT(40) DEF Lay

LEMMA BuildRun ==
  ASSUME NEW T, NEW base, NEW s \in Seq(T)
  PROVE  \E f : /\ f[0] = base /\ f[Len(s)] = Build(base, s) /\ DOMAIN f = 0..Len(s)
                /\ \A k \in 1..Len(s) : f[k] = BuildAppend(f[k - 1], s[k])
BY Builds!FoldRun DEF Build

LEMMA LinesRun ==
  ASSUME NEW T, NEW base, NEW s \in Seq(T)
  PROVE  \E f : /\ f[0] = base /\ f[Len(s)] = LinesTell(base, s) /\ DOMAIN f = 0..Len(s)
                /\ \A k \in 1..Len(s) : f[k] = TellLine(f[k - 1], s[k])
BY ByLine!FoldRun DEF LinesTell

LEMMA NodesRun ==
  ASSUME NEW T, NEW base, NEW s \in Seq(T)
  PROVE  \E f : /\ f[0] = base /\ f[Len(s)] = NodesTell(base, s) /\ DOMAIN f = 0..Len(s)
                /\ \A k \in 1..Len(s) : f[k] = Tell(f[k - 1], s[k])
BY ByNode!FoldRun DEF NodesTell

LEMMA LinesNone == \A t : LinesTell(t, <<>>) = t
BY ByLine!FoldEmpty DEF LinesTell

LEMMA NodesNone == \A t : NodesTell(t, <<>>) = t
BY ByNode!FoldEmpty DEF NodesTell

LEMMA LinesAppend ==
  ASSUME NEW T, NEW t, NEW s \in Seq(T), NEW x \in T
  PROVE  LinesTell(t, Append(s, x)) = TellLine(LinesTell(t, s), x)
BY ByLine!FoldAppend DEF LinesTell

LEMMA NodesAppend ==
  ASSUME NEW T, NEW t, NEW s \in Seq(T), NEW x \in T
  PROVE  NodesTell(t, Append(s, x)) = Tell(NodesTell(t, s), x)
BY ByNode!FoldAppend DEF NodesTell

LEMMA LinesConcat ==
  ASSUME NEW T, NEW t, NEW s \in Seq(T), NEW u \in Seq(T)
  PROVE  LinesTell(t, s \o u) = LinesTell(LinesTell(t, s), u)
BY ByLine!FoldConcat DEF LinesTell

LEMMA NodesConcat ==
  ASSUME NEW T, NEW t, NEW s \in Seq(T), NEW u \in Seq(T)
  PROVE  NodesTell(t, s \o u) = NodesTell(NodesTell(t, s), u)
BY ByNode!FoldConcat DEF NodesTell

LEMMA LinesFlatten ==
  ASSUME NEW T, NEW t, NEW ss \in Seq(Seq(T)), NEW f, f[0] = t,
         \A k \in 1..Len(ss) : LinesTell(f[k - 1], ss[k]) = f[k]
  PROVE  LinesTell(t, FlattenSeq(ss)) = f[Len(ss)]
<1>1. \A k \in 1..Len(ss) : ByLine!Fold(f[k - 1], ss[k]) = f[k]
  BY DEF LinesTell
<1>2. ByLine!Fold(t, ByLine!FlattenSeq(ss)) = f[Len(ss)]
  BY <1>1, ByLine!FoldFlatten, SMTT(30)
<1>3. QED
  BY <1>2, FlattenIs DEF LinesTell

LEMMA NodesFlatten ==
  ASSUME NEW T, NEW t, NEW ss \in Seq(Seq(T)), NEW f, f[0] = t,
         \A k \in 1..Len(ss) : NodesTell(f[k - 1], ss[k]) = f[k]
  PROVE  NodesTell(t, FlattenSeq(ss)) = f[Len(ss)]
<1>1. \A k \in 1..Len(ss) : ByNode!Fold(f[k - 1], ss[k]) = f[k]
  BY DEF NodesTell
<1>2. ByNode!Fold(t, ByNode!FlattenSeq(ss)) = f[Len(ss)]
  BY <1>1, ByNode!FoldFlatten, SMTT(30)
<1>3. QED
  BY <1>2, FlattenIs DEF NodesTell

LEMMA LinesSame ==
  ASSUME NEW T, NEW t, NEW s \in Seq(T), \A x \in T : TellLine(t, x) = t
  PROVE  LinesTell(t, s) = t
BY ByLine!FoldSame, Zenon DEF LinesTell

LEMMA LinesKeep ==
  ASSUME NEW T, NEW I, NEW t \in I, NEW s \in Seq(T), \A r \in I, x \in T : TellLine(r, x) \in I
  PROVE  LinesTell(t, s) \in I
BY ByLine!FoldKeeps, Zenon DEF LinesTell

LEMMA NodesKeep ==
  ASSUME NEW T, NEW I, NEW t \in I, NEW s \in Seq(T), \A r \in I, x \in T : Tell(r, x) \in I
  PROVE  NodesTell(t, s) \in I
BY ByNode!FoldKeeps, Zenon DEF NodesTell

---------------------------------------------------------------------------
(***************************************************************************)
(* What lines tell.                                                        *)
(***************************************************************************)
NoteTexts == Seq(Names \cup {Hash})
Constructed == [k : {"pair", "header", "comment", "blank", "text"}, x : Names \cup {0},
          note : NoteTexts, above : Seq(NoteTexts)]
Tellings == [constructs : Seq(Constructed), above : Seq(NoteTexts)]

NotesOf(cs) == [i \in DOMAIN cs |-> cs[i].note]
WithAbove(t, notes) == [t EXCEPT !.above = @ \o notes]
WithConstruct(t, k, x, note) ==
  [constructs |-> Append(t.constructs, [k |-> k, x |-> x, note |-> note, above |-> t.above]),
   above |-> <<>>]

CommentLines == {line \in Lines : line.k = "comment" /\ line.note # <<>>}
BlankLines == {line \in Lines : line.k = "blank"}
Ended(lines) == {line \in lines : line.nl}

LEMMA LineTyped ==
  ASSUME NEW line \in Lines
  PROVE  /\ line.note \in NoteTexts /\ line.x \in Names \cup {0} /\ line.in \in Nat /\ line.gap \in Nat
         /\ line.k \in {"pair", "header", "comment", "blank"} /\ line.nl \in BOOLEAN
         /\ line = [k |-> line.k, in |-> line.in, x |-> line.x, gap |-> line.gap,
                    note |-> line.note, nl |-> line.nl]
BY DEF Lines, NoteTexts

LEMMA NotesTyped ==
  ASSUME NEW cs \in Seq(Lines)
  PROVE  /\ NotesOf(cs) \in Seq(NoteTexts) /\ Len(NotesOf(cs)) = Len(cs)
         /\ \A i \in 1..Len(cs) : NotesOf(cs)[i] = cs[i].note
<1>1. DOMAIN cs = 1..Len(cs) /\ Len(cs) \in Nat /\ \A i \in 1..Len(cs) : cs[i].note \in NoteTexts
  BY LineTyped
<1>2. NotesOf(cs) = [i \in 1..Len(cs) |-> cs[i].note]
  BY <1>1 DEF NotesOf
<1>3. NotesOf(cs) \in [1..Len(cs) -> NoteTexts]
  BY <1>1, <1>2
<1>4. QED
  BY <1>1, <1>2, <1>3

\* A note more.
LEMMA SameSeq ==
  ASSUME NEW S, NEW s \in Seq(S), NEW t \in Seq(S), Len(s) = Len(t),
         \A i \in 1..Len(s) : s[i] = t[i]
  PROVE  s = t
OBVIOUS

Appends(s, t, x) == Append(s \o t, x) = s \o Append(t, x)

LEMMA AppendConcat ==
  ASSUME NEW S, NEW s \in Seq(S), NEW t \in Seq(S), NEW x \in S
  PROVE  Appends(s, t, x)
<1> DEFINE m == Len(s)
           k == Len(t)
           q == Append(t, x)
           l == s \o t
           a == Append(l, x)
           b == s \o q
<1>1. /\ l \in Seq(S) /\ Len(l) = m + k /\ m \in Nat /\ k \in Nat
      /\ \A i \in 1..(m + k) : l[i] = IF i <= m THEN s[i] ELSE t[i - m]
  BY ConcatProperties
<1>2. q \in Seq(S) /\ Len(q) = k + 1 /\ q[k + 1] = x /\ \A i \in 1..k : q[i] = t[i]
  BY AppendProperties
<1> HIDE DEF l, q
<1>3. /\ a \in Seq(S) /\ Len(a) = m + (k + 1) /\ a[m + k + 1] = x
      /\ \A i \in 1..(m + k) : a[i] = l[i]
  BY <1>1, AppendProperties
<1>4. /\ b \in Seq(S) /\ Len(b) = m + (k + 1)
      /\ \A i \in 1..(m + (k + 1)) : b[i] = IF i <= m THEN s[i] ELSE q[i - m]
  BY <1>1, <1>2, ConcatProperties
<1> HIDE DEF m, k, a, b
<1>5. ASSUME NEW i \in 1..(m + (k + 1)) PROVE a[i] = b[i]
  <2>1. CASE i = m + k + 1
    <3>1. ~(i <= m) /\ i - m = k + 1
      BY <1>1, <2>1
    <3>2. b[i] = q[k + 1]
      BY <1>4, <3>1
    <3>3. QED
      BY <1>2, <1>3, <2>1, <3>2
  <2>2. CASE i # m + k + 1
    <3>1. i \in 1..(m + k)
      BY <1>1, <2>2
    <3>2. a[i] = IF i <= m THEN s[i] ELSE t[i - m]
      BY <1>1, <1>3, <3>1
    <3>3. ~(i <= m) => i - m \in 1..k
      BY <1>1, <3>1
    <3>4. QED
      BY <1>2, <1>4, <3>2, <3>3
  <2>3. QED
    BY <2>1, <2>2
<1>6. a = b
  BY <1>3, <1>4, <1>5, SameSeq
<1>7. QED
  BY <1>6 DEF Appends, a, b, l, q

LEMMA NotesAppend ==
  ASSUME NEW cs \in Seq(Lines), NEW c \in Lines
  PROVE  NotesOf(Append(cs, c)) = Append(NotesOf(cs), c.note)
<1> DEFINE ds == Append(cs, c)
           s == NotesOf(ds)
           t == Append(NotesOf(cs), c.note)
           n == Len(cs)
<1>1. ds \in Seq(Lines) /\ Len(ds) = n + 1 /\ n \in Nat /\ ds[n + 1] = c
      /\ \A i \in 1..n : ds[i] = cs[i]
  OBVIOUS
<1> HIDE DEF ds
<1>2. s \in Seq(NoteTexts) /\ Len(s) = n + 1 /\ \A i \in 1..(n + 1) : s[i] = ds[i].note
  BY <1>1, NotesTyped
<1>3. /\ NotesOf(cs) \in Seq(NoteTexts) /\ Len(NotesOf(cs)) = n /\ c.note \in NoteTexts
      /\ \A i \in 1..n : NotesOf(cs)[i] = cs[i].note
  BY NotesTyped, LineTyped
<1>4. t \in Seq(NoteTexts) /\ Len(t) = n + 1 /\ t[n + 1] = c.note
      /\ \A i \in 1..n : t[i] = NotesOf(cs)[i]
  BY <1>1, <1>3, AppendProperties
<1> HIDE DEF s, t
<1>5. \A i \in 1..(n + 1) : s[i] = t[i]
  <2> SUFFICES ASSUME NEW i \in 1..(n + 1) PROVE s[i] = t[i]
    OBVIOUS
  <2>1. CASE i = n + 1
    BY <1>1, <1>2, <1>4, <2>1
  <2>2. CASE i # n + 1
    <3>1. i \in 1..n
      BY <1>1, <2>2
    <3>2. QED
      BY <1>1, <1>2, <1>3, <1>4, <3>1
  <2>3. QED
    BY <2>1, <2>2
<1>6. Len(s) = Len(t) /\ \A i \in 1..Len(s) : s[i] = t[i]
  BY <1>2, <1>4, <1>5
<1>7. s = t
  BY <1>2, <1>4, <1>6, SameSeq, Zenon
<1>8. QED
  BY <1>7 DEF s, t, ds

LEMMA TellingIs ==
  ASSUME NEW t \in Tellings
  PROVE  /\ t = [constructs |-> t.constructs, above |-> t.above]
         /\ t.constructs \in Seq(Constructed) /\ t.above \in Seq(NoteTexts)
BY DEF Tellings

\* Each line's telling, by its kind.
LEMMA TellBlank == \A t, line : line.k = "blank" => TellLine(t, line) = t
BY DEF TellLine

LEMMA TellComment ==
  ASSUME NEW t \in Tellings, NEW line \in Lines, line.k = "comment"
  PROVE  /\ TellLine(t, line) = [constructs |-> t.constructs, above |-> Append(t.above, line.note)]
         /\ TellLine(t, line) \in Tellings
<1>1. /\ t = [constructs |-> t.constructs, above |-> t.above]
      /\ t.constructs \in Seq(Constructed) /\ t.above \in Seq(NoteTexts) /\ line.note \in NoteTexts
  BY TellingIs, LineTyped
<1>2. TellLine(t, line) = [t EXCEPT !.above = Append(@, line.note)]
  BY DEF TellLine
<1>3. TellLine(t, line) = [constructs |-> t.constructs, above |-> Append(t.above, line.note)]
  BY <1>1, <1>2
<1>4. Append(t.above, line.note) \in Seq(NoteTexts)
  BY <1>1
<1>5. QED
  BY <1>1, <1>3, <1>4 DEF Tellings

LEMMA ConstructTyped ==
  ASSUME NEW t \in Tellings, NEW k \in {"pair", "header", "comment", "blank", "text"},
         NEW x \in Names \cup {0}, NEW note \in NoteTexts
  PROVE  WithConstruct(t, k, x, note) \in Tellings
<1> DEFINE e == [k |-> k, x |-> x, note |-> note, above |-> t.above]
<1>1. t.constructs \in Seq(Constructed) /\ t.above \in Seq(NoteTexts)
  BY TellingIs
<1>2. e \in Constructed
  BY <1>1 DEF Constructed
<1> HIDE DEF e
<1>3. Append(t.constructs, e) \in Seq(Constructed) /\ <<>> \in Seq(NoteTexts)
  BY <1>1, <1>2
<1>4. WithConstruct(t, k, x, note) = [constructs |-> Append(t.constructs, e), above |-> <<>>]
  BY DEF WithConstruct, e
<1>5. QED
  BY <1>3, <1>4 DEF Tellings

LEMMA TellConstruct ==
  ASSUME NEW t \in Tellings, NEW line \in Lines, line.k \in {"pair", "header"}
  PROVE  /\ TellLine(t, line) = WithConstruct(t, line.k, line.x, line.note)
         /\ TellLine(t, line) \in Tellings
<1>1. line.k # "blank" /\ line.k # "comment"
  OBVIOUS
<1>2. TellLine(t, line) = WithConstruct(t, line.k, line.x, line.note)
  BY <1>1 DEF TellLine, WithConstruct
<1>3. line.x \in Names \cup {0} /\ line.note \in NoteTexts
  BY LineTyped
<1>4. QED
  BY <1>2, <1>3, ConstructTyped

LEMMA TellTyped ==
  ASSUME NEW t \in Tellings, NEW line \in Lines
  PROVE  TellLine(t, line) \in Tellings
<1>1. line.k \in {"pair", "header", "comment", "blank"}
  BY LineTyped
<1>2. QED
  BY <1>1, TellBlank, TellComment, TellConstruct

LEMMA LinesTyped ==
  ASSUME NEW t \in Tellings, NEW lines \in Seq(Lines)
  PROVE  LinesTell(t, lines) \in Tellings
<1>1. \A r \in Tellings, line \in Lines : TellLine(r, line) \in Tellings
  BY TellTyped
<1>2. QED
  BY <1>1, LinesKeep, Zenon

LEMMA AboveTyped ==
  ASSUME NEW t \in Tellings, NEW notes \in Seq(NoteTexts)
  PROVE  /\ WithAbove(t, notes) \in Tellings
         /\ WithAbove(t, notes) = [constructs |-> t.constructs, above |-> t.above \o notes]
<1>1. /\ t = [constructs |-> t.constructs, above |-> t.above]
      /\ t.constructs \in Seq(Constructed) /\ t.above \in Seq(NoteTexts)
  BY TellingIs
<1> DEFINE b == t.above \o notes
<1>2. WithAbove(t, notes) = [t EXCEPT !.above = b]
  BY DEF WithAbove
<1>3. b \in Seq(NoteTexts)
  BY <1>1
<1> HIDE DEF b
<1>4. WithAbove(t, notes) = [constructs |-> t.constructs, above |-> b]
  BY <1>1, <1>2
<1>5. [constructs |-> t.constructs, above |-> b] \in Tellings
  BY <1>1, <1>3 DEF Tellings
<1>6. QED
  BY <1>4, <1>5 DEF b

LEMMA AboveNone == \A t \in Tellings : WithAbove(t, <<>>) = t
<1> SUFFICES ASSUME NEW t \in Tellings PROVE WithAbove(t, <<>>) = t
  OBVIOUS
<1>1. t = [constructs |-> t.constructs, above |-> t.above] /\ t.above \in Seq(NoteTexts)
  BY TellingIs
<1>2. <<>> \in Seq(NoteTexts) /\ t.above \o <<>> = t.above
  BY <1>1, ConcatEmptySeq
<1>3. WithAbove(t, <<>>) = [constructs |-> t.constructs, above |-> t.above \o <<>>]
  BY <1>2, AboveTyped
<1>4. QED
  BY <1>1, <1>2, <1>3

LEMMA AboveOne ==
  ASSUME NEW t \in Tellings, NEW notes \in Seq(NoteTexts), NEW line \in Lines, line.k = "comment"
  PROVE  TellLine(WithAbove(t, notes), line) = WithAbove(t, Append(notes, line.note))
<1> DEFINE b == t.above
           c == line.note
           u == WithAbove(t, notes)
<1>1. b \in Seq(NoteTexts) /\ c \in NoteTexts
  BY TellingIs, LineTyped
<1> HIDE DEF b, c
<1>2. Append(b \o notes, c) = b \o Append(notes, c) /\ Append(notes, c) \in Seq(NoteTexts)
  BY <1>1
<1>3. u \in Tellings /\ u = [constructs |-> t.constructs, above |-> b \o notes]
  BY AboveTyped DEF b
<1>4. u.constructs = t.constructs /\ u.above = b \o notes
  BY <1>3
<1> HIDE DEF u
<1>5. TellLine(u, line) = [constructs |-> u.constructs, above |-> Append(u.above, c)]
  BY <1>3, TellComment DEF c
<1>6. WithAbove(t, Append(notes, c)) = [constructs |-> t.constructs, above |-> b \o Append(notes, c)]
  BY <1>2, AboveTyped DEF b
<1>7. QED
  BY <1>2, <1>4, <1>5, <1>6 DEF c, u

\* Blank lines tell nothing.
LEMMA TellRun ==
  ASSUME NEW t, NEW run \in Seq(BlankLines)
  PROVE  LinesTell(t, run) = t
<1>1. \A line \in BlankLines : TellLine(t, line) = t
  BY TellBlank DEF BlankLines
<1>2. QED
  BY <1>1, LinesSame, Zenon

---------------------------------------------------------------------------
(***************************************************************************)
(* What stands above a construct: each comment behind its run of blank     *)
(* lines, and a run behind the last.                                       *)
(***************************************************************************)
TriviaBlocks(G, cs) == [i \in DOMAIN cs |-> Append(G[i], cs[i])]
Trivia(G, cs) == FlattenSeq(TriviaBlocks(G, cs)) \o G[Len(cs) + 1]

LEMMA TriviaTyped ==
  ASSUME NEW B, NEW G \in Seq(Seq(B)), NEW C, NEW cs \in Seq(C), Len(G) = Len(cs) + 1,
         NEW T, B \subseteq T, C \subseteq T
  PROVE  /\ TriviaBlocks(G, cs) \in Seq(Seq(T)) /\ Len(TriviaBlocks(G, cs)) = Len(cs)
         /\ \A i \in 1..Len(cs) : /\ TriviaBlocks(G, cs)[i] = Append(G[i], cs[i])
                                  /\ G[i] \in Seq(B) /\ cs[i] \in C
         /\ FlattenSeq(TriviaBlocks(G, cs)) \in Seq(T)
         /\ G[Len(cs) + 1] \in Seq(B) /\ G[Len(cs) + 1] \in Seq(T)
         /\ Trivia(G, cs) \in Seq(T)
<1> DEFINE n == Len(cs)
           X == TriviaBlocks(G, cs)
           f == FlattenSeq(X)
           g == G[n + 1]
<1>1. n \in Nat /\ DOMAIN cs = 1..n /\ n + 1 \in 1..Len(G) /\ \A i \in 1..n : i \in 1..Len(G)
  OBVIOUS
<1>2. \A i \in 1..n : G[i] \in Seq(B) /\ cs[i] \in C
  BY <1>1
<1>3. g \in Seq(B)
  BY <1>1
<1>4. Seq(B) \subseteq Seq(T)
  BY SeqMonotonic
<1>5. \A i \in 1..n : Append(G[i], cs[i]) \in Seq(T)
  <2> SUFFICES ASSUME NEW i \in 1..n PROVE Append(G[i], cs[i]) \in Seq(T)
    OBVIOUS
  <2> DEFINE p == G[i]
             q == cs[i]
  <2>1. p \in Seq(T) /\ q \in T
    BY <1>2, <1>4
  <2> HIDE DEF p, q
  <2>2. Append(p, q) \in Seq(T)
    BY <2>1
  <2>3. QED
    BY <2>2 DEF p, q
<1>6. X = [i \in 1..n |-> Append(G[i], cs[i])]
  BY <1>1 DEF TriviaBlocks
<1> HIDE DEF X
<1>7. \A i \in 1..n : X[i] = Append(G[i], cs[i])
  BY <1>6, Zenon
<1>8. X \in Seq(Seq(T)) /\ Len(X) = n
  <2>1. \A i \in 1..n : X[i] \in Seq(T)
    BY <1>5, <1>7
  <2> DEFINE D == Seq(T)
  <2>2. X \in [1..n -> D]
    BY <1>6, <2>1
  <2>3. n \in Nat
    BY <1>1
  <2> HIDE DEF D, n
  <2>4. X \in Seq(D) /\ Len(X) = n
    BY <2>2, <2>3
  <2>5. QED
    BY <2>4 DEF D, n
<1>9. f \in Seq(T)
  BY <1>8, FlattenTyped
<1> HIDE DEF f, g
<1>10. f \o g \in Seq(T)
  <2>1. g \in Seq(T)
    BY <1>3, <1>4
  <2>2. QED
    BY <1>9, <2>1
<1>11. g \in Seq(T)
  BY <1>3, <1>4
<1>12. Trivia(G, cs) = f \o g
  BY DEF Trivia, f, g, X
<1>13. QED
  BY <1>2, <1>3, <1>7, <1>8, <1>9, <1>10, <1>11, <1>12 DEF f, g, X

\* The notes up to a place.
LEMMA NotesUpTo ==
  ASSUME NEW q \in Seq(NoteTexts)
  PROVE  /\ SubSeq(q, 1, 0) = <<>> /\ SubSeq(q, 1, Len(q)) = q
         /\ \A k \in 1..Len(q) : /\ SubSeq(q, 1, k - 1) \in Seq(NoteTexts)
                                 /\ SubSeq(q, 1, k) = Append(SubSeq(q, 1, k - 1), q[k])
<1>1. SubSeq(q, 1, 0) = <<>> /\ SubSeq(q, 1, Len(q)) = q
  BY SubSeqEmpty, SubSeqFull
<1>2. ASSUME NEW k \in 1..Len(q)
      PROVE  /\ SubSeq(q, 1, k - 1) \in Seq(NoteTexts)
             /\ SubSeq(q, 1, k) = Append(SubSeq(q, 1, k - 1), q[k])
  OBVIOUS
<1>3. QED
  BY <1>1, <1>2

LEMMA TriviaTold ==
  ASSUME NEW t \in Tellings, NEW G \in Seq(Seq(BlankLines)),
         NEW cs \in Seq({line \in Lines : line.k = "comment"}), Len(G) = Len(cs) + 1
  PROVE  LinesTell(t, Trivia(G, cs)) = WithAbove(t, NotesOf(cs))
<1> DEFINE C == {line \in Lines : line.k = "comment"}
           X == TriviaBlocks(G, cs)
           q == NotesOf(cs)
           n == Len(cs)
           f == [k \in 0..n |-> WithAbove(t, SubSeq(q, 1, k))]
           g == G[n + 1]
           h == FlattenSeq(X)
<1>1. BlankLines \subseteq Lines /\ C \subseteq Lines
  BY DEF BlankLines
<1>2. cs \in Seq(C) /\ cs \in Seq(Lines) /\ n \in Nat
  <2>1. Seq(C) \subseteq Seq(Lines)
    BY <1>1, SeqMonotonic
  <2>2. QED
    BY <2>1
<1> HIDE DEF C
<1>3. /\ X \in Seq(Seq(Lines)) /\ Len(X) = n
      /\ \A i \in 1..n : X[i] = Append(G[i], cs[i]) /\ G[i] \in Seq(BlankLines) /\ cs[i] \in C
      /\ h \in Seq(Lines) /\ g \in Seq(BlankLines) /\ g \in Seq(Lines)
  BY <1>1, <1>2, TriviaTyped, SMTT(40)
<1>4. /\ q \in Seq(NoteTexts) /\ Len(q) = n /\ \A i \in 1..n : q[i] = cs[i].note
  BY <1>2, NotesTyped
<1>5. Trivia(G, cs) = h \o g
  BY DEF Trivia
<1> HIDE DEF X, q, g
<1>6. /\ SubSeq(q, 1, 0) = <<>> /\ SubSeq(q, 1, n) = q
      /\ \A k \in 1..n : /\ SubSeq(q, 1, k - 1) \in Seq(NoteTexts)
                         /\ SubSeq(q, 1, k) = Append(SubSeq(q, 1, k - 1), q[k])
  BY <1>4, NotesUpTo
<1>7. /\ 0 \in 0..n /\ n \in 0..n /\ \A k \in 1..n : k \in 0..n /\ k - 1 \in 0..n
  BY <1>2
<1>8. \A k \in 0..n : f[k] = WithAbove(t, SubSeq(q, 1, k))
  OBVIOUS
<1> HIDE DEF f
<1>9. f[0] = t /\ f[n] = WithAbove(t, q)
  BY <1>6, <1>7, <1>8, AboveNone
<1>10. ASSUME NEW k \in 1..n PROVE LinesTell(f[k - 1], X[k]) = f[k]
  <2> DEFINE u == f[k - 1]
             p == G[k]
             c == cs[k]
             m == SubSeq(q, 1, k - 1)
  <2>1. X[k] = Append(p, c) /\ p \in Seq(BlankLines) /\ c \in C
    BY <1>3
  <2>2. c \in Lines /\ c.k = "comment" /\ q[k] = c.note
    BY <1>4, <2>1 DEF C
  <2>3. p \in Seq(Lines)
    BY <1>1, <2>1, SeqMonotonic
  <2>4. u = WithAbove(t, m) /\ m \in Seq(NoteTexts)
    BY <1>6, <1>7, <1>8
  <2>5. f[k] = WithAbove(t, Append(m, c.note))
    BY <1>6, <1>7, <1>8, <2>2
  <2> HIDE DEF u, p, c, m
  <2>6. LinesTell(u, Append(p, c)) = TellLine(LinesTell(u, p), c)
    BY <2>2, <2>3, LinesAppend
  <2>7. LinesTell(u, p) = u
    BY <2>1, TellRun
  <2>8. TellLine(WithAbove(t, m), c) = WithAbove(t, Append(m, c.note))
    BY <2>2, <2>4, AboveOne
  <2>9. QED
    BY <2>1, <2>4, <2>5, <2>6, <2>7, <2>8 DEF u
<1>11. LinesTell(t, h) = f[n]
  <2>1. \A k \in 1..Len(X) : LinesTell(f[k - 1], X[k]) = f[k]
    BY <1>3, <1>10
  <2>2. LinesTell(t, FlattenSeq(X)) = f[Len(X)]
    BY <1>3, <1>9, <2>1, LinesFlatten
  <2>3. QED
    BY <1>3, <2>2
<1> HIDE DEF h
<1>12. LinesTell(t, h \o g) = LinesTell(LinesTell(t, h), g)
  BY <1>3, LinesConcat
<1>13. LinesTell(f[n], g) = f[n]
  BY <1>3, TellRun
<1>14. QED
  BY <1>5, <1>9, <1>11, <1>12, <1>13 DEF q

---------------------------------------------------------------------------
(***************************************************************************)
(* Nodes whose lines tell what they tell.                                  *)
(***************************************************************************)
\* A comment line, or a run of blank lines.
GoodText(n) ==
  /\ n.comments = <<>> /\ ~n.dirty /\ n.raw # <<>> /\ n.line = n.raw[1] /\ Readable(n.raw)
  /\ n.raw \in Seq(BlankLines) \/ (Len(n.raw) = 1 /\ n.line \in CommentLines)
\* A construct whose bytes, while nothing touched it, are its fragments.
GoodConstruct(n) ==
  /\ n.line.k = n.k
  /\ n.comments \in Seq(Ended(CommentLines)) /\ n.blanks \in Seq(Seq(Ended(BlankLines)))
  /\ ~n.dirty => n.raw = Append(RenderTrivia(n), n.line)
Good(n) == IF n.k = "text" THEN GoodText(n) ELSE GoodConstruct(n)
Goods == {n \in Node : Good(n)}

Runs(n) == [i \in 1..(Len(n.comments) + 1) |-> BlankRun(n, i)]

LEMMA LineKinds ==
  /\ CommentLines \subseteq {line \in Lines : line.k = "comment"} /\ BlankLines \subseteq Lines
  /\ Ended(CommentLines) \subseteq CommentLines /\ Ended(BlankLines) \subseteq BlankLines
  /\ Ended(CommentLines) \subseteq Ended(Lines) /\ Ended(BlankLines) \subseteq Ended(Lines)
  /\ Ended(Lines) \subseteq Lines /\ CommentLines \subseteq Lines
BY DEF CommentLines, BlankLines, Ended

\* The trivia of a construct is laid out.
LEMMA RunsTyped ==
  ASSUME NEW n \in Node, GoodConstruct(n)
  PROVE  /\ Runs(n) \in Seq(Seq(Ended(BlankLines))) /\ Len(Runs(n)) = Len(n.comments) + 1
         /\ n.comments \in Seq(Ended(CommentLines))
         /\ RenderTrivia(n) = Trivia(Runs(n), n.comments)
<1> DEFINE cs == n.comments
           m == Len(cs) + 1
           D == Seq(Ended(BlankLines))
           r == Runs(n)
<1>1. cs \in Seq(Ended(CommentLines)) /\ m \in Nat /\ n.blanks \in Seq(D)
  BY DEF GoodConstruct
<1>2. DOMAIN cs = 1..Len(cs) /\ Len(cs) \in Nat
  BY <1>1
<1>3. <<>> \in D
  OBVIOUS
<1> HIDE DEF D
<1>4. \A i : BlankRun(n, i) \in D
  BY <1>1, <1>3 DEF BlankRun
<1>5. r = [i \in 1..m |-> BlankRun(n, i)]
  BY DEF Runs
<1> HIDE DEF m, r
<1>6. r \in [1..m -> D]
  BY <1>4, <1>5
<1>7. r \in Seq(D) /\ Len(r) = m
  BY <1>1, <1>6
<1>8. \A i \in 1..Len(cs) : i \in 1..m
  BY <1>2 DEF m
<1>9. \A i \in 1..Len(cs) : r[i] = BlankRun(n, i)
  BY <1>5, <1>8
<1>10. m \in 1..m
  BY <1>2 DEF m
<1>11. r[m] = BlankRun(n, m)
  BY <1>5, <1>10
<1>12. TriviaBlocks(r, cs) = [i \in DOMAIN cs |-> Append(BlankRun(n, i), cs[i])]
  BY <1>2, <1>9, Zenon DEF TriviaBlocks
<1>13. RenderTrivia(n) = Trivia(r, cs)
  BY <1>11, <1>12 DEF RenderTrivia, Trivia, m
<1>14. QED
  BY <1>1, <1>7, <1>13 DEF D, m, r

LEMMA RenderTyped ==
  ASSUME NEW n \in Node, GoodConstruct(n)
  PROVE  RenderTrivia(n) \in Seq(Ended(Lines))
<1>1. /\ Runs(n) \in Seq(Seq(Ended(BlankLines))) /\ Len(Runs(n)) = Len(n.comments) + 1
      /\ n.comments \in Seq(Ended(CommentLines))
      /\ RenderTrivia(n) = Trivia(Runs(n), n.comments)
  BY RunsTyped
<1>2. Ended(BlankLines) \subseteq Ended(Lines) /\ Ended(CommentLines) \subseteq Ended(Lines)
  BY LineKinds
<1>3. Trivia(Runs(n), n.comments) \in Seq(Ended(Lines))
  BY <1>1, <1>2, TriviaTyped, ZenonT(40)
<1>4. QED
  BY <1>1, <1>3

LEMMA RenderTold ==
  ASSUME NEW t \in Tellings, NEW n \in Node, GoodConstruct(n)
  PROVE  LinesTell(t, RenderTrivia(n)) = WithAbove(t, NotesOf(n.comments))
<1>1. /\ Runs(n) \in Seq(Seq(Ended(BlankLines))) /\ Len(Runs(n)) = Len(n.comments) + 1
      /\ n.comments \in Seq(Ended(CommentLines))
      /\ RenderTrivia(n) = Trivia(Runs(n), n.comments)
  BY RunsTyped
<1>2. Runs(n) \in Seq(Seq(BlankLines))
  <2>1. Seq(Ended(BlankLines)) \subseteq Seq(BlankLines)
    BY LineKinds, SeqMonotonic
  <2>2. Seq(Seq(Ended(BlankLines))) \subseteq Seq(Seq(BlankLines))
    BY <2>1, SeqMonotonic
  <2>3. QED
    BY <1>1, <2>2
<1>3. n.comments \in Seq({line \in Lines : line.k = "comment"})
  <2>1. Ended(CommentLines) \subseteq {line \in Lines : line.k = "comment"}
    BY LineKinds
  <2>2. Seq(Ended(CommentLines)) \subseteq Seq({line \in Lines : line.k = "comment"})
    BY <2>1, SeqMonotonic
  <2>3. QED
    BY <1>1, <2>2
<1>4. LinesTell(t, Trivia(Runs(n), n.comments)) = WithAbove(t, NotesOf(n.comments))
  BY <1>1, <1>2, <1>3, TriviaTold
<1>5. QED
  BY <1>1, <1>4

\* What a construct is told as.
LEMMA ConstructTells ==
  ASSUME NEW t \in Tellings, NEW n \in Node, n.k # "text", n.comments \in Seq(Lines)
  PROVE  /\ WithAbove(t, NotesOf(n.comments)) \in Tellings
         /\ Tell(t, n) = WithConstruct(WithAbove(t, NotesOf(n.comments)), n.k, n.line.x, n.line.note)
         /\ Tell(t, n) \in Tellings
<1> DEFINE q == NotesOf(n.comments)
           u == WithAbove(t, q)
<1>1. q \in Seq(NoteTexts)
  BY NotesTyped
<1>2. Tell(t, n) = [constructs |-> Append(t.constructs,
                      [k |-> n.k, x |-> n.line.x, note |-> n.line.note, above |-> t.above \o q]),
                    above |-> <<>>]
  BY DEF Tell, NotesOf
<1> HIDE DEF q
<1>3. u \in Tellings /\ u = [constructs |-> t.constructs, above |-> t.above \o q]
  BY <1>1, AboveTyped
<1>4. u.constructs = t.constructs /\ u.above = t.above \o q
  BY <1>3
<1> HIDE DEF u
<1>5. Tell(t, n) = WithConstruct(u, n.k, n.line.x, n.line.note)
  BY <1>2, <1>4 DEF WithConstruct
<1>6. n.k \in {"pair", "text", "header"} /\ n.line \in Lines
  BY DEF Node
<1>7. n.line.x \in Names \cup {0} /\ n.line.note \in NoteTexts
  BY <1>6, LineTyped
<1>8. WithConstruct(u, n.k, n.line.x, n.line.note) \in Tellings
  BY <1>3, <1>6, <1>7, ConstructTyped
<1>9. QED
  BY <1>3, <1>5, <1>8 DEF q, u

LEMMA TextTells ==
  ASSUME NEW t \in Tellings, NEW n \in Node, n.k = "text", n.comments = <<>>
  PROVE  /\ n.line.k = "comment" => Tell(t, n) = TellLine(t, n.line)
         /\ n.line.k # "comment" => Tell(t, n) = t
         /\ Tell(t, n) \in Tellings
<1> DEFINE q == [i \in DOMAIN n.comments |-> n.comments[i].note]
           b == t.above \o q
<1>1. /\ t = [constructs |-> t.constructs, above |-> t.above]
      /\ t.constructs \in Seq(Constructed) /\ t.above \in Seq(NoteTexts)
  BY TellingIs
<1>2. q = <<>>
  OBVIOUS
<1> HIDE DEF q
<1>3. b = t.above
  BY <1>1, <1>2, ConcatEmptySeq
<1>4. Tell(t, n) = [t EXCEPT !.above = IF n.line.k = "comment" THEN Append(b, n.line.note) ELSE b]
  BY Zenon DEF Tell, q
<1> HIDE DEF b
<1>5. n.line.k # "comment" => Tell(t, n) = t
  BY <1>1, <1>3, <1>4
<1>6. n.line.k = "comment" => Tell(t, n) = [t EXCEPT !.above = Append(@, n.line.note)]
  BY <1>1, <1>3, <1>4
<1>7. n.line.k = "comment" => Tell(t, n) = TellLine(t, n.line)
  BY <1>6 DEF TellLine
<1>8. n.line \in Lines
  BY DEF Node
<1>9. QED
  BY <1>5, <1>7, <1>8, TellComment

\* A construct's line, with or without its newline.
LEMMA RenderLineIs ==
  ASSUME NEW n \in Node
  PROVE  /\ RenderLine(n) \in Lines /\ RenderLine(n).k = n.line.k
         /\ RenderLine(n).x = n.line.x /\ RenderLine(n).note = n.line.note
<1>1. n.line \in Lines
  BY DEF Node
<1> DEFINE l == n.line
           y == l.nl \/ n.raw = <<>>
<1>2. RenderLine(n) = [l EXCEPT !.nl = y]
  BY DEF RenderLine
<1>3. y \in BOOLEAN
  BY <1>1, LineTyped
<1> HIDE DEF l, y
<1>4. l \in Lines
  BY <1>1 DEF l
<1>5. QED
  BY <1>2, <1>3, <1>4 DEF Lines, l

\* What a construct is written as.
LEMMA SerializedAs ==
  ASSUME NEW n \in Node, GoodConstruct(n)
  PROVE  \E l \in Lines : /\ SerializeNode(n) = Append(RenderTrivia(n), l)
                          /\ l.k = n.k /\ l.x = n.line.x /\ l.note = n.line.note
<1>1. n.line \in Lines /\ n.line.k = n.k
  BY DEF Node, GoodConstruct
<1>2. CASE n.dirty
  <2>1. SerializeNode(n) = Append(RenderTrivia(n), RenderLine(n))
    BY <1>2 DEF SerializeNode
  <2>2. QED
    BY <1>1, <2>1, RenderLineIs
<1>3. CASE ~n.dirty
  <2>1. SerializeNode(n) = Append(RenderTrivia(n), n.line)
    BY <1>3 DEF SerializeNode, GoodConstruct
  <2>2. QED
    BY <1>1, <2>1
<1>4. QED
  BY <1>2, <1>3

LEMMA NodeTold ==
  ASSUME NEW t \in Tellings, NEW n \in Goods
  PROVE  LinesTell(t, SerializeNode(n)) = Tell(t, n) /\ Tell(t, n) \in Tellings
<1>1. n \in Node /\ Good(n)
  BY DEF Goods
<1>2. CASE n.k = "text"
  <2>1. GoodText(n)
    BY <1>1, <1>2 DEF Good
  <2>2. SerializeNode(n) = n.raw /\ n.comments = <<>> /\ n.raw # <<>> /\ n.line = n.raw[1]
    BY <2>1 DEF GoodText, SerializeNode
  <2>3. CASE n.raw \in Seq(BlankLines)
    <3>1. n.raw[1] \in BlankLines
      BY <2>2, <2>3
    <3>2. n.line.k # "comment"
      BY <2>2, <3>1 DEF BlankLines
    <3>3. LinesTell(t, n.raw) = t
      BY <2>3, TellRun
    <3>4. QED
      BY <1>1, <1>2, <2>2, <3>2, <3>3, TextTells
  <2>4. CASE Len(n.raw) = 1 /\ n.line \in CommentLines
    <3> DEFINE l == n.line
               e == <<>>
    <3>1. n.raw \in Seq(Lines)
      BY <1>1 DEF Node
    <3>2. n.raw = <<l>> /\ l \in Lines /\ l.k = "comment"
      BY <2>2, <2>4, <3>1 DEF CommentLines
    <3> HIDE DEF l
    <3>3. e \in Seq(Lines) /\ <<l>> = Append(e, l)
      OBVIOUS
    <3>4. LinesTell(t, e) = t
      BY LinesNone
    <3> HIDE DEF e
    <3>5. LinesTell(t, Append(e, l)) = TellLine(LinesTell(t, e), l)
      BY <3>2, <3>3, LinesAppend
    <3>6. Tell(t, n) = TellLine(t, l) /\ Tell(t, n) \in Tellings
      BY <1>1, <1>2, <2>2, <3>2, TextTells DEF l
    <3>7. QED
      BY <2>2, <3>2, <3>3, <3>4, <3>5, <3>6
  <2>5. QED
    BY <2>1, <2>3, <2>4 DEF GoodText
<1>3. CASE n.k # "text"
  <2>1. GoodConstruct(n)
    BY <1>1, <1>3 DEF Good
  <2>2. PICK l \in Lines : /\ SerializeNode(n) = Append(RenderTrivia(n), l)
                           /\ l.k = n.k /\ l.x = n.line.x /\ l.note = n.line.note
    BY <1>1, <2>1, SerializedAs
  <2> DEFINE s == RenderTrivia(n)
             u == WithAbove(t, NotesOf(n.comments))
  <2>3. s \in Seq(Lines)
    <3>1. Seq(Ended(Lines)) \subseteq Seq(Lines)
      BY LineKinds, SeqMonotonic
    <3>2. QED
      BY <1>1, <2>1, <3>1, RenderTyped
  <2>4. LinesTell(t, s) = u
    BY <1>1, <2>1, RenderTold
  <2>5. n.comments \in Seq(Lines) /\ n.k \in {"pair", "header"}
    BY <1>1, <1>3 DEF Node
  <2>6. u \in Tellings /\ Tell(t, n) = WithConstruct(u, n.k, n.line.x, n.line.note)
        /\ Tell(t, n) \in Tellings
    BY <1>1, <1>3, <2>5, ConstructTells
  <2> HIDE DEF s, u
  <2>7. LinesTell(t, Append(s, l)) = TellLine(u, l)
    BY <2>2, <2>3, <2>4, LinesAppend
  <2>8. TellLine(u, l) = WithConstruct(u, l.k, l.x, l.note)
    BY <2>2, <2>5, <2>6, TellConstruct
  <2>9. QED
    BY <2>2, <2>6, <2>7, <2>8 DEF s
<1>4. QED
  BY <1>2, <1>3

---------------------------------------------------------------------------
(***************************************************************************)
(* Bytes tells what the document tells, in lines that can be read.         *)
(***************************************************************************)
LEMMA NotBare ==
  ASSUME NEW l, l.k # "blank"
  PROVE  l # Unended(BlankLine(0))
<1>1. Unended(BlankLine(0)).k = "blank"
  BY DEF Unended, BlankLine, Line
<1>2. QED
  BY <1>1

LEMMA ReadableOne ==
  ASSUME NEW s \in Seq(Ended(Lines)), NEW l \in Lines, l # Unended(BlankLine(0))
  PROVE  Append(s, l) \in Seq(Lines) /\ Readable(Append(s, l))
<1> DEFINE u == Append(s, l)
           n == Len(s)
<1>1. s \in Seq(Lines) /\ n \in Nat /\ \A i \in 1..n : s[i].nl
  <2>1. Seq(Ended(Lines)) \subseteq Seq(Lines)
    BY LineKinds, SeqMonotonic
  <2>2. \A i \in 1..n : s[i] \in Ended(Lines)
    OBVIOUS
  <2>3. QED
    BY <2>1, <2>2 DEF Ended
<1>2. /\ u \in Seq(Lines) /\ Len(u) = n + 1 /\ u[n + 1] = l /\ DOMAIN u = 1..(n + 1)
      /\ \A i \in 1..n : u[i] = s[i]
  BY <1>1
<1> HIDE DEF u, n
<1>3. l # Unended(BlankLine(0))
  OBVIOUS
<1>4. ASSUME NEW i \in DOMAIN u, ~u[i].nl PROVE i = Len(u) /\ u[i] # Unended(BlankLine(0))
  <2>1. i = n + 1
    BY <1>1, <1>2, <1>4
  <2>2. QED
    BY <1>2, <1>3, <2>1
<1>5. Readable(u)
  BY <1>4 DEF Readable
<1>6. QED
  BY <1>2, <1>5 DEF u

LEMMA ReadableJoin ==
  ASSUME NEW s \in Seq(Ended(Lines)), NEW v \in Seq(Lines), Readable(v)
  PROVE  s \o v \in Seq(Lines) /\ Readable(s \o v)
<1> DEFINE u == s \o v
           n == Len(s)
           m == Len(v)
<1>1. s \in Seq(Lines) /\ n \in Nat /\ m \in Nat /\ \A i \in 1..n : s[i].nl
  <2>1. Seq(Ended(Lines)) \subseteq Seq(Lines)
    BY LineKinds, SeqMonotonic
  <2>2. \A i \in 1..n : s[i] \in Ended(Lines)
    OBVIOUS
  <2>3. QED
    BY <2>1, <2>2 DEF Ended
<1>2. /\ u \in Seq(Lines) /\ Len(u) = n + m
      /\ \A i \in 1..(n + m) : u[i] = IF i <= n THEN s[i] ELSE v[i - n]
  BY <1>1, ConcatProperties
<1> HIDE DEF u, n
<1>3. DOMAIN u = 1..(n + m)
  BY <1>2
<1>4. ASSUME NEW i \in DOMAIN u, ~u[i].nl PROVE i = Len(u) /\ u[i] # Unended(BlankLine(0))
  <2>1. i \in 1..(n + m) /\ i > n
    BY <1>1, <1>2, <1>3, <1>4
  <2>2. i - n \in 1..m /\ u[i] = v[i - n]
    BY <1>1, <1>2, <2>1
  <2> DEFINE j == i - n
  <2>3. j \in DOMAIN v /\ ~v[j].nl
    BY <1>4, <2>2
  <2> HIDE DEF j
  <2>6. j = Len(v) /\ v[j] # Unended(BlankLine(0))
    BY <2>3 DEF Readable
  <2>4. i - n = m /\ v[i - n] # Unended(BlankLine(0))
    BY <2>6 DEF j
  <2>7. i = n + m
    BY <1>1, <2>1, <2>4, SMTT(40)
  <2>8. u[i] # Unended(BlankLine(0))
    BY <2>2, <2>4
  <2>5. QED
    BY <1>2, <2>7, <2>8
<1>5. Readable(u)
  BY <1>4 DEF Readable
<1>6. QED
  BY <1>2, <1>5 DEF u

\* A line that is ended tells the same.
LEMMA EndLineTells ==
  ASSUME NEW buf \in Seq(Lines), Readable(buf), NEW t
  PROVE  EndLine(buf) \in Seq(Ended(Lines)) /\ LinesTell(t, EndLine(buf)) = LinesTell(t, buf)
<1>1. CASE buf = <<>>
  <2>1. EndLine(buf) = <<>>
    BY <1>1 DEF EndLine
  <2>2. <<>> \in Seq(Ended(Lines))
    OBVIOUS
  <2>3. QED
    BY <1>1, <2>1, <2>2
<1>2. CASE buf # <<>>
  <2> DEFINE n == Len(buf)
             p == SubSeq(buf, 1, n - 1)
             l == buf[n]
             m == [l EXCEPT !.nl = TRUE]
             e == EndLine(buf)
  <2>1. n \in Nat /\ n >= 1 /\ n \in 1..n /\ DOMAIN buf = 1..n /\ l \in Lines
    BY <1>2
  <2>2. p \in Seq(Lines) /\ Len(p) = n - 1 /\ \A i \in 1..(n - 1) : p[i] = buf[i]
    BY <2>1, SubSeqProperties
  <2>3. m \in Lines /\ m.nl /\ m.k = l.k /\ m.x = l.x /\ m.note = l.note
    BY <2>1 DEF Lines
  <2>4. e = [buf EXCEPT ![n] = m]
    BY <1>2 DEF EndLine
  <2> HIDE DEF n, l, m, e
  <2>5. /\ e \in Seq(Lines) /\ Len(e) = n /\ e[n] = m
        /\ \A i \in 1..(n - 1) : e[i] = buf[i]
    BY <2>1, <2>3, <2>4 DEF n
  <2>6. \A i \in 1..(n - 1) : buf[i].nl
    <3> SUFFICES ASSUME NEW i \in 1..(n - 1), ~buf[i].nl PROVE FALSE
      OBVIOUS
    <3>1. i \in 1..n /\ i # n
      BY <2>1
    <3>2. i \in DOMAIN buf
      BY <2>1, <3>1
    <3>3. i = Len(buf)
      BY <3>2 DEF Readable
    <3>4. QED
      BY <3>1, <3>3 DEF n
  <2> HIDE DEF p
  <2>7. e \in Seq(Ended(Lines))
    <3>1. \A i \in 1..n : e[i].nl
      <4> SUFFICES ASSUME NEW i \in 1..n PROVE e[i].nl
        OBVIOUS
      <4>1. CASE i = n
        BY <2>3, <2>5, <4>1
      <4>2. CASE i # n
        <5>1. i \in 1..(n - 1)
          BY <2>1, <4>2
        <5>2. QED
          BY <2>5, <2>6, <5>1
      <4>3. QED
        BY <4>1, <4>2
    <3>2. \A i \in 1..n : e[i] \in Ended(Lines)
      BY <2>5, <3>1 DEF Ended
    <3>3. QED
      BY <2>5, <3>2
  <2>8. buf = Append(p, l)
    <3>1. Append(p, l) \in Seq(Lines) /\ Len(Append(p, l)) = n
          /\ \A i \in 1..n : Append(p, l)[i] = IF i = n THEN l ELSE p[i]
      BY <2>1, <2>2
    <3>2. \A i \in 1..n : buf[i] = Append(p, l)[i]
      BY <2>1, <2>2, <3>1 DEF l
    <3>3. Len(buf) = n
      BY DEF n
    <3>4. QED
      BY <3>1, <3>2, <3>3, SameSeq
  <2>9. e = Append(p, m)
    <3>1. Append(p, m) \in Seq(Lines) /\ Len(Append(p, m)) = n
          /\ \A i \in 1..n : Append(p, m)[i] = IF i = n THEN m ELSE p[i]
      BY <2>1, <2>2, <2>3
    <3>2. \A i \in 1..n : e[i] = Append(p, m)[i]
      BY <2>1, <2>2, <2>5, <3>1
    <3>3. QED
      BY <2>5, <3>1, <3>2, SameSeq
  <2>10. LinesTell(t, buf) = TellLine(LinesTell(t, p), l)
    BY <2>1, <2>2, <2>8, LinesAppend
  <2>11. LinesTell(t, e) = TellLine(LinesTell(t, p), m)
    BY <2>2, <2>3, <2>9, LinesAppend
  <2>12. TellLine(LinesTell(t, p), l) = TellLine(LinesTell(t, p), m)
    BY <2>3 DEF TellLine
  <2>13. QED
    BY <2>7, <2>10, <2>11, <2>12 DEF e
<1>3. QED
  BY <1>1, <1>2

LEMMA SerializedReadable ==
  ASSUME NEW n \in Goods
  PROVE  SerializeNode(n) \in Seq(Lines) /\ Readable(SerializeNode(n))
<1>1. n \in Node /\ Good(n)
  BY DEF Goods
<1>2. CASE n.k = "text"
  <2>1. SerializeNode(n) = n.raw /\ Readable(n.raw)
    BY <1>1, <1>2 DEF Good, GoodText, SerializeNode
  <2>2. n.raw \in Seq(Lines)
    BY <1>1 DEF Node
  <2>3. QED
    BY <2>1, <2>2
<1>3. CASE n.k # "text"
  <2>1. GoodConstruct(n) /\ n.k \in {"pair", "header"}
    BY <1>1, <1>3 DEF Good, Node
  <2>2. PICK l \in Lines : SerializeNode(n) = Append(RenderTrivia(n), l) /\ l.k = n.k
    BY <1>1, <2>1, SerializedAs
  <2>3. RenderTrivia(n) \in Seq(Ended(Lines))
    BY <1>1, <2>1, RenderTyped
  <2>4. l # Unended(BlankLine(0))
    BY <2>1, <2>2, NotBare
  <2> DEFINE s == RenderTrivia(n)
  <2> HIDE DEF s
  <2>5. s \in Seq(Ended(Lines))
    BY <2>3 DEF s
  <2>6. Append(s, l) \in Seq(Lines) /\ Readable(Append(s, l))
    BY <2>4, <2>5, ReadableOne
  <2>7. QED
    BY <2>2, <2>6 DEF s
<1>4. QED
  BY <1>2, <1>3

LEMMA LaidTold ==
  ASSUME NEW ns \in Seq(Goods), NEW t \in Tellings
  PROVE  /\ Lay(<<>>, ns) \in Seq(Lines) /\ Readable(Lay(<<>>, ns))
         /\ LinesTell(t, Lay(<<>>, ns)) = NodesTell(t, ns)
<1> DEFINE n == Len(ns)
<1>1. n \in Nat /\ \A k \in 1..n : ns[k] \in Goods
  OBVIOUS
<1>2. PICK b : /\ b[0] = <<>> /\ b[n] = Lay(<<>>, ns)
               /\ \A k \in 1..n : b[k] = Serialize(b[k - 1], ns[k])
  BY LayRun
<1>3. PICK u : /\ u[0] = t /\ u[n] = NodesTell(t, ns)
               /\ \A k \in 1..n : u[k] = Tell(u[k - 1], ns[k])
  BY NodesRun
<1> DEFINE Fits(k) == /\ b[k] \in Seq(Lines) /\ Readable(b[k]) /\ u[k] \in Tellings
                      /\ LinesTell(t, b[k]) = u[k]
           S == {k \in Nat : k <= n => Fits(k)}
<1> HIDE DEF n
<1>4. 0 \in S
  <2>1. Readable(<<>>)
    BY DEF Readable
  <2>2. Fits(0)
    BY <1>2, <1>3, <2>1, LinesNone
  <2>3. QED
    BY <2>2
<1>5. ASSUME NEW k \in Nat, k \in S PROVE k + 1 \in S
  <2> SUFFICES ASSUME k + 1 <= n PROVE Fits(k + 1)
    OBVIOUS
  <2>1. k + 1 \in 1..n /\ (k + 1) - 1 = k /\ k <= n
    BY <1>1
  <2>2. Fits(k)
    BY <1>5, <2>1
  <2> DEFINE p == b[k]
             v == u[k]
             m == ns[k + 1]
             e == EndLine(p)
             s == SerializeNode(m)
  <2>3. m \in Goods /\ b[k + 1] = e \o s /\ u[k + 1] = Tell(v, m)
    BY <1>1, <1>2, <1>3, <2>1 DEF Serialize
  <2>4. p \in Seq(Lines) /\ Readable(p) /\ v \in Tellings /\ LinesTell(t, p) = v
    BY <2>2
  <2> HIDE DEF p, v, m, Fits
  <2>5. e \in Seq(Ended(Lines)) /\ LinesTell(t, e) = v
    BY <2>4, EndLineTells
  <2>6. s \in Seq(Lines) /\ Readable(s)
    BY <2>3, SerializedReadable
  <2>7. LinesTell(v, s) = Tell(v, m) /\ Tell(v, m) \in Tellings
    BY <2>3, <2>4, NodeTold
  <2> HIDE DEF e, s
  <2>8. e \in Seq(Lines)
    BY <2>5, LineKinds, SeqMonotonic
  <2>9. LinesTell(t, e \o s) = LinesTell(LinesTell(t, e), s)
    BY <2>6, <2>8, LinesConcat
  <2>10. e \o s \in Seq(Lines) /\ Readable(e \o s)
    BY <2>5, <2>6, ReadableJoin
  <2>11. QED
    BY <2>3, <2>5, <2>7, <2>9, <2>10 DEF Fits
<1> HIDE DEF S, Fits
<1>6. Nat \subseteq S
  BY <1>4, <1>5, Induct, Zenon
<1>7. Fits(n)
  BY <1>1, <1>6 DEF S
<1>8. QED
  BY <1>2, <1>3, <1>7 DEF Fits

---------------------------------------------------------------------------
(***************************************************************************)
(* A document whose nodes are good.                                        *)
(***************************************************************************)
SoundLeaf == {n \in Leaf : Good(n)}
SoundNode == {n \in Node : Good(n) /\ n.children \in Seq(SoundLeaf)}
Document == Seq(SoundNode)

\* A node and what is under it.
Block(n) == <<n>> \o n.children
Blocks(d) == [i \in DOMAIN d |-> Block(d[i])]

LEMMA NodesAre == \A d : Nodes(d) = FlattenSeq(Blocks(d))
BY DEF Nodes, Blocks, Block

LEMMA LeafKinds ==
  /\ Leaf \subseteq Node /\ SoundLeaf \subseteq SoundNode
  /\ SoundLeaf \subseteq Goods /\ SoundNode \subseteq Goods /\ Goods \subseteq Node
  /\ \A n \in Leaf : n.children = <<>>
<1>1. <<>> \in Seq(Leaf) /\ <<>> \in Seq(SoundLeaf)
  OBVIOUS
<1>2. Leaf \subseteq Node /\ \A n \in Leaf : n.children = <<>>
  BY <1>1 DEF Leaf, Node
<1>3. QED
  BY <1>1, <1>2 DEF SoundLeaf, SoundNode, Goods

\* The blocks of nodes in N with children in M.
LEMMA BlocksTyped ==
  ASSUME NEW N, NEW d \in Seq(N), \A n \in N : n.children \in Seq(N)
  PROVE  /\ Blocks(d) \in Seq(Seq(N)) /\ Len(Blocks(d)) = Len(d)
         /\ \A i \in 1..Len(d) : Blocks(d)[i] = Block(d[i])
         /\ Nodes(d) \in Seq(N)
<1> DEFINE m == Len(d)
           b == Blocks(d)
           Q == Seq(N)
<1>1. m \in Nat /\ DOMAIN d = 1..m /\ \A i \in 1..m : d[i] \in N
  OBVIOUS
<1>2. ASSUME NEW n \in N PROVE Block(n) \in Q
  <2> DEFINE c == n.children
  <2>1. c \in Seq(N)
    OBVIOUS
  <2> HIDE DEF c
  <2>2. <<n>> \o c \in Seq(N)
    BY <2>1
  <2>3. QED
    BY <2>2 DEF Block, c
<1>3. b = [i \in 1..m |-> Block(d[i])]
  BY <1>1 DEF Blocks
<1> HIDE DEF b, m, Q
<1>4. \A i \in 1..m : b[i] = Block(d[i])
  BY <1>3
<1>5. b \in [1..m -> Q]
  BY <1>1, <1>2, <1>3
<1>6. b \in Seq(Q) /\ Len(b) = m
  BY <1>1, <1>5
<1>7. FlattenSeq(b) \in Seq(N)
  BY <1>6, FlattenTyped DEF Q
<1>8. QED
  BY <1>4, <1>6, <1>7, NodesAre DEF b, m, Q

LEMMA NodesAppended ==
  ASSUME NEW N, NEW d \in Seq(N), NEW n \in N, \A m \in N : m.children \in Seq(N)
  PROVE  Nodes(Append(d, n)) = Nodes(d) \o Block(n)
<1> DEFINE e == Append(d, n)
           b == Blocks(d)
           c == Blocks(e)
           k == Len(d)
           g == Block(n)
<1>1. e \in Seq(N) /\ Len(e) = k + 1 /\ k \in Nat /\ e[k + 1] = n /\ \A i \in 1..k : e[i] = d[i]
  OBVIOUS
<1> HIDE DEF e
<1>2. b \in Seq(Seq(N)) /\ Len(b) = k /\ \A i \in 1..k : b[i] = Block(d[i])
  BY BlocksTyped
<1>3. c \in Seq(Seq(N)) /\ Len(c) = k + 1 /\ \A i \in 1..(k + 1) : c[i] = Block(e[i])
  BY <1>1, BlocksTyped
<1>4. g \in Seq(N)
  <2>1. k + 1 \in 1..(k + 1)
    BY <1>1
  <2>2. c[k + 1] \in Seq(N)
    BY <1>3, <2>1
  <2>3. QED
    BY <1>1, <1>3, <2>1, <2>2
<1> HIDE DEF b, c, k, g
<1> DEFINE Q == Seq(N)
<1>5. c = Append(b, g)
  <2>1. b \in Seq(Q) /\ c \in Seq(Q) /\ g \in Q
    BY <1>2, <1>3, <1>4
  <2> HIDE DEF Q
  <2>2. Append(b, g) \in Seq(Q) /\ Len(Append(b, g)) = k + 1
        /\ \A i \in 1..(k + 1) : Append(b, g)[i] = IF i = k + 1 THEN g ELSE b[i]
    BY <1>1, <1>2, <2>1
  <2>3. \A i \in 1..(k + 1) : c[i] = Append(b, g)[i]
    <3> SUFFICES ASSUME NEW i \in 1..(k + 1) PROVE c[i] = Append(b, g)[i]
      OBVIOUS
    <3>1. CASE i = k + 1
      BY <1>1, <1>3, <2>2, <3>1 DEF g
    <3>2. CASE i # k + 1
      <4>1. i \in 1..k
        BY <1>1, <3>2
      <4>2. QED
        BY <1>1, <1>2, <1>3, <2>2, <4>1
    <3>3. QED
      BY <3>1, <3>2
  <2>4. Len(c) = k + 1
    BY <1>3
  <2>5. QED
    BY <2>1, <2>2, <2>3, <2>4, SameSeq
<1>6. FlattenSeq(Append(b, g)) = FlattenSeq(b) \o g
  BY <1>2, <1>4, FlattenAppend
<1>7. Nodes(e) = FlattenSeq(c) /\ Nodes(d) = FlattenSeq(b)
  BY NodesAre DEF b, c
<1>8. QED
  BY <1>5, <1>6, <1>7 DEF e, g

\* What a document's bytes tell.
LEMMA BytesTold ==
  ASSUME NEW d \in Document
  PROVE  /\ Bytes(d) \in Seq(Lines) /\ Readable(Bytes(d))
         /\ LinesTell(Nothing, Bytes(d)) = Told(d)
<1>1. d \in Seq(SoundNode)
  BY DEF Document
<1>2. Nodes(d) \in Seq(SoundNode)
  <2>1. \A n \in SoundNode : n.children \in Seq(SoundNode)
    <3>1. Seq(SoundLeaf) \subseteq Seq(SoundNode)
      BY LeafKinds, SeqMonotonic
    <3>2. QED
      BY <3>1 DEF SoundNode
  <2>2. QED
    BY <1>1, <2>1, BlocksTyped
<1>3. Nodes(d) \in Seq(Goods)
  <2>1. Seq(SoundNode) \subseteq Seq(Goods)
    BY LeafKinds, SeqMonotonic
  <2>2. QED
    BY <1>2, <2>1
<1>4. Nothing \in Tellings
  <2>1. <<>> \in Seq(Constructed) /\ <<>> \in Seq(NoteTexts)
    OBVIOUS
  <2>2. QED
    BY <2>1 DEF Nothing, Tellings
<1>5. Bytes(d) = Lay(<<>>, Nodes(d)) /\ Told(d) = NodesTell(Nothing, Nodes(d))
  BY LayIs, TellIs DEF Bytes, Told
<1>6. QED
  BY <1>3, <1>4, <1>5, LaidTold

---------------------------------------------------------------------------
(***************************************************************************)
(* What the parser builds.                                                 *)
(***************************************************************************)
\* A node the parser makes holds nothing yet.
Childless == {n \in Node : n.children = <<>>}

LEMMA LastOf ==
  ASSUME NEW N, NEW d \in Seq(N), d # <<>>
  PROVE  /\ SubSeq(d, 1, Len(d) - 1) \in Seq(N) /\ d[Len(d)] \in N /\ Last(d) = d[Len(d)]
         /\ d = Append(SubSeq(d, 1, Len(d) - 1), d[Len(d)])
         /\ \A n \in N : [d EXCEPT ![Len(d)] = n] = Append(SubSeq(d, 1, Len(d) - 1), n)
<1> DEFINE k == Len(d)
           p == SubSeq(d, 1, k - 1)
           x == d[k]
<1>1. k \in Nat /\ k >= 1 /\ k \in 1..k /\ x \in N /\ DOMAIN d = 1..k
  OBVIOUS
<1>2. p \in Seq(N) /\ Len(p) = k - 1 /\ \A i \in 1..(k - 1) : p[i] = d[i]
  BY <1>1, SubSeqProperties
<1> HIDE DEF p, k, x
<1>3. ASSUME NEW n \in N PROVE [d EXCEPT ![k] = n] = Append(p, n)
  <2> DEFINE e == [d EXCEPT ![k] = n]
  <2>5. d \in [1..k -> N]
    BY <1>1
  <2>6. e \in [1..k -> N] /\ e[k] = n /\ \A i \in 1..(k - 1) : e[i] = d[i]
    BY <1>1, <2>5
  <2> HIDE DEF e
  <2>1. e \in Seq(N) /\ Len(e) = k /\ e[k] = n /\ \A i \in 1..(k - 1) : e[i] = d[i]
    BY <1>1, <2>6
  <2>2. /\ Append(p, n) \in Seq(N) /\ Len(Append(p, n)) = k
        /\ \A i \in 1..k : Append(p, n)[i] = IF i = k THEN n ELSE p[i]
    BY <1>1, <1>2
  <2>3. \A i \in 1..k : e[i] = Append(p, n)[i]
    BY <1>1, <1>2, <2>1, <2>2
  <2>4. e = Append(p, n)
    BY <2>1, <2>2, <2>3, SameSeq
  <2>7. QED
    BY <2>4 DEF e
<1>4. d = [d EXCEPT ![k] = x]
  BY <1>1 DEF k, x
<1>5. d = Append(p, x)
  BY <1>1, <1>3, <1>4
<1>6. Last(d) = x
  BY DEF Last, x, k
<1>7. QED
  BY <1>1, <1>2, <1>3, <1>5, <1>6 DEF p, k, x

LEMMA NodesOne ==
  ASSUME NEW N, NEW t, NEW n \in N
  PROVE  NodesTell(t, <<n>>) = Tell(t, n)
<1> DEFINE e == <<>>
<1>1. e \in Seq(N) /\ <<n>> = Append(e, n)
  OBVIOUS
<1>2. NodesTell(t, e) = t
  BY NodesNone
<1> HIDE DEF e
<1>3. NodesTell(t, Append(e, n)) = Tell(NodesTell(t, e), n)
  BY <1>1, NodesAppend
<1>4. QED
  BY <1>1, <1>2, <1>3

\* A block is told as its head and then its children.
LEMMA BlockTold ==
  ASSUME NEW t, NEW n \in Node
  PROVE  Block(n) \in Seq(Node) /\ NodesTell(t, Block(n)) = NodesTell(Tell(t, n), n.children)
<1> DEFINE c == n.children
<1>1. c \in Seq(Node)
  <2>1. c \in Seq(Leaf)
    BY DEF Node
  <2>2. QED
    BY <2>1, LeafKinds, SeqMonotonic
<1> DEFINE N == Node
<1>2. c \in Seq(N) /\ n \in N
  BY <1>1
<1> HIDE DEF c, N
<1> DEFINE h == <<n>>
<1>3. h \in Seq(N) /\ h \o c \in Seq(N)
  BY <1>2
<1>5. NodesTell(t, h) = Tell(t, n)
  BY <1>2, NodesOne
<1> HIDE DEF h
<1>4. NodesTell(t, h \o c) = NodesTell(NodesTell(t, h), c)
  BY <1>2, <1>3, NodesConcat
<1>6. QED
  BY <1>3, <1>4, <1>5 DEF Block, c, h, N

\* Telling does not look at what a node holds.
LEMMA TellsSame ==
  ASSUME NEW t, NEW n, NEW m, m.k = n.k, m.line = n.line, m.comments = n.comments
  PROVE  Tell(t, m) = Tell(t, n)
BY DEF Tell

LEMMA BuiltTold ==
  ASSUME NEW d \in Seq(Node), NEW n \in Childless, n.k # "header" => n \in Leaf, NEW t
  PROVE  /\ BuildAppend(d, n) \in Seq(Node)
         /\ NodesTell(t, Nodes(BuildAppend(d, n))) = Tell(NodesTell(t, Nodes(d)), n)
<1>1. n \in Node /\ n.children = <<>>
  BY DEF Childless
<1>2. \A m \in Node : m.children \in Seq(Node)
  <2>1. Seq(Leaf) \subseteq Seq(Node)
    BY LeafKinds, SeqMonotonic
  <2>2. QED
    BY <2>1 DEF Node
<1>3. CASE n.k # "header" /\ d # <<>> /\ Last(d).k = "header"
  <2> DEFINE x == d[Len(d)]
             p == SubSeq(d, 1, Len(d) - 1)
             ch == x.children
             y == [x EXCEPT !.children = Append(ch, n)]
             u == NodesTell(t, Nodes(p))
  <2>1. /\ p \in Seq(Node) /\ x \in Node /\ d = Append(p, x)
        /\ \A m \in Node : [d EXCEPT ![Len(d)] = m] = Append(p, m)
    BY <1>3, LastOf
  <2>2. ch \in Seq(Leaf) /\ ch \in Seq(Node)
    BY <1>2, <2>1 DEF Node
  <2>3. BuildAppend(d, n) = [d EXCEPT ![Len(d)] = y]
    BY <1>3 DEF BuildAppend
  <2> HIDE DEF ch
  <2>4. Append(ch, n) \in Seq(Leaf) /\ Append(ch, n) \in Seq(Node)
    BY <1>1, <1>3, <2>2
  <2>5. /\ y \in Node /\ y.k = x.k /\ y.line = x.line /\ y.comments = x.comments
        /\ y.children = Append(ch, n)
    BY <2>1, <2>4 DEF Node
  <2> HIDE DEF p, y
  <2>6. BuildAppend(d, n) = Append(p, y)
    BY <2>1, <2>3, <2>5
  <2>7. Append(p, y) \in Seq(Node)
    BY <2>1, <2>5
  <2>8. Nodes(Append(p, y)) = Nodes(p) \o Block(y) /\ Nodes(d) = Nodes(p) \o Block(x)
    <3>1. Nodes(Append(p, y)) = Nodes(p) \o Block(y)
      BY <1>2, <2>1, <2>5, NodesAppended
    <3>2. Nodes(Append(p, x)) = Nodes(p) \o Block(x)
      BY <1>2, <2>1, NodesAppended
    <3>3. QED
      BY <2>1, <3>1, <3>2
  <2>9. Nodes(p) \in Seq(Node)
    BY <1>2, <2>1, BlocksTyped
  <2>10. Block(y) \in Seq(Node) /\ NodesTell(u, Block(y)) = NodesTell(Tell(u, y), Append(ch, n))
    BY <2>5, BlockTold
  <2>11. Block(x) \in Seq(Node) /\ NodesTell(u, Block(x)) = NodesTell(Tell(u, x), ch)
    BY <2>1, BlockTold DEF ch
  <2>12. Tell(u, y) = Tell(u, x)
    BY <2>5, TellsSame
  <2>13. /\ NodesTell(t, Nodes(p) \o Block(y)) = NodesTell(u, Block(y))
         /\ NodesTell(t, Nodes(p) \o Block(x)) = NodesTell(u, Block(x))
    BY <2>9, <2>10, <2>11, NodesConcat
  <2>14. NodesTell(Tell(u, x), Append(ch, n)) = Tell(NodesTell(Tell(u, x), ch), n)
    BY <1>1, <2>2, NodesAppend
  <2>15. QED
    BY <2>6, <2>7, <2>8, <2>10, <2>11, <2>12, <2>13, <2>14
<1>4. CASE ~(n.k # "header" /\ d # <<>> /\ Last(d).k = "header")
  <2>1. BuildAppend(d, n) = Append(d, n)
    BY <1>4 DEF BuildAppend
  <2>2. Append(d, n) \in Seq(Node)
    BY <1>1
  <2>3. Nodes(Append(d, n)) = Nodes(d) \o Block(n) /\ Nodes(d) \in Seq(Node)
    BY <1>1, <1>2, NodesAppended, BlocksTyped
  <2> DEFINE u == NodesTell(t, Nodes(d))
  <2>4. Block(n) \in Seq(Node) /\ NodesTell(u, Block(n)) = NodesTell(Tell(u, n), <<>>)
    BY <1>1, BlockTold
  <2>5. NodesTell(t, Nodes(d) \o Block(n)) = NodesTell(u, Block(n))
    BY <2>3, <2>4, NodesConcat
  <2>6. NodesTell(Tell(u, n), <<>>) = Tell(u, n)
    BY NodesNone
  <2>7. QED
    BY <2>1, <2>2, <2>3, <2>4, <2>5, <2>6
<1>5. QED
  BY <1>3, <1>4

LEMMA BuildsTold ==
  ASSUME NEW d \in Seq(Node), NEW ns \in Seq(Leaf), NEW t
  PROVE  /\ Build(d, ns) \in Seq(Node)
         /\ NodesTell(t, Nodes(Build(d, ns))) = NodesTell(NodesTell(t, Nodes(d)), ns)
<1> DEFINE n == Len(ns)
           v == NodesTell(t, Nodes(d))
<1>1. n \in Nat /\ \A k \in 1..n : ns[k] \in Leaf
  OBVIOUS
<1>2. PICK b : /\ b[0] = d /\ b[n] = Build(d, ns)
               /\ \A k \in 1..n : b[k] = BuildAppend(b[k - 1], ns[k])
  <2> DEFINE T == Leaf
  <2>1. ns \in Seq(T)
    OBVIOUS
  <2> HIDE DEF T
  <2>2. PICK b : /\ b[0] = d /\ b[Len(ns)] = Build(d, ns) /\ DOMAIN b = 0..Len(ns)
                 /\ \A k \in 1..Len(ns) : b[k] = BuildAppend(b[k - 1], ns[k])
    BY <2>1, BuildRun, SMTT(60)
  <2>3. QED
    BY <2>2
<1>3. PICK u : /\ u[0] = v /\ u[n] = NodesTell(v, ns)
               /\ \A k \in 1..n : u[k] = Tell(u[k - 1], ns[k])
  BY NodesRun
<1> DEFINE Fits(k) == b[k] \in Seq(Node) /\ NodesTell(t, Nodes(b[k])) = u[k]
           S == {k \in Nat : k <= n => Fits(k)}
<1> HIDE DEF n
<1>4. 0 \in S
  BY <1>2, <1>3
<1>5. ASSUME NEW k \in Nat, k \in S PROVE k + 1 \in S
  <2> SUFFICES ASSUME k + 1 <= n PROVE Fits(k + 1)
    OBVIOUS
  <2>1. k + 1 \in 1..n /\ (k + 1) - 1 = k /\ k <= n
    BY <1>1
  <2>2. Fits(k)
    BY <1>5, <2>1
  <2> DEFINE p == b[k]
             m == ns[k + 1]
  <2>3. m \in Leaf /\ b[k + 1] = BuildAppend(p, m) /\ u[k + 1] = Tell(u[k], m)
    BY <1>1, <1>2, <1>3, <2>1
  <2>4. p \in Seq(Node) /\ NodesTell(t, Nodes(p)) = u[k]
    BY <2>2
  <2> HIDE DEF p, m, Fits
  <2>5. m \in Childless
    BY <2>3, LeafKinds DEF Childless
  <2>6. /\ BuildAppend(p, m) \in Seq(Node)
        /\ NodesTell(t, Nodes(BuildAppend(p, m))) = Tell(NodesTell(t, Nodes(p)), m)
    BY <2>3, <2>4, <2>5, BuiltTold
  <2>7. QED
    BY <2>3, <2>4, <2>6 DEF Fits
<1> HIDE DEF S, Fits
<1>6. Nat \subseteq S
  BY <1>4, <1>5, Induct, Zenon
<1>7. Fits(n)
  BY <1>1, <1>6 DEF S
<1>8. QED
  BY <1>2, <1>3, <1>7 DEF Fits

\* Good does not look at what a node holds.
LEMMA GoodSame ==
  ASSUME NEW n, NEW m, Good(n), m.k = n.k, m.line = n.line, m.comments = n.comments,
         m.blanks = n.blanks, m.raw = n.raw, m.dirty = n.dirty
  PROVE  Good(m)
<1>1. \A i : BlankRun(m, i) = BlankRun(n, i)
  BY DEF BlankRun
<1>2. RenderTrivia(m) = RenderTrivia(n)
  BY <1>1 DEF RenderTrivia
<1>3. CASE n.k = "text"
  <2>1. GoodText(n)
    BY <1>3 DEF Good
  <2>2. GoodText(m)
    BY <2>1 DEF GoodText
  <2>3. QED
    BY <1>3, <2>2 DEF Good
<1>4. CASE n.k # "text"
  <2>1. GoodConstruct(n)
    BY <1>4 DEF Good
  <2>2. GoodConstruct(m)
    BY <1>2, <2>1 DEF GoodConstruct
  <2>3. QED
    BY <1>4, <2>2 DEF Good
<1>5. QED
  BY <1>3, <1>4

LEMMA SoundWith ==
  ASSUME NEW n \in SoundNode, NEW items \in Seq(SoundLeaf)
  PROVE  [n EXCEPT !.children = items] \in SoundNode
<1> DEFINE m == [n EXCEPT !.children = items]
<1>1. items \in Seq(Leaf)
  <2>1. SoundLeaf \subseteq Leaf
    BY DEF SoundLeaf
  <2>2. QED
    BY <2>1, SeqMonotonic
<1>2. n \in Node /\ Good(n)
  BY DEF SoundNode
<1>3. /\ m \in Node /\ m.children = items /\ m.k = n.k /\ m.line = n.line
      /\ m.comments = n.comments /\ m.blanks = n.blanks /\ m.raw = n.raw /\ m.dirty = n.dirty
  BY <1>1, <1>2 DEF Node
<1> HIDE DEF m
<1>4. Good(m)
  BY <1>2, <1>3, GoodSame
<1>5. m \in SoundNode
  BY <1>3, <1>4 DEF SoundNode
<1>6. QED
  BY <1>5 DEF m

LEMMA BuiltSound ==
  ASSUME NEW d \in Seq(SoundNode), NEW n \in SoundNode, n.k # "header" => n \in SoundLeaf
  PROVE  BuildAppend(d, n) \in Seq(SoundNode)
<1>1. CASE n.k # "header" /\ d # <<>> /\ Last(d).k = "header"
  <2> DEFINE x == d[Len(d)]
             p == SubSeq(d, 1, Len(d) - 1)
             ch == x.children
             y == [x EXCEPT !.children = Append(ch, n)]
  <2>1. /\ p \in Seq(SoundNode) /\ x \in SoundNode
        /\ \A m \in SoundNode : [d EXCEPT ![Len(d)] = m] = Append(p, m)
    BY <1>1, LastOf
  <2>2. ch \in Seq(SoundLeaf)
    BY <2>1 DEF SoundNode
  <2>3. BuildAppend(d, n) = [d EXCEPT ![Len(d)] = y]
    BY <1>1 DEF BuildAppend
  <2> HIDE DEF ch
  <2>4. Append(ch, n) \in Seq(SoundLeaf)
    BY <1>1, <2>2
  <2>5. y \in SoundNode
    BY <2>1, <2>4, SoundWith
  <2> HIDE DEF p, y
  <2>6. Append(p, y) \in Seq(SoundNode)
    BY <2>1, <2>5
  <2>7. QED
    BY <2>1, <2>3, <2>5, <2>6
<1>2. CASE ~(n.k # "header" /\ d # <<>> /\ Last(d).k = "header")
  <2>1. BuildAppend(d, n) = Append(d, n)
    BY <1>2 DEF BuildAppend
  <2>2. QED
    BY <2>1
<1>3. QED
  BY <1>1, <1>2

LEMMA BuildKeep ==
  ASSUME NEW T, NEW I, NEW d \in I, NEW s \in Seq(T), \A r \in I, x \in T : BuildAppend(r, x) \in I
  PROVE  Build(d, s) \in I
BY Builds!FoldKeeps, Zenon DEF Build

LEMMA BuildsSound ==
  ASSUME NEW d \in Document, NEW ns \in Seq(SoundLeaf)
  PROVE  Build(d, ns) \in Document
<1>1. \A e \in Document, n \in SoundLeaf : BuildAppend(e, n) \in Document
  BY LeafKinds, BuiltSound DEF Document
<1>2. QED
  BY <1>1, BuildKeep, Zenon

---------------------------------------------------------------------------
(***************************************************************************)
(* Trivia at the end of the input.                                         *)
(***************************************************************************)
Emitted(G) == [i \in DOMAIN G |-> EmitBlankRun(G[i])]
Standing(cs) == [i \in DOMAIN cs |-> TextNode(<<cs[i]>>)]

\* What is read above a construct, of runs in R and comments in C.
Trivias(R, C) ==
  {lt \in [blanks : Seq(R), comments : Seq(C), raw : Seq(Lines)] :
     /\ Len(lt.blanks) = Len(lt.comments) + 1
     /\ lt.raw = Trivia(lt.blanks, lt.comments)}

LEMMA TextNodeTyped ==
  ASSUME NEW raw \in Seq(Lines), raw # <<>>
  PROVE  /\ TextNode(raw) \in Leaf /\ TextNode(raw).k = "text" /\ TextNode(raw).line = raw[1]
         /\ TextNode(raw).comments = <<>> /\ TextNode(raw).raw = raw /\ ~TextNode(raw).dirty
<1> DEFINE n == TextNode(raw)
           l == raw[1]
<1>1. l \in Lines
  OBVIOUS
<1>2. n = [k |-> "text", blanks |-> <<>>, comments |-> <<>>, line |-> l, raw |-> raw,
           dirty |-> FALSE, children |-> <<>>]
  BY DEF TextNode
<1> HIDE DEF l, n
<1>3. <<>> \in Seq(Seq(Lines)) /\ <<>> \in Seq(Lines)
  OBVIOUS
<1>4. \A blanks \in Seq(Seq(Lines)), none \in Seq(Lines) :
        [k |-> "text", blanks |-> blanks, comments |-> none, line |-> l, raw |-> raw,
         dirty |-> FALSE, children |-> <<>>] \in Leaf
  BY <1>1 DEF Leaf
<1>5. n \in Leaf
  BY <1>2, <1>3, <1>4
<1>6. QED
  BY <1>2, <1>5 DEF l, n

\* A run at the end is a node that tells nothing.
LEMMA RunNode ==
  ASSUME NEW run \in Seq(BlankLines), NEW t \in Tellings
  PROVE  EmitBlankRun(run) \in Seq(Leaf) /\ NodesTell(t, EmitBlankRun(run)) = t
<1>1. CASE run = <<>>
  <2>1. EmitBlankRun(run) = <<>> /\ <<>> \in Seq(Leaf)
    BY <1>1 DEF EmitBlankRun
  <2>2. QED
    BY <2>1, NodesNone
<1>2. CASE run # <<>>
  <2> DEFINE n == TextNode(run)
  <2>1. run \in Seq(Lines) /\ run[1] \in BlankLines
    <3>1. Seq(BlankLines) \subseteq Seq(Lines)
      BY LineKinds, SeqMonotonic
    <3>2. QED
      BY <1>2, <3>1
  <2>2. n \in Leaf /\ n.k = "text" /\ n.comments = <<>> /\ n.line = run[1]
    BY <1>2, <2>1, TextNodeTyped
  <2>3. EmitBlankRun(run) = <<n>>
    BY <1>2 DEF EmitBlankRun
  <2> HIDE DEF n
  <2>4. n \in Node /\ n.line.k # "comment"
    BY <2>1, <2>2, LeafKinds DEF BlankLines
  <2>5. Tell(t, n) = t
    BY <2>2, <2>4, TextTells
  <2>6. NodesTell(t, <<n>>) = Tell(t, n)
    BY <2>2, NodesOne
  <2>7. <<n>> \in Seq(Leaf)
    BY <2>2
  <2>8. QED
    BY <2>3, <2>5, <2>6, <2>7
<1>3. QED
  BY <1>1, <1>2

LEMMA CommentNode ==
  ASSUME NEW c \in Lines, c.k = "comment", NEW t \in Tellings
  PROVE  TextNode(<<c>>) \in Leaf /\ Tell(t, TextNode(<<c>>)) = TellLine(t, c)
<1> DEFINE s == <<c>>
           n == TextNode(s)
<1>1. s \in Seq(Lines) /\ s # <<>> /\ s[1] = c
  OBVIOUS
<1> HIDE DEF s
<1>2. n \in Leaf /\ n.k = "text" /\ n.comments = <<>> /\ n.line = c
  BY <1>1, TextNodeTyped
<1> HIDE DEF n
<1>3. Tell(t, n) = TellLine(t, c)
  BY <1>2, LeafKinds, TextTells
<1>4. QED
  BY <1>2, <1>3 DEF n, s

\* What stands at the end is laid out like what stands above a construct.
LaidOut(lt, L, R, C) ==
  /\ Emitted(lt.blanks) \in Seq(Seq(L)) /\ Len(Emitted(lt.blanks)) = Len(lt.comments) + 1
  /\ Standing(lt.comments) \in Seq(L) /\ Len(Standing(lt.comments)) = Len(lt.comments)
  /\ \A i \in 1..Len(lt.comments) :
       /\ Emitted(lt.blanks)[i] = EmitBlankRun(lt.blanks[i]) /\ lt.blanks[i] \in R
       /\ Standing(lt.comments)[i] = TextNode(<<lt.comments[i]>>) /\ lt.comments[i] \in C
  /\ Emitted(lt.blanks)[Len(lt.comments) + 1]
       = EmitBlankRun(lt.blanks[Len(lt.comments) + 1])
  /\ lt.blanks[Len(lt.comments) + 1] \in R
  /\ OrphanTrivia(lt) = Trivia(Emitted(lt.blanks), Standing(lt.comments))
  /\ OrphanTrivia(lt) \in Seq(L)

LEMMA OrphansAre ==
  ASSUME NEW L, NEW R, NEW C, NEW lt \in Trivias(R, C), \A run \in R : EmitBlankRun(run) \in Seq(L),
         \A c \in C : TextNode(<<c>>) \in L
  PROVE  LaidOut(lt, L, R, C)
<1> DEFINE G == lt.blanks
           cs == lt.comments
           m == Len(cs)
           X == Emitted(G)
           Y == Standing(cs)
           Q == Seq(L)
<1>1. G \in Seq(R) /\ cs \in Seq(C) /\ Len(G) = m + 1
  BY DEF Trivias
<1>2. /\ m \in Nat /\ DOMAIN cs = 1..m /\ DOMAIN G = 1..(m + 1) /\ m + 1 \in 1..(m + 1)
      /\ \A i \in 1..m : i \in 1..(m + 1)
  BY <1>1
<1> HIDE DEF m
<1>3. (\A i \in 1..(m + 1) : G[i] \in R) /\ (\A i \in 1..m : cs[i] \in C)
  BY <1>1, <1>2
<1> HIDE DEF G, cs
<1>4. X = [i \in 1..(m + 1) |-> EmitBlankRun(G[i])] /\ Y = [i \in 1..m |-> TextNode(<<cs[i]>>)]
  BY <1>2 DEF Emitted, Standing
<1> HIDE DEF X, Y, Q
<1>5. X \in [1..(m + 1) -> Q] /\ Y \in [1..m -> L]
  BY <1>3, <1>4 DEF Q
<1>6. X \in Seq(Q) /\ Len(X) = m + 1 /\ Y \in Seq(L) /\ Len(Y) = m
  BY <1>2, <1>5
<1>7. /\ \A i \in 1..(m + 1) : X[i] = EmitBlankRun(G[i])
      /\ \A i \in 1..m : Y[i] = TextNode(<<cs[i]>>)
  BY <1>4
<1>8. OrphanTrivia(lt) = Trivia(X, Y)
  <2>1. Last(G) = G[m + 1]
    BY <1>1, <1>2 DEF Last
  <2>2. DOMAIN Y = DOMAIN cs
    BY <1>2, <1>4
  <2>3. \A i \in DOMAIN cs : Append(EmitBlankRun(G[i]), TextNode(<<cs[i]>>)) = Append(X[i], Y[i])
    BY <1>2, <1>7
  <2>4. TriviaBlocks(X, Y) = [i \in DOMAIN cs |-> Append(EmitBlankRun(G[i]), TextNode(<<cs[i]>>))]
    BY <2>2, <2>3, Zenon DEF TriviaBlocks
  <2>5. X[m + 1] = EmitBlankRun(G[m + 1])
    BY <1>2, <1>7
  <2>6. QED
    BY <1>6, <2>1, <2>4, <2>5, Zenon DEF OrphanTrivia, Trivia, G, cs
<1>9. Trivia(X, Y) \in Seq(L)
  <2>1. X \in Seq(Seq(L)) /\ Len(X) = Len(Y) + 1 /\ L \subseteq L
    BY <1>6 DEF Q
  <2>2. QED
    BY <1>6, <2>1, TriviaTyped
<1>10. QED
  BY <1>2, <1>3, <1>6, <1>7, <1>8, <1>9 DEF LaidOut, X, Y, Q, G, cs, m

BlocksOf(X, Y, L) ==
  /\ TriviaBlocks(X, Y) \in Seq(Seq(L)) /\ Len(TriviaBlocks(X, Y)) = Len(Y)
  /\ \A i \in 1..Len(Y) : TriviaBlocks(X, Y)[i] = Append(X[i], Y[i])
  /\ FlattenSeq(TriviaBlocks(X, Y)) \in Seq(L) /\ X[Len(Y) + 1] \in Seq(L)

LEMMA BlocksLaid ==
  ASSUME NEW L, NEW X \in Seq(Seq(L)), NEW Y \in Seq(L), Len(X) = Len(Y) + 1
  PROVE  BlocksOf(X, Y, L)
<1>1. L \subseteq L
  OBVIOUS
<1>2. TriviaBlocks(X, Y) \in Seq(Seq(L)) /\ Len(TriviaBlocks(X, Y)) = Len(Y)
  BY <1>1, TriviaTyped
<1>3. \A i \in 1..Len(Y) : TriviaBlocks(X, Y)[i] = Append(X[i], Y[i])
  <2>1. DOMAIN Y = 1..Len(Y)
    OBVIOUS
  <2>2. QED
    BY <2>1, Zenon DEF TriviaBlocks
<1>4. FlattenSeq(TriviaBlocks(X, Y)) \in Seq(L)
  BY <1>1, TriviaTyped
<1>5. X[Len(Y) + 1] \in Seq(L)
  BY <1>1, TriviaTyped, SMTT(60)
<1>6. QED
  BY <1>2, <1>3, <1>4, <1>5 DEF BlocksOf

CommentKind == {line \in Lines : line.k = "comment"}

LEMMA OrphansTold ==
  ASSUME NEW lt \in Trivias(Seq(BlankLines), CommentKind), NEW t \in Tellings
  PROVE  /\ OrphanTrivia(lt) \in Seq(Leaf)
         /\ NodesTell(t, OrphanTrivia(lt)) = WithAbove(t, NotesOf(lt.comments))
<1> DEFINE cs == lt.comments
           n == Len(cs)
           X == Emitted(lt.blanks)
           Y == Standing(cs)
           Z == TriviaBlocks(X, Y)
           q == NotesOf(cs)
           f == [k \in 0..n |-> WithAbove(t, SubSeq(q, 1, k))]
           g == X[n + 1]
           h == FlattenSeq(Z)
           L == Leaf
           R == Seq(BlankLines)
<1>1. \A run \in R : EmitBlankRun(run) \in Seq(L)
  BY RunNode
<1>2. \A c \in CommentKind : TextNode(<<c>>) \in L
  BY CommentNode DEF CommentKind
<1>20. lt \in Trivias(R, CommentKind)
  OBVIOUS
<1> HIDE DEF L, R
<1>3. /\ X \in Seq(Seq(L)) /\ Len(X) = n + 1 /\ Y \in Seq(L) /\ Len(Y) = n
      /\ \A i \in 1..n : /\ X[i] = EmitBlankRun(lt.blanks[i]) /\ lt.blanks[i] \in R
                         /\ Y[i] = TextNode(<<cs[i]>>) /\ cs[i] \in CommentKind
      /\ g = EmitBlankRun(lt.blanks[n + 1]) /\ lt.blanks[n + 1] \in R
      /\ OrphanTrivia(lt) = Trivia(X, Y) /\ OrphanTrivia(lt) \in Seq(L)
  <2>1. LaidOut(lt, L, R, CommentKind)
    BY <1>1, <1>2, <1>20, OrphansAre, Zenon
  <2> HIDE DEF X, Y
  <2>2. QED
    BY <2>1 DEF LaidOut, X, Y
<1>4. cs \in Seq(Lines) /\ n \in Nat
  <2>1. Seq(CommentKind) \subseteq Seq(Lines)
    BY SeqMonotonic DEF CommentKind
  <2>2. cs \in Seq(CommentKind)
    BY DEF Trivias
  <2>3. QED
    BY <2>1, <2>2
<1> HIDE DEF cs, X, Y
<1>5. /\ Z \in Seq(Seq(L)) /\ Len(Z) = n /\ h \in Seq(L) /\ g \in Seq(L)
      /\ \A i \in 1..n : Z[i] = Append(X[i], Y[i])
  <2>1. BlocksOf(X, Y, L)
    BY <1>3, BlocksLaid, Zenon
  <2> HIDE DEF Z, h
  <2>2. QED
    BY <1>3, <2>1 DEF BlocksOf, Z, h
<1>6. OrphanTrivia(lt) = h \o g
  <2>1. Trivia(X, Y) = h \o X[Len(Y) + 1]
    BY DEF Trivia
  <2>2. QED
    BY <1>3, <2>1
<1>7. /\ q \in Seq(NoteTexts) /\ Len(q) = n /\ \A i \in 1..n : q[i] = cs[i].note
  BY <1>4, NotesTyped
<1> HIDE DEF Z, q, g
<1>8. /\ SubSeq(q, 1, 0) = <<>> /\ SubSeq(q, 1, n) = q
      /\ \A k \in 1..n : /\ SubSeq(q, 1, k - 1) \in Seq(NoteTexts)
                         /\ SubSeq(q, 1, k) = Append(SubSeq(q, 1, k - 1), q[k])
  BY <1>7, NotesUpTo
<1>9. /\ 0 \in 0..n /\ n \in 0..n /\ \A k \in 1..n : k \in 0..n /\ k - 1 \in 0..n
  BY <1>4
<1>10. \A k \in 0..n : f[k] = WithAbove(t, SubSeq(q, 1, k))
  OBVIOUS
<1> HIDE DEF f
<1>11. f[0] = t /\ f[n] = WithAbove(t, q) /\ f[n] \in Tellings
  BY <1>7, <1>8, <1>9, <1>10, AboveNone, AboveTyped
<1>12. ASSUME NEW k \in 1..n PROVE NodesTell(f[k - 1], Z[k]) = f[k]
  <2> DEFINE u == f[k - 1]
             p == X[k]
             y == Y[k]
             c == cs[k]
             m == SubSeq(q, 1, k - 1)
  <2>1. Z[k] = Append(p, y) /\ p = EmitBlankRun(lt.blanks[k]) /\ lt.blanks[k] \in Seq(BlankLines)
        /\ y = TextNode(<<c>>) /\ c \in Lines /\ c.k = "comment" /\ q[k] = c.note
    BY <1>3, <1>5, <1>7 DEF CommentKind, R
  <2>2. u = WithAbove(t, m) /\ m \in Seq(NoteTexts)
    BY <1>8, <1>9, <1>10
  <2>3. f[k] = WithAbove(t, Append(m, c.note))
    BY <1>8, <1>9, <1>10, <2>1
  <2>4. u \in Tellings
    BY <2>2, AboveTyped
  <2> HIDE DEF u, p, y, c, m
  <2>5. p \in Seq(Leaf) /\ NodesTell(u, p) = u
    BY <2>1, <2>4, RunNode
  <2>6. y \in Leaf /\ Tell(u, y) = TellLine(u, c)
    BY <2>1, <2>4, CommentNode
  <2>7. NodesTell(u, Append(p, y)) = Tell(NodesTell(u, p), y)
    BY <2>5, <2>6, NodesAppend
  <2>8. TellLine(WithAbove(t, m), c) = WithAbove(t, Append(m, c.note))
    BY <2>1, <2>2, AboveOne
  <2>9. QED
    BY <2>1, <2>2, <2>3, <2>5, <2>6, <2>7, <2>8 DEF u
<1>13. NodesTell(t, h) = f[n]
  <2>1. \A k \in 1..Len(Z) : NodesTell(f[k - 1], Z[k]) = f[k]
    BY <1>5, <1>12
  <2> HIDE DEF h, n
  <2>2. Z \in Seq(Seq(L)) /\ f[0] = t
    BY <1>5, <1>11
  <2>3. NodesTell(t, FlattenSeq(Z)) = f[Len(Z)]
    BY <2>1, <2>2, NodesFlatten, SMTT(40)
  <2>4. QED
    BY <1>5, <2>3 DEF h
<1> HIDE DEF h
<1>14. NodesTell(t, h \o g) = NodesTell(NodesTell(t, h), g)
  BY <1>5, NodesConcat
<1>15. NodesTell(f[n], g) = f[n]
  BY <1>3, <1>11, RunNode DEF R
<1>16. QED
  BY <1>3, <1>6, <1>11, <1>13, <1>14, <1>15 DEF q, cs, L

---------------------------------------------------------------------------
(***************************************************************************)
(* Reading.                                                                *)
(***************************************************************************)
LEMMA TriviaParts ==
  ASSUME NEW R, NEW C, NEW lt \in Trivias(R, C)
  PROVE  /\ lt = [blanks |-> lt.blanks, comments |-> lt.comments, raw |-> lt.raw]
         /\ lt.blanks \in Seq(R) /\ lt.comments \in Seq(C) /\ lt.raw \in Seq(Lines)
         /\ Len(lt.blanks) = Len(lt.comments) + 1 /\ Len(lt.comments) \in Nat
         /\ lt.raw = Trivia(lt.blanks, lt.comments)
<1>1. lt \in [blanks : Seq(R), comments : Seq(C), raw : Seq(Lines)]
  BY DEF Trivias
<1>2. Len(lt.blanks) = Len(lt.comments) + 1 /\ lt.raw = Trivia(lt.blanks, lt.comments)
  BY DEF Trivias
<1>3. lt.comments \in Seq(C)
  BY <1>1
<1>4. Len(lt.comments) \in Nat
  BY <1>3
<1>5. QED
  BY <1>1, <1>2, <1>4

LEMMA TriviasWider ==
  ASSUME NEW R, NEW C, NEW P, NEW Q, R \subseteq P, C \subseteq Q
  PROVE  Trivias(R, C) \subseteq Trivias(P, Q)
<1>1. Seq(R) \subseteq Seq(P) /\ Seq(C) \subseteq Seq(Q)
  BY SeqMonotonic
<1>2. QED
  BY <1>1 DEF Trivias

LEMMA StartTyped ==
  ASSUME NEW R, NEW C, <<>> \in R
  PROVE  NoTrivia \in Trivias(R, C)
<1> DEFINE G == << <<>> >>
           cs == <<>>
<1>1. G \in Seq(R) /\ Len(G) = 1 /\ G[1] = <<>>
  OBVIOUS
<1>2. cs \in Seq(C) /\ Len(cs) = 0 /\ <<>> \in Seq(Lines) /\ DOMAIN cs = {}
  OBVIOUS
<1>3. TriviaBlocks(G, cs) = <<>>
  BY <1>2 DEF TriviaBlocks
<1>4. NoTrivia = [blanks |-> G, comments |-> cs, raw |-> <<>>]
  BY DEF NoTrivia
<1> HIDE DEF G, cs
<1>5. FlattenSeq(<<>>) = <<>>
  BY FlattenIs, ByLine!FlattenEmpty
<1>6. Trivia(G, cs) = <<>> \o <<>>
  BY <1>1, <1>2, <1>3, <1>5 DEF Trivia
<1> DEFINE e == <<>>
<1>7. e = Trivia(G, cs) /\ e \in Seq(Lines)
  <2>1. <<>> \o <<>> = <<>>
    OBVIOUS
  <2>2. QED
    BY <1>2, <1>6, <2>1
<1>9. NoTrivia = [blanks |-> G, comments |-> cs, raw |-> e]
  BY <1>4
<1>10. Len(G) = Len(cs) + 1
  BY <1>1, <1>2
<1> HIDE DEF e
<1>8. QED
  BY <1>1, <1>2, <1>7, <1>9, <1>10 DEF Trivias

\* One sequence more in front.
LEMMA AppendBehind ==
  ASSUME NEW T, NEW s \in Seq(T), NEW t \in Seq(T), NEW x \in T
  PROVE  s \o Append(t, x) = Append(s \o t, x)
OBVIOUS

LEMMA BlankRead ==
  ASSUME NEW R, NEW C, NEW P, NEW lt \in Trivias(R, C), NEW line \in Lines,
         R \subseteq Seq(Lines), C \subseteq Lines, R \subseteq P,
         \A run \in R : Append(run, line) \in P
  PROVE  /\ AddBlank(lt, line) \in Trivias(P, C)
         /\ AddBlank(lt, line).comments = lt.comments
<1> DEFINE G == lt.blanks
           cs == lt.comments
           m == Len(cs) + 1
           g == G[m]
           H == [G EXCEPT ![m] = Append(g, line)]
           F == FlattenSeq(TriviaBlocks(G, cs))
<1>1. /\ lt = [blanks |-> G, comments |-> cs, raw |-> lt.raw]
      /\ G \in Seq(R) /\ cs \in Seq(C) /\ lt.raw \in Seq(Lines)
      /\ Len(G) = m /\ Len(cs) \in Nat /\ lt.raw = Trivia(G, cs)
  BY TriviaParts
<1>2. AddBlank(lt, line) = [lt EXCEPT !.blanks = H, !.raw = Append(lt.raw, line)]
  BY <1>1 DEF AddBlank
<1> DEFINE raw == Append(lt.raw, line)
<1>3. raw \in Seq(Lines)
  BY <1>1
<1> HIDE DEF H, raw
<1>4. AddBlank(lt, line) = [blanks |-> H, comments |-> cs, raw |-> raw]
  BY <1>1, <1>2 DEF raw
<1>5. G \in Seq(Seq(Lines)) /\ F \in Seq(Lines)
  <2>1. G \in Seq(Seq(Lines))
    BY <1>1, SeqMonotonic
  <2>2. Lines \subseteq Lines
    OBVIOUS
  <2> HIDE DEF G, cs
  <2>3. Len(G) = Len(cs) + 1
    BY <1>1
  <2>4. F \in Seq(Lines)
    BY <1>1, <2>1, <2>2, <2>3, TriviaTyped
  <2>5. QED
    BY <2>1, <2>4
<1>6. m \in 1..Len(G) /\ g \in R /\ g \in Seq(Lines) /\ Append(g, line) \in P
  <2>1. m \in 1..Len(G)
    BY <1>1
  <2>2. g \in R
    BY <1>1, <2>1
  <2>3. QED
    BY <2>1, <2>2
<1> HIDE DEF G, cs
<1>7. H \in Seq(P) /\ Len(H) = m /\ H[m] = Append(g, line) /\ \A i \in 1..Len(cs) : H[i] = G[i]
  <2> DEFINE a == Append(g, line)
  <2>1. a \in P
    BY <1>6
  <2> HIDE DEF a
  <2>2. H = [G EXCEPT ![m] = a]
    BY DEF H, a
  <2>3. G \in [1..m -> P]
    <3>1. \A i \in 1..Len(G) : G[i] \in P
      BY <1>1
    <3>2. QED
      BY <1>1, <3>1
  <2>4. H \in [1..m -> P] /\ H[m] = a /\ \A i \in 1..Len(cs) : H[i] = G[i]
    BY <1>1, <2>1, <2>2, <2>3
  <2>5. H \in Seq(P) /\ Len(H) = m
    <3>1. m \in Nat /\ H \in [1..m -> P]
      BY <1>1, <2>4
    <3> HIDE DEF m
    <3>2. QED
      BY <3>1
  <2>6. QED
    BY <2>4, <2>5 DEF a
<1>8. TriviaBlocks(H, cs) = TriviaBlocks(G, cs)
  <2>1. DOMAIN cs = 1..Len(cs)
    BY <1>1
  <2>2. QED
    BY <1>7, <2>1, Zenon DEF TriviaBlocks
<1>9. Trivia(H, cs) = Append(Trivia(G, cs), line)
  <2>1. Trivia(H, cs) = F \o Append(g, line)
    BY <1>7, <1>8 DEF Trivia
  <2>2. Trivia(G, cs) = F \o g
    BY DEF Trivia
  <2> HIDE DEF F, g
  <2>3. F \o Append(g, line) = Append(F \o g, line)
    BY <1>5, <1>6, AppendBehind, SMTT(40)
  <2>4. QED
    BY <2>1, <2>2, <2>3
<1>10. raw = Trivia(H, cs)
  BY <1>1, <1>9 DEF raw
<1> DEFINE new == AddBlank(lt, line)
<1> HIDE DEF new
<1>11. new = [blanks |-> H, comments |-> cs, raw |-> raw]
  BY <1>4 DEF new
<1>12. new \in Trivias(P, C) /\ new.comments = cs
  BY <1>1, <1>3, <1>7, <1>10, <1>11 DEF Trivias
<1>13. QED
  BY <1>12 DEF new, cs

LEMMA CommentRead ==
  ASSUME NEW R, NEW C, NEW D, NEW lt \in Trivias(R, C), NEW line \in Lines,
         R \subseteq Seq(Lines), D \subseteq Lines, <<>> \in R, C \subseteq D, line \in D
  PROVE  /\ AddComment(lt, line) \in Trivias(R, D)
         /\ AddComment(lt, line).comments = Append(lt.comments, line)
<1> DEFINE G == lt.blanks
           cs == lt.comments
           n == Len(cs)
           g == G[n + 1]
           e == <<>>
           H == Append(G, e)
           ds == Append(cs, line)
           raw == Append(lt.raw, line)
           X == TriviaBlocks(G, cs)
           Y == TriviaBlocks(H, ds)
           F == FlattenSeq(X)
<1>1. /\ lt = [blanks |-> G, comments |-> cs, raw |-> lt.raw]
      /\ G \in Seq(R) /\ cs \in Seq(C) /\ lt.raw \in Seq(Lines)
      /\ Len(G) = n + 1 /\ n \in Nat /\ lt.raw = Trivia(G, cs)
  BY TriviaParts
<1>2. AddComment(lt, line) = [lt EXCEPT !.comments = ds, !.blanks = H, !.raw = raw]
  BY <1>1 DEF AddComment
<1>3. raw \in Seq(Lines)
  BY <1>1
<1> HIDE DEF H, ds, raw
<1>4. AddComment(lt, line) = [blanks |-> H, comments |-> ds, raw |-> raw]
  BY <1>1, <1>2
<1>5. cs \in Seq(D) /\ G \in Seq(Seq(Lines)) /\ e \in R
  BY <1>1, SeqMonotonic
<1> HIDE DEF G, cs, e
<1>6. H \in Seq(R) /\ Len(H) = n + 2 /\ H[n + 2] = e /\ \A i \in 1..(n + 1) : H[i] = G[i]
  BY <1>1, <1>5 DEF H
<1>7. ds \in Seq(D) /\ Len(ds) = n + 1 /\ ds[n + 1] = line /\ \A i \in 1..n : ds[i] = cs[i]
  BY <1>1, <1>5 DEF ds
<1>8. g \in Seq(Lines)
  BY <1>1, <1>5
<1>9. X \in Seq(Seq(Lines)) /\ Len(X) = n /\ (\A i \in 1..n : X[i] = Append(G[i], cs[i]))
      /\ F \in Seq(Lines)
  <2>1. Lines \subseteq Lines
    OBVIOUS
  <2>2. Len(G) = Len(cs) + 1
    BY <1>1
  <2>3. X \in Seq(Seq(Lines)) /\ Len(X) = n
    BY <1>5, <2>1, <2>2, TriviaTyped
  <2>4. F \in Seq(Lines)
    BY <1>5, <2>1, <2>2, TriviaTyped
  <2>5. DOMAIN cs = 1..n
    BY <1>1
  <2>6. \A i \in 1..n : X[i] = Append(G[i], cs[i])
    BY <2>5, Zenon DEF TriviaBlocks
  <2>7. QED
    BY <2>3, <2>4, <2>6
<1> DEFINE b == Append(g, line)
<1>10. b \in Seq(Lines)
  BY <1>8
<1>11. Y = Append(X, b)
  <2> DEFINE Q == Seq(Lines)
             Z == Append(X, b)
  <2>1. X \in Seq(Q) /\ b \in Q
    BY <1>9, <1>10
  <2>2. DOMAIN ds = 1..(n + 1)
    BY <1>1, <1>7
  <2>3. Y = [i \in 1..(n + 1) |-> Append(H[i], ds[i])]
    BY <2>2 DEF TriviaBlocks
  <2> HIDE DEF Q, b, X, Y, g
  <2>4. Z \in Seq(Q) /\ Len(Z) = n + 1 /\ Z[n + 1] = b /\ \A i \in 1..n : Z[i] = X[i]
    BY <1>1, <1>9, <2>1
  <2> HIDE DEF Z
  <2>5. Z = [i \in 1..(n + 1) |-> Z[i]]
    BY <1>1, <2>4
  <2>6. \A i \in 1..(n + 1) : Z[i] = Append(H[i], ds[i])
    <3> SUFFICES ASSUME NEW i \in 1..(n + 1) PROVE Z[i] = Append(H[i], ds[i])
      OBVIOUS
    <3>1. H[i] = G[i]
      BY <1>6
    <3>2. CASE i = n + 1
      <4>1. Z[i] = b /\ ds[i] = line /\ G[i] = g
        BY <1>7, <2>4, <3>2 DEF g
      <4>2. QED
        BY <3>1, <4>1 DEF b
    <3>3. CASE i # n + 1
      <4>1. i \in 1..n
        BY <1>1, <3>3
      <4>2. Z[i] = X[i] /\ X[i] = Append(G[i], cs[i]) /\ ds[i] = cs[i]
        BY <1>7, <1>9, <2>4, <4>1
      <4>3. QED
        BY <3>1, <4>2
    <3>4. QED
      BY <3>2, <3>3
  <2>7. [i \in 1..(n + 1) |-> Z[i]] = [i \in 1..(n + 1) |-> Append(H[i], ds[i])]
    BY <2>6, Zenon
  <2>8. Y = Z
    BY <2>3, <2>5, <2>7
  <2>9. QED
    BY <2>8 DEF Z
<1>12. FlattenSeq(Y) = F \o b
  <2> HIDE DEF X, Y, b
  <2>1. FlattenSeq(Append(X, b)) = FlattenSeq(X) \o b
    BY <1>9, <1>10, FlattenAppend
  <2>2. QED
    BY <1>11, <2>1
<1>13. Trivia(H, ds) = Append(Trivia(G, cs), line)
  <2>1. Trivia(G, cs) = F \o g
    BY DEF Trivia
  <2>2. Trivia(H, ds) = FlattenSeq(Y) \o H[Len(ds) + 1]
    BY DEF Trivia
  <2>3. H[Len(ds) + 1] = e
    BY <1>1, <1>6, <1>7
  <2> HIDE DEF F, g, X, Y
  <2>4. F \o b = Append(F \o g, line) /\ F \o b \in Seq(Lines)
    <3>1. F \o b = Append(F \o g, line)
      BY <1>8, <1>9, AppendBehind, SMTT(60)
    <3> HIDE DEF b
    <3>2. F \o b \in Seq(Lines)
      BY <1>9, <1>10
    <3>3. QED
      BY <3>1, <3>2
  <2>5. (F \o b) \o e = F \o b
    BY <2>4, ConcatEmptySeq DEF e
  <2>6. QED
    BY <1>12, <2>1, <2>2, <2>3, <2>4, <2>5
<1>14. raw = Trivia(H, ds)
  BY <1>1, <1>13 DEF raw
<1> HIDE DEF n, b, X, Y, F, g
<1> DEFINE new == AddComment(lt, line)
<1> HIDE DEF new
<1>15. new = [blanks |-> H, comments |-> ds, raw |-> raw]
  BY <1>4 DEF new
<1>16. Len(H) = Len(ds) + 1
  BY <1>1, <1>6, <1>7
<1>17. new \in Trivias(R, D) /\ new.comments = ds
  BY <1>3, <1>6, <1>7, <1>14, <1>15, <1>16 DEF Trivias
<1>18. QED
  BY <1>17 DEF new, ds, cs

\* The construct a line is read as.
Made(lt, line) == ConstructNode(line, lt.blanks, lt.comments, Append(lt.raw, line))
\* A construct of a line, with trivia above it.
MadeOf(n, lt, line) ==
  /\ n \in Childless /\ (n.k # "header" => n \in Leaf)
  /\ n.k = line.k /\ n.line = line /\ n.comments = lt.comments /\ n.blanks = lt.blanks
  /\ n.raw = Append(lt.raw, line) /\ n.children = <<>>

LEMMA ReadLineIs ==
  ASSUME NEW nodes, NEW lt, NEW line \in Lines
  PROVE  LET r == [nodes |-> nodes, lt |-> lt] IN
         /\ line.k = "blank" => ReadLine(r, line) = [nodes |-> nodes, lt |-> AddBlank(lt, line)]
         /\ line.k = "comment" => ReadLine(r, line) = [nodes |-> nodes, lt |-> AddComment(lt, line)]
         /\ line.k \in {"pair", "header"} =>
              ReadLine(r, line) = [nodes |-> BuildAppend(nodes, Made(lt, line)), lt |-> NoTrivia]
<1> DEFINE r == [nodes |-> nodes, lt |-> lt]
           a == AddBlank(lt, line)
           b == AddComment(lt, line)
           n == BuildAppend(nodes, Made(lt, line))
           x == [r EXCEPT !.lt = a]
           y == [r EXCEPT !.lt = b]
           z == [nodes |-> n, lt |-> NoTrivia]
<1>1. r.lt = lt /\ r.nodes = nodes
  OBVIOUS
<1>2. ReadLine(r, line) = CASE line.k = "blank" -> x [] line.k = "comment" -> y [] OTHER -> z
  BY <1>1, Zenon DEF ReadLine, Made
<1> HIDE DEF a, b, n
<1>3. x = [nodes |-> nodes, lt |-> a] /\ y = [nodes |-> nodes, lt |-> b]
  OBVIOUS
<1> HIDE DEF r, x, y, z
<1>4. line.k = "blank" => ReadLine(r, line) = x
  BY <1>2, Zenon
<1>5. line.k = "comment" => ReadLine(r, line) = y
  <2> SUFFICES ASSUME line.k = "comment" PROVE ReadLine(r, line) = y
    OBVIOUS
  <2>1. line.k # "blank"
    OBVIOUS
  <2>2. QED
    BY <1>2, <2>1, Zenon
<1>6. line.k \in {"pair", "header"} => ReadLine(r, line) = z
  <2> SUFFICES ASSUME line.k \in {"pair", "header"} PROVE ReadLine(r, line) = z
    OBVIOUS
  <2>1. line.k # "blank" /\ line.k # "comment"
    OBVIOUS
  <2>2. QED
    BY <1>2, <2>1, Zenon
<1>7. QED
  BY <1>3, <1>4, <1>5, <1>6 DEF r, z, a, b, n

LEMMA MadeIs ==
  ASSUME NEW R, NEW C, NEW lt \in Trivias(R, C), NEW line \in Lines,
         R \subseteq Seq(Lines), C \subseteq Lines, line.k \in {"pair", "header"}
  PROVE  MadeOf(Made(lt, line), lt, line)
<1> DEFINE n == Made(lt, line)
           raw == Append(lt.raw, line)
           blanks == lt.blanks
           cs == lt.comments
<1>1. blanks \in Seq(R) /\ cs \in Seq(C) /\ lt.raw \in Seq(Lines)
  BY TriviaParts
<1>2. blanks \in Seq(Seq(Lines)) /\ cs \in Seq(Lines) /\ raw \in Seq(Lines)
  BY <1>1, SeqMonotonic
<1>3. n = [k |-> line.k, blanks |-> blanks, comments |-> cs, line |-> line, raw |-> raw,
           dirty |-> (raw = <<>>), children |-> <<>>]
  BY DEF Made, ConstructNode
<1> DEFINE dirty == (raw = <<>>)
<1>4. dirty \in BOOLEAN /\ <<>> \in Seq(Leaf)
  OBVIOUS
<1> HIDE DEF n, raw, blanks, cs, dirty
<1>5. n = [k |-> line.k, blanks |-> blanks, comments |-> cs, line |-> line, raw |-> raw,
           dirty |-> dirty, children |-> <<>>]
  BY <1>3 DEF dirty
<1>6. n \in Node
  BY <1>2, <1>4, <1>5 DEF Node
<1>7. line.k # "header" => n \in Leaf
  BY <1>2, <1>4, <1>5 DEF Leaf
<1>8. n \in Childless
  BY <1>5, <1>6 DEF Childless
<1>9. QED
  BY <1>5, <1>7, <1>8 DEF MadeOf, n, raw, blanks, cs

---------------------------------------------------------------------------
(***************************************************************************)
(* What is read tells what the lines tell.                                 *)
(***************************************************************************)
Bare(told) == [constructs |-> told.constructs, above |-> <<>>]
ReadStates == [nodes : Seq(Node), lt : Trivias(Seq(BlankLines), CommentKind)]
\* The nodes tell the constructs read, and the trivia the notes above the next.
Tallies(r, told) ==
  /\ r \in ReadStates /\ told \in Tellings
  /\ NodesTell(Nothing, Nodes(r.nodes)) = Bare(told)
  /\ NotesOf(r.lt.comments) = told.above

LEMMA BareTyped ==
  ASSUME NEW told \in Tellings
  PROVE  /\ Bare(told) \in Tellings /\ WithAbove(Bare(told), told.above) = told
         /\ \A k, x, note : Bare(WithConstruct(told, k, x, note)) = WithConstruct(told, k, x, note)
<1> DEFINE a == told.above
           b == Bare(told)
           e == <<>>
<1>1. told = [constructs |-> told.constructs, above |-> a] /\ told.constructs \in Seq(Constructed)
      /\ a \in Seq(NoteTexts)
  BY TellingIs
<1>2. e \in Seq(NoteTexts)
  OBVIOUS
<1>3. e \o a = a
  BY <1>1, ConcatEmptySeq
<1>4. b = [constructs |-> told.constructs, above |-> e]
  BY DEF Bare
<1> HIDE DEF a, e, b
<1>5. b \in Tellings
  BY <1>1, <1>2, <1>4 DEF Tellings
<1>6. WithAbove(b, a) = [constructs |-> b.constructs, above |-> b.above \o a]
  BY <1>1, <1>5, AboveTyped
<1>7. WithAbove(b, a) = told
  BY <1>1, <1>3, <1>4, <1>6
<1>8. \A k, x, note : Bare(WithConstruct(told, k, x, note)) = WithConstruct(told, k, x, note)
  BY DEF Bare, WithConstruct
<1>9. QED
  BY <1>5, <1>7, <1>8 DEF b, a

LEMMA RunKinds ==
  /\ Seq(BlankLines) \subseteq Seq(Lines) /\ CommentKind \subseteq Lines
  /\ <<>> \in Seq(BlankLines)
<1>1. BlankLines \subseteq Lines
  BY LineKinds
<1>2. Seq(BlankLines) \subseteq Seq(Lines)
  BY <1>1, SeqMonotonic
<1>3. QED
  BY <1>2 DEF CommentKind

LEMMA StepTells ==
  ASSUME NEW r, NEW told, Tallies(r, told), NEW line \in Lines
  PROVE  Tallies(ReadLine(r, line), TellLine(told, line))
<1> DEFINE R == Seq(BlankLines)
           C == CommentKind
           lt == r.lt
           nodes == r.nodes
<1>1. /\ r = [nodes |-> nodes, lt |-> lt] /\ nodes \in Seq(Node) /\ lt \in Trivias(R, C)
      /\ told \in Tellings /\ NodesTell(Nothing, Nodes(nodes)) = Bare(told)
      /\ NotesOf(lt.comments) = told.above
  BY DEF Tallies, ReadStates
<1>2. R \subseteq Seq(Lines) /\ C \subseteq Lines /\ <<>> \in R
  BY RunKinds
<1>3. lt.comments \in Seq(Lines)
  <2>1. lt.comments \in Seq(C)
    BY <1>1, TriviaParts
  <2>2. QED
    BY <1>2, <2>1, SeqMonotonic
<1>4. line.k \in {"blank", "comment", "pair", "header"}
  BY LineTyped
<1> HIDE DEF lt, nodes
<1>5. CASE line.k = "blank"
  <2> DEFINE new == AddBlank(lt, line)
  <2>1. \A run \in R : Append(run, line) \in R
    BY <1>5 DEF BlankLines
  <2>2. R \subseteq R
    OBVIOUS
  <2> HIDE DEF R, C
  <2>3. new \in Trivias(R, C) /\ new.comments = lt.comments
    BY <1>1, <1>2, <2>1, <2>2, BlankRead
  <2>4. ReadLine(r, line) = [nodes |-> nodes, lt |-> new]
    BY <1>1, <1>5, ReadLineIs
  <2>5. TellLine(told, line) = told
    BY <1>5, TellBlank
  <2> HIDE DEF new
  <2>6. QED
    BY <1>1, <2>3, <2>4, <2>5 DEF Tallies, ReadStates, R, C
<1>6. CASE line.k = "comment"
  <2> DEFINE new == AddComment(lt, line)
  <2>1. C \subseteq C /\ line \in C
    BY <1>6 DEF CommentKind
  <2> HIDE DEF R, C
  <2>2. new \in Trivias(R, C) /\ new.comments = Append(lt.comments, line)
    BY <1>1, <1>2, <2>1, CommentRead
  <2>3. NotesOf(Append(lt.comments, line)) = Append(NotesOf(lt.comments), line.note)
    BY <1>3, NotesAppend
  <2>4. ReadLine(r, line) = [nodes |-> nodes, lt |-> new]
    BY <1>1, <1>6, ReadLineIs
  <2> DEFINE t == TellLine(told, line)
  <2>5. t = [constructs |-> told.constructs, above |-> Append(told.above, line.note)]
        /\ t \in Tellings
    BY <1>1, <1>6, TellComment
  <2> HIDE DEF new, t
  <2>6. Bare(t) = Bare(told)
    BY <2>5 DEF Bare
  <2>7. NotesOf(new.comments) = t.above
    BY <1>1, <2>2, <2>3, <2>5
  <2>8. Tallies([nodes |-> nodes, lt |-> new], t)
    BY <1>1, <2>2, <2>5, <2>6, <2>7 DEF Tallies, ReadStates, R, C
  <2>9. QED
    BY <2>4, <2>8 DEF t
<1>7. CASE line.k \in {"pair", "header"}
  <2> DEFINE n == Made(lt, line)
             d == BuildAppend(nodes, n)
             u == Bare(told)
             t == TellLine(told, line)
  <2> HIDE DEF R, C, n
  <2>1. /\ n \in Childless /\ (n.k # "header" => n \in Leaf)
        /\ n.k = line.k /\ n.line = line /\ n.comments = lt.comments
    <3>1. MadeOf(n, lt, line)
      BY <1>1, <1>2, <1>7, MadeIs, Zenon DEF n
    <3>2. QED
      BY <3>1 DEF MadeOf
  <2>2. ReadLine(r, line) = [nodes |-> d, lt |-> NoTrivia]
    <3>1. /\ line.k = "blank" => ReadLine(r, line) = [nodes |-> nodes, lt |-> AddBlank(lt, line)]
          /\ line.k = "comment" => ReadLine(r, line) = [nodes |-> nodes, lt |-> AddComment(lt, line)]
          /\ line.k \in {"pair", "header"} =>
               ReadLine(r, line) = [nodes |-> BuildAppend(nodes, Made(lt, line)), lt |-> NoTrivia]
      BY <1>1, ReadLineIs
    <3>2. QED
      BY <1>7, <3>1 DEF n
  <2>3. d \in Seq(Node) /\ NodesTell(Nothing, Nodes(d)) = Tell(u, n)
    BY <1>1, <2>1, BuiltTold
  <2>4. u \in Tellings /\ WithAbove(u, told.above) = told
    BY <1>1, BareTyped
  <2>5. n \in Node /\ n.k # "text" /\ n.comments \in Seq(Lines)
    BY <1>3, <1>7, <2>1 DEF Childless
  <2>6. Tell(u, n) = WithConstruct(WithAbove(u, NotesOf(n.comments)), n.k, n.line.x, n.line.note)
    BY <2>4, <2>5, ConstructTells
  <2>7. Tell(u, n) = WithConstruct(told, line.k, line.x, line.note)
    BY <1>1, <2>1, <2>4, <2>6
  <2>8. t = WithConstruct(told, line.k, line.x, line.note) /\ t \in Tellings
    BY <1>1, <1>7, TellConstruct
  <2>9. Bare(t) = t
    BY <1>1, <2>8, BareTyped
  <2>10. NoTrivia \in Trivias(R, C)
    BY <1>2, StartTyped
  <2>11. NotesOf(NoTrivia.comments) = <<>>
    BY DEF NotesOf, NoTrivia
  <2>12. t.above = <<>>
    BY <2>8 DEF WithConstruct
  <2> HIDE DEF d, u, t
  <2>13. Tallies([nodes |-> d, lt |-> NoTrivia], t)
    BY <2>3, <2>7, <2>8, <2>9, <2>10, <2>11, <2>12 DEF Tallies, ReadStates, R, C
  <2>14. QED
    BY <2>2, <2>13 DEF t
<1>8. QED
  BY <1>4, <1>5, <1>6, <1>7

ReadStart == [nodes |-> <<>>, lt |-> NoTrivia]

LEMMA ReadTallies ==
  ASSUME NEW text \in Seq(Lines)
  PROVE  Tallies(Read(ReadStart, text), LinesTell(Nothing, text))
<1> DEFINE n == Len(text)
<1>1. n \in Nat /\ \A k \in 1..n : text[k] \in Lines
  OBVIOUS
<1>2. PICK r : /\ r[0] = ReadStart /\ r[n] = Read(ReadStart, text)
               /\ \A k \in 1..n : r[k] = ReadLine(r[k - 1], text[k])
  BY ReadRun
<1>3. PICK u : /\ u[0] = Nothing /\ u[n] = LinesTell(Nothing, text)
               /\ \A k \in 1..n : u[k] = TellLine(u[k - 1], text[k])
  BY LinesRun
<1> DEFINE S == {k \in Nat : k <= n => Tallies(r[k], u[k])}
<1> HIDE DEF n
<1>4. 0 \in S
  <2>1. NoTrivia \in Trivias(Seq(BlankLines), CommentKind)
    BY RunKinds, StartTyped
  <2>2. Nodes(<<>>) = <<>>
    <3>1. Blocks(<<>>) = <<>>
      BY DEF Blocks
    <3>2. FlattenSeq(<<>>) = <<>>
      BY FlattenIs, ByLine!FlattenEmpty
    <3>3. QED
      BY <3>1, <3>2, NodesAre
  <2>3. NodesTell(Nothing, Nodes(<<>>)) = Nothing
    BY <2>2, NodesNone
  <2>4. Bare(Nothing) = Nothing /\ Nothing.above = <<>> /\ Nothing \in Tellings
    <3>1. <<>> \in Seq(Constructed) /\ <<>> \in Seq(NoteTexts)
      OBVIOUS
    <3>2. QED
      BY <3>1 DEF Bare, Nothing, Tellings
  <2>5. NotesOf(NoTrivia.comments) = <<>>
    BY DEF NotesOf, NoTrivia
  <2>6. <<>> \in Seq(Node)
    OBVIOUS
  <2>7. Tallies(ReadStart, Nothing)
    BY <2>1, <2>3, <2>4, <2>5, <2>6 DEF Tallies, ReadStates, ReadStart
  <2>8. QED
    BY <1>2, <1>3, <2>7
<1>5. ASSUME NEW k \in Nat, k \in S PROVE k + 1 \in S
  <2> SUFFICES ASSUME k + 1 <= n PROVE Tallies(r[k + 1], u[k + 1])
    OBVIOUS
  <2>1. k + 1 \in 1..n /\ (k + 1) - 1 = k /\ k <= n
    BY <1>1
  <2>2. Tallies(r[k], u[k])
    BY <1>5, <2>1
  <2>3. r[k + 1] = ReadLine(r[k], text[k + 1]) /\ u[k + 1] = TellLine(u[k], text[k + 1])
        /\ text[k + 1] \in Lines
    BY <1>1, <1>2, <1>3, <2>1
  <2>4. QED
    BY <2>2, <2>3, StepTells
<1> HIDE DEF S
<1>6. Nat \subseteq S
  BY <1>4, <1>5, Induct, Zenon
<1>7. Tallies(r[n], u[n])
  BY <1>1, <1>6 DEF S
<1>8. QED
  BY <1>2, <1>3, <1>7

\* Reading tells what the lines tell, whoever wrote them.
LEMMA ParsedTold ==
  ASSUME NEW text \in Seq(Lines)
  PROVE  Told(ParseDocument(text)) = LinesTell(Nothing, text)
<1> DEFINE r == Read(ReadStart, text)
           told == LinesTell(Nothing, text)
           o == OrphanTrivia(r.lt)
           u == Bare(told)
<1>1. Tallies(r, told)
  BY ReadTallies
<1>2. ParseDocument(text) = Build(r.nodes, o)
  BY ReadIs, BuildIs DEF ParseDocument, ReadStart
<1> HIDE DEF r, told, u
<1>3. /\ r.nodes \in Seq(Node) /\ r.lt \in Trivias(Seq(BlankLines), CommentKind)
      /\ told \in Tellings /\ NodesTell(Nothing, Nodes(r.nodes)) = u
      /\ NotesOf(r.lt.comments) = told.above
  BY <1>1 DEF Tallies, ReadStates, u
<1>4. u \in Tellings /\ WithAbove(u, told.above) = told
  BY <1>3, BareTyped DEF u
<1>5. o \in Seq(Leaf) /\ NodesTell(u, o) = WithAbove(u, NotesOf(r.lt.comments))
  BY <1>3, <1>4, OrphansTold
<1> HIDE DEF o
<1>6. NodesTell(Nothing, Nodes(Build(r.nodes, o))) = NodesTell(u, o)
  BY <1>3, <1>5, BuildsTold
<1>7. Told(ParseDocument(text)) = NodesTell(Nothing, Nodes(ParseDocument(text)))
  BY TellIs DEF Told
<1>8. QED
  BY <1>2, <1>3, <1>4, <1>5, <1>6, <1>7 DEF told

---------------------------------------------------------------------------
(***************************************************************************)
(* What is read is good.                                                   *)
(***************************************************************************)
FullRuns == Seq(Ended(BlankLines))
LastRuns == {run \in Seq(BlankLines) : Readable(run)}

LEMMA RunsLast ==
  /\ FullRuns \subseteq LastRuns /\ <<>> \in FullRuns /\ FullRuns \subseteq Seq(BlankLines)
  /\ FullRuns \subseteq Seq(Lines) /\ LastRuns \subseteq Seq(BlankLines)
  /\ LastRuns \subseteq Seq(Lines)
  /\ \A run \in FullRuns, line \in BlankLines :
       /\ line.nl => Append(run, line) \in FullRuns
       /\ line # Unended(BlankLine(0)) => Append(run, line) \in LastRuns
<1>1. Ended(BlankLines) \subseteq BlankLines /\ Ended(BlankLines) \subseteq Ended(Lines)
      /\ BlankLines \subseteq Lines
  BY LineKinds
<1>2. /\ Seq(Ended(BlankLines)) \subseteq Seq(BlankLines) /\ Seq(BlankLines) \subseteq Seq(Lines)
      /\ Seq(Ended(BlankLines)) \subseteq Seq(Ended(Lines))
  BY <1>1, SeqMonotonic
<1>3. ASSUME NEW run \in FullRuns PROVE Readable(run)
  <2>1. \A i \in DOMAIN run : run[i].nl
    <3>1. \A i \in DOMAIN run : run[i] \in Ended(BlankLines)
      BY DEF FullRuns
    <3>2. QED
      BY <3>1 DEF Ended
  <2>2. QED
    BY <2>1 DEF Readable
<1>4. ASSUME NEW run \in FullRuns, NEW line \in BlankLines, line.nl
      PROVE  Append(run, line) \in FullRuns
  <2>1. line \in Ended(BlankLines)
    BY <1>4 DEF Ended
  <2>2. QED
    BY <2>1 DEF FullRuns
<1>5. ASSUME NEW run \in FullRuns, NEW line \in BlankLines, line # Unended(BlankLine(0))
      PROVE  Append(run, line) \in LastRuns
  <2>1. run \in Seq(BlankLines) /\ run \in Seq(Ended(Lines)) /\ line \in Lines
    BY <1>1, <1>2 DEF FullRuns
  <2>2. Readable(Append(run, line))
    BY <1>5, <2>1, ReadableOne
  <2>3. Append(run, line) \in Seq(BlankLines)
    BY <2>1
  <2>4. QED
    BY <2>2, <2>3 DEF LastRuns
<1>6. <<>> \in FullRuns
  BY DEF FullRuns
<1>7. FullRuns \subseteq LastRuns
  BY <1>2, <1>3 DEF FullRuns, LastRuns
<1>8. QED
  BY <1>2, <1>4, <1>5, <1>6, <1>7 DEF FullRuns, LastRuns

\* The construct that was read: its runs and comments are those read above it.
LEMMA MadeSound ==
  ASSUME NEW lt \in Trivias(FullRuns, Ended(CommentLines)), NEW line \in Lines,
         line.k \in {"pair", "header"}
  PROVE  /\ Made(lt, line) \in SoundNode
         /\ line.k # "header" => Made(lt, line) \in SoundLeaf
<1> DEFINE n == Made(lt, line)
           G == lt.blanks
           cs == lt.comments
<1>1. FullRuns \subseteq Seq(Lines) /\ Ended(CommentLines) \subseteq Lines
  BY LineKinds, RunsLast
<1>2. MadeOf(n, lt, line)
  BY <1>1, MadeIs, Zenon
<1>3. /\ G \in Seq(FullRuns) /\ cs \in Seq(Ended(CommentLines))
      /\ Len(G) = Len(cs) + 1 /\ Len(cs) \in Nat /\ lt.raw = Trivia(G, cs)
  BY TriviaParts
<1> HIDE DEF n, G, cs
<1>4. /\ n \in Childless /\ (n.k # "header" => n \in Leaf)
      /\ n.k = line.k /\ n.line = line /\ n.comments = cs /\ n.blanks = G
      /\ n.raw = Append(lt.raw, line) /\ n.children = <<>>
  BY <1>2 DEF MadeOf, G, cs
<1>5. \A i \in 1..(Len(cs) + 1) : BlankRun(n, i) = G[i]
  <2>1. DOMAIN G = 1..(Len(cs) + 1)
    BY <1>3
  <2>2. QED
    BY <1>4, <2>1 DEF BlankRun
<1>6. RenderTrivia(n) = Trivia(G, cs)
  <2>1. DOMAIN cs = 1..Len(cs) /\ \A i \in 1..Len(cs) : i \in 1..(Len(cs) + 1)
    BY <1>3
  <2>2. \A i \in DOMAIN cs : BlankRun(n, i) = G[i]
    BY <1>5, <2>1
  <2>3. TriviaBlocks(G, cs) = [i \in DOMAIN cs |-> Append(BlankRun(n, i), cs[i])]
    BY <2>2, Zenon DEF TriviaBlocks
  <2>4. Len(cs) + 1 \in 1..(Len(cs) + 1)
    BY <1>3
  <2>5. BlankRun(n, Len(cs) + 1) = G[Len(cs) + 1]
    BY <1>5, <2>4
  <2>6. QED
    BY <1>4, <2>3, <2>5, Zenon DEF RenderTrivia, Trivia
<1>7. GoodConstruct(n)
  BY <1>3, <1>4, <1>6 DEF GoodConstruct, FullRuns
<1>8. n.k # "text" /\ Good(n)
  BY <1>4, <1>7 DEF Good
<1>9. n \in Node /\ n.children \in Seq(SoundLeaf)
  <2>1. <<>> \in Seq(SoundLeaf)
    OBVIOUS
  <2>2. QED
    BY <1>4, <2>1 DEF Childless
<1>10. QED
  BY <1>4, <1>8, <1>9 DEF SoundNode, SoundLeaf, n

\* One line more.
LEMMA StepSound ==
  ASSUME NEW nodes \in Document, NEW lt \in Trivias(FullRuns, Ended(CommentLines)),
         NEW line \in TextLines, NEW P, NEW D,
         FullRuns \subseteq P, P \subseteq Seq(Lines), Ended(CommentLines) \subseteq D, D \subseteq Lines,
         line.k = "blank" => \A run \in FullRuns : Append(run, line) \in P,
         line.k = "comment" => line \in D
  PROVE  LET r == ReadLine([nodes |-> nodes, lt |-> lt], line) IN
         /\ r.nodes \in Document /\ r.lt \in Trivias(P, D)
         /\ r = [nodes |-> r.nodes, lt |-> r.lt]
<1> DEFINE R == FullRuns
           C == Ended(CommentLines)
           r == ReadLine([nodes |-> nodes, lt |-> lt], line)
<1>1. line \in Lines /\ line.k \in {"blank", "comment", "pair", "header"}
  BY LineTyped DEF TextLines
<1>2. R \subseteq Seq(Lines) /\ C \subseteq Lines /\ <<>> \in R
  BY LineKinds, RunsLast
<1>3. /\ line.k = "blank" => r = [nodes |-> nodes, lt |-> AddBlank(lt, line)]
      /\ line.k = "comment" => r = [nodes |-> nodes, lt |-> AddComment(lt, line)]
      /\ line.k \in {"pair", "header"} =>
           r = [nodes |-> BuildAppend(nodes, Made(lt, line)), lt |-> NoTrivia]
  BY <1>1, ReadLineIs
<1>4. lt \in Trivias(R, C)
  OBVIOUS
<1> HIDE DEF R, C, r
<1>5. CASE line.k = "blank"
  <2>1. AddBlank(lt, line) \in Trivias(P, C)
    BY <1>1, <1>2, <1>4, <1>5, BlankRead DEF R
  <2>2. Trivias(P, C) \subseteq Trivias(P, D)
    BY TriviasWider DEF C
  <2>3. QED
    BY <1>3, <1>5, <2>1, <2>2 DEF r
<1>6. CASE line.k = "comment"
  <2>1. AddComment(lt, line) \in Trivias(R, D)
    BY <1>1, <1>2, <1>4, <1>6, CommentRead DEF C
  <2>2. Trivias(R, D) \subseteq Trivias(P, D)
    BY TriviasWider DEF R
  <2>3. QED
    BY <1>3, <1>6, <2>1, <2>2 DEF r
<1>7. CASE line.k \in {"pair", "header"}
  <2> DEFINE n == Made(lt, line)
  <2>1. n \in SoundNode /\ (line.k # "header" => n \in SoundLeaf)
    BY <1>1, <1>7, MadeSound
  <2>2. n.k = line.k
    <3>1. MadeOf(n, lt, line)
      BY <1>1, <1>2, <1>4, <1>7, MadeIs, Zenon
    <3>2. QED
      BY <3>1 DEF MadeOf
  <2>3. nodes \in Seq(SoundNode)
    BY DEF Document
  <2> HIDE DEF n
  <2>4. BuildAppend(nodes, n) \in Document
    BY <2>1, <2>2, <2>3, BuiltSound DEF Document
  <2>5. NoTrivia \in Trivias(P, D)
    BY <1>2, StartTyped DEF R
  <2>6. QED
    BY <1>3, <1>7, <2>4, <2>5 DEF r, n
<1>8. QED
  BY <1>1, <1>5, <1>6, <1>7 DEF r

Ready(r) ==
  /\ r = [nodes |-> r.nodes, lt |-> r.lt] /\ r.nodes \in Document
  /\ r.lt \in Trivias(FullRuns, Ended(CommentLines))
Complete(r) == r.nodes \in Document /\ r.lt \in Trivias(LastRuns, CommentLines)

LEMMA ReadyComplete ==
  ASSUME NEW r, Ready(r)
  PROVE  Complete(r)
<1>1. Trivias(FullRuns, Ended(CommentLines)) \subseteq Trivias(LastRuns, CommentLines)
  BY LineKinds, RunsLast, TriviasWider
<1>2. QED
  BY <1>1 DEF Ready, Complete

LEMMA LineRead ==
  ASSUME NEW r, Ready(r), NEW line \in TextLines
  PROVE  /\ line.nl => Ready(ReadLine(r, line))
         /\ line # Unended(BlankLine(0)) => Complete(ReadLine(r, line))
<1> DEFINE nodes == r.nodes
           lt == r.lt
           s == ReadLine(r, line)
<1>1. /\ r = [nodes |-> nodes, lt |-> lt] /\ nodes \in Document
      /\ lt \in Trivias(FullRuns, Ended(CommentLines))
  BY DEF Ready
<1>2. line \in Lines /\ (line.k = "blank" => line \in BlankLines)
      /\ (line.k = "comment" => line \in CommentLines)
  BY DEF TextLines, BlankLines, CommentLines
<1> HIDE DEF nodes, lt
<1>3. ASSUME NEW P, NEW D,
             FullRuns \subseteq P, P \subseteq Seq(Lines), Ended(CommentLines) \subseteq D, D \subseteq Lines,
             line.k = "blank" => \A run \in FullRuns : Append(run, line) \in P,
             line.k = "comment" => line \in D
      PROVE  s.nodes \in Document /\ s.lt \in Trivias(P, D) /\ s = [nodes |-> s.nodes, lt |-> s.lt]
  BY <1>1, <1>3, StepSound
<1>4. ASSUME line.nl PROVE Ready(s)
  <2>1. line.k = "comment" => line \in Ended(CommentLines)
    BY <1>2, <1>4 DEF Ended
  <2>2. line.k = "blank" => \A run \in FullRuns : Append(run, line) \in FullRuns
    BY <1>2, <1>4, RunsLast
  <2>3. FullRuns \subseteq FullRuns /\ FullRuns \subseteq Seq(Lines)
        /\ Ended(CommentLines) \subseteq Ended(CommentLines) /\ Ended(CommentLines) \subseteq Lines
    BY LineKinds, RunsLast
  <2> HIDE DEF s
  <2>4. /\ s.nodes \in Document /\ s.lt \in Trivias(FullRuns, Ended(CommentLines))
        /\ s = [nodes |-> s.nodes, lt |-> s.lt]
    BY <1>3, <2>1, <2>2, <2>3
  <2>5. QED
    BY <2>4 DEF Ready
<1>5. ASSUME line # Unended(BlankLine(0)) PROVE Complete(s)
  <2>1. line.k = "blank" => \A run \in FullRuns : Append(run, line) \in LastRuns
    BY <1>2, <1>5, RunsLast
  <2>2. FullRuns \subseteq LastRuns /\ LastRuns \subseteq Seq(Lines)
        /\ Ended(CommentLines) \subseteq CommentLines /\ CommentLines \subseteq Lines
    BY LineKinds, RunsLast
  <2> HIDE DEF s
  <2>3. s.nodes \in Document /\ s.lt \in Trivias(LastRuns, CommentLines)
    BY <1>2, <1>3, <2>1, <2>2
  <2>4. QED
    BY <2>3 DEF Complete
<1>6. QED
  BY <1>4, <1>5

LEMMA ReadSound ==
  ASSUME NEW text \in Seq(TextLines), Readable(text)
  PROVE  Complete(Read(ReadStart, text))
<1> DEFINE n == Len(text)
<1>1. n \in Nat /\ \A k \in 1..n : text[k] \in TextLines
  OBVIOUS
<1>2. \A k \in 1..n : ~text[k].nl => k = n /\ text[k] # Unended(BlankLine(0))
  BY DEF Readable
<1>3. PICK r : /\ r[0] = ReadStart /\ r[n] = Read(ReadStart, text)
               /\ \A k \in 1..n : r[k] = ReadLine(r[k - 1], text[k])
  BY ReadRun
<1> DEFINE Fits(k) == Complete(r[k]) /\ (k < n => Ready(r[k]))
           S == {k \in Nat : k <= n => Fits(k)}
<1> HIDE DEF n
<1>4. Ready(ReadStart)
  <2>1. NoTrivia \in Trivias(FullRuns, Ended(CommentLines))
    BY RunsLast, StartTyped
  <2>2. <<>> \in Document
    BY DEF Document
  <2>3. QED
    BY <2>1, <2>2 DEF Ready, ReadStart
<1>5. 0 \in S
  BY <1>3, <1>4, ReadyComplete
<1>6. ASSUME NEW k \in Nat, k \in S PROVE k + 1 \in S
  <2> SUFFICES ASSUME k + 1 <= n PROVE Fits(k + 1)
    OBVIOUS
  <2>1. k + 1 \in 1..n /\ (k + 1) - 1 = k /\ k <= n /\ k < n
    BY <1>1
  <2>2. Ready(r[k])
    BY <1>6, <2>1
  <2> DEFINE line == text[k + 1]
  <2>3. /\ r[k + 1] = ReadLine(r[k], line) /\ line \in TextLines
        /\ ~line.nl => k + 1 = n /\ line # Unended(BlankLine(0))
    BY <1>1, <1>2, <1>3, <2>1
  <2> HIDE DEF line
  <2>4. CASE line.nl
    <3>1. Ready(r[k + 1])
      BY <2>2, <2>3, <2>4, LineRead
    <3>2. QED
      BY <3>1, ReadyComplete
  <2>5. CASE ~line.nl
    <3>1. Complete(r[k + 1])
      BY <2>2, <2>3, <2>5, LineRead
    <3>2. ~(k + 1 < n)
      BY <1>1, <2>3, <2>5
    <3>3. QED
      BY <3>1, <3>2
  <2>6. QED
    BY <2>4, <2>5
<1> HIDE DEF S, Fits
<1>7. Nat \subseteq S
  BY <1>5, <1>6, Induct, Zenon
<1>8. Fits(n)
  BY <1>1, <1>7 DEF S
<1>9. QED
  BY <1>3, <1>8 DEF Fits

LEMMA TextSound ==
  ASSUME NEW raw \in Seq(Lines), raw # <<>>, Readable(raw),
         raw \in Seq(BlankLines) \/ (Len(raw) = 1 /\ raw[1] \in CommentLines)
  PROVE  TextNode(raw) \in SoundLeaf
<1> DEFINE n == TextNode(raw)
<1>1. /\ n \in Leaf /\ n.k = "text" /\ n.line = raw[1] /\ n.comments = <<>> /\ n.raw = raw
      /\ ~n.dirty
  BY TextNodeTyped
<1> HIDE DEF n
<1>2. GoodText(n)
  BY <1>1 DEF GoodText
<1>3. QED
  BY <1>1, <1>2 DEF SoundLeaf, Good, n

LEMMA OrphansSound ==
  ASSUME NEW lt \in Trivias(LastRuns, CommentLines)
  PROVE  OrphanTrivia(lt) \in Seq(SoundLeaf)
<1>1. ASSUME NEW run \in LastRuns PROVE EmitBlankRun(run) \in Seq(SoundLeaf)
  <2>1. run \in Seq(BlankLines) /\ run \in Seq(Lines) /\ Readable(run)
    BY RunsLast DEF LastRuns
  <2>2. CASE run = <<>>
    <3>1. EmitBlankRun(run) = <<>>
      BY <2>2 DEF EmitBlankRun
    <3>2. QED
      BY <3>1
  <2>3. CASE run # <<>>
    <3> DEFINE n == TextNode(run)
    <3>1. n \in SoundLeaf
      BY <2>1, <2>3, TextSound
    <3>2. EmitBlankRun(run) = <<n>>
      BY <2>3 DEF EmitBlankRun
    <3> HIDE DEF n
    <3>3. QED
      BY <3>1, <3>2
  <2>4. QED
    BY <2>2, <2>3
<1>2. ASSUME NEW c \in CommentLines PROVE TextNode(<<c>>) \in SoundLeaf
  <2> DEFINE s == <<c>>
  <2>1. c \in Lines /\ c.k # "blank"
    BY LineKinds DEF CommentLines
  <2>2. s \in Seq(Lines) /\ s # <<>> /\ Len(s) = 1 /\ s[1] = c /\ DOMAIN s = {1}
    BY <2>1
  <2>3. c # Unended(BlankLine(0))
    BY <2>1, NotBare
  <2> HIDE DEF s
  <2>4. Readable(s)
    BY <2>2, <2>3 DEF Readable
  <2>5. TextNode(s) \in SoundLeaf
    BY <2>2, <2>4, TextSound
  <2>6. QED
    BY <2>5 DEF s
<1> DEFINE L == SoundLeaf
           C == CommentLines
           R == LastRuns
<1>3. (\A run \in R : EmitBlankRun(run) \in Seq(L)) /\ (\A c \in C : TextNode(<<c>>) \in L)
      /\ lt \in Trivias(R, C)
  BY <1>1, <1>2
<1> HIDE DEF L, C, R
<1>4. LaidOut(lt, L, R, C)
  BY <1>3, OrphansAre, Zenon
<1>5. QED
  BY <1>4 DEF LaidOut, L

\* What the parser makes of a text is good.
LEMMA ParsedSound ==
  ASSUME NEW text \in Seq(TextLines), Readable(text)
  PROVE  ParseDocument(text) \in Document
<1> DEFINE r == Read(ReadStart, text)
           o == OrphanTrivia(r.lt)
<1>1. Complete(r)
  BY ReadSound
<1>2. ParseDocument(text) = Build(r.nodes, o)
  BY ReadIs, BuildIs DEF ParseDocument, ReadStart
<1> HIDE DEF r
<1>3. r.nodes \in Document /\ o \in Seq(SoundLeaf)
  BY <1>1, OrphansSound DEF Complete
<1> HIDE DEF o
<1>4. QED
  BY <1>2, <1>3, BuildsSound

---------------------------------------------------------------------------
(***************************************************************************)
(* The comments a document is told to hold.                                *)
(***************************************************************************)
Tells(t, x) ==
  \/ \E i \in 1..Len(t.above) : t.above[i] = x
  \/ \E i \in 1..Len(t.constructs) :
       \/ t.constructs[i].note = x
       \/ \E j \in 1..Len(t.constructs[i].above) : t.constructs[i].above[j] = x

LEMMA MemberAppended ==
  ASSUME NEW T, NEW s \in Seq(T), NEW e \in T
  PROVE  /\ Len(Append(s, e)) = Len(s) + 1 /\ Len(s) \in Nat
         /\ Append(s, e)[Len(s) + 1] = e /\ \A i \in 1..Len(s) : Append(s, e)[i] = s[i]
OBVIOUS

LEMMA TellsNote ==
  ASSUME NEW t \in Tellings, NEW line \in Lines, line.k = "comment", NEW x
  PROVE  Tells(TellLine(t, line), x) <=> Tells(t, x) \/ x = line.note
<1> DEFINE u == TellLine(t, line)
           a == t.above
           b == Append(a, line.note)
           m == Len(a)
<1>1. a \in Seq(NoteTexts) /\ line.note \in NoteTexts
  BY TellingIs, LineTyped
<1>2. u = [constructs |-> t.constructs, above |-> b]
  BY TellComment
<1> HIDE DEF u, a, b
<1>3. u.constructs = t.constructs /\ u.above = b
  BY <1>2
<1>4. Len(b) = m + 1 /\ m \in Nat /\ b[m + 1] = line.note /\ \A i \in 1..m : b[i] = a[i]
  BY <1>1, MemberAppended DEF b
<1>5. (\E i \in 1..Len(b) : b[i] = x) <=> (\E i \in 1..m : a[i] = x) \/ x = line.note
  <2>1. ASSUME NEW i \in 1..Len(b), b[i] = x PROVE (\E j \in 1..m : a[j] = x) \/ x = line.note
    <3>1. i = m + 1 \/ i \in 1..m
      BY <1>4
    <3>2. QED
      BY <1>4, <2>1, <3>1
  <2>2. ASSUME NEW i \in 1..m, a[i] = x PROVE \E j \in 1..Len(b) : b[j] = x
    <3>1. i \in 1..Len(b) /\ b[i] = x
      BY <1>4, <2>2
    <3>2. QED
      BY <3>1
  <2>3. ASSUME x = line.note PROVE \E j \in 1..Len(b) : b[j] = x
    <3>1. m + 1 \in 1..Len(b) /\ b[m + 1] = x
      BY <1>4, <2>3
    <3>2. QED
      BY <3>1
  <2>4. QED
    BY <2>1, <2>2, <2>3
<1>6. QED
  BY <1>3, <1>5 DEF Tells, u, a

LEMMA TellsAbove ==
  ASSUME NEW t \in Tellings, NEW notes \in Seq(NoteTexts), NEW x, Tells(WithAbove(t, notes), x)
  PROVE  Tells(t, x) \/ \E i \in 1..Len(notes) : notes[i] = x
<1> DEFINE u == WithAbove(t, notes)
           a == t.above
           b == a \o notes
<1>1. a \in Seq(NoteTexts)
  BY TellingIs
<1>2. u = [constructs |-> t.constructs, above |-> b]
  BY AboveTyped
<1> HIDE DEF u, a, b
<1>3. u.constructs = t.constructs /\ u.above = b
  BY <1>2
<1>4. /\ Len(b) = Len(a) + Len(notes) /\ Len(a) \in Nat /\ Len(notes) \in Nat
      /\ \A i \in 1..(Len(a) + Len(notes)) :
           b[i] = IF i <= Len(a) THEN a[i] ELSE notes[i - Len(a)]
  BY <1>1, ConcatProperties DEF b
<1>5. ASSUME NEW i \in 1..Len(b), b[i] = x
      PROVE  (\E j \in 1..Len(a) : a[j] = x) \/ \E j \in 1..Len(notes) : notes[j] = x
  <2>1. CASE i <= Len(a)
    BY <1>4, <1>5, <2>1
  <2>2. CASE ~(i <= Len(a))
    <3>1. i - Len(a) \in 1..Len(notes) /\ notes[i - Len(a)] = x
      BY <1>4, <1>5, <2>2
    <3>2. QED
      BY <3>1
  <2>3. QED
    BY <2>1, <2>2
<1>6. Tells(u, x)
  BY DEF u
<1>7. QED
  BY <1>3, <1>5, <1>6 DEF Tells, a

LEMMA TellsConstruct ==
  ASSUME NEW t \in Tellings, NEW k \in {"pair", "header", "comment", "blank", "text"},
         NEW y \in Names \cup {0}, NEW note \in NoteTexts, NEW x
  PROVE  Tells(WithConstruct(t, k, y, note), x) <=> Tells(t, x) \/ x = note
<1> DEFINE u == WithConstruct(t, k, y, note)
           a == t.above
           c == t.constructs
           e == [k |-> k, x |-> y, note |-> note, above |-> a]
           b == Append(c, e)
           m == Len(c)
<1>1. a \in Seq(NoteTexts) /\ c \in Seq(Constructed)
  BY TellingIs
<1>2. u = [constructs |-> b, above |-> <<>>]
  BY DEF WithConstruct
<1> HIDE DEF a
<1>3. e \in Constructed /\ e.note = note /\ e.above = a
  BY <1>1 DEF Constructed
<1> HIDE DEF u, c, b, e
<1>4. u.constructs = b /\ Len(u.above) = 0
  BY <1>2
<1>5. Len(b) = m + 1 /\ m \in Nat /\ b[m + 1] = e /\ \A i \in 1..m : b[i] = c[i]
  BY <1>1, <1>3, MemberAppended DEF b
<1> DEFINE Has(z) == z.note = x \/ \E j \in 1..Len(z.above) : z.above[j] = x
<1>6. Has(e) <=> x = note \/ \E j \in 1..Len(a) : a[j] = x
  BY <1>3
<1> HIDE DEF Has
<1>7. (\E i \in 1..Len(b) : Has(b[i])) <=> (\E i \in 1..m : Has(c[i])) \/ Has(e)
  <2>1. ASSUME NEW i \in 1..Len(b), Has(b[i]) PROVE (\E j \in 1..m : Has(c[j])) \/ Has(e)
    <3>1. i = m + 1 \/ i \in 1..m
      BY <1>5
    <3>2. QED
      BY <1>5, <2>1, <3>1
  <2>2. ASSUME NEW i \in 1..m, Has(c[i]) PROVE \E j \in 1..Len(b) : Has(b[j])
    <3>1. i \in 1..Len(b) /\ b[i] = c[i]
      BY <1>5
    <3>2. QED
      BY <2>2, <3>1
  <2>3. ASSUME Has(e) PROVE \E j \in 1..Len(b) : Has(b[j])
    <3>1. m + 1 \in 1..Len(b) /\ b[m + 1] = e
      BY <1>5
    <3>2. QED
      BY <2>3, <3>1
  <2>4. QED
    BY <2>1, <2>2, <2>3
<1>8. Tells(u, x) <=> \E i \in 1..Len(b) : Has(b[i])
  BY <1>4 DEF Tells, Has
<1>9. Tells(t, x) <=> (\E j \in 1..Len(a) : a[j] = x) \/ \E i \in 1..m : Has(c[i])
  BY DEF Tells, Has, a, c
<1>10. QED
  BY <1>6, <1>7, <1>8, <1>9 DEF u

\* What is told of a document it holds.
LEMMA ToldHeld ==
  ASSUME NEW d \in Document, NEW x, x # <<>>, Tells(Told(d), x)
  PROVE  x \in Held(d)
<1> DEFINE H == Held(d) \cup {<<>>}
           N == {n \in SoundNode : CommentsUnder(n) \subseteq H}
           I == {t \in Tellings : \A y : Tells(t, y) => y \in H}
<1>1. d \in Seq(SoundNode) /\ DOMAIN d = 1..Len(d)
  BY DEF Document
<1>2. d \in Seq(N)
  <2>1. \A i \in 1..Len(d) : d[i] \in SoundNode /\ CommentsUnder(d[i]) \subseteq H
    BY <1>1 DEF Held
  <2>2. \A i \in 1..Len(d) : d[i] \in N
    BY <2>1
  <2> HIDE DEF N
  <2>3. QED
    BY <1>1, <2>2
<1> HIDE DEF H
<1>3. ASSUME NEW n \in N PROVE n.children \in Seq(N)
  <2>1. n.children \in Seq(SoundLeaf)
    BY DEF SoundNode
  <2>2. ASSUME NEW i \in 1..Len(n.children) PROVE n.children[i] \in N
    <3> DEFINE m == n.children[i]
    <3>1. m \in SoundLeaf /\ i \in DOMAIN n.children
      BY <2>1
    <3>2. m \in SoundNode /\ m.children = <<>>
      BY <3>1, LeafKinds DEF SoundLeaf
    <3>3. CommentsOf(m) \subseteq CommentsUnder(n)
      BY <3>1 DEF CommentsUnder
    <3> HIDE DEF m
    <3>4. CommentsUnder(m) = CommentsOf(m)
      BY <3>2 DEF CommentsUnder
    <3>5. QED
      BY <3>2, <3>3, <3>4 DEF m
  <2>3. \A i \in 1..Len(n.children) : n.children[i] \in N
    BY <2>2
  <2> HIDE DEF N
  <2>4. QED
    BY <2>1, <2>3
<1>4. Nodes(d) \in Seq(N)
  <2> HIDE DEF N
  <2>1. QED
    BY <1>2, <1>3, BlocksTyped
<1>5. Nothing \in I
  <2>1. <<>> \in Seq(Constructed) /\ <<>> \in Seq(NoteTexts)
    OBVIOUS
  <2>2. Nothing \in Tellings
    BY <2>1 DEF Nothing, Tellings
  <2>3. Len(Nothing.above) = 0 /\ Len(Nothing.constructs) = 0
    BY DEF Nothing
  <2>4. \A y : ~Tells(Nothing, y)
    BY <2>3 DEF Tells
  <2>5. QED
    BY <2>2, <2>4
<1>6. ASSUME NEW t \in I, NEW n \in N PROVE Tell(t, n) \in I
  <2>1. /\ n \in Node /\ Good(n) /\ CommentsUnder(n) \subseteq H
        /\ t \in Tellings /\ \A y : Tells(t, y) => y \in H
    BY DEF SoundNode
  <2>2. n.line \in Lines /\ n.line.note \in H /\ n.comments \in Seq(Lines)
        /\ \A i \in 1..Len(n.comments) : n.comments[i].note \in H
    <3>1. n.line \in Lines /\ n.comments \in Seq(Lines)
      BY <2>1 DEF Node
    <3>2. CommentsOf(n) \subseteq H
      BY <2>1 DEF CommentsUnder
    <3>3. QED
      BY <3>1, <3>2 DEF CommentsOf
  <2> SUFFICES Tell(t, n) \in Tellings /\ \A y : Tells(Tell(t, n), y) => y \in H
    OBVIOUS
  <2> HIDE DEF N, I
  <2>3. CASE n.k = "text"
    <3>1. n.comments = <<>>
      BY <2>1, <2>3 DEF Good, GoodText
    <3>2. /\ n.line.k = "comment" => Tell(t, n) = TellLine(t, n.line)
          /\ n.line.k # "comment" => Tell(t, n) = t
          /\ Tell(t, n) \in Tellings
      BY <2>1, <2>3, <3>1, TextTells
    <3>3. n.line.k = "comment" => \A y : Tells(TellLine(t, n.line), y) <=> Tells(t, y) \/ y = n.line.note
      BY <2>1, <2>2, TellsNote
    <3>4. QED
      BY <2>1, <2>2, <3>2, <3>3
  <2>4. CASE n.k # "text"
    <3> DEFINE q == NotesOf(n.comments)
               u == WithAbove(t, q)
    <3>1. q \in Seq(NoteTexts) /\ Len(q) = Len(n.comments)
          /\ \A i \in 1..Len(n.comments) : q[i] = n.comments[i].note
      BY <2>2, NotesTyped
    <3> HIDE DEF q
    <3>2. /\ u \in Tellings
          /\ Tell(t, n) = WithConstruct(u, n.k, n.line.x, n.line.note)
          /\ Tell(t, n) \in Tellings
      BY <2>1, <2>2, <2>4, ConstructTells DEF q
    <3>3. ASSUME NEW y, Tells(u, y) PROVE y \in H
      <4>1. Tells(t, y) \/ \E i \in 1..Len(q) : q[i] = y
        BY <2>1, <3>1, <3>3, TellsAbove
      <4>2. QED
        BY <2>1, <2>2, <3>1, <4>1
    <3>4. n.k \in {"pair", "header", "comment", "blank", "text"} /\ n.line.x \in Names \cup {0}
          /\ n.line.note \in NoteTexts
      BY <2>1, <2>2, LineTyped DEF Node
    <3> HIDE DEF u
    <3>5. \A y : Tells(WithConstruct(u, n.k, n.line.x, n.line.note), y)
                   <=> Tells(u, y) \/ y = n.line.note
      <4> DEFINE k == n.k
                 z == n.line.x
                 note == n.line.note
      <4> HIDE DEF k, z, note
      <4>1. u \in Tellings /\ k \in {"pair", "header", "comment", "blank", "text"}
            /\ z \in Names \cup {0} /\ note \in NoteTexts
        BY <3>2, <3>4 DEF k, z, note
      <4>2. \A y : Tells(WithConstruct(u, k, z, note), y) <=> Tells(u, y) \/ y = note
        BY <4>1, TellsConstruct
      <4>3. QED
        BY <4>2 DEF k, z, note
    <3>6. QED
      BY <2>2, <3>2, <3>3, <3>5
  <2>5. QED
    BY <2>3, <2>4
<1>7. Told(d) \in I
  <2> HIDE DEF N, I
  <2>1. NodesTell(Nothing, Nodes(d)) \in I
    BY <1>4, <1>5, <1>6, NodesKeep, Zenon
  <2>2. QED
    BY <2>1, TellIs DEF Told
<1>8. QED
  BY <1>7 DEF H

\* What stands in a text its lines tell.
LEMMA NotesTold ==
  ASSUME NEW text \in Seq(TextLines), NEW x \in Notes(text)
  PROVE  Tells(LinesTell(Nothing, text), x)
<1> DEFINE n == Len(text)
<1>1. n \in Nat /\ DOMAIN text = 1..n /\ \A k \in 1..n : text[k] \in TextLines
  OBVIOUS
<1>2. PICK i \in 1..n : text[i].note = x /\ x # <<>>
  BY <1>1 DEF Notes
<1>3. PICK u : /\ u[0] = Nothing /\ u[n] = LinesTell(Nothing, text)
               /\ \A k \in 1..n : u[k] = TellLine(u[k - 1], text[k])
  BY LinesRun
<1> DEFINE Fits(k) == u[k] \in Tellings /\ (i <= k => Tells(u[k], x))
           S == {k \in Nat : k <= n => Fits(k)}
<1> HIDE DEF n
<1>4. 0 \in S
  <2>1. <<>> \in Seq(Constructed) /\ <<>> \in Seq(NoteTexts)
    OBVIOUS
  <2>2. Nothing \in Tellings
    BY <2>1 DEF Nothing, Tellings
  <2>3. QED
    BY <1>1, <1>3, <2>2
<1>5. ASSUME NEW k \in Nat, k \in S PROVE k + 1 \in S
  <2> SUFFICES ASSUME k + 1 <= n PROVE Fits(k + 1)
    OBVIOUS
  <2>1. k + 1 \in 1..n /\ (k + 1) - 1 = k /\ k <= n
    BY <1>1
  <2> DEFINE line == text[k + 1]
             v == u[k]
  <2>2. v \in Tellings /\ (i <= k => Tells(v, x))
    BY <1>5, <2>1
  <2>3. u[k + 1] = TellLine(v, line) /\ line \in TextLines
    BY <1>1, <1>3, <2>1
  <2>4. i <= k + 1 => i <= k \/ line.note = x
    BY <1>1, <1>2
  <2> HIDE DEF line, v
  <2>5. line \in Lines /\ line.k \in {"blank", "comment", "pair", "header"}
        /\ (line.k = "blank" => line.note = <<>>)
    BY <2>3, LineTyped DEF TextLines
  <2>6. TellLine(v, line) \in Tellings
    BY <2>2, <2>5, TellTyped
  <2>7. ASSUME Tells(v, x) \/ line.note = x PROVE Tells(TellLine(v, line), x)
    <3>1. CASE line.k = "blank"
      BY <1>2, <2>5, <2>7, <3>1, TellBlank
    <3>2. CASE line.k = "comment"
      BY <2>2, <2>5, <2>7, <3>2, TellsNote
    <3>3. CASE line.k \in {"pair", "header"}
      <4>1. TellLine(v, line) = WithConstruct(v, line.k, line.x, line.note)
        BY <2>2, <2>5, <3>3, TellConstruct
      <4>2. line.x \in Names \cup {0} /\ line.note \in NoteTexts
        BY <2>5, LineTyped
      <4>3. Tells(WithConstruct(v, line.k, line.x, line.note), x) <=> Tells(v, x) \/ x = line.note
        BY <2>2, <3>3, <4>2, TellsConstruct, ZenonT(40)
      <4>4. QED
        BY <2>7, <4>1, <4>3
    <3>4. QED
      BY <2>5, <3>1, <3>2, <3>3
  <2>8. QED
    BY <2>2, <2>3, <2>4, <2>6, <2>7
<1> HIDE DEF S, Fits
<1>6. Nat \subseteq S
  BY <1>4, <1>5, Induct, Zenon
<1>7. Fits(n)
  BY <1>1, <1>6 DEF S
<1>8. i <= n
  BY <1>1
<1>9. QED
  BY <1>3, <1>7, <1>8 DEF Fits

\* A document that was read holds the comments of its text.
LEMMA ParsedHolds ==
  ASSUME NEW text \in Seq(TextLines), Readable(text)
  PROVE  Notes(text) \subseteq Held(ParseDocument(text))
<1> DEFINE d == ParseDocument(text)
<1>1. d \in Document
  BY ParsedSound
<1>2. text \in Seq(Lines)
  <2>1. TextLines \subseteq Lines
    BY DEF TextLines
  <2>2. QED
    BY <2>1, SeqMonotonic
<1>3. Told(d) = LinesTell(Nothing, text)
  BY <1>2, ParsedTold
<1> HIDE DEF d
<1>4. ASSUME NEW x \in Notes(text) PROVE x \in Held(d)
  <2>1. Tells(Told(d), x) /\ x # <<>>
    BY <1>3, NotesTold DEF Notes
  <2>2. QED
    BY <1>1, <2>1, ToldHeld
<1>5. QED
  BY <1>4 DEF d

---------------------------------------------------------------------------
(***************************************************************************)
(* The invariant: the nodes are good, and no comment got lost.             *)
(***************************************************************************)
IInv == doc \in Document /\ CommentsStay

---------------------------------------------------------------------------
(***************************************************************************)
(* Sequences.                                                              *)
(***************************************************************************)
\* A function on 1..n is a sequence.
LEMMA ASequence ==
  ASSUME NEW T, NEW n \in Nat, NEW f, f = [i \in 1..n |-> f[i]], \A i \in 1..n : f[i] \in T
  PROVE  f \in Seq(T) /\ Len(f) = n
<1>1. f \in [1..n -> T]
  OBVIOUS
<1>2. QED
  BY <1>1

\* What InsertAt adds to and keeps of a sequence.
LEMMA Inserted ==
  ASSUME NEW T, NEW s \in Seq(T), NEW i \in 1..(Len(s) + 1), NEW e \in T
  PROVE  /\ InsertAt(s, i, e) \in Seq(T)
         /\ \A j \in 1..Len(s) : \E k \in 1..Len(InsertAt(s, i, e)) : InsertAt(s, i, e)[k] = s[j]
<1> DEFINE f == SubSeq(s, 1, i - 1)
           g == SubSeq(s, i, Len(s))
           h == f \o <<e>>
           all == h \o g
<1>1. Len(s) \in Nat /\ i \in Nat /\ 1 <= i /\ i <= Len(s) + 1
  OBVIOUS
<1>2. f \in Seq(T) /\ Len(f) = i - 1 /\ \A k \in 1..(i - 1) : f[k] = s[k]
  BY <1>1, SubSeqProperties
<1>3. g \in Seq(T) /\ Len(g) = Len(s) - i + 1 /\ \A k \in 1..(Len(s) - i + 1) : g[k] = s[i + k - 1]
  BY <1>1, SubSeqProperties
<1> HIDE DEF f, g
<1>4. h \in Seq(T) /\ Len(h) = i /\ \A k \in 1..(i - 1) : h[k] = f[k]
  BY <1>1, <1>2
<1> HIDE DEF h
<1>5. all \in Seq(T) /\ Len(all) = Len(s) + 1
  <2>1. all \in Seq(T) /\ Len(all) = Len(h) + Len(g)
    BY <1>3, <1>4, ConcatProperties
  <2>2. QED
    BY <1>1, <1>3, <1>4, <2>1
<1>6. \A k \in 1..Len(all) : all[k] = IF k <= i THEN h[k] ELSE g[k - i]
  <2>1. /\ Len(all) = Len(h) + Len(g)
        /\ \A k \in 1..Len(h) + Len(g) : all[k] = IF k <= Len(h) THEN h[k] ELSE g[k - Len(h)]
    BY <1>3, <1>4, ConcatProperties
  <2>2. QED
    BY <1>4, <2>1
<1> HIDE DEF all
<1>7. ASSUME NEW j \in 1..Len(s)
      PROVE  \E k \in 1..Len(all) : all[k] = s[j]
  <2>1. CASE j < i
    <3>1. j \in 1..(i - 1) /\ j \in 1..Len(all) /\ j <= i
      BY <1>1, <1>5, <2>1
    <3>2. QED
      BY <1>2, <1>4, <1>6, <3>1
  <2>2. CASE j >= i
    <3>1. /\ j + 1 \in 1..Len(all) /\ ~(j + 1 <= i) /\ j + 1 - i \in 1..(Len(s) - i + 1)
          /\ i + (j + 1 - i) - 1 = j
      BY <1>1, <1>5, <2>2
    <3>2. all[j + 1] = g[j + 1 - i]
      BY <1>6, <3>1
    <3>3. g[j + 1 - i] = s[j]
      BY <1>3, <3>1
    <3>4. QED
      BY <3>1, <3>2, <3>3
  <2>3. QED
    BY <1>1, <2>1, <2>2
<1>8. InsertAt(s, i, e) = all
  BY DEF InsertAt, all, h, g, f
<1>9. QED
  BY <1>5, <1>7, <1>8

\* A member of a finite set of numbers is known by how many come up to it.
LEMMA Ranked ==
  ASSUME NEW n \in Nat, NEW S \in SUBSET (1..n)
  PROVE  /\ Cardinality(S) \in Nat
         /\ \A j \in S : Cardinality({m \in S : m <= j}) \in 1..Cardinality(S)
         /\ \A i \in 1..Cardinality(S) : \E j \in S : Cardinality({m \in S : m <= j}) = i
         /\ \A j, k \in S :
              Cardinality({m \in S : m <= j}) = Cardinality({m \in S : m <= k}) => j = k
<1> DEFINE UpToOf(j) == {m \in S : m <= j}
           f == [j \in S |-> Cardinality(UpToOf(j))]
           N == Cardinality(S)
<1>1. IsFiniteSet(1..n)
  BY FS_Interval
<1>2. IsFiniteSet(S) /\ N \in Nat
  BY <1>1, FS_Subset, FS_CardinalityType
<1>3. \A j \in S : /\ IsFiniteSet(UpToOf(j)) /\ Cardinality(UpToOf(j)) \in Nat
                   /\ Cardinality(UpToOf(j)) <= N
  <2> SUFFICES ASSUME NEW j \in S
               PROVE  /\ IsFiniteSet(UpToOf(j)) /\ Cardinality(UpToOf(j)) \in Nat
                      /\ Cardinality(UpToOf(j)) <= N
    OBVIOUS
  <2>1. UpToOf(j) \in SUBSET S
    OBVIOUS
  <2>2. IsFiniteSet(UpToOf(j)) /\ Cardinality(UpToOf(j)) <= N
    BY <1>2, <2>1, FS_Subset
  <2>3. QED
    BY <2>2, FS_CardinalityType
<1>4. \A j \in S : Cardinality(UpToOf(j)) # 0
  <2> SUFFICES ASSUME NEW j \in S PROVE Cardinality(UpToOf(j)) # 0
    OBVIOUS
  <2>1. j \in UpToOf(j)
    OBVIOUS
  <2>2. QED
    BY <1>3, <2>1, FS_EmptySet
<1>5. ASSUME NEW j \in S, NEW k \in S, Cardinality(UpToOf(j)) = Cardinality(UpToOf(k))
      PROVE  j = k
  <2>1. ASSUME NEW a \in S, NEW b \in S, a <= b, Cardinality(UpToOf(a)) = Cardinality(UpToOf(b))
        PROVE  a = b
    <3>1. UpToOf(a) \in SUBSET UpToOf(b)
      <4>1. a \in Nat /\ b \in Nat /\ \A m \in S : m \in Nat
        OBVIOUS
      <4>2. \A m \in S : m <= a => m <= b
        BY <2>1, <4>1
      <4>3. QED
        BY <4>2
    <3>2. UpToOf(a) = UpToOf(b)
      BY <1>3, <2>1, <3>1, FS_Subset
    <3>3. b \in UpToOf(a)
      BY <3>2
    <3>4. QED
      BY <2>1, <3>3
  <2>2. j <= k \/ k <= j
    OBVIOUS
  <2>3. QED
    BY <1>5, <2>1, <2>2
<1>6. f \in Injection(S, 1..N)
  <2>1. f \in [S -> 1..N]
    BY <1>2, <1>3, <1>4
  <2>2. QED
    BY <1>5, <2>1 DEF Injection, IsInjective
<1>7. f \in Surjection(S, 1..N)
  <2>1. IsFiniteSet(1..N) /\ Cardinality(1..N) = N
    BY <1>2, FS_Interval
  <2>2. QED
    BY <1>6, <2>1, FS_Injection
<1>8. \A i \in 1..N : \E j \in S : Cardinality(UpToOf(j)) = i
  BY <1>7 DEF Surjection
<1>9. QED
  BY <1>2, <1>3, <1>4, <1>5, <1>8

\* What Without leaves of a container's items.
LEMMA LeftOver ==
  ASSUME NEW T, NEW items \in Seq(T), NEW c, NEW s
  PROVE  /\ Without(items, c, s) \in Seq(T)
         /\ \A j \in 1..Len(items) : <<c, j>> \notin s =>
              \E i \in 1..Len(Without(items, c, s)) : Without(items, c, s)[i] = items[j]
<1> DEFINE left == {j \in DOMAIN items : <<c, j>> \notin s}
           N == Cardinality(left)
           Rank(j) == Cardinality({m \in left : m <= j})
           Nth(i) == CHOOSE j \in left : Rank(j) = i
           w == [i \in 1..N |-> items[Nth(i)]]
<1>1. left \in SUBSET (1..Len(items)) /\ Len(items) \in Nat
  OBVIOUS
<1>2. /\ N \in Nat
      /\ \A j \in left : Rank(j) \in 1..N
      /\ \A i \in 1..N : \E j \in left : Rank(j) = i
      /\ \A j, k \in left : Rank(j) = Rank(k) => j = k
  <2> HIDE DEF left
  <2>1. QED
    BY <1>1, Ranked
<1>3. Without(items, c, s) = w
  BY DEF Without
<1>4. \A j \in 1..Len(items) : <<c, j>> \notin s => j \in left
  OBVIOUS
<1>5. \A j \in left : items[j] \in T
  OBVIOUS
<1> HIDE DEF left, Rank
<1>6. \A i \in 1..N : Nth(i) \in left /\ Rank(Nth(i)) = i
  BY <1>2
<1>7. w \in Seq(T) /\ Len(w) = N
  BY <1>2, <1>5, <1>6
<1>8. ASSUME NEW j \in left PROVE \E i \in 1..N : w[i] = items[j]
  <2>1. Rank(j) \in 1..N
    BY <1>2
  <2>2. Nth(Rank(j)) \in left /\ Rank(Nth(Rank(j))) = Rank(j)
    BY <1>6, <2>1
  <2>3. Nth(Rank(j)) = j
    BY <1>2, <2>2
  <2>4. w[Rank(j)] = items[j]
    BY <2>1, <2>3
  <2>5. QED
    BY <2>1, <2>4
<1>9. QED
  BY <1>3, <1>4, <1>7, <1>8, ZenonT(40)

\* A sequence up to each of its places.
LEMMA UpToEach ==
  ASSUME NEW T, NEW s \in Seq(T)
  PROVE  /\ SubSeq(s, 1, 0) = <<>> /\ SubSeq(s, 1, Len(s)) = s
         /\ \A k \in 1..Len(s) : /\ SubSeq(s, 1, k - 1) \in Seq(T)
                                 /\ SubSeq(s, 1, k) = Append(SubSeq(s, 1, k - 1), s[k])
<1>1. SubSeq(s, 1, 0) = <<>> /\ SubSeq(s, 1, Len(s)) = s
  OBVIOUS
<1>2. ASSUME NEW k \in 1..Len(s)
      PROVE  /\ SubSeq(s, 1, k - 1) \in Seq(T)
             /\ SubSeq(s, 1, k) = Append(SubSeq(s, 1, k - 1), s[k])
  OBVIOUS
<1>3. QED
  BY <1>1, <1>2

---------------------------------------------------------------------------
(***************************************************************************)
(* Documents.                                                              *)
(***************************************************************************)
\* Every comment under a node of d is in S or under a node of e.
Carries(d, e, S) ==
  \A i \in 1..Len(d) : \A x \in CommentsUnder(d[i]) :
    x \in S \/ \E j \in 1..Len(e) : x \in CommentsUnder(e[j])

LEMMA HeldCarried ==
  ASSUME NEW d \in Seq(SoundNode), NEW e \in Seq(SoundNode), NEW S, Carries(d, e, S)
  PROVE  Held(d) \subseteq Held(e) \cup S
<1> SUFFICES ASSUME NEW x \in Held(d), x \notin S PROVE x \in Held(e)
  OBVIOUS
<1>1. DOMAIN d = 1..Len(d) /\ DOMAIN e = 1..Len(e)
  OBVIOUS
<1>2. PICK i \in 1..Len(d) : x \in CommentsUnder(d[i])
  BY <1>1 DEF Held
<1>3. x # <<>>
  BY DEF Held
<1>4. PICK j \in 1..Len(e) : x \in CommentsUnder(e[j])
  BY <1>2 DEF Carries
<1>5. QED
  BY <1>1, <1>3, <1>4 DEF Held

\* A leaf is a node, and its comments are its own.
LEMMA LeafNode ==
  /\ SoundLeaf \subseteq SoundNode /\ Seq(SoundLeaf) \subseteq Seq(SoundNode)
  /\ \A n \in SoundLeaf : CommentsUnder(n) = CommentsOf(n)
<1>1. SoundLeaf \subseteq SoundNode /\ \A n \in SoundLeaf : n.children = <<>>
  BY LeafKinds DEF SoundLeaf
<1>2. Seq(SoundLeaf) \subseteq Seq(SoundNode)
  BY <1>1, SeqMonotonic
<1>3. \A n \in SoundLeaf : CommentsUnder(n) = CommentsOf(n)
  BY <1>1 DEF CommentsUnder
<1>4. QED
  BY <1>1, <1>2, <1>3

\* The comments under a node whose children all are in S or under other ones.
LEMMA NodeCarried ==
  ASSUME NEW n \in SoundNode, NEW items \in Seq(SoundLeaf), NEW S, Carries(n.children, items, S)
  PROVE  /\ [n EXCEPT !.children = items] \in SoundNode
         /\ CommentsUnder(n) \subseteq CommentsUnder([n EXCEPT !.children = items]) \cup S
         /\ \A j \in 1..Len(items) :
              CommentsUnder(items[j]) \subseteq CommentsUnder([n EXCEPT !.children = items])
<1> DEFINE m == [n EXCEPT !.children = items]
<1>1. /\ m \in SoundNode /\ m.children = items /\ n.children \in Seq(SoundLeaf)
      /\ m.comments = n.comments /\ m.line = n.line
  BY SoundWith DEF SoundNode, Node
<1> HIDE DEF m
<1>2. CommentsOf(m) = CommentsOf(n)
  BY <1>1 DEF CommentsOf
<1>3. \A i \in 1..Len(n.children) : CommentsUnder(n.children[i]) = CommentsOf(n.children[i])
  BY <1>1, LeafNode
<1>4. \A j \in 1..Len(items) : CommentsUnder(items[j]) = CommentsOf(items[j])
  BY LeafNode
<1>5. \A j \in 1..Len(items) : CommentsOf(items[j]) \subseteq CommentsUnder(m)
  BY <1>1 DEF CommentsUnder
<1>6. ASSUME NEW x \in CommentsUnder(n), x \notin S PROVE x \in CommentsUnder(m)
  <2>1. CASE x \in CommentsOf(n)
    BY <1>2, <2>1 DEF CommentsUnder
  <2>2. CASE \E i \in 1..Len(n.children) : x \in CommentsOf(n.children[i])
    <3>1. PICK i \in 1..Len(n.children) : x \in CommentsUnder(n.children[i])
      BY <1>3, <2>2
    <3>2. PICK j \in 1..Len(items) : x \in CommentsUnder(items[j])
      BY <1>6, <3>1 DEF Carries
    <3>3. QED
      BY <1>4, <1>5, <3>2
  <2>3. QED
    BY <1>1, <2>1, <2>2 DEF CommentsUnder
<1>7. QED
  BY <1>1, <1>4, <1>5, <1>6 DEF m

\* The containers and what they hold.
LEMMA ContainerItems ==
  ASSUME doc \in Document, NEW c \in Containers
  PROVE  /\ ChildrenIn(doc, c) \in Seq(SoundNode)
         /\ c # 0 => /\ c \in 1..Len(doc) /\ ChildrenIn(doc, c) = doc[c].children
                     /\ ChildrenIn(doc, c) \in Seq(SoundLeaf)
         /\ c = 0 => ChildrenIn(doc, c) = doc
<1>1. c # 0 => c \in 1..Len(doc)
  BY DEF Containers, Headers, Document
<1>2. c # 0 => doc[c].children \in Seq(SoundLeaf)
  <2>1. c # 0 => doc[c] \in SoundNode
    BY <1>1 DEF Document
  <2>2. QED
    BY <2>1 DEF SoundNode
<1>3. QED
  BY <1>1, <1>2, LeafNode DEF ChildrenIn, Document

\* What a container that took other items holds.
LEMMA Stored ==
  ASSUME doc \in Document, NEW c \in Containers, NEW S, NEW items \in Seq(SoundNode),
         c # 0 => items \in Seq(SoundLeaf), Carries(ChildrenIn(doc, c), items, S)
  PROVE  /\ StoreContents(c, items) \in Document
         /\ Held(doc) \subseteq Held(StoreContents(c, items)) \cup S
         /\ \A j \in 1..Len(items) :
              CommentsUnder(items[j]) \ {<<>>} \subseteq Held(StoreContents(c, items))
<1>1. CASE c = 0
  <2>1. StoreContents(c, items) = items /\ ChildrenIn(doc, c) = doc
    BY <1>1 DEF StoreContents, ChildrenIn
  <2>2. Held(doc) \subseteq Held(items) \cup S
    BY <2>1, HeldCarried DEF Document
  <2>3. \A j \in 1..Len(items) : CommentsUnder(items[j]) \ {<<>>} \subseteq Held(items)
    BY DEF Held
  <2>4. QED
    BY <2>1, <2>2, <2>3 DEF Document
<1>2. CASE c # 0
  <2> DEFINE n == doc[c]
             m == [n EXCEPT !.children = items]
             d == [doc EXCEPT ![c] = m]
  <2>1. c \in 1..Len(doc) /\ n \in SoundNode /\ ChildrenIn(doc, c) = n.children
    BY <1>2, ContainerItems DEF Document
  <2>2. /\ m \in SoundNode
        /\ CommentsUnder(n) \subseteq CommentsUnder(m) \cup S
        /\ \A j \in 1..Len(items) : CommentsUnder(items[j]) \subseteq CommentsUnder(m)
    BY <1>2, <2>1, NodeCarried, ZenonT(40)
  <2>3. StoreContents(c, items) = d
    BY <1>2 DEF StoreContents
  <2> HIDE DEF m
  <2>4. /\ d \in Seq(SoundNode) /\ Len(d) = Len(doc) /\ d[c] = m
        /\ \A i \in 1..Len(doc) : i # c => d[i] = doc[i]
    BY <2>1, <2>2 DEF Document
  <2> HIDE DEF d
  <2>5. Carries(doc, d, S)
    BY <2>1, <2>2, <2>4 DEF Carries
  <2>6. Held(doc) \subseteq Held(d) \cup S
    BY <2>4, <2>5, HeldCarried DEF Document
  <2>7. CommentsUnder(m) \ {<<>>} \subseteq Held(d)
    BY <2>1, <2>4 DEF Held
  <2>8. QED
    BY <2>2, <2>3, <2>4, <2>6, <2>7 DEF Document
<1>3. QED
  BY <1>1, <1>2

\* A document took over all comments but those in S, and kept allows for them.
LEMMA Kept ==
  ASSUME IInv, NEW S, doc' \in Document, Held(doc) \subseteq Held(doc') \cup S,
         kept' \subseteq (kept \ S) \cup Held(doc')
  PROVE  IInv'
BY DEF IInv, CommentsStay, Held, Document

---------------------------------------------------------------------------
(***************************************************************************)
(* The edits.                                                              *)
(***************************************************************************)
LEMMA PlaceOf ==
  ASSUME doc \in Document, NEW p \in Places
  PROVE  /\ p[1] \in Containers /\ p[2] \in 1..Len(ChildrenIn(doc, p[1]))
         /\ At(p) = ChildrenIn(doc, p[1])[p[2]]
         /\ At(p) \in SoundNode /\ (p[1] # 0 => At(p) \in SoundLeaf)
<1>1. PICK c \in Containers : \E i \in DOMAIN ChildrenIn(doc, c) : p = <<c, i>>
  BY DEF Places
<1>2. PICK i \in DOMAIN ChildrenIn(doc, c) : p = <<c, i>>
  BY <1>1
<1>3. /\ ChildrenIn(doc, c) \in Seq(SoundNode) /\ (c # 0 => ChildrenIn(doc, c) \in Seq(SoundLeaf))
      /\ p[1] = c /\ p[2] = i
  BY <1>2, ContainerItems
<1>4. i \in 1..Len(ChildrenIn(doc, c))
  BY <1>2, <1>3
<1>5. QED
  BY <1>3, <1>4 DEF At

\* The node at a place was replaced by n: the comments in old may be missing
\* there, those in new are there.
LEMMA PutInv ==
  ASSUME IInv, NEW p \in Places, NEW n \in SoundNode, p[1] # 0 => n \in SoundLeaf, NEW old, NEW new,
         CommentsUnder(At(p)) \subseteq CommentsUnder(n) \cup old,
         new \subseteq CommentsUnder(n) \ {<<>>},
         doc' = Put(p, n), kept' = (kept \ old) \cup new
  PROVE  IInv'
<1> DEFINE c == p[1]
           i == p[2]
           was == ChildrenIn(doc, c)
           items == [was EXCEPT ![i] = n]
<1>1. doc \in Document /\ c \in Containers /\ i \in 1..Len(was) /\ At(p) = was[i]
  BY PlaceOf DEF IInv
<1>2. was \in Seq(SoundNode) /\ (c # 0 => was \in Seq(SoundLeaf))
  BY <1>1, ContainerItems
<1>3. doc' = StoreContents(c, items)
  BY DEF Put
<1> HIDE DEF c, i, was
<1>4. /\ items \in Seq(SoundNode) /\ Len(items) = Len(was) /\ items[i] = n
      /\ \A j \in 1..Len(was) : j # i => items[j] = was[j]
  BY <1>1, <1>2
<1>5. c # 0 => items \in Seq(SoundLeaf)
  <2>1. c # 0 => n \in SoundLeaf
    BY DEF c
  <2>2. QED
    BY <1>1, <1>2, <2>1
<1> HIDE DEF items
<1>6. Carries(was, items, old)
  BY <1>1, <1>4 DEF Carries
<1>7. /\ doc' \in Document /\ Held(doc) \subseteq Held(doc') \cup old
      /\ CommentsUnder(n) \ {<<>>} \subseteq Held(doc')
  BY <1>1, <1>3, <1>4, <1>5, <1>6, Stored DEF was
<1>8. QED
  BY <1>7, Kept

\* Nodes with the same comments, inline comment and children.
LEMMA SameComments ==
  ASSUME NEW n, NEW m, m.comments = n.comments, m.line.note = n.line.note,
         m.children = n.children
  PROVE  CommentsUnder(m) = CommentsUnder(n)
BY DEF CommentsUnder, CommentsOf

\* A construct, and what becomes of one that is written.
LEMMA ConstructParts ==
  ASSUME NEW n \in SoundNode, n.k # "text"
  PROVE  /\ n \in Node /\ n.line \in Lines /\ n.line.k = n.k /\ n.k \in {"pair", "header"}
         /\ n.comments \in Seq(Ended(CommentLines)) /\ n.blanks \in Seq(Seq(Ended(BlankLines)))
         /\ n.children \in Seq(SoundLeaf) /\ (n \in Leaf => n \in SoundLeaf)
<1>1. n \in Node /\ GoodConstruct(n) /\ Good(n) /\ n.children \in Seq(SoundLeaf)
  BY DEF SoundNode, Good
<1>2. n.line \in Lines /\ n.k \in {"pair", "header"}
  BY <1>1 DEF Node
<1>3. QED
  BY <1>1, <1>2 DEF GoodConstruct, SoundLeaf

LEMMA Touched ==
  ASSUME NEW n \in SoundNode, n.k # "text", NEW m \in Node, m.k = n.k, m.line.k = n.line.k,
         m.dirty, m.children = n.children,
         m.comments \in Seq(Ended(CommentLines)), m.blanks \in Seq(Seq(Ended(BlankLines)))
  PROVE  m \in SoundNode /\ (m \in Leaf => m \in SoundLeaf)
<1>1. n.line.k = n.k /\ n.children \in Seq(SoundLeaf)
  BY ConstructParts
<1>2. GoodConstruct(m)
  BY <1>1 DEF GoodConstruct
<1>3. Good(m)
  BY <1>2 DEF Good
<1>4. QED
  BY <1>1, <1>3 DEF SoundNode, SoundLeaf

LEMMA RewrittenNode ==
  ASSUME NEW n \in SoundNode, n.k # "text", NEW v \in Values
  PROVE  /\ Rewritten(n, v) \in SoundNode /\ (n \in SoundLeaf => Rewritten(n, v) \in SoundLeaf)
         /\ CommentsUnder(Rewritten(n, v)) = CommentsUnder(n)
         /\ Rewritten(n, v).children = n.children
<1> DEFINE line == [n.line EXCEPT !.x = v]
           m == [n EXCEPT !.line = line, !.dirty = TRUE]
<1>1. /\ n.line \in Lines /\ v \in Names /\ n \in Node
      /\ n.comments \in Seq(Ended(CommentLines)) /\ n.blanks \in Seq(Seq(Ended(BlankLines)))
  BY InputsAssumption, ConstructParts
<1>2. line \in Lines /\ line.note = n.line.note /\ line.k = n.line.k
  BY <1>1 DEF Lines
<1>3. Rewritten(n, v) = m
  BY DEF Rewritten
<1> HIDE DEF line
<1>4. /\ m \in Node /\ m.comments = n.comments /\ m.line = line /\ m.children = n.children
      /\ m.k = n.k /\ m.dirty /\ m.blanks = n.blanks
  BY <1>1, <1>2 DEF Node
<1>5. n \in Leaf => m \in Leaf
  BY <1>2 DEF Leaf
<1> HIDE DEF m
<1>6. CommentsUnder(m) = CommentsUnder(n)
  BY <1>2, <1>4, SameComments
<1>7. m \in SoundNode /\ (m \in Leaf => m \in SoundLeaf)
  BY <1>1, <1>2, <1>4, Touched
<1>8. QED
  BY <1>3, <1>4, <1>5, <1>6, <1>7 DEF SoundLeaf

LEMMA SetInv ==
  ASSUME IInv, NEW p \in Pairs, NEW v \in Values, Set(p, v)
  PROVE  IInv'
<1>1. /\ p \in Places /\ At(p) \in SoundNode /\ (p[1] # 0 => At(p) \in SoundLeaf)
      /\ At(p).k # "text"
  BY PlaceOf DEF Pairs, IInv
<1>2. doc' = Put(p, Rewritten(At(p), v)) /\ kept' = (kept \ {}) \cup {}
  BY DEF Set
<1>3. QED
  BY <1>1, <1>2, RewrittenNode, PutInv

\* A new pair or header.
LEMMA NewNodes ==
  ASSUME NEW v \in Values
  PROVE  /\ NewNode("pair", v) \in SoundLeaf /\ NewNode("header", v) \in SoundNode
<1>1. ASSUME NEW k \in {"pair", "header"}
      PROVE  /\ Construct(k, v) \in Lines /\ Construct(k, v).k = k
  <2>1. v \in Names /\ <<>> \in Seq(Names \cup {Hash})
    BY InputsAssumption
  <2>2. QED
    BY <2>1 DEF Construct, Line, Lines
<1>2. ASSUME NEW k \in {"pair", "header"}
      PROVE  NewNode(k, v) \in SoundNode /\ (k = "pair" => NewNode(k, v) \in SoundLeaf)
  <2> DEFINE n == NewNode(k, v)
             line == Construct(k, v)
             blanks == <<>>
             none == <<>>
  <2>1. line \in Lines /\ line.k = k
    BY <1>1
  <2>2. n = [k |-> k, blanks |-> blanks, comments |-> none, line |-> line, raw |-> none,
             dirty |-> TRUE, children |-> <<>>]
    BY <2>1 DEF NewNode, ConstructNode
  <2>3. /\ blanks \in Seq(Seq(Ended(BlankLines))) /\ blanks \in Seq(Seq(Lines))
        /\ none \in Seq(Ended(CommentLines)) /\ none \in Seq(Lines)
        /\ <<>> \in Seq(Leaf) /\ <<>> \in Seq(SoundLeaf)
    OBVIOUS
  <2> HIDE DEF n, line, blanks, none
  <2>4. n \in Node /\ (k = "pair" => n \in Leaf)
    BY <2>1, <2>2, <2>3 DEF Node, Leaf
  <2>5. GoodConstruct(n) /\ n.k = k /\ n.children \in Seq(SoundLeaf)
    BY <2>1, <2>2, <2>3 DEF GoodConstruct
  <2>6. Good(n)
    BY <2>5 DEF Good
  <2>7. QED
    BY <2>4, <2>5, <2>6 DEF SoundNode, SoundLeaf, n
<1>3. QED
  BY <1>2

\* Of a sequence of nodes in particular.
LEMMA InsertedNode ==
  ASSUME NEW s \in Seq(SoundNode), NEW i \in 1..(Len(s) + 1), NEW n \in SoundNode
  PROVE  /\ InsertAt(s, i, n) \in Seq(SoundNode)
         /\ \A j \in 1..Len(s) : \E k \in 1..Len(InsertAt(s, i, n)) : InsertAt(s, i, n)[k] = s[j]
<1> DEFINE T == SoundNode
<1>1. s \in Seq(T) /\ n \in T
  OBVIOUS
<1> HIDE DEF T
<1>2. /\ InsertAt(s, i, n) \in Seq(T)
      /\ \A j \in 1..Len(s) : \E k \in 1..Len(InsertAt(s, i, n)) : InsertAt(s, i, n)[k] = s[j]
  BY <1>1, Inserted
<1>3. QED
  BY <1>2 DEF T

\* A leaf was put into a container's items.
LEMMA InsertInv ==
  ASSUME IInv, NEW c \in Containers, NEW i \in 1..(Len(ChildrenIn(doc, c)) + 1), NEW n \in SoundLeaf,
         doc' = InsertContent(c, i, n), kept' = kept
  PROVE  IInv'
<1> DEFINE was == ChildrenIn(doc, c)
           items == InsertAt(was, i, n)
<1>1. doc \in Document /\ was \in Seq(SoundNode) /\ (c # 0 => was \in Seq(SoundLeaf)) /\ n \in SoundNode
  BY ContainerItems, LeafNode DEF IInv
<1>2. i \in 1..(Len(was) + 1)
  OBVIOUS
<1>3. doc' = StoreContents(c, items)
  BY DEF InsertContent
<1> HIDE DEF was
<1>4. /\ items \in Seq(SoundNode)
      /\ \A j \in 1..Len(was) : \E k \in 1..Len(items) : items[k] = was[j]
  <2>1. was \in Seq(SoundNode) /\ n \in SoundNode /\ i \in 1..(Len(was) + 1)
    BY <1>1, <1>2
  <2>2. QED
    BY <2>1, InsertedNode
<1>5. c # 0 => items \in Seq(SoundLeaf)
  BY <1>1, <1>2, Inserted
<1> HIDE DEF items
<1>6. Carries(was, items, {})
  BY <1>4 DEF Carries
<1>7. doc' \in Document /\ Held(doc) \subseteq Held(doc') \cup {}
  BY <1>1, <1>4, <1>5, <1>3, <1>6, Stored DEF was
<1>8. QED
  BY <1>7, Kept DEF IInv, CommentsStay

\* The first header is one of the document's children.
LEMMA FirstHeaderWhere ==
  ASSUME doc \in Document
  PROVE  FirstHeader \in 1..(Len(doc) + 1)
<1>1. Headers(doc) \subseteq 1..Len(doc) /\ Len(doc) \in Nat
  BY DEF Headers, Document
<1>2. CASE Headers(doc) = {}
  BY <1>1, <1>2 DEF FirstHeader
<1>3. CASE Headers(doc) # {}
  <2> DEFINE R == OpToRel(<, Nat)
  <2>1. \A g, h \in Nat : g < h => <<g, h>> \in R
    BY DEF OpToRel
  <2>2. IsWellFoundedOn(R, Nat)
    BY NatLessThanWellFounded, Zenon
  <2> HIDE DEF R
  <2>3. \A h \in Headers(doc) : h \in Nat
    BY <1>1
  <2>4. PICK h \in Headers(doc) : \A g \in Headers(doc) : ~ (<<g, h>> \in R)
    BY <1>3, <2>2, <2>3, WFMin
  <2>5. ASSUME NEW g \in Headers(doc) PROVE h <= g
    <3>1. h \in Headers(doc) /\ ~ (<<g, h>> \in R)
      BY <2>4
    <3>2. g \in Nat /\ h \in Nat
      BY <2>3, <3>1
    <3>3. ~ (g < h)
      BY <2>1, <3>1, <3>2, Zenon
    <3>4. QED
      BY <3>2, <3>3
  <2>6. FirstHeader \in Headers(doc)
    BY <1>3, <2>5 DEF FirstHeader
  <2>7. QED
    BY <1>1, <2>6
<1>4. QED
  BY <1>2, <1>3

LEMMA SetNewInv ==
  ASSUME IInv, NEW c \in Containers, NEW v \in Values, SetNew(c, v)
  PROVE  IInv'
<1>1. doc' = InsertContent(c, PlaceOfNew(c), NewNode("pair", v)) /\ kept' = kept
  BY DEF SetNew
<1>2. ChildrenIn(doc, c) \in Seq(SoundNode)
  BY ContainerItems DEF IInv
<1>3. PlaceOfNew(c) \in 1..(Len(ChildrenIn(doc, c)) + 1)
  BY <1>2, ContainerItems, FirstHeaderWhere DEF PlaceOfNew, IInv
<1>4. QED
  BY <1>1, <1>3, NewNodes, InsertInv

LEMMA InsertDottedInv ==
  ASSUME IInv, NEW p \in Pairs, NEW v \in Values, InsertDottedKey(p, v)
  PROVE  IInv'
<1>1. /\ p[1] \in Containers /\ p[2] \in 1..Len(ChildrenIn(doc, p[1]))
      /\ ChildrenIn(doc, p[1]) \in Seq(SoundNode)
  BY PlaceOf, ContainerItems DEF Pairs, IInv
<1>2. p[2] + 1 \in 1..(Len(ChildrenIn(doc, p[1])) + 1)
  BY <1>1
<1>3. doc' = InsertContent(p[1], p[2] + 1, NewNode("pair", v)) /\ kept' = kept
  BY DEF InsertDottedKey
<1>4. QED
  BY <1>1, <1>2, <1>3, NewNodes, InsertInv

LEMMA AppendTableInv ==
  ASSUME IInv, NEW v \in Values, NEW children \in Seq(SoundLeaf), AppendTable(v, children)
  PROVE  IInv'
<1> DEFINE n == [NewNode("header", v) EXCEPT !.children = children]
           d == Append(doc, n)
<1>1. n \in SoundNode
  BY NewNodes, SoundWith
<1>2. doc \in Seq(SoundNode)
  BY DEF IInv, Document
<1> HIDE DEF n
<1>3. /\ d \in Seq(SoundNode) /\ Len(d) = Len(doc) + 1
      /\ \A i \in 1..Len(doc) : d[i] = doc[i] /\ i \in 1..Len(d)
  BY <1>1, <1>2
<1>4. doc' = d /\ kept' = kept
  BY DEF AppendTable, n
<1>5. Carries(doc, d, {})
  BY <1>3 DEF Carries
<1>6. Held(doc) \subseteq Held(d) \cup {}
  BY <1>2, <1>3, <1>5, HeldCarried
<1>7. QED
  BY <1>3, <1>4, <1>6, Kept DEF IInv, CommentsStay, Document

\* A binding was deleted: what went with it are the comments under its places.
LEMMA DeleteInv ==
  ASSUME IInv, NEW s \in Bindings, Delete(s)
  PROVE  IInv'
<1> DEFINE gone == UNION {CommentsUnder(At(p)) : p \in s}
           Left(h) == Without(doc[h].children, h, s)
           within == [h \in DOMAIN doc |-> [doc[h] EXCEPT !.children = Left(h)]]
           d == Without(within, 0, s)
<1>1. doc \in Seq(SoundNode) /\ DOMAIN doc = 1..Len(doc) /\ Len(doc) \in Nat
  BY DEF IInv, Document
<1>2. doc' = d /\ kept' = kept \ gone
  BY DEF Delete
<1>3. \A h \in 1..Len(doc) : <<0, h>> \in s => CommentsUnder(doc[h]) \subseteq gone
  <2>1. \A h : At(<<0, h>>) = doc[h]
    BY DEF At, ChildrenIn
  <2>2. QED
    BY <2>1
<1>4. \A h \in 1..Len(doc) : \A i :
        <<h, i>> \in s => CommentsUnder(doc[h].children[i]) \subseteq gone
  <2>1. \A h \in 1..Len(doc) : \A i : At(<<h, i>>) = doc[h].children[i]
    BY <1>1 DEF At, ChildrenIn
  <2>2. QED
    BY <2>1
<1> HIDE DEF gone
<1>5. ASSUME NEW h \in 1..Len(doc)
      PROVE  /\ [doc[h] EXCEPT !.children = Left(h)] \in SoundNode
             /\ CommentsUnder(doc[h])
                  \subseteq CommentsUnder([doc[h] EXCEPT !.children = Left(h)]) \cup gone
  <2> DEFINE was == doc[h].children
             left == Left(h)
  <2>1. doc[h] \in SoundNode /\ was \in Seq(SoundLeaf)
    <3>1. doc[h] \in SoundNode
      BY <1>1
    <3>2. QED
      BY <3>1 DEF SoundNode
  <2>2. /\ left \in Seq(SoundLeaf)
        /\ \A i \in 1..Len(was) : <<h, i>> \notin s => \E j \in 1..Len(left) : left[j] = was[i]
    BY <2>1, LeftOver, SMTT(60)
  <2>3. \A i \in 1..Len(was) : <<h, i>> \in s => CommentsUnder(was[i]) \subseteq gone
    BY <1>4
  <2> HIDE DEF left
  <2>4. Carries(was, left, gone)
    BY <2>2, <2>3 DEF Carries
  <2>5. QED
    BY <2>1, <2>2, <2>4, NodeCarried DEF left
<1> HIDE DEF Left
<1>6. /\ within \in Seq(SoundNode) /\ Len(within) = Len(doc)
      /\ \A h \in 1..Len(doc) : CommentsUnder(doc[h]) \subseteq CommentsUnder(within[h]) \cup gone
  <2>1. /\ within = [h \in 1..Len(doc) |-> within[h]]
        /\ \A h \in 1..Len(doc) : within[h] = [doc[h] EXCEPT !.children = Left(h)]
    BY <1>1
  <2> HIDE DEF within
  <2>2. \A h \in 1..Len(doc) : within[h] \in SoundNode
    BY <1>5, <2>1
  <2>3. within \in Seq(SoundNode) /\ Len(within) = Len(doc)
    BY <1>1, <2>1, <2>2, ASequence
  <2>4. QED
    BY <1>5, <2>3, <2>1
<1> HIDE DEF within
<1>7. /\ d \in Seq(SoundNode)
      /\ \A h \in 1..Len(doc) : <<0, h>> \notin s => \E j \in 1..Len(d) : d[j] = within[h]
  BY <1>6, LeftOver
<1> HIDE DEF d
<1>8. Carries(doc, d, gone)
  BY <1>3, <1>6, <1>7 DEF Carries
<1>9. Held(doc) \subseteq Held(d) \cup gone
  BY <1>1, <1>7, <1>8, HeldCarried
<1>10. QED
  BY <1>2, <1>7, <1>9, Kept DEF Document

\* A part of keys and headers was renamed.
LEMMA RenameKeyInv ==
  ASSUME IInv, NEW s \in Bindings, NEW v \in Values, RenameKey(s, v)
  PROVE  IInv'
<1> DEFINE Named(n, p) == IF p \in s THEN Rewritten(n, v) ELSE n
           n(h) == Named(doc[h], <<0, h>>)
           items(h) == [i \in DOMAIN n(h).children |-> Named(n(h).children[i], <<h, i>>)]
           d == [h \in DOMAIN doc |-> [n(h) EXCEPT !.children = items(h)]]
<1>1. doc \in Seq(SoundNode) /\ DOMAIN doc = 1..Len(doc) /\ Len(doc) \in Nat
  BY DEF IInv, Document
<1>2. doc' = d /\ kept' = kept
  BY DEF RenameKey
<1>3. \A m \in SoundNode : \A p :
        (p \in s => m.k # "text") =>
          /\ Named(m, p) \in SoundNode /\ (m \in SoundLeaf => Named(m, p) \in SoundLeaf)
          /\ CommentsUnder(Named(m, p)) = CommentsUnder(m)
          /\ Named(m, p).children = m.children
  BY RewrittenNode
<1>13. \A p \in s : At(p).k # "text"
  BY DEF Bindings, Constructs
<1> HIDE DEF Named
<1>4. ASSUME NEW h \in 1..Len(doc)
      PROVE  /\ [n(h) EXCEPT !.children = items(h)] \in SoundNode
             /\ CommentsUnder(doc[h])
                  \subseteq CommentsUnder([n(h) EXCEPT !.children = items(h)]) \cup {}
  <2> DEFINE m == n(h)
             was == m.children
             new == items(h)
  <2>1. doc[h] \in SoundNode /\ m \in SoundNode /\ CommentsUnder(m) = CommentsUnder(doc[h])
    <3>1. <<0, h>> \in s => doc[h].k # "text"
      BY <1>13 DEF At, ChildrenIn
    <3>2. QED
      BY <1>1, <1>3, <3>1
  <2>2. was \in Seq(SoundLeaf)
    BY <2>1 DEF SoundNode
  <2>11. \A i : <<h, i>> \in s => was[i].k # "text"
    <3>1. was = doc[h].children
      <4>1. <<0, h>> \in s => doc[h].k # "text"
        BY <1>13 DEF At, ChildrenIn
      <4>2. QED
        BY <1>3, <2>1, <4>1
    <3>2. h # 0
      BY <1>1
    <3> HIDE DEF m
    <3>3. \A i : At(<<h, i>>) = doc[h].children[i]
      BY <3>2 DEF At, ChildrenIn
    <3>4. QED
      BY <1>13, <3>1, <3>3
  <2> HIDE DEF m
  <2>3. \A i \in 1..Len(was) : /\ Named(was[i], <<h, i>>) \in SoundLeaf
                               /\ CommentsUnder(Named(was[i], <<h, i>>)) = CommentsUnder(was[i])
    BY <1>3, <2>2, <2>11, LeafNode
  <2>4. new = [i \in DOMAIN was |-> Named(was[i], <<h, i>>)]
    BY DEF m
  <2> HIDE DEF was, new
  <2>5. /\ new \in Seq(SoundLeaf) /\ Len(new) = Len(was)
        /\ \A i \in 1..Len(was) : new[i] = Named(was[i], <<h, i>>)
    <3>1. Len(was) \in Nat /\ DOMAIN was = 1..Len(was)
      BY <2>2
    <3>2. /\ new = [i \in 1..Len(was) |-> new[i]]
          /\ \A i \in 1..Len(was) : new[i] = Named(was[i], <<h, i>>)
      BY <2>4, <3>1
    <3>3. \A i \in 1..Len(was) : new[i] \in SoundLeaf
      BY <2>3, <3>2
    <3>4. new \in Seq(SoundLeaf) /\ Len(new) = Len(was)
      BY <3>1, <3>2, <3>3, ASequence
    <3>5. QED
      BY <3>2, <3>4
  <2>6. Carries(was, new, {})
    BY <2>3, <2>5 DEF Carries
  <2>7. /\ [m EXCEPT !.children = new] \in SoundNode
        /\ CommentsUnder(m) \subseteq CommentsUnder([m EXCEPT !.children = new]) \cup {}
    BY <2>1, <2>5, <2>6, NodeCarried DEF was
  <2>8. QED
    BY <2>1, <2>7 DEF m, new
<1> HIDE DEF n, items
<1>5. /\ d \in Seq(SoundNode) /\ Len(d) = Len(doc)
      /\ \A h \in 1..Len(doc) : d[h] = [n(h) EXCEPT !.children = items(h)]
  BY <1>1, <1>4
<1> HIDE DEF d
<1>6. Carries(doc, d, {})
  BY <1>4, <1>5 DEF Carries
<1>7. Held(doc) \subseteq Held(d) \cup {}
  BY <1>1, <1>5, <1>6, HeldCarried
<1>8. QED
  BY <1>2, <1>5, <1>7, Kept DEF IInv, CommentsStay, Document

\* A construct with another inline comment.
LEMMA WrittenNotes ==
  \A note \in Written : note \in Seq(Names \cup {Hash})
<1> SUFFICES ASSUME NEW note \in Written PROVE note \in Seq(Names \cup {Hash})
  OBVIOUS
<1>1. note = <<>> \/ \E x \in Names : note = <<x>>
  BY InputsAssumption DEF Written
<1>2. CASE note = <<>>
  BY <1>2
<1>3. CASE \E x \in Names : note = <<x>>
  <2>1. PICK x \in Names : note = <<x>>
    BY <1>3
  <2>2. x \in Names \cup {Hash}
    OBVIOUS
  <2>3. QED
    BY <2>1, <2>2
<1>4. QED
  BY <1>1, <1>2, <1>3

LEMMA CommentedLine ==
  ASSUME NEW line \in Lines, NEW note \in Written
  PROVE  /\ WithComment(line, note) \in Lines
         /\ \E gap \in Nat :
              /\ WithComment(line, note) = [line EXCEPT !.note = note, !.gap = gap]
              /\ note # <<>> /\ line.note # <<>> => gap = line.gap
<1> DEFINE gap == CASE note = <<>>      -> 0
                    [] line.note = <<>> -> 1
                    [] OTHER            -> line.gap
<1>1. line.gap \in Nat /\ note \in Seq(Names \cup {Hash})
  BY WrittenNotes DEF Lines
<1>2. gap \in Nat
  BY <1>1
<1>3. note # <<>> /\ line.note # <<>> => gap = line.gap
  BY Zenon
<1>4. WithComment(line, note) = [line EXCEPT !.note = note, !.gap = gap]
  BY DEF WithComment
<1> HIDE DEF gap
<1>5. [line EXCEPT !.note = note, !.gap = gap] \in Lines
  BY <1>1, <1>2 DEF Lines
<1>6. QED
  BY <1>2, <1>3, <1>4, <1>5, Zenon

\* What SetComment makes of a construct (edit.go).
Noted(m, note) == [m EXCEPT !.line = WithComment(@, note), !.dirty = TRUE]

LEMMA CommentedNode ==
  ASSUME NEW m \in SoundNode, m.k # "text", NEW note \in Written
  PROVE  LET n == Noted(m, note) IN
         /\ n \in SoundNode /\ (m \in SoundLeaf => n \in SoundLeaf)
         /\ n.comments = m.comments /\ n.blanks = m.blanks /\ n.raw = m.raw
         /\ n.line = WithComment(m.line, note) /\ n.children = m.children /\ n.k = m.k
<1> DEFINE line == WithComment(m.line, note)
           n == Noted(m, note)
<1>1. /\ m.line \in Lines /\ m \in Node /\ (m \in SoundLeaf => m \in Leaf)
      /\ m.comments \in Seq(Ended(CommentLines)) /\ m.blanks \in Seq(Seq(Ended(BlankLines)))
  BY ConstructParts DEF SoundLeaf
<1>2. line \in Lines /\ line.k = m.line.k
  <2> DEFINE l == m.line
  <2>1. l \in Lines
    BY <1>1
  <2> HIDE DEF l
  <2>2. /\ WithComment(l, note) \in Lines
        /\ \E gap \in Nat :
             /\ WithComment(l, note) = [l EXCEPT !.note = note, !.gap = gap]
             /\ note # <<>> /\ l.note # <<>> => gap = l.gap
    BY <2>1, CommentedLine, Zenon
  <2>3. PICK gap \in Nat : WithComment(l, note) = [l EXCEPT !.note = note, !.gap = gap]
    BY <2>2, Zenon
  <2>4. WithComment(l, note).k = l.k
    BY <2>1, <2>3 DEF Lines
  <2>5. QED
    BY <2>2, <2>4 DEF l
<1>3. n = [m EXCEPT !.line = line, !.dirty = TRUE]
  BY DEF Noted
<1> HIDE DEF line, n
<1>4. /\ n \in Node /\ (m \in Leaf => n \in Leaf)
      /\ n.comments = m.comments /\ n.line = line /\ n.children = m.children
      /\ n.k = m.k /\ n.blanks = m.blanks /\ n.dirty /\ n.raw = m.raw
  BY <1>1, <1>2, <1>3 DEF Node, Leaf
<1>5. n \in SoundNode /\ (n \in Leaf => n \in SoundLeaf)
  BY <1>1, <1>2, <1>4, Touched
<1>6. QED
  BY <1>1, <1>4, <1>5 DEF line, n

\* Comment lines a call writes.
LEMMA NewComments ==
  ASSUME NEW notes \in Leads, NEW lines, lines = [i \in DOMAIN notes |-> CommentLine(0, notes[i])]
  PROVE  /\ lines \in Seq(Ended(CommentLines)) /\ Len(lines) = Len(notes)
         /\ \A i \in 1..Len(lines) : lines[i].note # <<>> /\ lines[i].k = "comment"
<1> DEFINE C == Ended(CommentLines)
<1>1. notes \in Seq(Names) /\ Len(notes) \in Nat
  BY InputsAssumption DEF Leads
<1>2. \A c \in Names : /\ CommentLine(0, c) \in C /\ CommentLine(0, c).note = <<c>>
                       /\ CommentLine(0, c).k = "comment"
  <2> SUFFICES ASSUME NEW c \in Names
               PROVE  /\ CommentLine(0, c) \in C /\ CommentLine(0, c).note = <<c>>
                      /\ CommentLine(0, c).k = "comment"
    OBVIOUS
  <2> DEFINE l == CommentLine(0, c)
             note == <<c>>
  <2>1. note \in Seq(Names \cup {Hash}) /\ note # <<>>
    <3>1. c \in Names \cup {Hash}
      OBVIOUS
    <3>2. QED
      BY <3>1
  <2>2. l = [k |-> "comment", in |-> 0, x |-> 0, gap |-> 0, note |-> note, nl |-> TRUE]
    BY DEF CommentLine, Line
  <2> HIDE DEF l, note
  <2>3. l \in Lines /\ l.k = "comment" /\ l.note = note /\ l.nl
    BY <2>1, <2>2 DEF Lines
  <2>4. l \in C
    BY <2>1, <2>3 DEF CommentLines, Ended
  <2>5. QED
    BY <2>3, <2>4, SMTT(60) DEF l, note
<1> HIDE DEF C
<1>3. DOMAIN notes = 1..Len(notes) /\ \A i \in 1..Len(notes) : notes[i] \in Names
  BY <1>1
<1>4. \A i \in 1..Len(notes) : /\ CommentLine(0, notes[i]) \in C
                               /\ CommentLine(0, notes[i]).note # <<>>
                               /\ CommentLine(0, notes[i]).k = "comment"
  <2> DEFINE Fits(c) == CommentLine(0, c) \in C /\ CommentLine(0, c).note # <<>>
                          /\ CommentLine(0, c).k = "comment"
  <2>1. \A c \in Names : Fits(c)
    BY <1>2, SMTT(60)
  <2> HIDE DEF Fits
  <2>2. \A i \in 1..Len(notes) : Fits(notes[i])
    BY <1>3, <2>1
  <2>3. QED
    BY <2>2 DEF Fits
<1>5. lines = [i \in 1..Len(notes) |-> CommentLine(0, notes[i])]
  BY <1>3
<1>6. /\ lines = [i \in 1..Len(notes) |-> lines[i]]
      /\ \A i \in 1..Len(notes) : /\ lines[i] \in C /\ lines[i].note # <<>>
                                  /\ lines[i].k = "comment"
  BY <1>4, <1>5
<1>7. lines \in Seq(C) /\ Len(lines) = Len(notes)
  BY <1>1, <1>6, ASequence
<1>8. QED
  BY <1>6, <1>7 DEF C

\* What SetLeadingComments makes of a construct (edit.go).
LeadLines(notes) == [i \in DOMAIN notes |-> CommentLine(0, notes[i])]
Led(m, notes) ==
  [m EXCEPT !.comments = LeadLines(notes), !.blanks = BlanksAround(m, Len(notes)), !.dirty = TRUE]

\* A construct with other comments above it.
LEMMA LedNode ==
  ASSUME NEW m \in SoundNode, m.k # "text", NEW notes \in Leads
  PROVE  LET n == Led(m, notes) IN
         /\ n \in SoundNode /\ (m \in SoundLeaf => n \in SoundLeaf)
         /\ n.comments = LeadLines(notes) /\ n.blanks = BlanksAround(m, Len(notes)) /\ n.raw = m.raw
         /\ n.line = m.line /\ n.children = m.children /\ n.k = m.k
<1> DEFINE lines == LeadLines(notes)
           n == Led(m, notes)
<1>1. lines = [i \in DOMAIN notes |-> CommentLine(0, notes[i])]
  BY DEF LeadLines
<1>2. n = [m EXCEPT !.comments = lines, !.blanks = BlanksAround(m, Len(notes)), !.dirty = TRUE]
  BY DEF Led
<1> HIDE DEF lines, n
<1> DEFINE blanks == BlanksAround(m, Len(notes))
           C == Ended(CommentLines)
           B == Ended(BlankLines)
<1>3. /\ m.line \in Lines /\ m \in Node /\ (m \in SoundLeaf => m \in Leaf)
      /\ m.blanks \in Seq(Seq(B))
  BY ConstructParts DEF SoundLeaf
<1>4. lines \in Seq(C) /\ Len(notes) \in Nat
  BY <1>1, NewComments DEF Leads
<1> HIDE DEF B, C
<1>5. blanks \in Seq(Seq(B))
  <2>1. \A i : BlankRun(m, i) \in Seq(B)
    BY <1>3 DEF BlankRun
  <2>2. QED
    BY <1>4, <2>1 DEF BlanksAround
<1>6. lines \in Seq(Lines) /\ blanks \in Seq(Seq(Lines))
  <2>1. B \subseteq Lines /\ C \subseteq Lines
    BY LineKinds DEF B, C
  <2>2. Seq(B) \subseteq Seq(Lines) /\ Seq(C) \subseteq Seq(Lines)
    BY <2>1, SeqMonotonic
  <2>3. Seq(Seq(B)) \subseteq Seq(Seq(Lines))
    BY <2>2, SeqMonotonic
  <2>4. QED
    BY <1>4, <1>5, <2>2, <2>3
<1>7. n = [m EXCEPT !.comments = lines, !.blanks = blanks, !.dirty = TRUE]
  BY <1>2
<1> HIDE DEF blanks
<1>8. /\ n \in Node /\ (m \in Leaf => n \in Leaf)
      /\ n.comments = lines /\ n.line = m.line /\ n.children = m.children
      /\ n.k = m.k /\ n.blanks = blanks /\ n.dirty /\ n.raw = m.raw
  BY <1>3, <1>6, <1>7 DEF Node, Leaf
<1>9. n \in SoundNode /\ (n \in Leaf => n \in SoundLeaf)
  BY <1>3, <1>4, <1>5, <1>8, Touched DEF B, C
<1>10. QED
  BY <1>3, <1>8, <1>9 DEF blanks, lines, n

\* An inline comment was written.
LEMMA SetCommentInv ==
  ASSUME IInv, NEW p \in Constructs, NEW note \in Written, SetComment(p, note)
  PROVE  IInv'
<1> DEFINE was == At(p)
           n == Noted(was, note)
<1>1. p \in Places /\ was \in SoundNode /\ was.k # "text" /\ (p[1] # 0 => was \in SoundLeaf)
  BY PlaceOf DEF Constructs, IInv
<1>2. doc' = Put(p, n) /\ kept' = (kept \ {was.line.note}) \cup ({note} \ {<<>>})
  BY DEF SetComment, Noted
<1> HIDE DEF was
<1>3. /\ n \in SoundNode /\ (was \in SoundLeaf => n \in SoundLeaf)
      /\ n.comments = was.comments /\ n.blanks = was.blanks /\ n.raw = was.raw
      /\ n.line = WithComment(was.line, note) /\ n.children = was.children /\ n.k = was.k
  BY <1>1, CommentedNode
<1> HIDE DEF n
<1>4. WithComment(was.line, note).note = note
  <2> DEFINE l == was.line
  <2>1. l \in Lines
    BY <1>1, ConstructParts
  <2> HIDE DEF l
  <2>2. /\ WithComment(l, note) \in Lines
        /\ \E gap \in Nat :
             /\ WithComment(l, note) = [l EXCEPT !.note = note, !.gap = gap]
             /\ note # <<>> /\ l.note # <<>> => gap = l.gap
    BY <2>1, CommentedLine, Zenon
  <2>3. PICK gap \in Nat : WithComment(l, note) = [l EXCEPT !.note = note, !.gap = gap]
    BY <2>2, Zenon
  <2>4. WithComment(l, note).note = note
    BY <2>1, <2>3 DEF Lines
  <2>5. QED
    BY <2>4 DEF l
<1>5. /\ CommentsUnder(was) \subseteq CommentsUnder(n) \cup {was.line.note}
      /\ note \in CommentsUnder(n)
  BY <1>3, <1>4 DEF CommentsUnder, CommentsOf
<1>6. QED
  BY <1>1, <1>2, <1>3, <1>5, PutInv, ZenonT(40) DEF was

\* The comments above a construct were written.
LEMMA SetLeadingInv ==
  ASSUME IInv, NEW p \in Constructs, NEW notes \in Leads, SetLeadingComments(p, notes)
  PROVE  IInv'
<1> DEFINE was == At(p)
           lines == LeadLines(notes)
           n == Led(was, notes)
           old == {was.comments[i].note : i \in DOMAIN was.comments}
           new == {lines[i].note : i \in DOMAIN lines}
<1>1. p \in Places /\ was \in SoundNode /\ was.k # "text" /\ (p[1] # 0 => was \in SoundLeaf)
  BY PlaceOf DEF Constructs, IInv
<1>2. doc' = Put(p, n) /\ kept' = (kept \ old) \cup new
  BY DEF SetLeadingComments, LeadLines, Led
<1>3. /\ lines \in Seq(Ended(CommentLines)) /\ Len(lines) = Len(notes)
      /\ \A i \in 1..Len(lines) : lines[i].note # <<>> /\ lines[i].k = "comment"
  BY NewComments DEF LeadLines
<1> HIDE DEF was
<1>4. /\ n \in SoundNode /\ (was \in SoundLeaf => n \in SoundLeaf)
      /\ n.comments = lines /\ n.line = was.line /\ n.children = was.children
  BY <1>1, LedNode
<1> HIDE DEF lines, n
<1>5. /\ CommentsUnder(was) \subseteq CommentsUnder(n) \cup old
      /\ new \subseteq CommentsUnder(n) \ {<<>>}
  BY <1>3, <1>4 DEF CommentsUnder, CommentsOf
<1>6. QED
  BY <1>1, <1>2, <1>4, <1>5, PutInv DEF was

LEMMA PermuteInv ==
  ASSUME IInv, NEW c \in Containers, NEW order \in Orders(c), PermuteChildren(c, order)
  PROVE  IInv'
<1> DEFINE was == ChildrenIn(doc, c)
           items == [i \in DOMAIN order |-> was[order[i]]]
<1>1. doc \in Document /\ was \in Seq(SoundNode) /\ (c # 0 => was \in Seq(SoundLeaf))
  BY ContainerItems DEF IInv
<1>2. /\ order \in [DOMAIN was -> DOMAIN was]
      /\ \A j \in DOMAIN was : \E i \in DOMAIN was : order[i] = j
  BY DEF Orders, Bijection, Surjection
<1>3. doc' = StoreContents(c, items) /\ kept' = kept
  BY DEF PermuteChildren
<1> HIDE DEF was
<1>4. DOMAIN was = 1..Len(was) /\ Len(was) \in Nat
  BY <1>1
<1>5. /\ items \in Seq(SoundNode) /\ (c # 0 => items \in Seq(SoundLeaf)) /\ Len(items) = Len(was)
      /\ \A i \in 1..Len(was) : items[i] = was[order[i]]
  BY <1>1, <1>2, <1>4, SMTT(60)
<1> HIDE DEF items
<1>6. Carries(was, items, {})
  BY <1>2, <1>4, <1>5 DEF Carries
<1>7. doc' \in Document /\ Held(doc) \subseteq Held(doc') \cup {}
  BY <1>1, <1>3, <1>5, <1>6, Stored DEF was
<1>8. QED
  BY <1>3, <1>7, Kept DEF IInv, CommentsStay

---------------------------------------------------------------------------
(***************************************************************************)
(* The specification.                                                      *)
(***************************************************************************)
LEMMA InitInv == Init => IInv
<1> SUFFICES ASSUME Init PROVE IInv
  OBVIOUS
<1>1. PICK text \in Texts : doc = ParseDocument(text) /\ kept = Notes(text)
  BY DEF Init
<1>2. text \in Seq(TextLines) /\ Readable(text)
  BY InputsAssumption
<1>3. QED
  BY <1>1, <1>2, ParsedHolds, ParsedSound DEF IInv, CommentsStay

LEMMA NextInv == IInv /\ [Next]_vars => IInv'
<1> SUFFICES ASSUME IInv, [Next]_vars PROVE IInv'
  OBVIOUS
<1>1. CASE \E p \in Pairs, v \in Values : Set(p, v)
  BY <1>1, SetInv
<1>2. CASE \E c \in Containers, v \in Values : SetNew(c, v)
  BY <1>2, SetNewInv
<1>3. CASE \E p \in Pairs, v \in Values : InsertDottedKey(p, v)
  BY <1>3, InsertDottedInv
<1>4. CASE \E v \in Values : AppendTable(v, <<>>) \/ AppendTable(v, <<NewNode("pair", v)>>)
  <2>1. PICK v \in Values : AppendTable(v, <<>>) \/ AppendTable(v, <<NewNode("pair", v)>>)
    BY <1>4
  <2>2. <<>> \in Seq(SoundLeaf) /\ <<NewNode("pair", v)>> \in Seq(SoundLeaf)
    BY NewNodes
  <2>3. QED
    BY <2>1, <2>2, AppendTableInv
<1>5. CASE \E s \in Bindings : Delete(s)
  BY <1>5, DeleteInv
<1>6. CASE \E s \in Bindings, v \in Values : RenameKey(s, v)
  BY <1>6, RenameKeyInv
<1>7. CASE \E p \in Constructs, note \in Written : SetComment(p, note)
  BY <1>7, SetCommentInv
<1>8. CASE \E p \in Constructs, notes \in Leads : SetLeadingComments(p, notes)
  BY <1>8, SetLeadingInv
<1>9. CASE \E c \in Containers : \E order \in Orders(c) : PermuteChildren(c, order)
  BY <1>9, PermuteInv
<1>10. CASE UNCHANGED vars
  BY <1>10 DEF vars, IInv, CommentsStay
<1>11. QED
  BY <1>1, <1>2, <1>3, <1>4, <1>5, <1>6, <1>7, <1>8, <1>9, <1>10 DEF Next

---------------------------------------------------------------------------
(***************************************************************************)
(* What a write leaves as it was: the lines of a text, and one node's.     *)
(***************************************************************************)
\* A line at the end of a text that something follows.
Finished(line) == [line EXCEPT !.nl = TRUE]
LEMMA Ending ==
  ASSUME NEW s \in Seq(Lines)
  PROVE  /\ EndLine(s) \in Seq(Lines) /\ Len(EndLine(s)) = Len(s)
         /\ \A i \in 1..Len(s) : EndLine(s)[i] = IF i = Len(s) THEN Finished(s[i]) ELSE s[i]
<1>1. CASE s = <<>>
  BY <1>1 DEF EndLine
<1>2. CASE s # <<>>
  <2> DEFINE n == Len(s)
             m == Finished(s[n])
  <2>1. n \in Nat /\ n \in 1..n /\ DOMAIN s = 1..n /\ s[n] \in Lines
    BY <1>2
  <2>2. m \in Lines
    BY <2>1 DEF Finished, Lines
  <2>3. EndLine(s) = [s EXCEPT ![n] = m]
    BY <1>2 DEF EndLine, Finished
  <2> HIDE DEF n, m
  <2>4. [s EXCEPT ![n] = m] \in Seq(Lines) /\ Len([s EXCEPT ![n] = m]) = n
        /\ \A i \in 1..n : [s EXCEPT ![n] = m][i] = IF i = n THEN m ELSE s[i]
    BY <2>1, <2>2 DEF n
  <2>5. QED
    BY <2>3, <2>4 DEF n, m
<1>3. QED
  BY <1>1, <1>2

LEMMA EndBehind ==
  ASSUME NEW s \in Seq(Lines), NEW t \in Seq(Lines), t # <<>>
  PROVE  EndLine(s \o t) = s \o EndLine(t)
<1> DEFINE a == Len(s)
           b == Len(t)
           st == s \o t
           u == EndLine(t)
           l == EndLine(st)
           r == s \o u
<1>1. a \in Nat /\ b \in Nat /\ b >= 1
  OBVIOUS
<1>2. st \in Seq(Lines) /\ Len(st) = a + b
      /\ \A i \in 1..(a + b) : st[i] = IF i <= a THEN s[i] ELSE t[i - a]
  OBVIOUS
<1>3. u \in Seq(Lines) /\ Len(u) = b
      /\ \A i \in 1..b : u[i] = IF i = b THEN Finished(t[i]) ELSE t[i]
  BY Ending
<1> HIDE DEF st, u
<1>4. l \in Seq(Lines) /\ Len(l) = a + b
      /\ \A i \in 1..(a + b) : l[i] = IF i = a + b THEN Finished(st[i]) ELSE st[i]
  BY <1>2, Ending, ZenonT(40)
<1>5. r \in Seq(Lines) /\ Len(r) = a + b
      /\ \A i \in 1..(a + b) : r[i] = IF i <= a THEN s[i] ELSE u[i - a]
  BY <1>3, SMTT(60)
<1> HIDE DEF a, b, l, r
<1>6. \A i \in 1..(a + b) : l[i] = r[i]
  <2> SUFFICES ASSUME NEW i \in 1..(a + b) PROVE l[i] = r[i]
    OBVIOUS
  <2>1. CASE i <= a
    BY <1>1, <1>2, <1>4, <1>5, <2>1
  <2>2. CASE ~(i <= a)
    <3>1. i - a \in 1..b /\ (i = a + b <=> i - a = b)
      BY <1>1, <2>2
    <3>2. QED
      BY <1>2, <1>3, <1>4, <1>5, <2>2, <3>1, ZenonT(40)
  <2>3. QED
    BY <2>1, <2>2
<1>7. l = r
  BY <1>4, <1>5, <1>6, SameSeq
<1>8. QED
  BY <1>7 DEF l, r, st, u

LEMMA TextsJoin ==
  \A s, t, u \in Seq(Lines) : (s \o t) \o u = s \o (t \o u)
BY ConcatAssociative, SMTT(60)

\* The end of a text that others follow.
Followed(s, ns) == IF ns = <<>> THEN s ELSE EndLine(s)

LEMMA SomethingWritten ==
  ASSUME NEW n \in Goods
  PROVE  SerializeNode(n) \in Seq(Lines) /\ SerializeNode(n) # <<>>
<1>1. n \in Node /\ Good(n) /\ SerializeNode(n) \in Seq(Lines)
  BY SerializedReadable DEF Goods
<1>2. CASE n.k = "text"
  BY <1>1, <1>2 DEF Good, GoodText, SerializeNode
<1>3. CASE n.k # "text"
  <2>1. GoodConstruct(n)
    BY <1>1, <1>3 DEF Good
  <2>2. PICK l \in Lines : SerializeNode(n) = Append(RenderTrivia(n), l)
    BY <1>1, <2>1, SerializedAs
  <2>4. RenderTrivia(n) \in Seq(Lines)
    <3>1. RenderTrivia(n) \in Seq(Ended(Lines))
      BY <1>1, <2>1, RenderTyped
    <3>2. Seq(Ended(Lines)) \subseteq Seq(Lines)
      BY LineKinds, SeqMonotonic
    <3>3. QED
      BY <3>1, <3>2
  <2>5. Append(RenderTrivia(n), l) # <<>>
    BY <2>4, AppendProperties
  <2>6. QED
    BY <1>1, <2>2, <2>5
<1>4. QED
  BY <1>2, <1>3

\* What stands before nodes does not change what they write.
LEMMA LayBehind ==
  ASSUME NEW buf \in Seq(Lines), NEW ns \in Seq(Goods)
  PROVE  /\ Lay(<<>>, ns) \in Seq(Lines)
         /\ Lay(buf, ns) = Followed(buf, ns) \o Lay(<<>>, ns)
<1> DEFINE n == Len(ns)
           e == EndLine(buf)
<1>1. n \in Nat /\ \A k \in 1..n : ns[k] \in Goods
  OBVIOUS
<1>2. PICK f : /\ f[0] = buf /\ f[n] = Lay(buf, ns)
               /\ \A k \in 1..n : f[k] = Serialize(f[k - 1], ns[k])
  BY LayRun
<1>3. PICK g : /\ g[0] = <<>> /\ g[n] = Lay(<<>>, ns)
               /\ \A k \in 1..n : g[k] = Serialize(g[k - 1], ns[k])
  BY LayRun
<1>4. e \in Seq(Lines)
  BY Ending
<1> DEFINE Fits(k) == /\ g[k] \in Seq(Lines)
                      /\ k > 0 => g[k] # <<>> /\ f[k] = e \o g[k]
           S == {k \in Nat : k <= n => Fits(k)}
<1> HIDE DEF n, e
<1>5. 0 \in S
  <2>1. g[0] \in Seq(Lines)
    BY <1>3
  <2>2. QED
    BY <2>1
<1>6. ASSUME NEW k \in Nat, k \in S PROVE k + 1 \in S
  <2> SUFFICES ASSUME k + 1 <= n PROVE Fits(k + 1)
    OBVIOUS
  <2>1. k + 1 \in 1..n /\ (k + 1) - 1 = k /\ k <= n
    BY <1>1
  <2> DEFINE p == g[k]
             s == SerializeNode(ns[k + 1])
             q == EndLine(p)
  <2>2. p \in Seq(Lines) /\ (k > 0 => p # <<>> /\ f[k] = e \o p)
    BY <1>6, <2>1
  <2>3. g[k + 1] = q \o s /\ f[k + 1] = EndLine(f[k]) \o s
    BY <1>2, <1>3, <2>1 DEF Serialize
  <2>4. s \in Seq(Lines) /\ s # <<>>
    BY <1>1, <2>1, SomethingWritten
  <2> HIDE DEF s, p
  <2>5. q \in Seq(Lines)
    BY <2>2, Ending
  <2> HIDE DEF q
  <2>6. q \o s \in Seq(Lines) /\ q \o s # <<>>
    <3>1. Len(q \o s) = Len(q) + Len(s) /\ Len(q) \in Nat /\ Len(s) >= 1
      BY <2>4, <2>5
    <3>2. QED
      BY <2>4, <2>5, <3>1
  <2>7. f[k + 1] = e \o (q \o s)
    <3>1. CASE k = 0
      <4>1. p = <<>> /\ f[k] = buf
        BY <1>2, <1>3, <3>1 DEF p
      <4>2. q = <<>>
        BY <4>1 DEF q, EndLine
      <4>3. q \o s = s
        BY <2>4, <4>2
      <4>4. QED
        BY <2>3, <4>1, <4>3 DEF e
    <3>2. CASE k > 0
      <4>1. f[k] = e \o p /\ p # <<>>
        BY <2>2, <3>2
      <4>2. EndLine(e \o p) = e \o EndLine(p)
        BY <1>4, <2>2, <4>1, EndBehind
      <4>3. (e \o q) \o s = e \o (q \o s)
        BY <1>4, <2>4, <2>5, TextsJoin, Zenon
      <4>4. QED
        BY <2>3, <4>1, <4>2, <4>3 DEF q
    <3>3. QED
      BY <3>1, <3>2, SMTT(60)
  <2>8. QED
    BY <2>3, <2>6, <2>7
<1> HIDE DEF S, Fits
<1>7. Nat \subseteq S
  BY <1>5, <1>6, Induct, Zenon
<1>8. Fits(n)
  BY <1>1, <1>7 DEF S
<1>9. CASE ns = <<>>
  <2>1. n = 0
    BY <1>9 DEF n
  <2>2. Lay(buf, ns) = buf /\ Lay(<<>>, ns) = <<>>
    BY <1>2, <1>3, <2>1
  <2>3. buf \o <<>> = buf /\ <<>> \in Seq(Lines)
    BY ConcatEmptySeq
  <2>4. QED
    BY <1>9, <2>2, <2>3 DEF Followed
<1>10. CASE ns # <<>>
  <2>1. n > 0
    BY <1>10 DEF n
  <2>2. QED
    BY <1>2, <1>3, <1>8, <1>10, <2>1 DEF Followed, Fits, e
<1>11. QED
  BY <1>9, <1>10

LEMMA LayAppend ==
  ASSUME NEW T, NEW buf, NEW s \in Seq(T), NEW x \in T
  PROVE  Lay(buf, Append(s, x)) = Serialize(Lay(buf, s), x)
BY Lays!FoldAppend DEF Lay

LEMMA LayConcat ==
  ASSUME NEW T, NEW buf, NEW s \in Seq(T), NEW u \in Seq(T)
  PROVE  Lay(buf, s \o u) = Lay(Lay(buf, s), u)
BY Lays!FoldConcat DEF Lay

\* A sequence of three, cut where they meet.
LEMMA CutAt ==
  ASSUME NEW T, NEW a \in Seq(T), NEW b \in Seq(T)
  PROVE  /\ SubSeq(a \o b, 1, Len(a)) = a
         /\ SubSeq(a \o b, Len(a) + 1, Len(a \o b)) = b
<1> DEFINE z == a \o b
           m == Len(a)
           n == Len(b)
           u == SubSeq(z, 1, m)
           v == SubSeq(z, m + 1, m + n)
<1>1. m \in Nat /\ n \in Nat /\ z \in Seq(T) /\ Len(z) = m + n
      /\ \A k \in 1..(m + n) : z[k] = IF k <= m THEN a[k] ELSE b[k - m]
  OBVIOUS
<1> HIDE DEF z, m, n
<1>2. u \in Seq(T) /\ Len(u) = m /\ \A k \in 1..m : u[k] = z[k]
  <2>1. 1 \in 1..(Len(z) + 1) /\ m \in 0..Len(z)
    BY <1>1
  <2>2. \A k \in 1..m : k \in 1..Len(z)
    BY <1>1
  <2>3. QED
    BY <1>1, <2>1, <2>2, SubSeqProperties
<1>3. v \in Seq(T) /\ Len(v) = n /\ \A k \in 1..n : v[k] = z[m + k]
  <2>1. m + 1 \in 1..(Len(z) + 1) /\ m + n \in 0..Len(z)
    BY <1>1
  <2>2. \A k \in 1..n : m + k \in 1..Len(z) /\ (m + 1) + k - 1 = m + k
    BY <1>1
  <2>3. QED
    BY <1>1, <2>1, <2>2, SubSeqProperties
<1> HIDE DEF u, v
<1>4. u = a
  <2>1. \A k \in 1..m : u[k] = a[k]
    BY <1>1, <1>2
  <2>2. QED
    BY <1>2, <2>1, SameSeq DEF m
<1>5. v = b
  <2>1. \A k \in 1..n : z[m + k] = b[k]
    <3> SUFFICES ASSUME NEW k \in 1..n PROVE z[m + k] = b[k]
      OBVIOUS
    <3>1. m + k \in 1..(m + n) /\ ~(m + k <= m) /\ (m + k) - m = k
      BY <1>1
    <3>2. QED
      BY <1>1, <3>1
  <2>2. QED
    BY <1>3, <2>1, SameSeq DEF n
<1>6. QED
  BY <1>1, <1>4, <1>5 DEF u, v, z, m, n

LEMMA FollowedTyped ==
  ASSUME NEW s \in Seq(Lines), NEW ns
  PROVE  Followed(s, ns) \in Seq(Lines) /\ Len(Followed(s, ns)) = Len(s)
BY Ending DEF Followed

\* A document at one of its nodes.
StandsAt(d, before, n, behind) ==
  /\ before \in Seq(Goods) /\ n \in Goods /\ behind \in Seq(Goods)
  /\ Nodes(d) = Append(before, n) \o behind

LEMMA PartsAre ==
  ASSUME NEW d, NEW before, NEW n, NEW behind, StandsAt(d, before, n, behind), NEW i, i = Len(before) + 1
  PROVE  /\ Above(d, i) = EndLine(Lay(<<>>, before))
         /\ Own(d, i) = Followed(SerializeNode(n), behind)
         /\ Below(d, i) = Lay(<<>>, behind)
<1> DEFINE w == Append(before, n)
           ns == Nodes(d)
           b == Lay(<<>>, before)
           s == SerializeNode(n)
           e == EndLine(b)
           f == Followed(s, behind)
           y == Lay(<<>>, behind)
<1>1. before \in Seq(Goods) /\ n \in Goods /\ behind \in Seq(Goods) /\ ns = w \o behind
  BY DEF StandsAt
<1>2. w \in Seq(Goods) /\ Len(before) \in Nat /\ Len(w) = i /\ i \in Nat /\ i - 1 = Len(before)
  BY <1>1
<1> HIDE DEF w, ns
<1>3. SubSeq(ns, 1, i) = w
  BY <1>1, <1>2, CutAt
<1>4. SubSeq(ns, 1, i - 1) = before
  <2> DEFINE u == <<n>>
             v == u \o behind
  <2>1. u \in Seq(Goods) /\ w = before \o u
    BY <1>1 DEF w
  <2> HIDE DEF u
  <2>2. w \o behind = before \o v
    BY <1>1, <2>1, ConcatAssociative, SMTT(60)
  <2>3. v \in Seq(Goods)
    BY <1>1, <2>1
  <2> HIDE DEF v
  <2>4. SubSeq(before \o v, 1, Len(before)) = before
    BY <1>1, <2>3, CutAt
  <2>5. QED
    BY <1>1, <1>2, <2>2, <2>4
<1>5. b \in Seq(Lines) /\ y \in Seq(Lines)
  <2>1. <<>> \in Seq(Lines)
    OBVIOUS
  <2>2. QED
    BY <1>1, <2>1, LayBehind
<1>6. s \in Seq(Lines) /\ s # <<>>
  BY <1>1, SomethingWritten
<1>7. Lay(<<>>, w) = e \o s
  BY <1>1, LayAppend DEF Serialize, w
<1>8. Lay(<<>>, ns) = Lay(e \o s, behind)
  <2>1. Lay(<<>>, w \o behind) = Lay(Lay(<<>>, w), behind)
    BY <1>1, <1>2, LayConcat
  <2>2. QED
    BY <1>1, <1>7, <2>1
<1>9. e \in Seq(Lines) /\ Len(e) = Len(b)
  BY <1>5, Ending
<1> HIDE DEF w, ns, b, s, y
<1>10. f \in Seq(Lines) /\ Len(f) = Len(s)
  BY <1>6, FollowedTyped
<1> HIDE DEF e
<1>11. Lay(e \o s, behind) = (e \o f) \o y
  <2>1. e \o s \in Seq(Lines)
    BY <1>6, <1>9
  <2>2. Lay(e \o s, behind) = Followed(e \o s, behind) \o y
    BY <1>1, <2>1, LayBehind DEF y
  <2>3. Followed(e \o s, behind) = e \o f
    BY <1>6, <1>9, EndBehind DEF Followed
  <2>4. QED
    BY <2>2, <2>3
<1> HIDE DEF f
<1>12. Bytes(d) = (e \o f) \o y
  BY <1>8, <1>11, LayIs DEF Bytes, ns
<1>13. UpTo(d, i - 1) = Len(e)
  BY <1>4, <1>9, LayIs DEF UpTo, ns, b
<1>14. UpTo(d, i) = Len(e) + Len(f)
  <2>1. UpTo(d, i) = Len(Lay(<<>>, w))
    BY <1>3, LayIs DEF UpTo, ns
  <2>2. Len(e \o s) = Len(e) + Len(s)
    BY <1>6, <1>9
  <2>3. QED
    BY <1>7, <1>10, <2>1, <2>2
<1> DEFINE g == e \o f
           z == g \o y
           p == Len(e)
           q == Len(e) + Len(f)
<1>15. g \in Seq(Lines) /\ Len(g) = q /\ z \in Seq(Lines) /\ p \in Nat /\ q \in Nat
  BY <1>5, <1>9, <1>10, SMTT(60)
<1>16. z = e \o (f \o y) /\ f \o y \in Seq(Lines)
  <2>1. (e \o f) \o y = e \o (f \o y)
    BY <1>5, <1>9, <1>10, TextsJoin, Zenon
  <2>2. f \o y \in Seq(Lines)
    BY <1>5, <1>10
  <2>3. QED
    BY <2>1, <2>2
<1>17. SubSeq(z, 1, p) = e
  BY <1>9, <1>16, CutAt
<1>18. SubSeq(z, q + 1, Len(z)) = y
  BY <1>5, <1>15, CutAt
<1>19. SubSeq(z, p + 1, q) = f
  <2>1. SubSeq(g, 1, q) = g /\ SubSeq(g, p + 1, q) = f
    BY <1>9, <1>10, <1>15, CutAt, SMTT(60)
  <2> HIDE DEF g, p, q
  <2>2. SubSeq(z, p + 1, q) = SubSeq(g, p + 1, q)
    <3>1. \A k \in 1..q : z[k] = g[k]
      BY <1>5, <1>15
    <3>2. Len(z) = q + Len(y) /\ Len(y) \in Nat
      BY <1>5, <1>15, SMTT(60)
    <3> HIDE DEF z
    <3>3. p <= q
      BY <1>9, <1>10 DEF p, q
    <3>4. SubSeq(z, p + 1, q) = [k \in 1..(q - p) |-> z[p + k]]
      BY <1>15, <3>2, <3>3
    <3>5. SubSeq(g, p + 1, q) = [k \in 1..(q - p) |-> g[p + k]]
      BY <1>15, <3>3
    <3>6. \A k \in 1..(q - p) : z[p + k] = g[p + k]
      BY <1>15, <3>1, <3>3
    <3>7. QED
      BY <3>4, <3>5, <3>6
  <2>3. QED
    BY <2>1, <2>2
<1>20. QED
  BY <1>12, <1>13, <1>14, <1>17, <1>18, <1>19 DEF Above, Own, Below, e, f, y, z, g, p, q, b, s

\* A document's nodes, before, at and behind one of its children.
LEMMA NodesSplit ==
  ASSUME NEW N, \A n \in N : n.children \in Seq(N), NEW d \in Seq(N), NEW i \in 1..Len(d)
  PROVE  /\ Nodes(SubSeq(d, 1, i - 1)) \in Seq(N) /\ Nodes(SubSeq(d, i + 1, Len(d))) \in Seq(N)
         /\ Nodes(d) = Nodes(SubSeq(d, 1, i - 1))
                         \o (Block(d[i]) \o Nodes(SubSeq(d, i + 1, Len(d))))
<1> DEFINE m == Len(d)
           u == SubSeq(d, 1, i - 1)
           v == SubSeq(d, i + 1, m)
           b == Blocks(d)
           Q == Seq(N)
           bu == SubSeq(b, 1, i - 1)
           bv == SubSeq(b, i + 1, m)
<1>1. m \in Nat /\ i \in Nat /\ 1 <= i /\ i <= m /\ m = Len(d)
  OBVIOUS
<1> HIDE DEF m
<1>2. u \in Seq(N) /\ Len(u) = i - 1 /\ \A k \in 1..(i - 1) : u[k] = d[k]
  BY <1>1, SubSeqProperties
<1>3. v \in Seq(N) /\ Len(v) = m - i /\ \A k \in 1..(m - i) : v[k] = d[i + k]
  <2>1. i + 1 \in 1..(m + 1) /\ m \in 0..m /\ m - (i + 1) + 1 = m - i
        /\ \A k \in 1..(m - i) : (i + 1) + k - 1 = i + k
    BY <1>1
  <2>2. QED
    BY <1>1, <2>1, SubSeqProperties
<1>4. b \in Seq(Q) /\ Len(b) = m /\ \A k \in 1..m : b[k] = Block(d[k])
  BY <1>1, BlocksTyped
<1> HIDE DEF u, v, b, Q, m
<1>5. Blocks(u) \in Seq(Q) /\ Len(Blocks(u)) = i - 1 /\ Nodes(u) \in Seq(N)
      /\ \A k \in 1..(i - 1) : Blocks(u)[k] = Block(u[k])
  BY <1>2, BlocksTyped DEF Q
<1>6. Blocks(v) \in Seq(Q) /\ Len(Blocks(v)) = m - i /\ Nodes(v) \in Seq(N)
      /\ \A k \in 1..(m - i) : Blocks(v)[k] = Block(v[k])
  BY <1>3, BlocksTyped DEF Q
<1>7. bu \in Seq(Q) /\ Len(bu) = i - 1 /\ \A k \in 1..(i - 1) : bu[k] = b[k]
  BY <1>1, <1>4, SubSeqProperties
<1>8. bv \in Seq(Q) /\ Len(bv) = m - i /\ \A k \in 1..(m - i) : bv[k] = b[i + k]
  <2>1. i + 1 \in 1..(m + 1) /\ m \in 0..m /\ m - (i + 1) + 1 = m - i
        /\ \A k \in 1..(m - i) : (i + 1) + k - 1 = i + k
    BY <1>1
  <2>2. QED
    BY <1>1, <1>4, <2>1, SubSeqProperties
<1> HIDE DEF bu, bv
<1>9. bu = Blocks(u)
  <2>1. \A k \in 1..(i - 1) : bu[k] = Blocks(u)[k]
    BY <1>1, <1>2, <1>4, <1>5, <1>7
  <2>2. QED
    BY <1>5, <1>7, <2>1, SameSeq
<1>10. bv = Blocks(v)
  <2>1. \A k \in 1..(m - i) : i + k \in 1..m
    BY <1>1
  <2>3. \A k \in 1..(m - i) : bv[k] = Blocks(v)[k]
    BY <1>3, <1>4, <1>6, <1>8, <2>1, ZenonT(40)
  <2>2. QED
    BY <1>6, <1>8, <2>3, SameSeq
<1>11. FlattenSeq(b) = FlattenSeq(bu) \o (b[i] \o FlattenSeq(bv))
  <2>1. i \in 1..Len(b) /\ b \in Seq(Seq(N))
    BY <1>1, <1>4 DEF Q
  <2>2. ByNode!FlattenSeq(b) = ByNode!FlattenSeq(SubSeq(b, 1, i - 1))
           \o (b[i] \o ByNode!FlattenSeq(SubSeq(b, i + 1, Len(b))))
    BY <2>1, ByNode!FlattenSplit
  <2>3. QED
    BY <1>4, <2>2, FlattenIs DEF bu, bv
<1>12. Nodes(d) = FlattenSeq(b) /\ Nodes(u) = FlattenSeq(Blocks(u))
       /\ Nodes(v) = FlattenSeq(Blocks(v)) /\ b[i] = Block(d[i])
  BY <1>1, <1>4, NodesAre DEF b
<1>13. Nodes(d) = Nodes(u) \o (Block(d[i]) \o Nodes(v))
  BY <1>9, <1>10, <1>11, <1>12
<1>14. QED
  BY <1>5, <1>6, <1>13 DEF u, v, m

\* ... when another child takes its place.
LEMMA NodesPut ==
  ASSUME NEW N, \A n \in N : n.children \in Seq(N), NEW d \in Seq(N), NEW i \in 1..Len(d), NEW n \in N
  PROVE  Nodes([d EXCEPT ![i] = n])
           = Nodes(SubSeq(d, 1, i - 1)) \o (Block(n) \o Nodes(SubSeq(d, i + 1, Len(d))))
<1> DEFINE m == Len(d)
           e == [d EXCEPT ![i] = n]
           u == SubSeq(d, 1, i - 1)
           v == SubSeq(d, i + 1, m)
           x == SubSeq(e, 1, i - 1)
           y == SubSeq(e, i + 1, m)
<1>1. m \in Nat /\ i \in Nat /\ 1 <= i /\ i <= m
  OBVIOUS
<1>2. e \in Seq(N) /\ Len(e) = m /\ e[i] = n /\ \A k \in 1..m : k # i => e[k] = d[k]
  OBVIOUS
<1> HIDE DEF e, m
<1>3. x = u
  <2>1. u = [k \in 1..(i - 1) |-> d[k]] /\ x = [k \in 1..(i - 1) |-> e[k]]
    BY <1>1, <1>2
  <2>2. \A k \in 1..(i - 1) : e[k] = d[k]
    BY <1>1, <1>2
  <2>3. QED
    BY <2>1, <2>2
<1>4. y = v
  <2>1. v = [k \in 1..(m - i) |-> d[i + k]] /\ y = [k \in 1..(m - i) |-> e[i + k]]
    BY <1>1, <1>2
  <2>2. \A k \in 1..(m - i) : e[i + k] = d[i + k]
    BY <1>1, <1>2
  <2>3. QED
    BY <2>1, <2>2
<1>5. Nodes(e) = Nodes(x) \o (Block(e[i]) \o Nodes(y))
  <2>1. i \in 1..Len(e)
    BY <1>1, <1>2
  <2>2. QED
    BY <1>2, <2>1, NodesSplit
<1>6. QED
  BY <1>2, <1>3, <1>4, <1>5 DEF e, m

\* Sequences of nodes, one behind the other.
NodeSeqs == Seq(Goods)
LEMMA Joined ==
  /\ \A s, t \in NodeSeqs : s \o t \in NodeSeqs /\ Len(s \o t) = Len(s) + Len(t)
  /\ \A s \in NodeSeqs, x \in Goods : /\ Append(s, x) \in NodeSeqs /\ Len(Append(s, x)) = Len(s) + 1
                                      /\ Append(s, x) = s \o <<x>>
  /\ \A x \in Goods : <<x>> \in NodeSeqs
<1>1. \A s, t \in Seq(Goods) : s \o t \in Seq(Goods) /\ Len(s \o t) = Len(s) + Len(t)
  OBVIOUS
<1>3. \A s \in Seq(Goods), x \in Goods : /\ Append(s, x) \in Seq(Goods)
                                        /\ Len(Append(s, x)) = Len(s) + 1
                                        /\ Append(s, x) = s \o <<x>>
  OBVIOUS
<1>4. \A x \in Goods : <<x>> \in Seq(Goods)
  OBVIOUS
<1>5. QED
  BY <1>1, <1>3, <1>4, Zenon DEF NodeSeqs

LEMMA NodesJoin ==
  \A s, t, u \in NodeSeqs : (s \o t) \o u = s \o (t \o u)
BY ConcatAssociative, SMTT(60) DEF NodeSeqs

LEMMA Regroup ==
  \A a, c, r \in NodeSeqs, m \in Goods :
    a \o ((<<m>> \o c) \o r) = Append(a, m) \o (c \o r)
<1> SUFFICES ASSUME NEW a \in NodeSeqs, NEW c \in NodeSeqs, NEW r \in NodeSeqs, NEW m \in Goods
             PROVE  a \o ((<<m>> \o c) \o r) = Append(a, m) \o (c \o r)
  OBVIOUS
<1> DEFINE u == <<m>>
           w == c \o r
<1>1. u \in NodeSeqs /\ Append(a, m) = a \o u /\ w \in NodeSeqs
  BY Joined, Zenon
<1> HIDE DEF u
<1>2. (u \o c) \o r = u \o w
  BY <1>1, NodesJoin, ZenonT(40)
<1> HIDE DEF w
<1>3. (a \o u) \o w = a \o (u \o w)
  BY <1>1, NodesJoin, ZenonT(40)
<1>4. QED
  BY <1>1, <1>2, <1>3, Zenon DEF u, w

Regrouped(a, h, u, m, v, r) ==
  a \o ((<<h>> \o (u \o (<<m>> \o v))) \o r) = Append(Append(a, h) \o u, m) \o (v \o r)
LEMMA RegroupUnder ==
  ASSUME NEW a \in NodeSeqs, NEW h \in Goods, NEW u \in NodeSeqs, NEW m \in Goods,
         NEW v \in NodeSeqs, NEW r \in NodeSeqs
  PROVE  /\ Append(a, h) \o u \in NodeSeqs /\ Len(Append(a, h) \o u) = (Len(a) + 1) + Len(u)
         /\ Regrouped(a, h, u, m, v, r)
<1> DEFINE b == Append(a, h)
           w == <<m>> \o v
           z == w \o r
           y == u \o w
           c == b \o u
<1>1. b \in NodeSeqs /\ Len(b) = Len(a) + 1
  BY Joined, Zenon
<1>2. w \in NodeSeqs
  BY Joined, Zenon
<1> HIDE DEF w, b
<1>3. y \in NodeSeqs
  BY <1>2, Joined, Zenon
<1>12. z \in NodeSeqs
  BY <1>2, Joined, Zenon
<1>13. b \in NodeSeqs
  BY <1>1
<1>14. c \in NodeSeqs /\ Len(c) = Len(b) + Len(u)
  BY <1>13, Joined, Zenon
<1>4. (u \o w) \o r = u \o (w \o r)
  BY <1>2, NodesJoin, ZenonT(40)
<1> HIDE DEF z, y, c
<1>5. (b \o u) \o z = b \o (u \o z)
  BY <1>12, <1>13, NodesJoin, ZenonT(40)
<1>6. a \o ((<<h>> \o y) \o r) = b \o (y \o r)
  BY <1>3, Regroup, SMTT(60) DEF b
<1>7. c \o ((<<m>> \o v) \o r) = Append(c, m) \o (v \o r)
  BY <1>14, Regroup, SMTT(60)
<1>8. y \o r = u \o z /\ c \o z = b \o (u \o z)
  BY <1>4, <1>5, Zenon DEF y, z, c
<1>9. a \o ((<<h>> \o y) \o r) = Append(c, m) \o (v \o r)
  BY <1>6, <1>7, <1>8, Zenon DEF z, w
<1>10. Len(c) = (Len(a) + 1) + Len(u)
  BY <1>1, <1>14, Zenon
<1>11. QED
  BY <1>14, <1>9, <1>10, Zenon DEF b, w, y, c, Regrouped

\* A sequence around one of its members.
InPlace(s, before, x, behind) == s = before \o (<<x>> \o behind)
LEMMA AroundOne ==
  ASSUME NEW s \in Seq(SoundLeaf), NEW i \in 1..Len(s), NEW x \in SoundLeaf
  PROVE  /\ SubSeq(s, 1, i - 1) \in Seq(SoundLeaf) /\ SubSeq(s, i + 1, Len(s)) \in Seq(SoundLeaf)
         /\ Len(SubSeq(s, 1, i - 1)) = i - 1
         /\ InPlace([s EXCEPT ![i] = x], SubSeq(s, 1, i - 1), x, SubSeq(s, i + 1, Len(s)))
<1> DEFINE m == Len(s)
           u == SubSeq(s, 1, i - 1)
           v == SubSeq(s, i + 1, m)
           t == [s EXCEPT ![i] = x]
           w == <<x>> \o v
           z == u \o w
<1>1. m \in Nat /\ i \in Nat /\ 1 <= i /\ i <= m /\ m = Len(s)
  OBVIOUS
<1>4. t \in Seq(SoundLeaf) /\ Len(t) = m /\ \A k \in 1..m : t[k] = IF k = i THEN x ELSE s[k]
  OBVIOUS
<1> HIDE DEF m, t
<1>2. u \in Seq(SoundLeaf) /\ Len(u) = i - 1 /\ \A k \in 1..(i - 1) : u[k] = s[k]
  BY <1>1, SubSeqProperties
<1>3. v \in Seq(SoundLeaf) /\ Len(v) = m - i /\ \A k \in 1..(m - i) : v[k] = s[i + k]
  <2>1. i + 1 \in 1..(m + 1) /\ m \in 0..m /\ m - (i + 1) + 1 = m - i
        /\ \A k \in 1..(m - i) : (i + 1) + k - 1 = i + k
    BY <1>1
  <2>2. QED
    BY <1>1, <2>1, SubSeqProperties
<1> HIDE DEF u, v
<1>5. w \in Seq(SoundLeaf) /\ Len(w) = m - i + 1 /\ w[1] = x /\ \A k \in 1..(m - i) : w[k + 1] = v[k]
  BY <1>1, <1>3
<1> HIDE DEF w
<1>6. z \in Seq(SoundLeaf) /\ Len(z) = m /\ \A k \in 1..m : z[k] = IF k <= i - 1 THEN u[k] ELSE w[k - (i - 1)]
  <2>1. z \in Seq(SoundLeaf) /\ Len(z) = Len(u) + Len(w)
        /\ \A k \in 1..Len(u) + Len(w) : z[k] = IF k <= Len(u) THEN u[k] ELSE w[k - Len(u)]
    <3>1. u \in Seq(SoundLeaf) /\ w \in Seq(SoundLeaf)
      BY <1>2, <1>5
    <3>2. QED
      BY <3>1, ConcatProperties
  <2>2. Len(u) + Len(w) = m
    BY <1>1, <1>2, <1>5
  <2>3. QED
    BY <1>2, <2>1, <2>2
<1> HIDE DEF z
<1>7. \A k \in 1..m : t[k] = z[k]
  <2> SUFFICES ASSUME NEW k \in 1..m PROVE t[k] = z[k]
    OBVIOUS
  <2>1. CASE k < i
    <3>1. k \in 1..(i - 1) /\ k <= i - 1 /\ k # i
      BY <1>1, <2>1
    <3>2. QED
      BY <1>2, <1>4, <1>6, <3>1
  <2>2. CASE k = i
    <3>1. ~(k <= i - 1) /\ k - (i - 1) = 1
      BY <1>1, <2>2
    <3>2. QED
      BY <1>4, <1>5, <1>6, <2>2, <3>1
  <2>3. CASE k > i
    <3>1. ~(k <= i - 1) /\ k # i /\ k - i \in 1..(m - i) /\ k - (i - 1) = (k - i) + 1
          /\ i + (k - i) = k
      BY <1>1, <2>3
    <3>2. w[(k - i) + 1] = v[k - i] /\ v[k - i] = s[k]
      BY <1>3, <1>5, <3>1
    <3>3. QED
      BY <1>4, <1>6, <3>1, <3>2
  <2>4. QED
    BY <1>1, <2>1, <2>2, <2>3
<1>8. t = z
  BY <1>4, <1>6, <1>7, SameSeq
<1>9. QED
  BY <1>2, <1>3, <1>8 DEF t, z, w, u, v, m, InPlace

LEMMA AsItWas ==
  ASSUME NEW s \in Seq(SoundLeaf), NEW i \in 1..Len(s)
  PROVE  s = [s EXCEPT ![i] = s[i]]
OBVIOUS

\* A node's lines do not depend on what is under it.
LEMMA OtherChildren ==
  ASSUME NEW n \in SoundNode, NEW items \in Seq(SoundLeaf)
  PROVE  /\ [n EXCEPT !.children = items] \in SoundNode
         /\ [n EXCEPT !.children = items].children = items
         /\ SerializeNode([n EXCEPT !.children = items]) = SerializeNode(n)
<1> DEFINE m == [n EXCEPT !.children = items]
<1>1. /\ m \in SoundNode /\ m.children = items /\ m.comments = n.comments /\ m.line = n.line
      /\ m.blanks = n.blanks /\ m.raw = n.raw /\ m.dirty = n.dirty
  BY SoundWith DEF SoundNode, Node
<1> HIDE DEF m
<1>2. RenderTrivia(m) = RenderTrivia(n) /\ RenderLine(m) = RenderLine(n)
  BY <1>1 DEF RenderTrivia, RenderLine, BlankRun
<1>3. QED
  BY <1>1, <1>2 DEF m, SerializeNode

LEMMA GoodChildren ==
  /\ \A n \in SoundNode : n.children \in Seq(SoundNode)
  /\ Seq(SoundNode) \subseteq NodeSeqs /\ Seq(SoundLeaf) \subseteq NodeSeqs
  /\ SoundNode \subseteq Goods
<1>1. Seq(SoundLeaf) \subseteq Seq(SoundNode) /\ Seq(SoundNode) \subseteq Seq(Goods)
  BY LeafKinds, SeqMonotonic
<1>2. \A n \in SoundNode : n.children \in Seq(SoundLeaf)
  BY DEF SoundNode
<1>3. QED
  BY <1>1, <1>2, LeafKinds DEF NodeSeqs

LEMMA NodesLaid ==
  /\ \A buf : \A s, u \in NodeSeqs : Lay(buf, s \o u) = Lay(Lay(buf, s), u)
  /\ \A buf : \A s \in NodeSeqs, x \in Goods : Lay(buf, Append(s, x)) = Serialize(Lay(buf, s), x)
BY LayConcat, LayAppend DEF NodeSeqs

\* Two nodes with the same children at one place: the nodes before them are
\* written alike, the nodes behind them are the same.
StandAlike(i, d, m, e, n) ==
  \E was, before, behind \in NodeSeqs :
    /\ i = Len(was) + 1 /\ Len(before) = Len(was) /\ Lay(<<>>, before) = Lay(<<>>, was)
    /\ Nodes(d) = Append(was, m) \o behind
    /\ Nodes(e) = Append(before, n) \o behind

LEMMA PlacedOutside ==
  ASSUME NEW d \in Document, NEW i \in 1..Len(d), NEW n \in SoundNode, n.children = d[i].children
  PROVE  StandAlike(Len(Nodes(SubSeq(d, 1, i - 1))) + 1, d, d[i], [d EXCEPT ![i] = n], n)
<1> DEFINE m == d[i]
           c == m.children
           a == Nodes(SubSeq(d, 1, i - 1))
           r == Nodes(SubSeq(d, i + 1, Len(d)))
           e == [d EXCEPT ![i] = n]
<1>1. d \in Seq(SoundNode) /\ m \in SoundNode
  BY DEF Document
<1>2. \A x \in SoundNode : x.children \in Seq(SoundNode)
  BY GoodChildren
<1>3. a \in Seq(SoundNode) /\ r \in Seq(SoundNode) /\ Nodes(d) = a \o (Block(m) \o r)
  BY <1>1, <1>2, NodesSplit
<1>4. Nodes(e) = a \o (Block(n) \o r)
  BY <1>1, <1>2, NodesPut
<1>5. a \in NodeSeqs /\ r \in NodeSeqs /\ c \in NodeSeqs /\ m \in Goods /\ n \in Goods
  BY <1>1, <1>2, <1>3, GoodChildren
<1>6. Block(m) = <<m>> \o c /\ Block(n) = <<n>> \o c
  BY DEF Block
<1> HIDE DEF a, r, c, e, m
<1>7. Nodes(d) = Append(a, m) \o (c \o r)
  BY <1>3, <1>5, <1>6, Regroup, SMTT(60)
<1>8. Nodes(e) = Append(a, n) \o (c \o r)
  BY <1>4, <1>5, <1>6, Regroup, SMTT(60)
<1>9. c \o r \in NodeSeqs
  BY <1>5, Joined, Zenon
<1>10. StandAlike(Len(a) + 1, d, m, e, n)
  BY <1>5, <1>7, <1>8, <1>9, Zenon DEF StandAlike
<1>11. QED
  BY <1>10 DEF a, e, m

LEMMA PlacedUnder ==
  ASSUME NEW d \in Document, NEW h \in 1..Len(d), NEW i \in 1..Len(d[h].children),
         NEW n \in SoundLeaf
  PROVE  StandAlike((Len(Nodes(SubSeq(d, 1, h - 1))) + 1) + i, d, d[h].children[i],
                 [d EXCEPT ![h].children = [d[h].children EXCEPT ![i] = n]], n)
<1> DEFINE s == d[h].children
           m == s[i]
           items == [s EXCEPT ![i] = n]
           f == d[h]
           g == [f EXCEPT !.children = items]
           a == Nodes(SubSeq(d, 1, h - 1))
           r == Nodes(SubSeq(d, h + 1, Len(d)))
           e == [d EXCEPT ![h] = g]
           u == SubSeq(s, 1, i - 1)
           v == SubSeq(s, i + 1, Len(s))
           w == v \o r
           x == Append(a, f) \o u
           y == Append(a, g) \o u
<1>1. /\ d \in Seq(SoundNode) /\ f \in SoundNode /\ s \in Seq(SoundLeaf) /\ m \in SoundLeaf
      /\ i \in 1..Len(s) /\ f.children = s
  <2>1. d \in Seq(SoundNode) /\ f \in SoundNode
    BY DEF Document
  <2>2. s \in Seq(SoundLeaf)
    BY <2>1 DEF SoundNode
  <2>3. QED
    BY <2>1, <2>2
<1>2. \A z \in SoundNode : z.children \in Seq(SoundNode)
  BY GoodChildren
<1> HIDE DEF s
<1>3. /\ u \in Seq(SoundLeaf) /\ v \in Seq(SoundLeaf) /\ Len(u) = i - 1
      /\ items = u \o (<<n>> \o v) /\ s = u \o (<<m>> \o v)
  <2>1. /\ u \in Seq(SoundLeaf) /\ v \in Seq(SoundLeaf) /\ Len(u) = i - 1
        /\ items = u \o (<<n>> \o v)
    <3>1. /\ u \in Seq(SoundLeaf) /\ v \in Seq(SoundLeaf) /\ Len(u) = i - 1
      BY <1>1, AroundOne
    <3>2. InPlace(items, u, n, v)
      BY <1>1, AroundOne, Zenon
    <3>3. QED
      BY <3>1, <3>2 DEF InPlace
  <2>2. InPlace([s EXCEPT ![i] = m], u, m, v)
    BY <1>1, AroundOne, Zenon
  <2>3. s = [s EXCEPT ![i] = m]
    BY <1>1, AsItWas
  <2>4. QED
    BY <2>1, <2>2, <2>3 DEF InPlace
<1>4. items \in Seq(SoundLeaf)
  BY <1>1
<1> HIDE DEF items
<1>5. g \in SoundNode /\ g.children = items /\ SerializeNode(g) = SerializeNode(f)
  BY <1>1, <1>4, OtherChildren
<1>6. a \in Seq(SoundNode) /\ r \in Seq(SoundNode) /\ Nodes(d) = a \o (Block(f) \o r)
  BY <1>1, <1>2, NodesSplit
<1> HIDE DEF g
<1>7. Nodes(e) = a \o (Block(g) \o r)
  BY <1>1, <1>2, <1>5, NodesPut, ZenonT(40)
<1>8. /\ a \in NodeSeqs /\ r \in NodeSeqs /\ u \in NodeSeqs /\ v \in NodeSeqs
      /\ f \in Goods /\ g \in Goods /\ m \in Goods /\ n \in Goods
  BY <1>1, <1>3, <1>5, <1>6, GoodChildren, LeafKinds
<1>9. Block(f) = <<f>> \o s /\ Block(g) = <<g>> \o items
  BY <1>1, <1>5 DEF Block
<1>10. [d EXCEPT ![h].children = items] = e
  BY <1>1 DEF g
<1> HIDE DEF s, m, f, a, r, e, u, v
<1>11. x \in NodeSeqs /\ Len(x) = (Len(a) + 1) + Len(u) /\ Nodes(d) = Append(x, m) \o w
  <2>1. /\ x \in NodeSeqs /\ Len(x) = (Len(a) + 1) + Len(u)
        /\ Regrouped(a, f, u, m, v, r)
    BY <1>8, RegroupUnder, Zenon
  <2>2. Nodes(d) = a \o ((<<f>> \o (u \o (<<m>> \o v))) \o r)
    BY <1>3, <1>6, <1>9
  <2>3. QED
    BY <2>1, <2>2 DEF Regrouped
<1>12. y \in NodeSeqs /\ Len(y) = (Len(a) + 1) + Len(u) /\ Nodes(e) = Append(y, n) \o w
  <2>1. /\ y \in NodeSeqs /\ Len(y) = (Len(a) + 1) + Len(u)
        /\ Regrouped(a, g, u, n, v, r)
    BY <1>8, RegroupUnder, Zenon
  <2>2. Nodes(e) = a \o ((<<g>> \o (u \o (<<n>> \o v))) \o r)
    BY <1>3, <1>7, <1>9
  <2>3. QED
    BY <2>1, <2>2 DEF Regrouped
<1>13. w \in NodeSeqs
  BY <1>8, Joined, Zenon
<1>14. Lay(<<>>, y) = Lay(<<>>, x)
  <2>1. Lay(<<>>, Append(a, f)) = Serialize(Lay(<<>>, a), f)
    BY <1>8, NodesLaid, Zenon
  <2>2. Lay(<<>>, Append(a, g)) = Serialize(Lay(<<>>, a), g)
    BY <1>8, NodesLaid, Zenon
  <2>3. Lay(<<>>, Append(a, f)) = Lay(<<>>, Append(a, g))
    BY <1>5, <2>1, <2>2 DEF Serialize
  <2>4. Append(a, f) \in NodeSeqs /\ Append(a, g) \in NodeSeqs
    BY <1>8, Joined, Zenon
  <2>5. Lay(<<>>, x) = Lay(Lay(<<>>, Append(a, f)), u) /\ Lay(<<>>, y) = Lay(Lay(<<>>, Append(a, g)), u)
    BY <1>8, <2>4, NodesLaid, ZenonT(40) DEF x, y
  <2>6. QED
    BY <2>3, <2>5
<1> HIDE DEF x, y, w
<1>15. (Len(a) + 1) + i = Len(x) + 1 /\ Len(y) = Len(x)
  <2>1. Len(a) \in Nat /\ i \in Nat
    <3>1. i \in Nat
      OBVIOUS
    <3>2. QED
      BY <1>8, <3>1 DEF NodeSeqs
  <2>2. QED
    BY <1>3, <1>11, <1>12, <2>1
<1>16. StandAlike((Len(a) + 1) + i, d, m, e, n)
  BY <1>11, <1>12, <1>13, <1>14, <1>15, Zenon DEF StandAlike
<1>17. QED
  BY <1>10, <1>16 DEF a, m, s, items

LEMMA Placed ==
  ASSUME doc \in Document, NEW p \in Places, NEW n \in SoundNode, p[1] # 0 => n \in SoundLeaf,
         n.children = At(p).children
  PROVE  StandAlike(IndexOf(p), doc, At(p), Put(p, n), n)
<1> DEFINE c == p[1]
           i == p[2]
<1>1. c \in Containers /\ i \in 1..Len(ChildrenIn(doc, c)) /\ At(p) = ChildrenIn(doc, c)[i]
  BY PlaceOf
<1>2. CASE c = 0
  <2>1. ChildrenIn(doc, c) = doc
    BY <1>2 DEF ChildrenIn
  <2>2. Put(p, n) = [doc EXCEPT ![i] = n]
    BY <1>2, <2>1 DEF Put, StoreContents
  <2>3. IndexOf(p) = Len(Nodes(SubSeq(doc, 1, i - 1))) + 1
    BY <1>2 DEF IndexOf
  <2>4. i \in 1..Len(doc) /\ At(p) = doc[i]
    BY <1>1, <2>1
  <2> HIDE DEF c, i
  <2>5. StandAlike(Len(Nodes(SubSeq(doc, 1, i - 1))) + 1, doc, doc[i], [doc EXCEPT ![i] = n], n)
    BY <2>4, PlacedOutside
  <2>6. QED
    BY <2>2, <2>3, <2>4, <2>5
<1>3. CASE c # 0
  <2>1. ChildrenIn(doc, c) = doc[c].children /\ c \in 1..Len(doc)
    BY <1>1, <1>3, ContainerItems
  <2>2. Put(p, n) = [doc EXCEPT ![c].children = [doc[c].children EXCEPT ![i] = n]]
    BY <1>3, <2>1 DEF Put, StoreContents
  <2>3. IndexOf(p) = (Len(Nodes(SubSeq(doc, 1, c - 1))) + 1) + i
    BY <1>3 DEF IndexOf
  <2>4. i \in 1..Len(doc[c].children) /\ At(p) = doc[c].children[i] /\ n \in SoundLeaf
    BY <1>1, <1>3, <2>1
  <2> HIDE DEF c, i
  <2>5. StandAlike((Len(Nodes(SubSeq(doc, 1, c - 1))) + 1) + i, doc, doc[c].children[i],
                 [doc EXCEPT ![c].children = [doc[c].children EXCEPT ![i] = n]], n)
    BY <2>1, <2>4, PlacedUnder
  <2>6. QED
    BY <2>2, <2>3, <2>4, <2>5
<1>4. QED
  BY <1>2, <1>3

\* A node was replaced: the lines before and behind it stand, and its own are
\* those of the new one.
OwnLinesOnly(d, e, i, m, n) ==
  /\ Above(e, i) = Above(d, i) /\ Below(e, i) = Below(d, i)
  /\ \E behind \in NodeSeqs : /\ Own(d, i) = Followed(SerializeNode(m), behind)
                              /\ Own(e, i) = Followed(SerializeNode(n), behind)
LEMMA AlikeLines ==
  ASSUME NEW i, NEW d, NEW m \in Goods, NEW e, NEW n \in Goods, StandAlike(i, d, m, e, n)
  PROVE  OwnLinesOnly(d, e, i, m, n)
<1>1. PICK was, before, behind \in NodeSeqs :
        /\ i = Len(was) + 1 /\ Len(before) = Len(was) /\ Lay(<<>>, before) = Lay(<<>>, was)
        /\ Nodes(d) = Append(was, m) \o behind
        /\ Nodes(e) = Append(before, n) \o behind
  BY Zenon DEF StandAlike
<1>2. StandsAt(d, was, m, behind) /\ StandsAt(e, before, n, behind)
  BY <1>1 DEF StandsAt, NodeSeqs
<1>3. i = Len(before) + 1
  BY <1>1
<1>4. /\ Above(d, i) = EndLine(Lay(<<>>, was)) /\ Own(d, i) = Followed(SerializeNode(m), behind)
      /\ Below(d, i) = Lay(<<>>, behind)
  BY <1>1, <1>2, PartsAre, SMTT(20)
<1>5. /\ Above(e, i) = EndLine(Lay(<<>>, before)) /\ Own(e, i) = Followed(SerializeNode(n), behind)
      /\ Below(e, i) = Lay(<<>>, behind)
  BY <1>2, <1>3, PartsAre, SMTT(20)
<1>6. QED
  BY <1>1, <1>4, <1>5, Zenon DEF OwnLinesOnly

\* A call put a node in another's place.
LEMMA PutLines ==
  ASSUME doc \in Document, NEW p \in Places, NEW n \in SoundNode, p[1] # 0 => n \in SoundLeaf,
         n.children = At(p).children, doc' = Put(p, n)
  PROVE  /\ OnlyOwnLinesChange(IndexOf(p))
         /\ \E behind \in NodeSeqs :
              /\ Own(doc, IndexOf(p)) = Followed(SerializeNode(At(p)), behind)
              /\ Own(doc', IndexOf(p)) = Followed(SerializeNode(n), behind)
<1>1. StandAlike(IndexOf(p), doc, At(p), Put(p, n), n)
  BY Placed
<1>2. At(p) \in Goods /\ n \in Goods
  BY PlaceOf, LeafKinds
<1>3. OwnLinesOnly(doc, Put(p, n), IndexOf(p), At(p), n)
  BY <1>1, <1>2, AlikeLines
<1>4. OwnLinesOnly(doc, doc', IndexOf(p), At(p), n)
  BY <1>3
<1>5. QED
  BY <1>4, Zenon DEF OwnLinesOnly, OnlyOwnLinesChange

\* A construct's lines: its trivia and its own line.
Closing(line, behind) == IF behind = <<>> THEN line ELSE Finished(line)

LEMMA ConstructLines ==
  ASSUME NEW n \in SoundNode, n.k # "text"
  PROVE  /\ RenderTrivia(n) \in Seq(Lines) /\ RenderLine(n) \in Lines
         /\ SerializeNode(n) = Append(RenderTrivia(n), RenderLine(n))
<1>1. n \in Node /\ GoodConstruct(n) /\ n.line \in Lines
  BY DEF SoundNode, Good, Node
<1>2. RenderTrivia(n) \in Seq(Lines)
  <2>1. RenderTrivia(n) \in Seq(Ended(Lines))
    BY <1>1, RenderTyped
  <2>2. Seq(Ended(Lines)) \subseteq Seq(Lines)
    BY LineKinds, SeqMonotonic
  <2>3. QED
    BY <2>1, <2>2
<1>3. RenderLine(n) \in Lines
  BY <1>1, RenderLineIs
<1>4. CASE n.dirty
  BY <1>2, <1>3, <1>4 DEF SerializeNode
<1>5. CASE ~n.dirty
  <2>1. n.raw = Append(RenderTrivia(n), n.line) /\ SerializeNode(n) = n.raw
    BY <1>1, <1>5 DEF GoodConstruct, SerializeNode
  <2>2. n.raw # <<>>
    BY <1>1, <1>2, <2>1, AppendProperties
  <2>3. RenderLine(n) = [n.line EXCEPT !.nl = n.line.nl]
    <3>1. (n.line.nl \/ n.raw = <<>>) = n.line.nl
      BY <1>1, <2>2 DEF Lines
    <3>2. QED
      BY <3>1 DEF RenderLine
  <2>4. [n.line EXCEPT !.nl = n.line.nl] = n.line
    BY <1>1 DEF Lines
  <2>5. QED
    BY <1>2, <1>3, <2>1, <2>3, <2>4
<1>6. QED
  BY <1>4, <1>5

LEMMA ClosingIs ==
  ASSUME NEW l \in Lines, NEW behind
  PROVE  /\ Closing(l, behind) \in Lines
         /\ Closing(l, behind) = [l EXCEPT !.nl = l.nl \/ behind # <<>>]
<1>1. CASE behind = <<>>
  BY <1>1 DEF Closing, Lines
<1>2. CASE behind # <<>>
  BY <1>2 DEF Closing, Finished, Lines
<1>3. QED
  BY <1>1, <1>2

LEMMA FollowedLine ==
  ASSUME NEW s \in Seq(Lines), NEW l \in Lines, NEW behind
  PROVE  Followed(Append(s, l), behind) = Append(s, Closing(l, behind))
<1>1. CASE behind = <<>>
  BY <1>1 DEF Followed, Closing
<1>2. CASE behind # <<>>
  <2> DEFINE z == Append(s, l)
             m == Finished(l)
             e == EndLine(z)
             y == Append(s, m)
  <2>1. m \in Lines
    BY ClosingIs, <1>2 DEF Closing
  <2>2. z \in Seq(Lines) /\ Len(z) = Len(s) + 1 /\ Len(s) \in Nat
        /\ \A i \in 1..(Len(s) + 1) : z[i] = IF i = Len(s) + 1 THEN l ELSE s[i]
    OBVIOUS
  <2> HIDE DEF z, m
  <2>3. y \in Seq(Lines) /\ Len(y) = Len(s) + 1
        /\ \A i \in 1..(Len(s) + 1) : y[i] = IF i = Len(s) + 1 THEN m ELSE s[i]
    BY <2>1
  <2>4. e \in Seq(Lines) /\ Len(e) = Len(s) + 1
        /\ \A i \in 1..(Len(s) + 1) : e[i] = IF i = Len(s) + 1 THEN Finished(z[i]) ELSE z[i]
    BY <2>2, Ending
  <2> HIDE DEF e, y
  <2>5. \A i \in 1..(Len(s) + 1) : e[i] = y[i]
    BY <2>2, <2>3, <2>4 DEF m
  <2>6. e = y
    BY <2>3, <2>4, <2>5, SameSeq
  <2>7. QED
    BY <1>2, <2>6 DEF Followed, Closing, e, y, z, m
<1>3. QED
  BY <1>1, <1>2

\* What a call that puts a construct in another's place does to the text.
LEMMA PutConstruct ==
  ASSUME doc \in Document, NEW p \in Constructs, NEW n \in SoundNode, p[1] # 0 => n \in SoundLeaf,
         n.children = At(p).children, n.k = At(p).k, doc' = Put(p, n)
  PROVE  /\ OnlyOwnLinesChange(IndexOf(p))
         /\ \E behind \in NodeSeqs :
              /\ Own(doc, IndexOf(p))
                   = Append(RenderTrivia(At(p)), Closing(RenderLine(At(p)), behind))
              /\ Own(doc', IndexOf(p)) = Append(RenderTrivia(n), Closing(RenderLine(n), behind))
<1> DEFINE m == At(p)
<1>1. p \in Places /\ m.k # "text"
  BY DEF Constructs
<1>2. m \in SoundNode
  BY <1>1, PlaceOf
<1>3. /\ OnlyOwnLinesChange(IndexOf(p))
      /\ \E behind \in NodeSeqs :
              /\ Own(doc, IndexOf(p)) = Followed(SerializeNode(m), behind)
              /\ Own(doc', IndexOf(p)) = Followed(SerializeNode(n), behind)
  BY <1>1, PutLines
<1>4. PICK behind \in NodeSeqs :
              /\ Own(doc, IndexOf(p)) = Followed(SerializeNode(m), behind)
              /\ Own(doc', IndexOf(p)) = Followed(SerializeNode(n), behind)
  BY <1>3
<1>5. n.k # "text"
  BY <1>1
<1> HIDE DEF m
<1>6. /\ RenderTrivia(m) \in Seq(Lines) /\ RenderLine(m) \in Lines
      /\ SerializeNode(m) = Append(RenderTrivia(m), RenderLine(m))
  BY <1>1, <1>2, ConstructLines
<1>7. /\ RenderTrivia(n) \in Seq(Lines) /\ RenderLine(n) \in Lines
      /\ SerializeNode(n) = Append(RenderTrivia(n), RenderLine(n))
  BY <1>5, ConstructLines
<1>8. Own(doc, IndexOf(p)) = Append(RenderTrivia(m), Closing(RenderLine(m), behind))
  BY <1>4, <1>6, FollowedLine
<1>9. Own(doc', IndexOf(p)) = Append(RenderTrivia(n), Closing(RenderLine(n), behind))
  BY <1>4, <1>7, FollowedLine
<1>10. QED
  BY <1>3, <1>8, <1>9 DEF m

\* Set changes the value on the construct's own line.
LEMMA SetLines ==
  ASSUME IInv, NEW p \in Pairs, NEW v \in Values, Set(p, v)
  PROVE  LET i == IndexOf(p) IN
         /\ OnlyOwnLinesChange(i)
         /\ Own(doc', i) = [Own(doc, i) EXCEPT ![Len(Own(doc, i))].x = v]
<1> DEFINE i == IndexOf(p)
           m == At(p)
           n == Rewritten(m, v)
<1>1. doc \in Document /\ p \in Places /\ p \in Constructs /\ m.k # "text"
  BY DEF IInv, Pairs, Constructs
<1>2. m \in SoundNode /\ (p[1] # 0 => m \in SoundLeaf)
  BY <1>1, PlaceOf
<1>3. doc' = Put(p, n)
  BY DEF Set
<1> HIDE DEF m
<1>4. n \in SoundNode /\ (m \in SoundLeaf => n \in SoundLeaf) /\ n.children = m.children
  BY <1>1, <1>2, RewrittenNode
<1>5. /\ n.k = m.k /\ n.comments = m.comments /\ n.blanks = m.blanks /\ n.raw = m.raw
      /\ n.line = [m.line EXCEPT !.x = v] /\ m.line \in Lines
  BY <1>2 DEF Rewritten, SoundNode, Node
<1> HIDE DEF n
<1>6. /\ OnlyOwnLinesChange(i)
      /\ \E behind \in NodeSeqs :
              /\ Own(doc, i) = Append(RenderTrivia(m), Closing(RenderLine(m), behind))
              /\ Own(doc', i) = Append(RenderTrivia(n), Closing(RenderLine(n), behind))
  BY <1>1, <1>2, <1>3, <1>4, <1>5, PutConstruct DEF m
<1>7. PICK behind \in NodeSeqs :
              /\ Own(doc, i) = Append(RenderTrivia(m), Closing(RenderLine(m), behind))
              /\ Own(doc', i) = Append(RenderTrivia(n), Closing(RenderLine(n), behind))
  BY <1>6
<1> DEFINE s == RenderTrivia(m)
           l == RenderLine(m)
           k == Closing(l, behind)
           w == Append(s, k)
<1>8. RenderTrivia(n) = s
  BY <1>5 DEF RenderTrivia, BlankRun
<1>9. RenderLine(n) = [l EXCEPT !.x = v]
  <2>1. l = [m.line EXCEPT !.nl = m.line.nl \/ m.raw = <<>>]
    BY DEF RenderLine
  <2>2. RenderLine(n) = [n.line EXCEPT !.nl = n.line.nl \/ n.raw = <<>>]
    BY DEF RenderLine
  <2>3. n.line.nl = m.line.nl
    BY <1>5 DEF Lines
  <2> DEFINE y == m.line.nl \/ m.raw = <<>>
  <2> HIDE DEF y
  <2>4. l = [m.line EXCEPT !.nl = y] /\ RenderLine(n) = [n.line EXCEPT !.nl = y]
    BY <1>5, <2>1, <2>2, <2>3 DEF y
  <2> HIDE DEF l
  <2>5. QED
    BY <1>5, <2>4 DEF Lines
<1>10. s \in Seq(Lines) /\ l \in Lines
  BY <1>1, <1>2, ConstructLines
<1> HIDE DEF s, l
<1>11. k \in Lines /\ Closing(RenderLine(n), behind) = [k EXCEPT !.x = v]
  <2>1. k = [l EXCEPT !.nl = l.nl \/ behind # <<>>] /\ k \in Lines
    BY <1>10, ClosingIs
  <2> DEFINE r == RenderLine(n)
  <2>2. r \in Lines /\ r.nl = l.nl
    <3>1. r \in Lines
      BY <1>1, <1>4, <1>5, ConstructLines
    <3>2. QED
      BY <1>9, <1>10, <3>1 DEF Lines
  <2> HIDE DEF r
  <2>3. Closing(r, behind) = [r EXCEPT !.nl = r.nl \/ behind # <<>>]
    BY <2>2, ClosingIs
  <2> DEFINE y == l.nl \/ behind # <<>>
  <2> HIDE DEF y, k
  <2>4. k = [l EXCEPT !.nl = y] /\ Closing(r, behind) = [r EXCEPT !.nl = y]
    BY <2>1, <2>2, <2>3 DEF y
  <2>5. r = [l EXCEPT !.x = v]
    BY <1>9 DEF r
  <2>6. Closing(r, behind) = [k EXCEPT !.x = v]
    BY <1>10, <2>4, <2>5 DEF Lines
  <2>7. QED
    BY <2>1, <2>6 DEF r
<1> HIDE DEF k
<1>12. w \in Seq(Lines) /\ Len(w) = Len(s) + 1 /\ Len(s) \in Nat
       /\ w[Len(s) + 1] = k /\ \A j \in 1..Len(s) : w[j] = s[j]
  BY <1>10, <1>11
<1> DEFINE z == [k EXCEPT !.x = v]
<1>13. z \in Lines
  <2>1. v \in Names \cup {0}
    BY InputsAssumption
  <2>2. QED
    BY <1>11, <2>1 DEF Lines
<1> HIDE DEF z
<1> HIDE DEF w
<1>14. [w EXCEPT ![Len(w)] = z] = Append(s, z)
  <2> DEFINE a == [w EXCEPT ![Len(w)] = z]
             b == Append(s, z)
             c == Len(s) + 1
  <2>1. a \in Seq(Lines) /\ Len(a) = c /\ \A j \in 1..c : a[j] = IF j = c THEN z ELSE w[j]
    BY <1>12, <1>13
  <2>2. b \in Seq(Lines) /\ Len(b) = c /\ \A j \in 1..c : b[j] = IF j = c THEN z ELSE s[j]
    BY <1>10, <1>12, <1>13
  <2>3. \A j \in 1..c : j # c => w[j] = s[j]
    BY <1>12
  <2> HIDE DEF a, b, c
  <2>4. \A j \in 1..c : a[j] = b[j]
    BY <2>1, <2>2, <2>3
  <2>5. a = b
    BY <2>1, <2>2, <2>4, SameSeq
  <2>6. QED
    BY <2>5 DEF a, b
<1>15. [w EXCEPT ![Len(w)].x = v] = [w EXCEPT ![Len(w)] = z]
  BY <1>12 DEF z
<1>16. Own(doc, i) = w /\ Own(doc', i) = Append(s, z)
  BY <1>7, <1>8, <1>11 DEF w, k, l, s, z
<1>17. Own(doc', i) = [Own(doc, i) EXCEPT ![Len(Own(doc, i))].x = v]
  BY <1>14, <1>15, <1>16
<1>18. QED
  BY <1>6, <1>17

\* The line of a construct as it stands in the text.
LEMMA LineStands ==
  ASSUME NEW m \in SoundNode, m.k # "text", NEW n \in SoundNode, n.k # "text",
         n.raw = m.raw, n.line.nl = m.line.nl, NEW behind
  PROVE  \E nl \in BOOLEAN : /\ Closing(RenderLine(m), behind) = [m.line EXCEPT !.nl = nl]
                             /\ Closing(RenderLine(n), behind) = [n.line EXCEPT !.nl = nl]
<1> DEFINE l == m.line
           k == n.line
           a == RenderLine(m)
           b == RenderLine(n)
           y == l.nl \/ m.raw = <<>>
           z == y \/ behind # <<>>
<1>1. l \in Lines /\ k \in Lines
  BY ConstructParts
<1>2. a = [l EXCEPT !.nl = l.nl \/ m.raw = <<>>] /\ b = [k EXCEPT !.nl = k.nl \/ n.raw = <<>>]
  BY DEF RenderLine
<1>3. a = [l EXCEPT !.nl = y] /\ b = [k EXCEPT !.nl = y]
  BY <1>2
<1>4. a \in Lines /\ b \in Lines
  BY ConstructLines
<1>5. y \in BOOLEAN
  BY <1>1, LineTyped
<1> HIDE DEF l, k, a, b, y
<1>6. a.nl = y /\ b.nl = y
  BY <1>1, <1>3, <1>5 DEF Lines
<1>7. Closing(a, behind) = [a EXCEPT !.nl = z] /\ Closing(b, behind) = [b EXCEPT !.nl = z]
  BY <1>4, <1>6, ClosingIs
<1>8. z \in BOOLEAN
  OBVIOUS
<1> HIDE DEF z
<1>9. Closing(a, behind) = [l EXCEPT !.nl = z] /\ Closing(b, behind) = [k EXCEPT !.nl = z]
  BY <1>1, <1>3, <1>7 DEF Lines
<1>10. QED
  BY <1>8, <1>9 DEF a, b, l, k

LEMMA FrontAndLast ==
  ASSUME NEW s \in Seq(Lines), NEW l \in Lines
  PROVE  Front(Append(s, l)) = s /\ Last(Append(s, l)) = l
BY DEF Front, Last

\* SetComment changes the inline comment and the whitespace before it.
LEMMA SetCommentLines ==
  ASSUME IInv, NEW p \in Constructs, NEW note \in Written, SetComment(p, note)
  PROVE  LET i == IndexOf(p)
             was == Last(Own(doc, i))
             is == Last(Own(doc', i))
         IN
         /\ OnlyOwnLinesChange(i)
         /\ Front(Own(doc', i)) = Front(Own(doc, i))
         /\ is = [was EXCEPT !.note = note, !.gap = is.gap]
         /\ was.note # <<>> /\ note # <<>> => is.gap = was.gap
<1> DEFINE i == IndexOf(p)
           m == At(p)
           n == Noted(m, note)
<1>1. doc \in Document /\ p \in Places /\ m.k # "text"
  BY DEF IInv, Constructs
<1>2. m \in SoundNode /\ (p[1] # 0 => m \in SoundLeaf)
  BY <1>1, PlaceOf
<1>3. doc' = Put(p, n)
  BY DEF SetComment, Noted
<1> HIDE DEF m
<1>4. /\ n \in SoundNode /\ (m \in SoundLeaf => n \in SoundLeaf)
      /\ n.comments = m.comments /\ n.blanks = m.blanks /\ n.raw = m.raw
      /\ n.line = WithComment(m.line, note) /\ n.children = m.children /\ n.k = m.k
  BY <1>1, <1>2, CommentedNode
<1> HIDE DEF n
<1>5. /\ OnlyOwnLinesChange(i)
      /\ \E behind \in NodeSeqs :
              /\ Own(doc, i) = Append(RenderTrivia(m), Closing(RenderLine(m), behind))
              /\ Own(doc', i) = Append(RenderTrivia(n), Closing(RenderLine(n), behind))
  BY <1>1, <1>2, <1>3, <1>4, PutConstruct DEF m
<1>6. PICK behind \in NodeSeqs :
              /\ Own(doc, i) = Append(RenderTrivia(m), Closing(RenderLine(m), behind))
              /\ Own(doc', i) = Append(RenderTrivia(n), Closing(RenderLine(n), behind))
  BY <1>5
<1> DEFINE s == RenderTrivia(m)
           k == Closing(RenderLine(m), behind)
           r == Closing(RenderLine(n), behind)
           l == m.line
           j == n.line
<1>7. RenderTrivia(n) = s
  BY <1>4 DEF RenderTrivia, BlankRun
<1>8. s \in Seq(Lines) /\ RenderLine(m) \in Lines /\ RenderLine(n) \in Lines /\ l \in Lines
  BY <1>1, <1>2, <1>4, ConstructLines, ConstructParts
<1>9. k \in Lines /\ r \in Lines
  BY <1>8, ClosingIs
<1> HIDE DEF l
<1>10. /\ WithComment(l, note) \in Lines
       /\ \E gap \in Nat :
              /\ WithComment(l, note) = [l EXCEPT !.note = note, !.gap = gap]
              /\ note # <<>> /\ l.note # <<>> => gap = l.gap
  BY <1>8, CommentedLine, Zenon
<1>11. PICK gap \in Nat :
              /\ WithComment(l, note) = [l EXCEPT !.note = note, !.gap = gap]
              /\ note # <<>> /\ l.note # <<>> => gap = l.gap
  BY <1>10, Zenon
<1>12. j = [l EXCEPT !.note = note, !.gap = gap] /\ j \in Lines
  BY <1>4, <1>10, <1>11 DEF l
<1>13. j.nl = l.nl
  BY <1>8, <1>12 DEF Lines
<1>14. n.k # "text" /\ n.line.nl = m.line.nl
  BY <1>1, <1>4, <1>13 DEF l
<1>15. PICK nl \in BOOLEAN : k = [m.line EXCEPT !.nl = nl] /\ r = [n.line EXCEPT !.nl = nl]
  BY <1>1, <1>2, <1>4, <1>14, LineStands
<1>16. k = [l EXCEPT !.nl = nl] /\ r = [j EXCEPT !.nl = nl]
  BY <1>15 DEF l
<1> HIDE DEF s, k, r, j
<1>17. note \in Seq(Names \cup {Hash})
  BY WrittenNotes
<1>18. r = [k EXCEPT !.note = note, !.gap = gap]
  BY <1>8, <1>12, <1>16, <1>17 DEF Lines
<1>19. r.gap = gap /\ k.gap = l.gap /\ k.note = l.note
  BY <1>8, <1>9, <1>16, <1>18 DEF Lines
<1>20. Own(doc, i) = Append(s, k) /\ Own(doc', i) = Append(s, r)
  BY <1>6, <1>7 DEF s, k, r
<1> HIDE DEF i
<1>21. /\ Front(Own(doc, i)) = s /\ Last(Own(doc, i)) = k
       /\ Front(Own(doc', i)) = s /\ Last(Own(doc', i)) = r
  BY <1>8, <1>9, <1>20, FrontAndLast
<1>22. /\ r = [k EXCEPT !.note = note, !.gap = r.gap]
       /\ k.note # <<>> /\ note # <<>> => r.gap = k.gap
  BY <1>11, <1>18, <1>19
<1>23. QED
  BY <1>5, <1>21, <1>22 DEF i

\* The blank lines above a construct's first comment and below its last, and the
\* comments between them.
LeadOf(n) == BlankRun(n, 1)
TailOf(n) == IF n.comments = <<>> THEN <<>> ELSE BlankRun(n, Len(n.comments) + 1)
Commentary(mid) ==
  mid = <<>> \/ (mid # <<>> /\ mid[1].k = "comment" /\ mid[Len(mid)].k = "comment")

LEMMA RunsBlank ==
  ASSUME NEW n \in SoundNode, n.k # "text"
  PROVE  \A i : BlankRun(n, i) \in Seq(Lines) /\ BlankRun(n, i) \in Seq(BlankLines)
<1>1. n.blanks \in Seq(Seq(Ended(BlankLines)))
  BY ConstructParts
<1>2. Seq(Ended(BlankLines)) \subseteq Seq(BlankLines) /\ Seq(BlankLines) \subseteq Seq(Lines)
  BY LineKinds, SeqMonotonic
<1> DEFINE D == Seq(BlankLines)
<1>3. n.blanks \in Seq(D)
  BY <1>1, <1>2, SeqMonotonic
<1>4. <<>> \in D
  OBVIOUS
<1> HIDE DEF D
<1>5. \A i : BlankRun(n, i) \in D
  BY <1>3, <1>4 DEF BlankRun
<1>6. QED
  BY <1>2, <1>5 DEF D

LEMMA TriviaAround ==
  ASSUME NEW n \in SoundNode, n.k # "text"
  PROVE  \E mid \in Seq(Lines) : /\ RenderTrivia(n) = (LeadOf(n) \o mid) \o TailOf(n)
                                 /\ Commentary(mid) /\ (mid = <<>> <=> n.comments = <<>>)
<1> DEFINE cs == n.comments
           K == Len(cs)
           lead == BlankRun(n, 1)
           last == BlankRun(n, K + 1)
           b == [i \in DOMAIN cs |-> Append(BlankRun(n, i), cs[i])]
<1>1. cs \in Seq(CommentLines) /\ cs \in Seq(Lines)
  <2>1. cs \in Seq(Ended(CommentLines))
    BY ConstructParts
  <2>2. Seq(Ended(CommentLines)) \subseteq Seq(CommentLines) /\ Seq(CommentLines) \subseteq Seq(Lines)
    BY LineKinds, SeqMonotonic
  <2>3. QED
    BY <2>1, <2>2
<1>2. \A i : BlankRun(n, i) \in Seq(Lines)
  BY RunsBlank
<1>3. RenderTrivia(n) = FlattenSeq(b) \o last
  BY DEF RenderTrivia
<1>4. CASE cs = <<>>
  <2>1. b = <<>>
    BY <1>4
  <2>2. FlattenSeq(b) = <<>>
    BY <2>1, ByLine!FlattenEmpty, FlattenIs
  <2>3. K + 1 = 1
    BY <1>4
  <2>4. lead \in Seq(Lines) /\ RenderTrivia(n) = lead
    BY <1>2, <1>3, <2>2, <2>3, SMTT(60)
  <2> HIDE DEF lead
  <2>5. lead = (lead \o <<>>) \o <<>> /\ <<>> \in Seq(Lines)
    BY <2>4
  <2>6. LeadOf(n) = lead /\ TailOf(n) = <<>>
    BY <1>4 DEF LeadOf, TailOf, lead
  <2>7. QED
    BY <1>4, <2>4, <2>5, <2>6 DEF Commentary
<1>5. CASE cs # <<>>
  <2> DEFINE Q == Seq(Lines)
             r == FlattenSeq(SubSeq(b, 2, K))
             mid == <<cs[1]>> \o r
             F == FlattenSeq(b)
  <2>1. K \in Nat /\ K >= 1 /\ DOMAIN cs = 1..K /\ \A i \in 1..K : cs[i] \in Lines /\ cs[i].k = "comment"
    BY <1>1, <1>5 DEF CommentLines
  <2>2. b = [i \in 1..K |-> Append(BlankRun(n, i), cs[i])]
    BY <2>1
  <2> HIDE DEF b, cs, K
  <2>3. \A i \in 1..K : Append(BlankRun(n, i), cs[i]) \in Q
    BY <1>2, <2>1
  <2>4. b \in [1..K -> Q]
    <3> HIDE DEF Q
    <3>1. QED
      BY <2>2, <2>3
  <2> HIDE DEF Q
  <2>5. b \in Seq(Q) /\ Len(b) = K /\ \A i \in 1..K : b[i] = Append(BlankRun(n, i), cs[i])
    BY <2>1, <2>2, <2>4
  <2>6. \A i \in 1..K : /\ FlattenSeq(b) = FlattenSeq(SubSeq(b, 1, i - 1))
                             \o (b[i] \o FlattenSeq(SubSeq(b, i + 1, K)))
                        /\ FlattenSeq(SubSeq(b, 1, i - 1)) \in Seq(Lines)
                        /\ FlattenSeq(SubSeq(b, i + 1, K)) \in Seq(Lines)
    <3> SUFFICES ASSUME NEW i \in 1..K
                 PROVE  /\ FlattenSeq(b) = FlattenSeq(SubSeq(b, 1, i - 1))
                             \o (b[i] \o FlattenSeq(SubSeq(b, i + 1, K)))
                        /\ FlattenSeq(SubSeq(b, 1, i - 1)) \in Seq(Lines)
                        /\ FlattenSeq(SubSeq(b, i + 1, K)) \in Seq(Lines)
      OBVIOUS
    <3>1. i \in 1..Len(b) /\ b \in Seq(Seq(Lines))
      BY <2>5 DEF Q
    <3>2. ByLine!FlattenSeq(b) = ByLine!FlattenSeq(SubSeq(b, 1, i - 1))
             \o (b[i] \o ByLine!FlattenSeq(SubSeq(b, i + 1, Len(b))))
      BY <3>1, ByLine!FlattenSplit
    <3>3. SubSeq(b, 1, i - 1) \in Seq(Q) /\ SubSeq(b, i + 1, K) \in Seq(Q)
      BY <2>1, <2>5
    <3>4. FlattenSeq(SubSeq(b, 1, i - 1)) \in Seq(Lines) /\ FlattenSeq(SubSeq(b, i + 1, K)) \in Seq(Lines)
      BY <3>3, FlattenTyped DEF Q
    <3>5. QED
      BY <2>5, <3>2, <3>4, FlattenIs
  <2>7. 1 \in 1..K /\ K \in 1..K /\ 1 + 1 = 2 /\ 1 - 1 = 0
    BY <2>1
  <2>8. FlattenSeq(SubSeq(b, 1, 0)) = <<>> /\ FlattenSeq(SubSeq(b, K + 1, K)) = <<>>
    <3>1. SubSeq(b, 1, 0) = <<>> /\ SubSeq(b, K + 1, K) = <<>>
      BY <2>1, <2>5
    <3>2. QED
      BY <3>1, ByLine!FlattenEmpty, FlattenIs
  <2>9. b[1] = Append(lead, cs[1]) /\ b[K] = Append(BlankRun(n, K), cs[K])
    BY <2>5, <2>7
  <2>10. r \in Seq(Lines) /\ F = <<>> \o (b[1] \o r)
    BY <2>6, <2>7, <2>8
  <2> DEFINE P == FlattenSeq(SubSeq(b, 1, K - 1))
  <2>11. P \in Seq(Lines) /\ F = P \o (b[K] \o <<>>)
    BY <2>6, <2>7, <2>8
  <2>12. lead \in Seq(Lines) /\ BlankRun(n, K) \in Seq(Lines) /\ cs[1] \in Lines /\ cs[K] \in Lines
    BY <1>2, <2>1, <2>7
  <2> HIDE DEF r, P, F, lead
  <2> DEFINE x == BlankRun(n, K)
             y == cs[1]
             z == cs[K]
  <2> HIDE DEF x, y, z
  <2>13. x \in Seq(Lines) /\ y \in Lines /\ z \in Lines
    BY <2>12 DEF x, y, z
  <2>14. mid \in Seq(Lines) /\ F = lead \o mid
    <3>1. mid = <<y>> \o r
      BY DEF y
    <3> HIDE DEF mid
    <3>2. F = <<>> \o (Append(lead, y) \o r)
      BY <2>9, <2>10 DEF y
    <3>3. mid \in Seq(Lines)
      BY <2>10, <2>13, <3>1
    <3>4. Append(lead, y) \o r = lead \o (<<y>> \o r)
      <4> DEFINE u == <<y>>
      <4>1. u \in Seq(Lines) /\ Append(lead, y) = lead \o u
        BY <2>12, <2>13
      <4> HIDE DEF u
      <4>2. (lead \o u) \o r = lead \o (u \o r)
        BY <2>10, <2>12, <4>1, TextsJoin, Zenon
      <4>3. QED
        BY <4>1, <4>2 DEF u
    <3>5. lead \o mid \in Seq(Lines)
      BY <2>12, <3>3
    <3>6. <<>> \o (lead \o mid) = lead \o mid
      BY <3>5, ConcatEmptySeq
    <3>7. QED
      BY <3>1, <3>2, <3>3, <3>4, <3>6
  <2>15. mid # <<>> /\ mid[1] = y
    BY <2>10, <2>13 DEF y
  <2> HIDE DEF mid
  <2>16. Len(F) >= 1 /\ F[Len(F)] = z
    <3> DEFINE e == Append(x, z)
    <3>1. e \in Seq(Lines) /\ Len(e) >= 1 /\ e[Len(e)] = z
      BY <2>13
    <3>2. F = P \o (e \o <<>>)
      BY <2>9, <2>11 DEF x, z
    <3> HIDE DEF e
    <3>3. e \o <<>> = e
      BY <3>1, ConcatEmptySeq
    <3>4. F = P \o e
      BY <3>2, <3>3
    <3>5. QED
      BY <2>11, <3>1, <3>4
  <2>17. mid[Len(mid)] = z
    <3>1. Len(mid) \in Nat /\ Len(mid) >= 1
      BY <2>14, <2>15
    <3>2. Len(F) = Len(lead) + Len(mid) /\ F[Len(lead) + Len(mid)] = mid[Len(mid)]
      BY <2>12, <2>14, <3>1
    <3>3. QED
      BY <2>16, <3>2
  <2>18. y.k = "comment" /\ z.k = "comment"
    BY <2>1, <2>7 DEF y, z
  <2>19. Commentary(mid) /\ mid # <<>>
    BY <2>15, <2>17, <2>18 DEF Commentary
  <2>20. RenderTrivia(n) = (lead \o mid) \o last
    BY <1>3, <2>14 DEF F
  <2>21. LeadOf(n) = lead /\ TailOf(n) = last
    BY <1>5 DEF LeadOf, TailOf, lead, cs, K
  <2>22. QED
    BY <1>5, <2>14, <2>19, <2>20, <2>21 DEF cs
<1>6. QED
  BY <1>4, <1>5

\* One run and then a line for each: the run and the lines.
LEMMA RunThenLines ==
  ASSUME NEW lead \in Seq(Lines), NEW lines \in Seq(Lines), lines # <<>>, NEW b,
         b = [i \in 1..Len(lines) |-> Append(IF i = 1 THEN lead ELSE <<>>, lines[i])]
  PROVE  FlattenSeq(b) = lead \o lines
<1> DEFINE K == Len(lines)
           Q == Seq(Lines)
           f(k) == FlattenSeq(SubSeq(b, 1, k))
           g(k) == SubSeq(lines, 1, k)
           Fits(k) == k >= 1 => f(k) = lead \o g(k)
           S == {k \in Nat : k <= K => Fits(k)}
<1>1. K \in Nat /\ K >= 1 /\ \A i \in 1..K : lines[i] \in Lines
  OBVIOUS
<1>2. lead \in Q /\ <<>> \in Q
  OBVIOUS
<1>3. /\ \A i \in 1..K : g(i - 1) \in Q /\ g(i) = Append(g(i - 1), lines[i])
      /\ g(0) = <<>> /\ g(K) = lines
  BY UpToEach
<1>4. \A s \in Q, l \in Lines : Append(s, l) \in Q
  OBVIOUS
<1>5. b = [i \in 1..K |-> Append(IF i = 1 THEN lead ELSE <<>>, lines[i])]
  OBVIOUS
<1> HIDE DEF K, Q
<1>6. b \in [1..K -> Q] /\ \A i \in 1..K : b[i] = Append(IF i = 1 THEN lead ELSE <<>>, lines[i])
  BY <1>1, <1>2, <1>4, <1>5
<1>7. b \in Seq(Q) /\ Len(b) = K
  BY <1>1, <1>6
<1>8. /\ \A i \in 1..K : SubSeq(b, 1, i - 1) \in Seq(Q) /\ SubSeq(b, 1, i) = Append(SubSeq(b, 1, i - 1), b[i])
      /\ SubSeq(b, 1, 0) = <<>> /\ SubSeq(b, 1, K) = b
  BY <1>7, UpToEach
<1>9. f(0) = <<>>
  BY <1>8, ByLine!FlattenEmpty, FlattenIs
<1>10. \A i \in 1..K : f(i) = f(i - 1) \o b[i]
  <2> SUFFICES ASSUME NEW i \in 1..K PROVE f(i) = f(i - 1) \o b[i]
    OBVIOUS
  <2> DEFINE u == SubSeq(b, 1, i - 1)
             w == b[i]
  <2>1. u \in Seq(Q) /\ SubSeq(b, 1, i) = Append(u, w) /\ w \in Q
    BY <1>6, <1>8
  <2> HIDE DEF u, w
  <2>2. FlattenSeq(Append(u, w)) = FlattenSeq(u) \o w
    BY <2>1, FlattenAppend DEF Q
  <2>3. QED
    BY <2>1, <2>2 DEF u, w
<1> HIDE DEF f, g
<1>11. 0 \in S
  OBVIOUS
<1>12. ASSUME NEW k \in Nat, k \in S PROVE k + 1 \in S
  <2> SUFFICES ASSUME k + 1 <= K PROVE f(k + 1) = lead \o g(k + 1)
    OBVIOUS
  <2>1. k + 1 \in 1..K /\ (k + 1) - 1 = k /\ k <= K
    BY <1>1
  <2> DEFINE l == lines[k + 1]
             p == g(k)
             j == k + 1
  <2> HIDE DEF l, p, j
  <2>2. l \in Lines /\ p \in Q /\ g(j) = Append(p, l) /\ f(j) = f(k) \o b[j]
        /\ b[j] = Append(IF j = 1 THEN lead ELSE <<>>, l)
    BY <1>1, <1>3, <1>6, <1>10, <2>1 DEF l, p, j
  <2>3. CASE k = 0
    <3>1. j = 1 /\ p = <<>> /\ f(k) = <<>>
      BY <1>3, <1>9, <2>3 DEF p, j
    <3>2. f(j) = <<>> \o Append(lead, l) /\ g(j) = Append(<<>>, l)
      BY <2>2, <3>1
    <3>3. <<>> \o Append(lead, l) = lead \o Append(<<>>, l)
      BY <1>2, <2>2 DEF Q
    <3>4. QED
      BY <3>2, <3>3 DEF j
  <2>4. CASE k > 0
    <3>1. j # 1 /\ f(k) = lead \o p
      BY <1>12, <2>1, <2>4 DEF p, j
    <3>2. f(j) = (lead \o p) \o Append(<<>>, l)
      BY <2>2, <3>1
    <3>3. (lead \o p) \o Append(<<>>, l) = lead \o Append(p, l)
      <4> DEFINE u == Append(<<>>, l)
      <4>1. u \in Seq(Lines) /\ Append(p, l) = p \o u
        BY <2>2, SMTT(60) DEF Q
      <4> HIDE DEF u
      <4>2. lead \in Seq(Lines) /\ p \in Seq(Lines)
        BY <2>2 DEF Q
      <4>3. (lead \o p) \o u = lead \o (p \o u)
        BY <4>1, <4>2, TextsJoin, Zenon
      <4>4. QED
        BY <4>1, <4>3 DEF u
    <3>4. QED
      BY <2>2, <3>2, <3>3 DEF j
  <2>5. QED
    BY <2>3, <2>4
<1> HIDE DEF S, Fits
<1>13. Nat \subseteq S
  BY <1>11, <1>12, Induct, Zenon
<1>14. Fits(K)
  BY <1>1, <1>13 DEF S
<1>15. f(K) = lead \o g(K)
  BY <1>1, <1>14 DEF Fits
<1>16. QED
  BY <1>3, <1>8, <1>15 DEF f

LEMMA NewTrivia ==
  ASSUME NEW m \in SoundNode, m.k # "text", NEW n, NEW lines \in Seq(Lines),
         n.comments = lines, n.blanks = BlanksAround(m, Len(lines))
  PROVE  RenderTrivia(n) = (LeadOf(m) \o lines) \o TailOf(m)
<1> DEFINE K == Len(lines)
           lead == LeadOf(m)
           tail == TailOf(m)
<1>1. lead \in Seq(Lines) /\ tail \in Seq(Lines)
  <2>1. \A i : BlankRun(m, i) \in Seq(Lines)
    BY RunsBlank
  <2>2. <<>> \in Seq(Lines)
    OBVIOUS
  <2>3. QED
    BY <2>1, <2>2 DEF LeadOf, TailOf
<1>2. n.blanks = IF K = 0 THEN <<lead \o tail>>
                 ELSE [i \in 1..(K + 1) |-> CASE i = 1     -> lead
                                              [] i = K + 1 -> tail
                                              [] OTHER     -> <<>>]
  BY DEF BlanksAround, LeadOf, TailOf
<1> DEFINE b == [i \in DOMAIN lines |-> Append(BlankRun(n, i), lines[i])]
<1>3. RenderTrivia(n) = FlattenSeq(b) \o BlankRun(n, K + 1)
  BY DEF RenderTrivia
<1> HIDE DEF lead, tail
<1>4. CASE lines = <<>>
  <2>1. K = 0 /\ b = <<>>
    BY <1>4
  <2>2. FlattenSeq(b) = <<>>
    BY <2>1, ByLine!FlattenEmpty, FlattenIs
  <2>3. BlankRun(n, K + 1) = lead \o tail
    BY <1>2, <2>1 DEF BlankRun
  <2> DEFINE z == lead \o tail
  <2>4. z \in Seq(Lines) /\ lead \o lines = lead
    BY <1>1, <1>4
  <2> HIDE DEF z, b
  <2>5. <<>> \o z = z
    BY <2>4, ConcatEmptySeq
  <2>6. QED
    BY <1>3, <2>2, <2>3, <2>4, <2>5 DEF z, lead, tail
<1>5. CASE lines # <<>>
  <2>1. K \in Nat /\ K >= 1 /\ DOMAIN lines = 1..K
    BY <1>5
  <2> DEFINE B(i) == CASE i = 1     -> lead
                       [] i = K + 1 -> tail
                       [] OTHER     -> <<>>
  <2>2. B(1) = lead
    <3>1. 1 # K + 1
      BY <2>1
    <3>2. QED
      BY <3>1, Zenon
  <2>3. B(K + 1) = tail
    <3>1. K + 1 # 1
      BY <2>1
    <3>2. QED
      BY <3>1, Zenon
  <2>4. \A i : i # 1 /\ i # K + 1 => B(i) = <<>>
    BY Zenon
  <2>5. n.blanks = [i \in 1..(K + 1) |-> B(i)]
    <3>1. K # 0
      BY <2>1
    <3>2. QED
      BY <1>2, <3>1, Zenon
  <2> HIDE DEF B, K
  <2>6. \A i \in 1..(K + 1) : BlankRun(n, i) = B(i)
    <3>1. DOMAIN n.blanks = 1..(K + 1) /\ \A i \in 1..(K + 1) : n.blanks[i] = B(i)
      BY <2>5
    <3>2. QED
      BY <3>1 DEF BlankRun
  <2>7. BlankRun(n, K + 1) = tail
    BY <2>1, <2>3, <2>6
  <2>8. \A i \in 1..K : BlankRun(n, i) = IF i = 1 THEN lead ELSE <<>>
    <3> SUFFICES ASSUME NEW i \in 1..K PROVE BlankRun(n, i) = IF i = 1 THEN lead ELSE <<>>
      OBVIOUS
    <3>1. i \in 1..(K + 1) /\ i # K + 1
      BY <2>1
    <3>2. QED
      BY <2>2, <2>4, <2>6, <3>1
  <2>9. b = [i \in 1..K |-> Append(IF i = 1 THEN lead ELSE <<>>, lines[i])]
    <3>1. \A i \in 1..K : Append(BlankRun(n, i), lines[i]) = Append(IF i = 1 THEN lead ELSE <<>>, lines[i])
      BY <2>8
    <3>2. QED
      BY <2>1, <3>1
  <2> HIDE DEF b
  <2>10. FlattenSeq(b) = lead \o lines
    BY <1>1, <1>5, <2>9, RunThenLines DEF K
  <2>11. QED
    BY <1>3, <2>7, <2>10 DEF lead, tail, K
<1>6. QED
  BY <1>4, <1>5

LEMMA Extremes ==
  ASSUME NEW S \in SUBSET Nat, NEW a \in S, NEW b \in S, \A x \in S : a <= x /\ x <= b
  PROVE  Min(S) = a /\ Max(S) = b
<1>1. PICK x \in S : x = Min(S) /\ \A y \in S : x <= y
  BY DEF Min
<1>2. PICK z \in S : z = Max(S) /\ \A y \in S : z >= y
  BY DEF Max
<1>3. Min(S) = a
  BY <1>1
<1>4. Max(S) = b
  <2>1. z >= b /\ z <= b /\ z \in Nat /\ b \in Nat
    BY <1>2
  <2>2. z = b
    BY <2>1
  <2>3. QED
    BY <1>2, <2>2
<1>5. QED
  BY <1>3, <1>4

LEMMA LineAppended ==
  \A s \in Seq(Lines), l \in Lines : <<l>> \in Seq(Lines) /\ Append(s, l) = s \o <<l>>
OBVIOUS

\* A construct's text with other comments is its trivia around them and its line.
LEMMA Recommenting ==
  ASSUME NEW lead \in Seq(BlankLines), NEW tail \in Seq(BlankLines), NEW mid \in Seq(Lines),
         Commentary(mid), mid = <<>> => tail = <<>>,
         NEW l \in Lines, l.k # "comment", NEW comments \in Seq(Lines)
  PROVE  Recommented(Append((lead \o mid) \o tail, l), comments)
           = Append((lead \o comments) \o tail, l)
<1> DEFINE x == Append((lead \o mid) \o tail, l)
           y == Append(tail, l)
           at == {i \in DOMAIN x : x[i].k = "comment"}
           a == Len(lead)
           c == Len(mid)
           d == Len(tail)
           w == lead \o mid
           z == mid \o y
<1>1. lead \in Seq(Lines) /\ tail \in Seq(Lines)
  <2>1. Seq(BlankLines) \subseteq Seq(Lines)
    BY LineKinds, SeqMonotonic
  <2>2. QED
    BY <2>1
<1>2. a \in Nat /\ c \in Nat /\ d \in Nat
  OBVIOUS
<1>3. \A i \in 1..a : lead[i].k = "blank"
  BY DEF BlankLines
<1>4. \A i \in 1..d : tail[i].k = "blank"
  BY DEF BlankLines
<1>5. y \in Seq(Lines) /\ Len(y) = d + 1 /\ \A i \in 1..(d + 1) : y[i].k # "comment"
  <2>1. y \in Seq(Lines) /\ Len(y) = d + 1
        /\ \A i \in 1..(d + 1) : y[i] = IF i = d + 1 THEN l ELSE tail[i]
    BY <1>1
  <2> HIDE DEF y
  <2>2. \A i \in 1..(d + 1) : i # d + 1 => i \in 1..d
    BY <1>2
  <2>3. QED
    BY <1>4, <2>1, <2>2
<1>6. w \in Seq(Lines) /\ Len(w) = a + c
      /\ \A i \in 1..(a + c) : w[i] = IF i <= a THEN lead[i] ELSE mid[i - a]
  BY <1>1
<1>7. x = w \o y
  <2> DEFINE u == <<l>>
             v == w \o tail
  <2>1. u \in Seq(Lines) /\ y = tail \o u
    BY <1>1
  <2>2. w \in Seq(Lines)
    BY <1>6
  <2>3. v \in Seq(Lines)
    BY <1>1, <2>2
  <2> HIDE DEF u, w, y
  <2>4. v = w \o tail /\ v \o u = w \o (tail \o u)
    BY <1>1, <2>1, <2>2, TextsJoin, ZenonT(40)
  <2>5. x = Append(v, l)
    BY DEF w
  <2> HIDE DEF v, x
  <2>6. x = v \o u
    BY <2>3, <2>5, LineAppended, Zenon DEF u
  <2>7. QED
    BY <2>1, <2>4, <2>6
<1> HIDE DEF x, y
<1>8. x = lead \o z /\ z \in Seq(Lines)
  <2>1. (lead \o mid) \o y = lead \o (mid \o y)
    BY <1>1, <1>5, TextsJoin, ZenonT(40)
  <2>2. QED
    BY <1>5, <1>7, <2>1
<1> HIDE DEF w, z, a, c, d
<1>9. x \in Seq(Lines) /\ Len(x) = (a + c) + (d + 1)
      /\ \A i \in 1..((a + c) + (d + 1)) : x[i] = IF i <= a + c THEN w[i] ELSE y[i - (a + c)]
  <2>1. /\ w \o y \in Seq(Lines) /\ Len(w \o y) = Len(w) + Len(y)
        /\ \A i \in 1..Len(w) + Len(y) : (w \o y)[i] = IF i <= Len(w) THEN w[i] ELSE y[i - Len(w)]
    BY <1>5, <1>6, ConcatProperties
  <2>2. Len(w) + Len(y) = (a + c) + (d + 1)
    BY <1>5, <1>6
  <2>3. QED
    BY <1>6, <1>7, <2>1, <2>2
<1>10. SubSeq(x, 1, a) = lead /\ SubSeq(x, (a + c) + 1, Len(x)) = y
  <2>1. SubSeq(lead \o z, 1, a) = lead
    BY <1>1, <1>8, CutAt DEF a
  <2>2. w \in Seq(Lines) /\ y \in Seq(Lines) /\ Len(w) = a + c
    BY <1>5, <1>6
  <2>3. SubSeq(w \o y, Len(w) + 1, Len(w \o y)) = y
    BY <2>2, CutAt, SMTT(60)
  <2>4. QED
    BY <1>7, <1>8, <2>1, <2>2, <2>3
<1>11. \A i \in at : a + 1 <= i /\ i <= a + c
  <2> SUFFICES ASSUME NEW i \in 1..((a + c) + (d + 1)), x[i].k = "comment"
               PROVE  a + 1 <= i /\ i <= a + c
    BY <1>9
  <2>1. i <= a + c
    <3> SUFFICES ASSUME ~(i <= a + c) PROVE FALSE
      OBVIOUS
    <3>1. i - (a + c) \in 1..(d + 1) /\ x[i] = y[i - (a + c)]
      BY <1>2, <1>9
    <3>2. QED
      BY <1>5, <3>1
  <2>2. a + 1 <= i
    <3> SUFFICES ASSUME i <= a PROVE FALSE
      BY <1>2
    <3>1. i \in 1..a /\ i \in 1..(a + c)
      BY <1>2
    <3>2. x[i] = lead[i]
      BY <1>6, <1>9, <2>1, <3>1
    <3>3. QED
      BY <1>3, <3>1, <3>2
  <2>3. QED
    BY <2>1, <2>2
<1> DEFINE above == IF at = {} THEN Front(x) ELSE SubSeq(x, 1, Min(at) - 1)
           below == IF at = {} THEN <<Last(x)>> ELSE SubSeq(x, Max(at) + 1, Len(x))
<1>12. Recommented(x, comments) = (above \o comments) \o below
  BY DEF Recommented
<1>13. above = lead /\ below = y
  <2>1. CASE mid = <<>>
    <3>1. c = 0 /\ tail = <<>>
      BY <2>1 DEF c
    <3>2. at = {}
      <4>1. \A i \in at : i \in Nat
        BY <1>9
      <4> HIDE DEF at
      <4>2. \A i \in at : FALSE
        BY <1>2, <1>11, <3>1, <4>1
      <4>3. QED
        BY <4>2
    <3>3. w = lead /\ y = <<l>>
      BY <1>1, <2>1, <3>1 DEF w, y
    <3>4. x = Append(lead, l)
      BY <1>1, <1>7, <3>3
    <3>5. Front(x) = lead /\ Last(x) = l
      BY <1>1, <3>4, FrontAndLast
    <3> HIDE DEF at
    <3>6. QED
      BY <3>2, <3>3, <3>5
  <2>2. CASE mid # <<>>
    <3>1. c >= 1 /\ mid[1].k = "comment" /\ mid[c].k = "comment"
      BY <2>2 DEF Commentary, c
    <3>2. x[a + 1] = mid[1] /\ x[a + c] = mid[c] /\ a + 1 \in DOMAIN x /\ a + c \in DOMAIN x
      <4>1. /\ a + 1 \in 1..(a + c) /\ a + c \in 1..(a + c) /\ ~(a + 1 <= a) /\ ~(a + c <= a)
            /\ (a + 1) - a = 1 /\ (a + c) - a = c
            /\ a + 1 \in 1..((a + c) + (d + 1)) /\ a + c \in 1..((a + c) + (d + 1))
            /\ a + 1 <= a + c /\ a + c <= a + c
        BY <1>2, <3>1
      <4>2. DOMAIN x = 1..((a + c) + (d + 1))
        BY <1>9
      <4>3. QED
        BY <1>6, <1>9, <4>1, <4>2
    <3>3. a + 1 \in at /\ a + c \in at
      BY <3>1, <3>2
    <3>4. at \in SUBSET Nat
      BY <1>9
    <3> HIDE DEF at
    <3>5. Min(at) = a + 1 /\ Max(at) = a + c
      BY <1>11, <3>3, <3>4, Extremes
    <3>6. at # {} /\ Min(at) - 1 = a
      BY <1>2, <3>3, <3>5
    <3>7. QED
      BY <1>10, <3>5, <3>6
  <2>3. QED
    BY <2>1, <2>2
<1>14. (lead \o comments) \o y = Append((lead \o comments) \o tail, l)
  <2> DEFINE u == <<l>>
             v == lead \o comments
             r == v \o tail
  <2>1. u \in Seq(Lines) /\ y = tail \o u /\ v \in Seq(Lines)
    BY <1>1 DEF y
  <2> HIDE DEF u, v
  <2>2. r \in Seq(Lines)
    BY <1>1, <2>1
  <2>3. Append(r, l) = r \o u
    <3> HIDE DEF r
    <3>1. QED
      BY <2>2, LineAppended, Zenon DEF u
  <2>4. u \in Seq(Lines) /\ v \in Seq(Lines) /\ tail \in Seq(Lines)
    BY <1>1, <2>1
  <2>5. (v \o tail) \o u = v \o (tail \o u)
    BY <2>4, TextsJoin, SMTT(60)
  <2>6. QED
    BY <2>1, <2>3, <2>5 DEF v
<1> HIDE DEF above, below
<1>15. QED
  BY <1>12, <1>13, <1>14 DEF x

\* SetLeadingComments changes the comments above a construct.
LEMMA SetLeadingLines ==
  ASSUME IInv, NEW p \in Constructs, NEW notes \in Leads, SetLeadingComments(p, notes)
  PROVE  LET i == IndexOf(p) IN
         /\ OnlyOwnLinesChange(i)
         /\ Own(doc', i)
              = Recommented(Own(doc, i), [j \in DOMAIN notes |-> CommentLine(0, notes[j])])
<1> DEFINE i == IndexOf(p)
           m == At(p)
           lines == LeadLines(notes)
           n == Led(m, notes)
<1>1. doc \in Document /\ p \in Places /\ m.k # "text"
  BY DEF IInv, Constructs
<1>2. m \in SoundNode /\ (p[1] # 0 => m \in SoundLeaf)
  BY <1>1, PlaceOf
<1>3. doc' = Put(p, n)
  BY DEF SetLeadingComments, LeadLines, Led
<1> HIDE DEF m
<1>4. lines \in Seq(Ended(CommentLines)) /\ Len(lines) = Len(notes)
  BY NewComments DEF LeadLines
<1>5. lines \in Seq(Lines)
  <2>1. Ended(CommentLines) \subseteq Lines
    BY LineKinds
  <2>2. Seq(Ended(CommentLines)) \subseteq Seq(Lines)
    BY <2>1, SeqMonotonic
  <2>3. QED
    BY <1>4, <2>2
<1>6. /\ n \in SoundNode /\ (m \in SoundLeaf => n \in SoundLeaf)
      /\ n.comments = lines /\ n.blanks = BlanksAround(m, Len(notes)) /\ n.raw = m.raw
      /\ n.line = m.line /\ n.children = m.children /\ n.k = m.k
  BY <1>1, <1>2, LedNode
<1> HIDE DEF n
<1>7. /\ OnlyOwnLinesChange(i)
      /\ \E behind \in NodeSeqs :
              /\ Own(doc, i) = Append(RenderTrivia(m), Closing(RenderLine(m), behind))
              /\ Own(doc', i) = Append(RenderTrivia(n), Closing(RenderLine(n), behind))
  BY <1>1, <1>2, <1>3, <1>6, PutConstruct DEF m
<1>8. PICK behind \in NodeSeqs :
              /\ Own(doc, i) = Append(RenderTrivia(m), Closing(RenderLine(m), behind))
              /\ Own(doc', i) = Append(RenderTrivia(n), Closing(RenderLine(n), behind))
  BY <1>7
<1> DEFINE lead == LeadOf(m)
           tail == TailOf(m)
           k == Closing(RenderLine(m), behind)
<1>9. RenderLine(n) = RenderLine(m)
  BY <1>6 DEF RenderLine
<1> HIDE DEF lines
<1>10. RenderTrivia(n) = (lead \o lines) \o tail
  BY <1>1, <1>2, <1>4, <1>5, <1>6, NewTrivia
<1>11. PICK mid \in Seq(Lines) : /\ RenderTrivia(m) = (lead \o mid) \o tail
                                 /\ Commentary(mid) /\ (mid = <<>> <=> m.comments = <<>>)
  BY <1>1, <1>2, TriviaAround
<1>12. lead \in Seq(BlankLines) /\ tail \in Seq(BlankLines) /\ (mid = <<>> => tail = <<>>)
  <2>1. \A j : BlankRun(m, j) \in Seq(BlankLines)
    BY <1>1, <1>2, RunsBlank
  <2>2. <<>> \in Seq(BlankLines)
    OBVIOUS
  <2>3. QED
    BY <1>11, <2>1, <2>2 DEF LeadOf, TailOf
<1>13. k \in Lines /\ k.k # "comment"
  <2>1. RenderLine(m) \in Lines /\ RenderLine(m).k = m.line.k
    BY <1>2, RenderLineIs DEF SoundNode
  <2>2. m.line.k \in {"pair", "header"}
    BY <1>1, <1>2, ConstructParts
  <2> DEFINE l == RenderLine(m)
  <2> HIDE DEF l
  <2>3. l \in Lines /\ l.k # "comment"
    BY <2>1, <2>2 DEF l
  <2>4. Closing(l, behind) \in Lines /\ Closing(l, behind).k = l.k
    BY <2>3, ClosingIs, SMTT(60) DEF Lines
  <2>5. QED
    BY <2>3, <2>4 DEF l
<1> HIDE DEF lead, tail, k
<1>14. Recommented(Append((lead \o mid) \o tail, k), lines) = Append((lead \o lines) \o tail, k)
  BY <1>5, <1>11, <1>12, <1>13, Recommenting, SMTT(60)
<1>15. Own(doc, i) = Append((lead \o mid) \o tail, k) /\ Own(doc', i) = Append((lead \o lines) \o tail, k)
  BY <1>8, <1>9, <1>10, <1>11 DEF k
<1> HIDE DEF i
<1>16. Own(doc', i) = Recommented(Own(doc, i), lines)
  BY <1>14, <1>15
<1>17. QED
  BY <1>7, <1>16 DEF i, lines, LeadLines

---------------------------------------------------------------------------
(***************************************************************************)
(* Format.                                                                 *)
(***************************************************************************)
Formats == INSTANCE FoldLemmas WITH Step <- FormatChild
FormatsUnder == INSTANCE FoldLemmas WITH Step <- FormatUnder
FormatsAbove == INSTANCE FoldLemmas WITH Step <- FormatComment
Formatted(buf, d) == Formats!Fold(buf, d)
Under(buf, ns) == FormatsUnder!Fold(buf, ns)
Commented(buf, cs) == FormatsAbove!Fold(buf, cs)

LEMMA FormatIs == \A r, s : FoldLeft(FormatChild, r, s) = Formatted(r, s)
BY DEF Formatted, Formats!Fold, FoldLeft, MapThenFoldSet, Formats!FoldLeft, Formats!MapThenFoldSet,
       Max, Formats!Max

LEMMA UnderIs == \A r, s : FoldLeft(FormatUnder, r, s) = Under(r, s)
BY DEF Under, FormatsUnder!Fold, FoldLeft, MapThenFoldSet, FormatsUnder!FoldLeft, FormatsUnder!MapThenFoldSet,
       Max, FormatsUnder!Max

LEMMA CommentedIs == \A r, s : FoldLeft(FormatComment, r, s) = Commented(r, s)
BY DEF Commented, FormatsAbove!Fold, FoldLeft, MapThenFoldSet, FormatsAbove!FoldLeft, FormatsAbove!MapThenFoldSet,
       Max, FormatsAbove!Max

LEMMA FormatRun ==
  ASSUME NEW T, NEW base, NEW s \in Seq(T)
  PROVE  \E f : /\ f[0] = base /\ f[Len(s)] = Formatted(base, s) /\ DOMAIN f = 0..Len(s)
                /\ \A k \in 1..Len(s) : f[k] = FormatChild(f[k - 1], s[k])
BY Formats!FoldRun DEF Formatted

LEMMA UnderRun ==
  ASSUME NEW T, NEW base, NEW s \in Seq(T)
  PROVE  \E f : /\ f[0] = base /\ f[Len(s)] = Under(base, s) /\ DOMAIN f = 0..Len(s)
                /\ \A k \in 1..Len(s) : f[k] = FormatUnder(f[k - 1], s[k])
BY FormatsUnder!FoldRun DEF Under

LEMMA CommentedRun ==
  ASSUME NEW T, NEW base, NEW s \in Seq(T)
  PROVE  \E f : /\ f[0] = base /\ f[Len(s)] = Commented(base, s) /\ DOMAIN f = 0..Len(s)
                /\ \A k \in 1..Len(s) : f[k] = FormatComment(f[k - 1], s[k])
BY FormatsAbove!FoldRun DEF Commented

\* Lines written behind others tell what they tell then.
Wrote(buf, t) == buf \in Seq(Lines) /\ LinesTell(Nothing, buf) = t

LEMMA WroteLine ==
  ASSUME NEW buf, NEW t, Wrote(buf, t), NEW line \in Lines
  PROVE  Wrote(Append(buf, line), TellLine(t, line))
<1>1. buf \in Seq(Lines) /\ LinesTell(Nothing, buf) = t
  BY DEF Wrote
<1>2. LinesTell(Nothing, Append(buf, line)) = TellLine(LinesTell(Nothing, buf), line)
  BY <1>1, LinesAppend
<1>3. Append(buf, line) \in Seq(Lines)
  BY <1>1
<1>4. QED
  BY <1>1, <1>2, <1>3 DEF Wrote

LEMMA EmptyLineIs == EmptyLine \in Lines /\ EmptyLine.k = "blank"
<1> DEFINE e == <<>>
<1>1. e \in Seq(Names \cup {Hash})
  OBVIOUS
<1>2. EmptyLine = [k |-> "blank", in |-> 0, x |-> 0, gap |-> 0, note |-> e, nl |-> TRUE]
  BY DEF EmptyLine, BlankLine, Line
<1> HIDE DEF e
<1>3. QED
  BY <1>1, <1>2 DEF Lines

LEMMA WroteBlank ==
  ASSUME NEW buf, NEW t, Wrote(buf, t)
  PROVE  Wrote(WriteBlankLine(buf), t)
<1>1. CASE WriteBlankLine(buf) = buf
  BY <1>1
<1>2. CASE WriteBlankLine(buf) = Append(buf, EmptyLine)
  <2>1. Wrote(Append(buf, EmptyLine), TellLine(t, EmptyLine))
    BY EmptyLineIs, WroteLine
  <2>2. QED
    BY <1>2, <2>1, EmptyLineIs, TellBlank
<1>3. QED
  BY <1>1, <1>2 DEF WriteBlankLine

LEMMA WroteRun ==
  ASSUME NEW buf, NEW t, Wrote(buf, t), NEW run
  PROVE  Wrote(WriteRun(buf, run), t)
BY WroteBlank DEF WriteRun

LEMMA WroteAbove ==
  ASSUME NEW buf, NEW t \in Tellings, Wrote(buf, t), NEW n,
         n.comments \in Seq({line \in Lines : line.k = "comment"})
  PROVE  Wrote(FormatLeadingTrivia(buf, n), WithAbove(t, NotesOf(n.comments)))
<1> DEFINE cs == n.comments
           m == Len(cs)
           q == NotesOf(cs)
           rs == [i \in DOMAIN cs |-> [run |-> BlankRun(n, i), line |-> cs[i]]]
           b0 == Commented(buf, rs)
<1>1. /\ m \in Nat /\ DOMAIN cs = 1..m /\ cs \in Seq(Lines)
      /\ \A i \in 1..m : cs[i] \in Lines /\ cs[i].k = "comment"
  <2> DEFINE C == {line \in Lines : line.k = "comment"}
  <2>1. C \subseteq Lines
    OBVIOUS
  <2>2. Seq(C) \subseteq Seq(Lines)
    BY <2>1, SeqMonotonic
  <2>3. cs \in Seq(C)
    OBVIOUS
  <2> HIDE DEF C, cs
  <2>4. \A i \in 1..m : cs[i] \in C
    BY <2>3
  <2>5. QED
    BY <2>2, <2>3, <2>4 DEF C
<1>2. q \in Seq(NoteTexts) /\ Len(q) = m /\ \A i \in 1..m : q[i] = cs[i].note
  BY <1>1, NotesTyped
<1> HIDE DEF q
<1>3. /\ SubSeq(q, 1, 0) = <<>> /\ SubSeq(q, 1, m) = q
      /\ \A k \in 1..m : /\ SubSeq(q, 1, k - 1) \in Seq(NoteTexts)
                         /\ SubSeq(q, 1, k) = Append(SubSeq(q, 1, k - 1), q[k])
  BY <1>2, NotesUpTo
<1> HIDE DEF cs, m
<1>4. /\ rs \in Seq({rs[i] : i \in 1..m}) /\ Len(rs) = m
      /\ \A i \in 1..m : rs[i].run = BlankRun(n, i) /\ rs[i].line = cs[i]
  <2>1. /\ rs = [i \in 1..m |-> rs[i]]
        /\ \A i \in 1..m : rs[i] = [run |-> BlankRun(n, i), line |-> cs[i]]
    BY <1>1
  <2> HIDE DEF rs
  <2> DEFINE T == {rs[i] : i \in 1..m}
  <2>2. \A i \in 1..m : rs[i] \in T
    OBVIOUS
  <2> HIDE DEF T
  <2>3. rs \in Seq(T) /\ Len(rs) = m
    BY <1>1, <2>1, <2>2, ASequence
  <2>4. \A i \in 1..m : rs[i].run = BlankRun(n, i) /\ rs[i].line = cs[i]
    BY <2>1
  <2>5. QED
    BY <2>3, <2>4 DEF T
<1> HIDE DEF rs
<1>5. PICK b : /\ b[0] = buf /\ b[m] = b0
               /\ \A k \in 1..m : b[k] = FormatComment(b[k - 1], rs[k])
  <2> DEFINE T == {rs[i] : i \in 1..m}
  <2>1. rs \in Seq(T)
    BY <1>4
  <2> HIDE DEF T
  <2>2. \E f : /\ f[0] = buf /\ f[Len(rs)] = b0 /\ DOMAIN f = 0..Len(rs)
               /\ \A k \in 1..Len(rs) : f[k] = FormatComment(f[k - 1], rs[k])
    BY <2>1, CommentedRun, SMTT(40)
  <2>3. QED
    BY <1>4, <2>2
<1> DEFINE Fits(k) == Wrote(b[k], WithAbove(t, SubSeq(q, 1, k)))
           S == {k \in Nat : k <= m => Fits(k)}
<1>6. 0 \in S
  BY <1>3, <1>5, AboveNone
<1>7. ASSUME NEW k \in Nat, k \in S PROVE k + 1 \in S
  <2> SUFFICES ASSUME k + 1 <= m PROVE Fits(k + 1)
    OBVIOUS
  <2>1. k + 1 \in 1..m /\ (k + 1) - 1 = k /\ k <= m
    BY <1>1
  <2>2. Fits(k)
    BY <1>7, <2>1
  <2> DEFINE c == cs[k + 1]
             p == SubSeq(q, 1, k)
             w == WriteRun(b[k], rs[k + 1].run)
  <2>3. c \in Lines /\ c.k = "comment" /\ rs[k + 1].line = c /\ q[k + 1] = c.note
    BY <1>1, <1>2, <1>4, <2>1
  <2>4. b[k + 1] = Append(w, c)
    BY <1>5, <2>1, <2>3 DEF FormatComment
  <2>5. p \in Seq(NoteTexts) /\ SubSeq(q, 1, k + 1) = Append(p, c.note)
    BY <1>3, <2>1, <2>3
  <2>6. Wrote(w, WithAbove(t, p))
    BY <2>2, WroteRun
  <2> HIDE DEF c, p, w
  <2>7. Wrote(Append(w, c), TellLine(WithAbove(t, p), c))
    BY <2>3, <2>6, WroteLine
  <2>8. TellLine(WithAbove(t, p), c) = WithAbove(t, Append(p, c.note))
    BY <2>3, <2>5, AboveOne
  <2>9. QED
    BY <2>4, <2>5, <2>7, <2>8
<1> HIDE DEF S, Fits
<1>8. Nat \subseteq S
  BY <1>6, <1>7, Induct, Zenon
<1>9. Fits(m)
  BY <1>1, <1>8 DEF S
<1>10. Wrote(b0, WithAbove(t, q))
  BY <1>3, <1>5, <1>9 DEF Fits
<1>11. FormatLeadingTrivia(buf, n) = WriteRun(b0, BlankRun(n, Len(n.comments) + 1))
  BY CommentedIs DEF FormatLeadingTrivia, rs, cs
<1> HIDE DEF b0
<1>12. QED
  BY <1>10, <1>11, WroteRun DEF q, cs

---------------------------------------------------------------------------
(***************************************************************************)
(* Tellings that differ in nothing but what stands before a comment's text.*)
(***************************************************************************)
PlainNote(note) == IF note = <<>> THEN <<>> ELSE <<Last(note)>>
PlainNotes(notes) == [i \in DOMAIN notes |-> PlainNote(notes[i])]
PlainConstruct(c) == [c EXCEPT !.note = PlainNote(@), !.above = PlainNotes(@)]
PlainConstructs(cs) == [i \in DOMAIN cs |-> PlainConstruct(cs[i])]
Same(t, u) == t \in Tellings /\ u \in Tellings /\ Plain(t) = Plain(u)

LEMMA PlainIs ==
  \A t : Plain(t) = [constructs |-> PlainConstructs(t.constructs), above |-> PlainNotes(t.above)]
BY DEF Plain, PlainConstructs, PlainConstruct, PlainNotes, PlainNote

LEMMA SameParts ==
  ASSUME NEW t \in Tellings, NEW u \in Tellings
  PROVE  Same(t, u) <=> /\ PlainConstructs(t.constructs) = PlainConstructs(u.constructs)
                        /\ PlainNotes(t.above) = PlainNotes(u.above)
<1> DEFINE a == PlainConstructs(t.constructs)
           b == PlainNotes(t.above)
           c == PlainConstructs(u.constructs)
           e == PlainNotes(u.above)
<1>1. Plain(t) = [constructs |-> a, above |-> b] /\ Plain(u) = [constructs |-> c, above |-> e]
  BY PlainIs
<1> HIDE DEF a, b, c, e
<1>2. QED
  BY <1>1 DEF Same, a, b, c, e

LEMMA PlainTyped ==
  /\ \A note \in NoteTexts : PlainNote(note) \in NoteTexts
  /\ \A notes \in Seq(NoteTexts) :
       /\ PlainNotes(notes) \in Seq(NoteTexts) /\ Len(PlainNotes(notes)) = Len(notes)
       /\ \A i \in 1..Len(notes) : PlainNotes(notes)[i] = PlainNote(notes[i])
<1>1. ASSUME NEW note \in NoteTexts PROVE PlainNote(note) \in NoteTexts
  <2>1. CASE note = <<>>
    BY <2>1 DEF PlainNote
  <2>2. CASE note # <<>>
    <3> DEFINE l == Last(note)
    <3>1. l \in Names \cup {Hash}
      BY <2>2 DEF NoteTexts, Last
    <3> HIDE DEF l
    <3>2. <<l>> \in NoteTexts
      BY <3>1 DEF NoteTexts
    <3>3. QED
      BY <2>2, <3>2 DEF PlainNote, l
  <2>3. QED
    BY <2>1, <2>2
<1>2. ASSUME NEW notes \in Seq(NoteTexts)
      PROVE  /\ PlainNotes(notes) \in Seq(NoteTexts) /\ Len(PlainNotes(notes)) = Len(notes)
             /\ \A i \in 1..Len(notes) : PlainNotes(notes)[i] = PlainNote(notes[i])
  <2> DEFINE n == Len(notes)
             f == PlainNotes(notes)
  <2>1. n \in Nat /\ DOMAIN notes = 1..n /\ \A i \in 1..n : notes[i] \in NoteTexts
    OBVIOUS
  <2>2. f = [i \in 1..n |-> PlainNote(notes[i])]
    BY <2>1 DEF PlainNotes
  <2> HIDE DEF n, f
  <2>3. /\ f = [i \in 1..n |-> f[i]]
        /\ \A i \in 1..n : f[i] = PlainNote(notes[i]) /\ f[i] \in NoteTexts
    BY <1>1, <2>1, <2>2
  <2>4. f \in Seq(NoteTexts) /\ Len(f) = n
    BY <2>1, <2>3, ASequence
  <2>5. QED
    BY <2>3, <2>4 DEF f, n
<1>3. QED
  BY <1>1, <1>2

LEMMA PlainConstructTyped ==
  /\ \A c \in Constructed : PlainConstruct(c) \in Constructed
  /\ \A cs \in Seq(Constructed) :
       /\ PlainConstructs(cs) \in Seq(Constructed) /\ Len(PlainConstructs(cs)) = Len(cs)
       /\ \A i \in 1..Len(cs) : PlainConstructs(cs)[i] = PlainConstruct(cs[i])
<1>1. ASSUME NEW c \in Constructed PROVE PlainConstruct(c) \in Constructed
  <2> DEFINE a == PlainNote(c.note)
             b == PlainNotes(c.above)
  <2>1. a \in NoteTexts /\ b \in Seq(NoteTexts)
    BY PlainTyped DEF Constructed
  <2>2. PlainConstruct(c) = [c EXCEPT !.note = a, !.above = b]
    BY DEF PlainConstruct
  <2> HIDE DEF a, b
  <2>3. QED
    BY <2>1, <2>2 DEF Constructed
<1>2. ASSUME NEW cs \in Seq(Constructed)
      PROVE  /\ PlainConstructs(cs) \in Seq(Constructed) /\ Len(PlainConstructs(cs)) = Len(cs)
             /\ \A i \in 1..Len(cs) : PlainConstructs(cs)[i] = PlainConstruct(cs[i])
  <2> DEFINE n == Len(cs)
             f == PlainConstructs(cs)
  <2>1. n \in Nat /\ DOMAIN cs = 1..n /\ \A i \in 1..n : cs[i] \in Constructed
    OBVIOUS
  <2>2. f = [i \in 1..n |-> PlainConstruct(cs[i])]
    BY <2>1 DEF PlainConstructs
  <2> HIDE DEF n, f
  <2>3. /\ f = [i \in 1..n |-> f[i]]
        /\ \A i \in 1..n : f[i] = PlainConstruct(cs[i]) /\ f[i] \in Constructed
    BY <1>1, <2>1, <2>2
  <2>4. f \in Seq(Constructed) /\ Len(f) = n
    BY <2>1, <2>3, ASequence
  <2>5. QED
    BY <2>3, <2>4 DEF f, n
<1>3. QED
  BY <1>1, <1>2

LEMMA PlainNotesAppend ==
  ASSUME NEW s \in Seq(NoteTexts), NEW e \in NoteTexts
  PROVE  PlainNotes(Append(s, e)) = Append(PlainNotes(s), PlainNote(e))
<1> DEFINE n == Len(s)
           p == Append(s, e)
           f == PlainNotes(p)
           a == PlainNotes(s)
           x == PlainNote(e)
           g == Append(a, x)
<1>1. /\ p \in Seq(NoteTexts) /\ Len(p) = n + 1 /\ n \in Nat /\ p[n + 1] = e
      /\ \A i \in 1..n : p[i] = s[i]
  OBVIOUS
<1> HIDE DEF p
<1>2. /\ f \in Seq(NoteTexts) /\ Len(f) = n + 1
      /\ \A i \in 1..(n + 1) : f[i] = PlainNote(p[i])
      /\ a \in Seq(NoteTexts) /\ Len(a) = n /\ \A i \in 1..n : a[i] = PlainNote(s[i])
  BY <1>1, PlainTyped
<1>3. x \in NoteTexts
  BY PlainTyped
<1> HIDE DEF f, a, x
<1>4. g \in Seq(NoteTexts) /\ Len(g) = n + 1 /\ g[n + 1] = x /\ \A i \in 1..n : g[i] = a[i]
  BY <1>1, <1>2, <1>3
<1> HIDE DEF g, n
<1>5. ASSUME NEW i \in 1..(n + 1) PROVE f[i] = g[i]
  <2>1. CASE i = n + 1
    BY <1>1, <1>2, <1>4, <2>1 DEF x
  <2>2. CASE i # n + 1
    <3>1. i \in 1..n
      BY <1>1, <2>2
    <3>2. QED
      BY <1>1, <1>2, <1>4, <3>1
  <2>3. QED
    BY <2>1, <2>2
<1>6. f = g
  BY <1>2, <1>4, <1>5, SameSeq
<1>7. QED
  BY <1>6 DEF f, g, p, a, x

LEMMA PlainConstructsAppend ==
  ASSUME NEW s \in Seq(Constructed), NEW e \in Constructed
  PROVE  PlainConstructs(Append(s, e)) = Append(PlainConstructs(s), PlainConstruct(e))
<1> DEFINE n == Len(s)
           p == Append(s, e)
           f == PlainConstructs(p)
           a == PlainConstructs(s)
           x == PlainConstruct(e)
           g == Append(a, x)
           T == Constructed
<1>0. s \in Seq(T) /\ e \in T
  OBVIOUS
<1> HIDE DEF T
<1>1. /\ p \in Seq(T) /\ Len(p) = n + 1 /\ n \in Nat /\ p[n + 1] = e
      /\ \A i \in 1..n : p[i] = s[i]
  BY <1>0
<1> HIDE DEF p
<1>2. /\ f \in Seq(T) /\ Len(f) = n + 1
      /\ \A i \in 1..(n + 1) : f[i] = PlainConstruct(p[i])
      /\ a \in Seq(T) /\ Len(a) = n /\ \A i \in 1..n : a[i] = PlainConstruct(s[i])
  BY <1>1, PlainConstructTyped DEF T
<1>3. x \in T
  BY PlainConstructTyped DEF T
<1> HIDE DEF f, a, x
<1>4. g \in Seq(T) /\ Len(g) = n + 1 /\ g[n + 1] = x /\ \A i \in 1..n : g[i] = a[i]
  BY <1>1, <1>2, <1>3
<1> HIDE DEF g, n
<1>5. ASSUME NEW i \in 1..(n + 1) PROVE f[i] = g[i]
  <2>1. CASE i = n + 1
    BY <1>1, <1>2, <1>4, <2>1 DEF x
  <2>2. CASE i # n + 1
    <3>1. i \in 1..n
      BY <1>1, <2>2
    <3>2. QED
      BY <1>1, <1>2, <1>4, <3>1
  <2>3. QED
    BY <2>1, <2>2
<1>6. f = g
  BY <1>2, <1>4, <1>5, SameSeq
<1>7. QED
  BY <1>6 DEF f, g, p, a, x

\* What keeps two tellings the same.
LEMMA SameNote ==
  ASSUME NEW t, NEW u, Same(t, u), NEW a \in Lines, NEW b \in Lines,
         a.k = "comment", b.k = "comment", PlainNote(a.note) = PlainNote(b.note)
  PROVE  Same(TellLine(t, a), TellLine(u, b))
<1> DEFINE v == TellLine(t, a)
           w == TellLine(u, b)
<1>1. t \in Tellings /\ u \in Tellings
  BY DEF Same
<1>2. /\ t.above \in Seq(NoteTexts) /\ u.above \in Seq(NoteTexts)
      /\ a.note \in NoteTexts /\ b.note \in NoteTexts
  BY <1>1, TellingIs, LineTyped
<1>3. /\ v = [constructs |-> t.constructs, above |-> Append(t.above, a.note)] /\ v \in Tellings
      /\ w = [constructs |-> u.constructs, above |-> Append(u.above, b.note)] /\ w \in Tellings
  BY <1>1, TellComment
<1> HIDE DEF v, w
<1>4. /\ PlainConstructs(t.constructs) = PlainConstructs(u.constructs)
      /\ PlainNotes(t.above) = PlainNotes(u.above)
  BY <1>1, SameParts
<1>5. /\ PlainNotes(Append(t.above, a.note)) = Append(PlainNotes(t.above), PlainNote(a.note))
      /\ PlainNotes(Append(u.above, b.note)) = Append(PlainNotes(u.above), PlainNote(b.note))
  BY <1>2, PlainNotesAppend
<1>6. /\ PlainConstructs(v.constructs) = PlainConstructs(w.constructs)
      /\ PlainNotes(v.above) = PlainNotes(w.above)
  BY <1>3, <1>4, <1>5
<1>7. QED
  BY <1>3, <1>6, SameParts DEF v, w

LEMMA SameConstruct ==
  ASSUME NEW t, NEW u, Same(t, u), NEW k \in {"pair", "header"}, NEW x \in Names \cup {0},
         NEW note \in NoteTexts
  PROVE  Same(WithConstruct(t, k, x, note), WithConstruct(u, k, x, note))
<1> DEFINE v == WithConstruct(t, k, x, note)
           w == WithConstruct(u, k, x, note)
           c == [k |-> k, x |-> x, note |-> note, above |-> t.above]
           d == [k |-> k, x |-> x, note |-> note, above |-> u.above]
           p == PlainNotes(t.above)
           q == PlainNotes(u.above)
<1>1. t \in Tellings /\ u \in Tellings
  BY DEF Same
<1>2. /\ t.above \in Seq(NoteTexts) /\ u.above \in Seq(NoteTexts)
      /\ t.constructs \in Seq(Constructed) /\ u.constructs \in Seq(Constructed)
  BY <1>1, TellingIs
<1>3. v \in Tellings /\ w \in Tellings
  BY <1>1, ConstructTyped
<1>4. PlainConstructs(t.constructs) = PlainConstructs(u.constructs) /\ p = q
  BY <1>1, SameParts
<1>5. c \in Constructed /\ d \in Constructed
  BY <1>2 DEF Constructed
<1> DEFINE pn == PlainNote(note)
<1>6. PlainConstruct(c) = PlainConstruct(d)
  <2>1. PlainConstruct(c) = [c EXCEPT !.note = pn, !.above = p]
    BY DEF PlainConstruct
  <2>2. PlainConstruct(d) = [d EXCEPT !.note = pn, !.above = q]
    BY DEF PlainConstruct
  <2> HIDE DEF p, q, pn
  <2>3. PlainConstruct(c) = [k |-> k, x |-> x, note |-> pn, above |-> p]
    BY <2>1
  <2>4. PlainConstruct(d) = [k |-> k, x |-> x, note |-> pn, above |-> q]
    BY <2>2
  <2> HIDE DEF c, d
  <2>5. QED
    BY <1>4, <2>3, <2>4
<1> HIDE DEF c, d, p, q
<1>7. /\ v = [constructs |-> Append(t.constructs, c), above |-> <<>>]
      /\ w = [constructs |-> Append(u.constructs, d), above |-> <<>>]
  BY DEF WithConstruct, c, d
<1> HIDE DEF v, w
<1>8. /\ PlainConstructs(Append(t.constructs, c))
           = Append(PlainConstructs(t.constructs), PlainConstruct(c))
      /\ PlainConstructs(Append(u.constructs, d))
           = Append(PlainConstructs(u.constructs), PlainConstruct(d))
  BY <1>2, <1>5, PlainConstructsAppend
<1>9. /\ PlainConstructs(v.constructs) = PlainConstructs(w.constructs)
      /\ PlainNotes(v.above) = PlainNotes(w.above)
  BY <1>4, <1>6, <1>7, <1>8
<1>10. QED
  BY <1>3, <1>9, SameParts DEF v, w

LEMMA SameAbove ==
  ASSUME NEW t, NEW u, Same(t, u), NEW notes \in Seq(NoteTexts)
  PROVE  Same(WithAbove(t, notes), WithAbove(u, notes))
<1> DEFINE v == WithAbove(t, notes)
           w == WithAbove(u, notes)
           P(s) == PlainNotes(s) \o PlainNotes(notes)
<1>1. t \in Tellings /\ u \in Tellings
  BY DEF Same
<1>2. t.above \in Seq(NoteTexts) /\ u.above \in Seq(NoteTexts)
  BY <1>1, TellingIs
<1>3. /\ v = [constructs |-> t.constructs, above |-> t.above \o notes] /\ v \in Tellings
      /\ w = [constructs |-> u.constructs, above |-> u.above \o notes] /\ w \in Tellings
  BY <1>1, AboveTyped
<1> HIDE DEF v, w
<1>4. /\ PlainConstructs(t.constructs) = PlainConstructs(u.constructs)
      /\ PlainNotes(t.above) = PlainNotes(u.above)
  BY <1>1, SameParts
<1>5. ASSUME NEW s \in Seq(NoteTexts) PROVE PlainNotes(s \o notes) = P(s)
  <2> DEFINE c == s \o notes
             f == PlainNotes(c)
             a == PlainNotes(s)
             b == PlainNotes(notes)
             g == a \o b
             n == Len(s)
             m == Len(notes)
  <2>1. /\ c \in Seq(NoteTexts) /\ n \in Nat /\ m \in Nat /\ Len(c) = n + m
        /\ \A i \in 1..(n + m) : c[i] = IF i <= n THEN s[i] ELSE notes[i - n]
    BY ConcatProperties
  <2> HIDE DEF c
  <2>2. /\ f \in Seq(NoteTexts) /\ Len(f) = n + m
        /\ \A i \in 1..(n + m) : f[i] = PlainNote(c[i])
        /\ a \in Seq(NoteTexts) /\ Len(a) = n /\ \A i \in 1..n : a[i] = PlainNote(s[i])
        /\ b \in Seq(NoteTexts) /\ Len(b) = m /\ \A i \in 1..m : b[i] = PlainNote(notes[i])
    BY <2>1, PlainTyped
  <2> HIDE DEF f, a, b
  <2>3. /\ g \in Seq(NoteTexts) /\ Len(g) = n + m
        /\ \A i \in 1..(n + m) : g[i] = IF i <= n THEN a[i] ELSE b[i - n]
    <3>1. /\ g \in Seq(NoteTexts) /\ Len(g) = Len(a) + Len(b)
          /\ \A i \in 1..(Len(a) + Len(b)) : g[i] = IF i <= Len(a) THEN a[i] ELSE b[i - Len(a)]
      <4>1. a \in Seq(NoteTexts) /\ b \in Seq(NoteTexts)
        BY <2>2
      <4> HIDE DEF n, m
      <4>2. QED
        BY <4>1, ConcatProperties
    <3> HIDE DEF g, n, m
    <3>2. QED
      BY <2>2, <3>1
  <2> HIDE DEF g, n, m
  <2>4. ASSUME NEW i \in 1..(n + m) PROVE f[i] = g[i]
    <3>1. CASE i <= n
      <4>1. i \in 1..n
        BY <2>1, <3>1
      <4>2. c[i] = s[i] /\ g[i] = a[i]
        BY <2>1, <2>3, <3>1
      <4>3. f[i] = PlainNote(c[i]) /\ a[i] = PlainNote(s[i])
        BY <2>2, <4>1
      <4>4. QED
        BY <4>2, <4>3
    <3>2. CASE ~(i <= n)
      <4> DEFINE j == i - n
      <4>1. j \in 1..m
        BY <2>1, <3>2
      <4>2. c[i] = notes[j] /\ g[i] = b[j]
        BY <2>1, <2>3, <3>2
      <4> HIDE DEF j
      <4>3. QED
        BY <2>2, <4>1, <4>2
    <3>3. QED
      BY <3>1, <3>2
  <2>5. f = g
    BY <2>2, <2>3, <2>4, SameSeq
  <2>6. QED
    BY <2>5 DEF f, g, a, b, c
<1>6. P(t.above) = P(u.above)
  BY <1>4
<1> HIDE DEF P
<1>7. /\ PlainConstructs(v.constructs) = PlainConstructs(w.constructs)
      /\ PlainNotes(v.above) = PlainNotes(w.above)
  BY <1>2, <1>3, <1>4, <1>5, <1>6
<1>8. QED
  BY <1>3, <1>7, SameParts DEF v, w

---------------------------------------------------------------------------
(***************************************************************************)
(* What is formatted tells the same.                                       *)
(***************************************************************************)
Shows(buf, u) == buf \in Seq(Lines) /\ Same(LinesTell(Nothing, buf), u)

LEMMA NothingTold == Nothing \in Tellings
<1>1. <<>> \in Seq(Constructed) /\ <<>> \in Seq(NoteTexts)
  OBVIOUS
<1>2. QED
  BY <1>1 DEF Nothing, Tellings

LEMMA ShownWrote ==
  ASSUME NEW buf, NEW u
  PROVE  Shows(buf, u) <=> \E t : Wrote(buf, t) /\ Same(t, u)
BY DEF Shows, Wrote

\* A comment that stands alone.
LEMMA HashedNote ==
  ASSUME NEW note \in NoteTexts, note # <<>>
  PROVE  <<Hash>> \o note \in NoteTexts /\ PlainNote(<<Hash>> \o note) = PlainNote(note)
<1> DEFINE T == Names \cup {Hash}
           h == <<Hash>>
           s == h \o note
           n == Len(note)
<1>1. note \in Seq(T) /\ h \in Seq(T) /\ Len(h) = 1 /\ n \in Nat /\ n >= 1
  BY DEF NoteTexts
<1> HIDE DEF T, h
<1>2. s \in Seq(T) /\ Len(s) = n + 1 /\ \A i \in 1..(n + 1) : s[i] = IF i <= 1 THEN h[i] ELSE note[i - 1]
  <2>1. s \in Seq(T) /\ Len(s) = Len(h) + Len(note)
        /\ \A i \in 1..(Len(h) + Len(note)) : s[i] = IF i <= Len(h) THEN h[i] ELSE note[i - Len(h)]
    BY <1>1, ConcatProperties
  <2> HIDE DEF s
  <2>2. QED
    BY <1>1, <2>1
<1> HIDE DEF s, n
<1>3. s[n + 1] = note[n]
  <2>1. n + 1 \in 1..(n + 1) /\ ~(n + 1 <= 1) /\ (n + 1) - 1 = n
    BY <1>1
  <2>2. QED
    BY <1>2, <2>1
<1>4. Last(s) = Last(note) /\ s # <<>>
  <2>1. Last(s) = s[n + 1]
    BY <1>2 DEF Last
  <2>2. Last(note) = note[n]
    BY DEF Last, n
  <2>3. s # <<>>
    BY <1>1, <1>2
  <2>4. QED
    BY <1>3, <2>1, <2>2, <2>3
<1>5. PlainNote(s) = PlainNote(note)
  BY <1>4 DEF PlainNote
<1>6. QED
  BY <1>2, <1>5 DEF s, h, T, NoteTexts

LEMMA StandaloneShown ==
  ASSUME NEW buf, NEW u, Shows(buf, u), NEW n \in Goods, n.k = "text"
  PROVE  Shows(FormatStandaloneComment(buf, n), Tell(u, n))
<1> DEFINE t == LinesTell(Nothing, buf)
           line == n.line
           out == FormatStandaloneComment(buf, n)
<1>1. n \in Node /\ GoodText(n) /\ n.comments = <<>> /\ line \in Lines
  <2>1. n \in Node /\ GoodText(n)
    BY DEF Goods, Good
  <2>2. QED
    BY <2>1 DEF GoodText, Node
<1>2. buf \in Seq(Lines) /\ Same(t, u) /\ t \in Tellings /\ u \in Tellings /\ Wrote(buf, t)
  BY DEF Shows, Same, Wrote
<1>3. /\ line.k = "comment" => Tell(u, n) = TellLine(u, line)
      /\ line.k # "comment" => Tell(u, n) = u
  BY <1>1, <1>2, TextTells
<1>4. line.k = "comment" => line.note # <<>>
  <2>1. n.raw \in Seq(BlankLines) => line.k # "comment"
    BY <1>1 DEF GoodText, BlankLines
  <2>2. QED
    BY <1>1, <2>1 DEF GoodText, CommentLines
<1> DEFINE a == [line EXCEPT !.nl = TRUE]
           note == <<Hash>> \o line.note
           b == [line EXCEPT !.in = 0, !.note = note, !.nl = TRUE]
           w == IF \E i \in DOMAIN n.raw : n.raw[i].nl THEN WriteBlankLine(buf) ELSE buf
<1>5. out = CASE line.k = "comment" /\ line.in = 0 -> Append(buf, a)
              [] line.k = "comment" /\ line.in # 0 -> Append(buf, b)
              [] OTHER -> w
  BY DEF FormatStandaloneComment
<1>6. ASSUME NEW m \in Lines, m.k = "comment", line.k = "comment",
             PlainNote(m.note) = PlainNote(line.note)
      PROVE  Shows(Append(buf, m), Tell(u, n))
  <2>1. Wrote(Append(buf, m), TellLine(t, m))
    BY <1>2, <1>6, WroteLine
  <2>2. Same(TellLine(t, m), TellLine(u, line))
    BY <1>1, <1>2, <1>6, SameNote
  <2>3. QED
    BY <1>3, <1>6, <2>1, <2>2, ShownWrote
<1> HIDE DEF out, t, line, w
<1>7. CASE line.k = "comment" /\ line.in = 0
  <2>1. a \in Lines /\ a.k = "comment" /\ a.note = line.note
    BY <1>1, <1>7 DEF Lines
  <2> HIDE DEF a, b
  <2>2. out = Append(buf, a)
    BY <1>5, <1>7, Zenon
  <2>3. QED
    BY <1>6, <1>7, <2>1, <2>2 DEF out
<1>8. CASE line.k = "comment" /\ line.in # 0
  <2>1. note \in NoteTexts /\ PlainNote(note) = PlainNote(line.note)
    BY <1>1, <1>4, <1>8, LineTyped, HashedNote, SMTT(40)
  <2> HIDE DEF note
  <2>2. b \in Lines /\ b.k = "comment" /\ b.note = note
    BY <1>1, <1>8, <2>1 DEF Lines, NoteTexts
  <2> HIDE DEF a, b
  <2>3. out = Append(buf, b)
    BY <1>5, <1>8, Zenon
  <2>4. QED
    BY <1>6, <1>8, <2>1, <2>2, <2>3 DEF out
<1>9. CASE line.k # "comment"
  <2> HIDE DEF a, b
  <2>1. out = w
    BY <1>5, <1>9, Zenon
  <2>2. Wrote(w, t)
    BY <1>2, WroteBlank DEF w
  <2>3. QED
    BY <1>2, <1>3, <1>9, <2>1, <2>2, ShownWrote DEF out
<1>10. QED
  BY <1>7, <1>8, <1>9

LEMMA FormatLineIs ==
  ASSUME NEW n \in Node, n.k \in {"pair", "header"}, NEW indent \in {0, 1}
  PROVE  /\ FormatLine(n, indent) \in Lines /\ FormatLine(n, indent).k = n.k
         /\ FormatLine(n, indent).x = n.line.x /\ FormatLine(n, indent).note = n.line.note
<1> DEFINE in == indent * IndentWidth
           gap == IF n.line.note = <<>> THEN 0 ELSE 2
           x == n.line.x
           note == n.line.note
<1>1. in \in Nat
  <2>1. in = 0 \/ in = IndentWidth
    BY InputsAssumption
  <2>2. QED
    BY <2>1, InputsAssumption
<1>2. gap \in Nat
  OBVIOUS
<1>3. x \in Names \cup {0} /\ note \in Seq(Names \cup {Hash})
  BY LineTyped DEF Node, NoteTexts
<1>4. FormatLine(n, indent)
        = [k |-> n.k, in |-> in, x |-> x, gap |-> gap, note |-> note, nl |-> TRUE]
  BY DEF FormatLine, Line
<1> HIDE DEF in, gap, x, note
<1>5. QED
  BY <1>1, <1>2, <1>3, <1>4 DEF Lines, x, note

\* A pair or a header, behind the comments above it.
LEMMA ConstructShown ==
  ASSUME NEW buf, NEW u, Shows(buf, u), NEW n \in Goods, n.k # "text", NEW indent \in {0, 1}
  PROVE  Shows(Append(FormatLeadingTrivia(buf, n), FormatLine(n, indent)), Tell(u, n))
<1> DEFINE t == LinesTell(Nothing, buf)
           q == NotesOf(n.comments)
           w == FormatLeadingTrivia(buf, n)
           line == FormatLine(n, indent)
           x == n.line.x
           note == n.line.note
           k == n.k
<1>1. /\ n \in Node /\ k \in {"pair", "header"} /\ n.line \in Lines
      /\ n.comments \in Seq(Ended(CommentLines))
  <2>1. n \in Node /\ GoodConstruct(n)
    BY DEF Goods, Good
  <2>2. QED
    BY <2>1 DEF GoodConstruct, Node
<1>2. n.comments \in Seq({l \in Lines : l.k = "comment"}) /\ n.comments \in Seq(Lines)
  <2>1. Ended(CommentLines) \subseteq {l \in Lines : l.k = "comment"}
        /\ Ended(CommentLines) \subseteq Lines
    BY LineKinds
  <2>2. /\ Seq(Ended(CommentLines)) \subseteq Seq({l \in Lines : l.k = "comment"})
        /\ Seq(Ended(CommentLines)) \subseteq Seq(Lines)
    BY <2>1, SeqMonotonic
  <2>3. QED
    BY <1>1, <2>2
<1>3. Same(t, u) /\ t \in Tellings /\ u \in Tellings /\ Wrote(buf, t)
  BY DEF Shows, Same, Wrote
<1>4. q \in Seq(NoteTexts)
  BY <1>2, NotesTyped
<1>5. line \in Lines /\ line.k = k /\ line.x = x /\ line.note = note
  BY <1>1, FormatLineIs
<1>6. x \in Names \cup {0} /\ note \in NoteTexts
  BY <1>1, LineTyped
<1>7. /\ WithAbove(u, q) \in Tellings
      /\ Tell(u, n) = WithConstruct(WithAbove(u, q), k, x, note)
  BY <1>1, <1>2, <1>3, ConstructTells
<1> HIDE DEF t
<1>8. Wrote(w, WithAbove(t, q))
  BY <1>2, <1>3, WroteAbove
<1>9. Same(WithAbove(t, q), WithAbove(u, q))
  BY <1>3, <1>4, SameAbove
<1> HIDE DEF q, w, line, x, note, k
<1>10. Wrote(Append(w, line), TellLine(WithAbove(t, q), line))
  BY <1>5, <1>8, WroteLine
<1>11. TellLine(WithAbove(t, q), line) = WithConstruct(WithAbove(t, q), k, x, note)
  <2>1. WithAbove(t, q) \in Tellings
    BY <1>9 DEF Same
  <2>2. TellLine(WithAbove(t, q), line) = WithConstruct(WithAbove(t, q), line.k, line.x, line.note)
    BY <1>1, <1>5, <2>1, TellConstruct
  <2>3. QED
    BY <1>5, <2>2
<1>12. Same(WithConstruct(WithAbove(t, q), k, x, note), WithConstruct(WithAbove(u, q), k, x, note))
  BY <1>1, <1>6, <1>9, SameConstruct
<1>13. Shows(Append(w, line), Tell(u, n))
  BY <1>7, <1>10, <1>11, <1>12, ShownWrote
<1>14. QED
  BY <1>13 DEF w, line

LEMMA LeafShown ==
  ASSUME NEW buf, NEW u, Shows(buf, u), NEW n \in Goods, NEW indent \in {0, 1}
  PROVE  Shows(FormatLeaf(buf, n, indent), Tell(u, n))
<1> DEFINE a == FormatStandaloneComment(buf, n)
           b == Append(FormatLeadingTrivia(buf, n), FormatLine(n, indent))
           w == WriteBlankLine(buf)
           c == Append(FormatLeadingTrivia(w, n), FormatLine(n, indent))
           out == FormatLeaf(buf, n, indent)
<1>1. n.k \in {"text", "pair", "header"}
  BY DEF Goods, Node
<1>2. out = CASE n.k = "text" -> a [] n.k = "pair" -> b [] n.k = "header" -> c
  BY DEF FormatLeaf
<1>3. Shows(w, u)
  BY ShownWrote, WroteBlank
<1> HIDE DEF a, b, c, out
<1>4. CASE n.k = "text"
  <2>1. n.k # "pair" /\ n.k # "header"
    BY <1>4
  <2>2. out = a
    BY <1>2, <1>4, <2>1, Zenon
  <2>3. Shows(a, Tell(u, n))
    BY <1>4, StandaloneShown DEF a
  <2>4. QED
    BY <2>2, <2>3 DEF out
<1>5. CASE n.k = "pair"
  <2>1. n.k # "text" /\ n.k # "header"
    BY <1>5
  <2>2. out = b
    BY <1>2, <1>5, <2>1, Zenon
  <2>3. Shows(b, Tell(u, n))
    BY <2>1, ConstructShown DEF b
  <2>4. QED
    BY <2>2, <2>3 DEF out
<1>6. CASE n.k = "header"
  <2>1. n.k # "text" /\ n.k # "pair"
    BY <1>6
  <2>2. out = c
    BY <1>2, <1>6, <2>1, Zenon
  <2>3. Shows(c, Tell(u, n))
    BY <1>3, <2>1, ConstructShown DEF c
  <2>4. QED
    BY <2>2, <2>3 DEF out
<1>7. QED
  BY <1>1, <1>4, <1>5, <1>6

LEMMA UnderShown ==
  ASSUME NEW buf, NEW u, Shows(buf, u), NEW ns \in Seq(SoundLeaf)
  PROVE  Shows(Under(buf, ns), NodesTell(u, ns))
<1> DEFINE T == SoundLeaf
           m == Len(ns)
<1>1. m \in Nat /\ ns \in Seq(T) /\ \A k \in 1..m : ns[k] \in Goods
  <2>1. \A k \in 1..m : ns[k] \in SoundLeaf
    OBVIOUS
  <2>2. QED
    BY <2>1, LeafKinds
<1> HIDE DEF T
<1>2. PICK b : /\ b[0] = buf /\ b[m] = Under(buf, ns)
               /\ \A k \in 1..m : b[k] = FormatUnder(b[k - 1], ns[k])
  BY <1>1, UnderRun, SMTT(40)
<1>3. PICK v : /\ v[0] = u /\ v[m] = NodesTell(u, ns)
               /\ \A k \in 1..m : v[k] = Tell(v[k - 1], ns[k])
  <2> HIDE DEF m
  <2>1. \E f : /\ f[0] = u /\ f[Len(ns)] = NodesTell(u, ns) /\ DOMAIN f = 0..Len(ns)
               /\ \A k \in 1..Len(ns) : f[k] = Tell(f[k - 1], ns[k])
    BY <1>1, NodesRun, SMTT(30)
  <2>2. QED
    BY <2>1 DEF m
<1> HIDE DEF m
<1> DEFINE S == {k \in Nat : k <= m => Shows(b[k], v[k])}
<1>4. 0 \in S
  BY <1>2, <1>3
<1>5. ASSUME NEW k \in Nat, k \in S PROVE k + 1 \in S
  <2> SUFFICES ASSUME k + 1 <= m PROVE Shows(b[k + 1], v[k + 1])
    OBVIOUS
  <2>1. k + 1 \in 1..m /\ (k + 1) - 1 = k /\ k <= m
    BY <1>1
  <2>2. Shows(b[k], v[k])
    BY <1>5, <2>1
  <2>3. /\ b[k + 1] = FormatLeaf(b[k], ns[k + 1], 1)
        /\ v[k + 1] = Tell(v[k], ns[k + 1])
        /\ ns[k + 1] \in Goods
    BY <1>1, <1>2, <1>3, <2>1 DEF FormatUnder
  <2>4. Shows(FormatLeaf(b[k], ns[k + 1], 1), Tell(v[k], ns[k + 1]))
    BY <2>2, <2>3, LeafShown
  <2>5. QED
    BY <2>3, <2>4
<1> HIDE DEF S
<1>6. Nat \subseteq S
  BY <1>4, <1>5, Induct, Zenon
<1>7. Shows(b[m], v[m])
  BY <1>1, <1>6 DEF S
<1>8. QED
  BY <1>2, <1>3, <1>7

\* A child of the document with what is under it.
LEMMA ChildShown ==
  ASSUME NEW buf, NEW u, Shows(buf, u), NEW n \in SoundNode
  PROVE  Shows(FormatChild(buf, n), NodesTell(u, Block(n)))
<1>1. n \in Goods /\ n \in Node /\ n.children \in Seq(SoundLeaf)
  BY LeafKinds DEF SoundNode
<1>2. Shows(FormatLeaf(buf, n, 0), Tell(u, n))
  BY <1>1, LeafShown
<1>3. Shows(Under(FormatLeaf(buf, n, 0), n.children), NodesTell(Tell(u, n), n.children))
  BY <1>1, <1>2, UnderShown
<1>4. FormatChild(buf, n) = Under(FormatLeaf(buf, n, 0), n.children)
  BY UnderIs DEF FormatChild
<1>5. NodesTell(u, Block(n)) = NodesTell(Tell(u, n), n.children)
  BY <1>1, BlockTold
<1>6. QED
  BY <1>3, <1>4, <1>5

LEMMA DocumentShown ==
  ASSUME NEW d \in Document
  PROVE  Shows(Formatted(<<>>, d), Told(d))
<1> DEFINE T == SoundNode
           m == Len(d)
           p(k) == SubSeq(d, 1, k)
           v(k) == NodesTell(Nothing, Nodes(p(k)))
           e == <<>>
<1>1. m \in Nat /\ d \in Seq(T) /\ \A k \in 1..m : d[k] \in SoundNode
  BY DEF Document
<1>2. /\ p(0) = <<>> /\ p(m) = d
      /\ \A k \in 1..m : p(k - 1) \in Seq(T) /\ p(k) = Append(p(k - 1), d[k])
  BY <1>1, UpToEach
<1>3. \A n \in T : n.children \in Seq(T)
  <2>1. Seq(SoundLeaf) \subseteq Seq(SoundNode)
    BY LeafKinds, SeqMonotonic
  <2>2. QED
    BY <2>1 DEF SoundNode
<1>4. Seq(T) \subseteq Seq(Node)
  BY LeafKinds, SeqMonotonic DEF SoundNode
<1> HIDE DEF T
<1>5. PICK b : /\ b[0] = e /\ b[m] = Formatted(e, d)
               /\ \A k \in 1..m : b[k] = FormatChild(b[k - 1], d[k])
  <2> HIDE DEF e, p, m
  <2>1. \E f : /\ f[0] = e /\ f[Len(d)] = Formatted(e, d) /\ DOMAIN f = 0..Len(d)
               /\ \A k \in 1..Len(d) : f[k] = FormatChild(f[k - 1], d[k])
    BY <1>1, FormatRun, SMTT(60)
  <2>2. QED
    BY <2>1 DEF m
<1> HIDE DEF m, p
<1> DEFINE S == {k \in Nat : k <= m => Shows(b[k], v(k))}
<1>6. Shows(e, Nothing)
  <2>1. e \in Seq(Lines) /\ LinesTell(Nothing, e) = Nothing
    BY LinesNone
  <2>2. QED
    BY <2>1, NothingTold DEF Shows, Same
<1>7. v(0) = Nothing
  <2>1. <<>> \in Seq(T) /\ Len(<<>>) = 0
    OBVIOUS
  <2>2. Nodes(<<>>) = <<>>
    <3>1. Blocks(<<>>) = <<>>
      BY DEF Blocks
    <3>2. FlattenSeq(<<>>) = <<>>
      BY FlattenIs, ByLine!FlattenEmpty
    <3>3. QED
      BY <3>1, <3>2, NodesAre
  <2>3. QED
    BY <1>2, <2>2, NodesNone
<1> HIDE DEF e
<1>8. 0 \in S
  BY <1>5, <1>6, <1>7
<1>9. ASSUME NEW k \in Nat, k \in S PROVE k + 1 \in S
  <2> SUFFICES ASSUME k + 1 <= m PROVE Shows(b[k + 1], v(k + 1))
    OBVIOUS
  <2>1. k + 1 \in 1..m /\ (k + 1) - 1 = k /\ k <= m
    BY <1>1
  <2> DEFINE n == d[k + 1]
  <2>2. Shows(b[k], v(k))
    BY <1>9, <2>1
  <2>3. b[k + 1] = FormatChild(b[k], n) /\ n \in SoundNode
    BY <1>1, <1>5, <2>1
  <2>4. p(k) \in Seq(T) /\ p(k + 1) = Append(p(k), n)
    BY <1>2, <2>1
  <2> HIDE DEF n
  <2>5. Nodes(Append(p(k), n)) = Nodes(p(k)) \o Block(n)
    <3>1. n \in T
      BY <2>3 DEF T
    <3>2. QED
      BY <1>3, <2>4, <3>1, NodesAppended
  <2>6. Nodes(p(k)) \in Seq(Node) /\ Block(n) \in Seq(Node)
    <3>1. Nodes(p(k)) \in Seq(T)
      BY <1>3, <2>4, BlocksTyped
    <3>2. n \in Node
      BY <2>3, LeafKinds
    <3>3. Block(n) \in Seq(Node)
      BY <3>2, BlockTold
    <3> DEFINE z == Nodes(p(k))
    <3> HIDE DEF z
    <3>4. z \in Seq(Node)
      BY <1>4, <3>1 DEF z
    <3>5. QED
      BY <3>3, <3>4 DEF z
  <2>7. v(k + 1) = NodesTell(v(k), Block(n))
    <3> DEFINE z == Nodes(p(k))
               c == Block(n)
               N == Node
    <3>1. z \in Seq(N) /\ c \in Seq(N)
      BY <2>6
    <3>2. v(k) = NodesTell(Nothing, z) /\ v(k + 1) = NodesTell(Nothing, z \o c)
      BY <2>4, <2>5
    <3> HIDE DEF z, c, N, v
    <3>3. NodesTell(Nothing, z \o c) = NodesTell(NodesTell(Nothing, z), c)
      BY <3>1, NodesConcat
    <3>4. QED
      BY <3>2, <3>3 DEF c
  <2>8. Shows(FormatChild(b[k], n), NodesTell(v(k), Block(n)))
    BY <2>2, <2>3, ChildShown
  <2>9. QED
    BY <2>3, <2>7, <2>8
<1> HIDE DEF S, v
<1>10. Nat \subseteq S
  BY <1>8, <1>9, Induct, Zenon
<1>11. Shows(b[m], v(m))
  BY <1>1, <1>10 DEF S
<1>12. v(m) = Told(d)
  BY <1>2, TellIs DEF v, Told
<1>13. QED
  BY <1>5, <1>11, <1>12 DEF e

\* The last line is a blank one or stays.
LEMMA EndShown ==
  ASSUME NEW buf, NEW u, Shows(buf, u)
  PROVE  Shows(EnsureTrailingNewline(buf), u)
<1> DEFINE t == LinesTell(Nothing, buf)
<1>1. buf \in Seq(Lines) /\ Same(t, u) /\ Wrote(buf, t)
  BY DEF Shows, Wrote
<1> HIDE DEF t
<1>2. CASE buf = <<>>
  <2>1. Wrote(Append(buf, EmptyLine), TellLine(t, EmptyLine))
    BY <1>1, EmptyLineIs, WroteLine
  <2>2. Wrote(Append(buf, EmptyLine), t)
    BY <2>1, EmptyLineIs, TellBlank
  <2>3. Append(buf, EmptyLine) = <<EmptyLine>>
    BY <1>2
  <2>4. QED
    BY <1>1, <1>2, <2>2, <2>3, ShownWrote DEF EnsureTrailingNewline
<1>3. CASE buf # <<>> /\ Last(buf) = EmptyLine
  <2> DEFINE p == SubSeq(buf, 1, Len(buf) - 1)
  <2>1. p \in Seq(Lines) /\ buf = Append(p, EmptyLine)
    BY <1>1, <1>3, LastOf
  <2>2. EnsureTrailingNewline(buf) = p
    BY <1>3 DEF EnsureTrailingNewline, Front
  <2> HIDE DEF p
  <2>3. LinesTell(Nothing, Append(p, EmptyLine)) = TellLine(LinesTell(Nothing, p), EmptyLine)
    BY <2>1, EmptyLineIs, LinesAppend
  <2>4. LinesTell(Nothing, p) = t
    BY <2>1, <2>3, EmptyLineIs, TellBlank DEF t
  <2>5. QED
    BY <1>1, <2>1, <2>2, <2>4 DEF Shows
<1>4. CASE buf # <<>> /\ Last(buf) # EmptyLine
  BY <1>4 DEF EnsureTrailingNewline
<1>5. QED
  BY <1>2, <1>3, <1>4

---------------------------------------------------------------------------
(***************************************************************************)
(* Groups: which lines have a blank line above, before Format and after.   *)
(***************************************************************************)
Marks == [blank : BOOLEAN, above : Seq(BOOLEAN)]
Groups == INSTANCE FoldLemmas WITH Step <- GroupLine
Grouped(g, lines) == Groups!Fold(g, lines)

LEMMA GroupedIs == \A r, s : FoldLeft(GroupLine, r, s) = Grouped(r, s)
BY DEF Grouped, Groups!Fold, FoldLeft, MapThenFoldSet, Groups!FoldLeft, Groups!MapThenFoldSet,
       Max, Groups!Max

LEMMA GroupedRun ==
  ASSUME NEW T, NEW base, NEW s \in Seq(T)
  PROVE  \E f : /\ f[0] = base /\ f[Len(s)] = Grouped(base, s) /\ DOMAIN f = 0..Len(s)
                /\ \A k \in 1..Len(s) : f[k] = GroupLine(f[k - 1], s[k])
BY Groups!FoldRun DEF Grouped

LEMMA GroupedNone == \A g : Grouped(g, <<>>) = g
BY Groups!FoldEmpty DEF Grouped

LEMMA GroupedAppend ==
  ASSUME NEW T, NEW g, NEW s \in Seq(T), NEW x \in T
  PROVE  Grouped(g, Append(s, x)) = GroupLine(Grouped(g, s), x)
BY Groups!FoldAppend DEF Grouped

LEMMA GroupedConcat ==
  ASSUME NEW T, NEW g, NEW s \in Seq(T), NEW u \in Seq(T)
  PROVE  Grouped(g, s \o u) = Grouped(Grouped(g, s), u)
BY Groups!FoldConcat DEF Grouped

\* What one line does to the marks.
LEMMA OneGrouped ==
  ASSUME NEW g \in Marks, NEW line \in Lines
  PROVE  /\ GroupLine(g, line) \in Marks
         /\ line.k = "blank" =>
              GroupLine(g, line) = [blank |-> g.blank \/ line.nl, above |-> g.above]
         /\ line.k # "blank" =>
              GroupLine(g, line) = [blank |-> FALSE, above |-> Append(g.above, g.blank)]
<1>1. g.blank \in BOOLEAN /\ g.above \in Seq(BOOLEAN) /\ line.nl \in BOOLEAN
  BY DEF Marks, Lines
<1>2. CASE line.k = "blank"
  <2>1. GroupLine(g, line) = [g EXCEPT !.blank = @ \/ line.nl]
    BY <1>2 DEF GroupLine
  <2>2. [g EXCEPT !.blank = @ \/ line.nl] = [blank |-> g.blank \/ line.nl, above |-> g.above]
    BY DEF Marks
  <2>3. (g.blank \/ line.nl) \in BOOLEAN
    OBVIOUS
  <2>4. QED
    BY <1>1, <1>2, <2>1, <2>2, <2>3 DEF Marks
<1>3. CASE line.k # "blank"
  <2>1. GroupLine(g, line) = [blank |-> FALSE, above |-> Append(g.above, g.blank)]
    BY <1>3 DEF GroupLine
  <2>2. Append(g.above, g.blank) \in Seq(BOOLEAN)
    BY <1>1
  <2>3. QED
    BY <1>3, <2>1, <2>2 DEF Marks
<1>4. QED
  BY <1>2, <1>3

LEMMA GroupedTyped ==
  ASSUME NEW g \in Marks, NEW s \in Seq(Lines)
  PROVE  Grouped(g, s) \in Marks
<1>1. \A r \in Marks, x \in Lines : GroupLine(r, x) \in Marks
  BY OneGrouped
<1>2. QED
  BY <1>1, Groups!FoldKeeps DEF Grouped

\* Blank lines make no mark but that they are there.
LEMMA BlanksGrouped ==
  ASSUME NEW g \in Marks, NEW s \in Seq(BlankLines)
  PROVE  Grouped(g, s) = [blank |-> g.blank \/ (\E i \in DOMAIN s : s[i].nl), above |-> g.above]
<1> DEFINE m == Len(s)
           So(k) == [blank |-> g.blank \/ (\E i \in 1..k : s[i].nl), above |-> g.above]
<1>1. /\ m \in Nat /\ DOMAIN s = 1..m
      /\ \A i \in 1..m : s[i] \in Lines /\ s[i].k = "blank"
  BY DEF BlankLines
<1>2. PICK f : /\ f[0] = g /\ f[m] = Grouped(g, s)
               /\ \A k \in 1..m : f[k] = GroupLine(f[k - 1], s[k])
  BY GroupedRun, SMTT(30)
<1>3. g.blank \in BOOLEAN /\ g.above \in Seq(BOOLEAN) /\ g = [blank |-> g.blank, above |-> g.above]
  BY DEF Marks
<1> HIDE DEF m
<1> DEFINE S == {k \in Nat : k <= m => f[k] = So(k)}
<1>4. 0 \in S
  <2>1. (\E i \in 1..0 : s[i].nl) = FALSE
    OBVIOUS
  <2>2. (g.blank \/ (\E i \in 1..0 : s[i].nl)) = g.blank
    BY <1>3, <2>1
  <2>3. QED
    BY <1>2, <1>3, <2>2
<1>5. ASSUME NEW k \in Nat, k \in S PROVE k + 1 \in S
  <2> SUFFICES ASSUME k + 1 <= m PROVE f[k + 1] = So(k + 1)
    OBVIOUS
  <2> DEFINE a == \E i \in 1..k : s[i].nl
             c == \E i \in 1..(k + 1) : s[i].nl
             x == s[k + 1]
             h == f[k]
  <2>1. k + 1 \in 1..m /\ (k + 1) - 1 = k /\ k <= m
    BY <1>1
  <2>2. h = [blank |-> g.blank \/ a, above |-> g.above]
    BY <1>5, <2>1
  <2>3. f[k + 1] = GroupLine(h, x) /\ x \in Lines /\ x.k = "blank"
    BY <1>1, <1>2, <2>1
  <2>4. c <=> a \/ x.nl
    <3>1. 1..(k + 1) = (1..k) \cup {k + 1}
      OBVIOUS
    <3>2. QED
      BY <3>1
  <2>5. x.nl \in BOOLEAN
    BY <2>3 DEF Lines
  <2> HIDE DEF a, c, x, h
  <2>6. h \in Marks /\ h.blank = (g.blank \/ a) /\ h.above = g.above
    BY <1>3, <2>2 DEF Marks
  <2>7. GroupLine(h, x) = [blank |-> h.blank \/ x.nl, above |-> h.above]
    BY <2>3, <2>6, OneGrouped
  <2>8. (h.blank \/ x.nl) = (g.blank \/ c)
    BY <2>4, <2>6
  <2>9. f[k + 1] = [blank |-> g.blank \/ c, above |-> g.above]
    BY <2>3, <2>6, <2>7, <2>8
  <2>10. QED
    BY <2>9 DEF c
<1> HIDE DEF S, So
<1>6. Nat \subseteq S
  BY <1>4, <1>5, Induct, Zenon
<1>7. f[m] = So(m)
  BY <1>1, <1>6 DEF S
<1>8. QED
  BY <1>1, <1>2, <1>7 DEF So

\* Blank lines of Format's own: no other, none first, none behind another.
Spaced(buf) ==
  \A i \in 1..Len(buf) :
    buf[i].k = "blank" => buf[i] = EmptyLine /\ i # 1 /\ buf[i - 1].k # "blank"
\* The marks of formatted lines are those of the written ones and the openings.
Marked(g, w, o) ==
  /\ Len(g.above) = Len(w.above) /\ Len(o) = Len(w.above)
  /\ \A j \in 1..Len(o) : g.above[j] <=> (j > 1 /\ (w.above[j] \/ o[j]))
\* Where lines with the marks w and the openings o are formatted as buf, and an
\* opening is due or not.
Keeps(buf, w, o, due) ==
  LET g == Grouped(Ungrouped, buf) IN
  /\ buf \in Seq(Lines) /\ w \in Marks /\ o \in Seq(BOOLEAN) /\ due \in BOOLEAN
  /\ g \in Marks
  /\ Spaced(buf) /\ Marked(g, w, o)
  /\ buf = <<>> <=> g.above = <<>>
  /\ g.blank <=> (buf # <<>> /\ (w.blank \/ due))
  /\ buf # <<>> => (g.blank <=> Last(buf).k = "blank")

LEMMA UngroupedTyped == Ungrouped \in Marks /\ Ungrouped.blank = FALSE /\ Ungrouped.above = <<>>
<1>1. <<>> \in Seq(BOOLEAN)
  OBVIOUS
<1>2. QED
  BY <1>1 DEF Ungrouped, Marks

\* A line behind others.
LEMMA SpacedOn ==
  ASSUME NEW buf \in Seq(Lines), Spaced(buf), NEW line \in Lines,
         line.k = "blank" => line = EmptyLine /\ buf # <<>> /\ Last(buf).k # "blank"
  PROVE  Spaced(Append(buf, line))
<1> DEFINE t == Append(buf, line)
           m == Len(buf)
<1>1. /\ m \in Nat /\ Len(t) = m + 1 /\ t[m + 1] = line /\ \A i \in 1..m : t[i] = buf[i]
      /\ buf # <<>> => m # 0 /\ Last(buf) = buf[m]
  BY DEF Last
<1> HIDE DEF t, m
<1>2. SUFFICES ASSUME NEW i \in 1..(m + 1), t[i].k = "blank"
               PROVE  t[i] = EmptyLine /\ i # 1 /\ t[i - 1].k # "blank"
  BY <1>1 DEF Spaced, t
<1>3. CASE i = m + 1
  BY <1>1, <1>2, <1>3
<1>4. CASE i # m + 1
  <2>1. i \in 1..m /\ (i # 1 => i - 1 \in 1..m)
    BY <1>1, <1>4
  <2>2. t[i] = buf[i] /\ (i # 1 => t[i - 1] = buf[i - 1])
    BY <1>1, <2>1
  <2>3. QED
    BY <1>2, <2>1, <2>2 DEF Spaced, m
<1>5. QED
  BY <1>3, <1>4

\* One mark more.
LEMMA MarkedOn ==
  ASSUME NEW g \in Marks, NEW w \in Marks, NEW o \in Seq(BOOLEAN), Marked(g, w, o),
         NEW x \in Marks, NEW y \in Marks, NEW due \in BOOLEAN,
         x.above = Append(g.above, g.blank), y.above = Append(w.above, w.blank),
         g.blank <=> (g.above # <<>> /\ (w.blank \/ due))
  PROVE  Marked(x, y, Append(o, due))
<1> DEFINE m == Len(o)
           p == Append(o, due)
           a == g.above
           b == w.above
           c == x.above
           d == y.above
<1>1. /\ a \in Seq(BOOLEAN) /\ b \in Seq(BOOLEAN) /\ g.blank \in BOOLEAN /\ w.blank \in BOOLEAN
      /\ m \in Nat /\ Len(a) = m /\ Len(b) = m
      /\ \A j \in 1..m : a[j] <=> (j > 1 /\ (b[j] \/ o[j]))
  BY DEF Marks, Marked
<1> DEFINE gb == g.blank
           wb == w.blank
<1>2. c = Append(a, gb) /\ d = Append(b, wb) /\ (gb <=> (a # <<>> /\ (wb \/ due)))
  OBVIOUS
<1> HIDE DEF a, b, c, d, gb, wb
<1>3. /\ Len(c) = m + 1 /\ c[m + 1] = gb /\ \A j \in 1..m : c[j] = a[j]
      /\ Len(d) = m + 1 /\ d[m + 1] = wb /\ \A j \in 1..m : d[j] = b[j]
  BY <1>1, <1>2 DEF gb, wb
<1>4. Len(p) = m + 1 /\ p[m + 1] = due /\ \A j \in 1..m : p[j] = o[j]
  OBVIOUS
<1>5. a # <<>> <=> m + 1 > 1
  BY <1>1
<1> HIDE DEF m, p
<1>6. ASSUME NEW j \in 1..(m + 1) PROVE c[j] <=> (j > 1 /\ (d[j] \/ p[j]))
  <2>1. CASE j = m + 1
    BY <1>2, <1>3, <1>4, <1>5, <2>1
  <2>2. CASE j # m + 1
    <3>1. j \in 1..m
      BY <1>1, <2>2
    <3>2. QED
      BY <1>1, <1>3, <1>4, <3>1
  <2>3. QED
    BY <2>1, <2>2
<1>7. QED
  BY <1>3, <1>4, <1>6 DEF Marked, c, d, p

\* Format writes a blank line where the input has one or an opening is due.
LEMMA BlankKept ==
  ASSUME NEW buf, NEW w, NEW o, NEW due, Keeps(buf, w, o, due),
         NEW y \in Marks, NEW now \in BOOLEAN, y.above = w.above, y.blank \/ now
  PROVE  Keeps(WriteBlankLine(buf), y, o, now)
<1> DEFINE g == Grouped(Ungrouped, buf)
           e == EmptyLine
<1>1. /\ buf \in Seq(Lines) /\ w \in Marks /\ o \in Seq(BOOLEAN) /\ due \in BOOLEAN
      /\ g \in Marks
      /\ Spaced(buf) /\ Marked(g, w, o)
      /\ buf = <<>> <=> g.above = <<>>
      /\ g.blank <=> (buf # <<>> /\ (w.blank \/ due))
      /\ buf # <<>> => (g.blank <=> Last(buf).k = "blank")
  BY DEF Keeps
<1>2. e \in Lines /\ e.k = "blank" /\ e.nl = TRUE
  BY EmptyLineIs DEF EmptyLine, BlankLine, Line
<1>3. Marked(g, y, o)
  BY <1>1 DEF Marked
<1> HIDE DEF e
<1>4. CASE buf = <<>>
  <2>1. WriteBlankLine(buf) = buf
    BY <1>4 DEF WriteBlankLine
  <2> HIDE DEF g
  <2>2. g.blank <=> (buf # <<>> /\ (y.blank \/ now))
    BY <1>1, <1>4
  <2>3. QED
    BY <1>1, <1>3, <1>4, <2>1, <2>2 DEF Keeps, g
<1>5. CASE buf # <<>> /\ Last(buf) = e
  <2>1. WriteBlankLine(buf) = buf
    BY <1>5 DEF WriteBlankLine, e
  <2> HIDE DEF g
  <2>2. g.blank <=> (buf # <<>> /\ (y.blank \/ now))
    BY <1>1, <1>2, <1>5
  <2>3. QED
    BY <1>1, <1>3, <1>5, <2>1, <2>2 DEF Keeps, g
<1>6. CASE buf # <<>> /\ Last(buf) # e
  <2> DEFINE t == Append(buf, e)
             h == GroupLine(g, e)
  <2>1. WriteBlankLine(buf) = t
    BY <1>6 DEF WriteBlankLine, e
  <2>2. Last(buf).k # "blank"
    <3>1. Len(buf) \in 1..Len(buf) /\ Last(buf) = buf[Len(buf)]
      BY <1>1, <1>6 DEF Last
    <3>2. QED
      BY <1>1, <1>6, <3>1 DEF Spaced, e
  <2>3. Spaced(t)
    BY <1>1, <1>2, <1>6, <2>2, SpacedOn DEF e
  <2>4. Grouped(Ungrouped, t) = h
    BY <1>1, <1>2, GroupedAppend
  <2>5. h \in Marks /\ h = [blank |-> g.blank \/ e.nl, above |-> g.above]
    BY <1>1, <1>2, OneGrouped
  <2> HIDE DEF g, h
  <2>6. h.blank = TRUE /\ h.above = g.above
    BY <1>2, <2>5
  <2>7. Marked(h, y, o)
    BY <1>3, <2>6 DEF Marked
  <2>8. t \in Seq(Lines) /\ t # <<>> /\ Last(t) = e
    BY <1>1, <1>2, SMTT(60) DEF Last
  <2> HIDE DEF t
  <2>9. g.above # <<>>
    BY <1>1, <1>6
  <2>10. Keeps(t, y, o, now)
    BY <1>1, <1>2, <2>3, <2>4, <2>5, <2>6, <2>7, <2>8, <2>9 DEF Keeps
  <2>11. QED
    BY <2>1, <2>10
<1>7. QED
  BY <1>4, <1>5, <1>6

\* Format writes a line for a line.
LEMMA SolidKept ==
  ASSUME NEW buf, NEW w, NEW o, NEW due, Keeps(buf, w, o, due),
         NEW line \in Lines, line.k # "blank", NEW was \in Lines, was.k # "blank"
  PROVE  Keeps(Append(buf, line), GroupLine(w, was), Append(o, due), FALSE)
<1> DEFINE g == Grouped(Ungrouped, buf)
           h == GroupLine(g, line)
           y == GroupLine(w, was)
           t == Append(buf, line)
           p == Append(o, due)
<1>1. /\ buf \in Seq(Lines) /\ w \in Marks /\ o \in Seq(BOOLEAN) /\ due \in BOOLEAN
      /\ g \in Marks
      /\ Spaced(buf) /\ Marked(g, w, o)
      /\ buf = <<>> <=> g.above = <<>>
      /\ g.blank <=> (buf # <<>> /\ (w.blank \/ due))
      /\ buf # <<>> => (g.blank <=> Last(buf).k = "blank")
  BY DEF Keeps
<1>2. h \in Marks /\ h = [blank |-> FALSE, above |-> Append(g.above, g.blank)]
  BY <1>1, OneGrouped
<1>3. y \in Marks /\ y = [blank |-> FALSE, above |-> Append(w.above, w.blank)]
  BY <1>1, OneGrouped
<1>4. Grouped(Ungrouped, t) = h
  BY <1>1, GroupedAppend
<1>5. g.blank <=> (g.above # <<>> /\ (w.blank \/ due))
  BY <1>1
<1> HIDE DEF g, h, y
<1>6. /\ h.blank = FALSE /\ h.above = Append(g.above, g.blank)
      /\ y.blank = FALSE /\ y.above = Append(w.above, w.blank)
  BY <1>2, <1>3
<1>7. Marked(h, y, p)
  BY <1>1, <1>2, <1>3, <1>5, <1>6, MarkedOn, ZenonT(40)
<1>8. Spaced(t)
  BY <1>1, SpacedOn
<1>9. /\ t \in Seq(Lines) /\ t # <<>> /\ Last(t) = line /\ p \in Seq(BOOLEAN)
  <2>1. t \in Seq(Lines) /\ Len(t) = Len(buf) + 1 /\ t[Len(buf) + 1] = line /\ Len(buf) \in Nat
    BY <1>1
  <2>2. p \in Seq(BOOLEAN)
    BY <1>1
  <2> HIDE DEF t, p
  <2>3. t # <<>> /\ Last(t) = line
    BY <2>1 DEF Last
  <2>4. QED
    BY <2>1, <2>2, <2>3
<1>10. h.above # <<>>
  <2>1. g.above \in Seq(BOOLEAN)
    BY <1>1 DEF Marks
  <2>2. QED
    BY <1>6, <2>1
<1> HIDE DEF t, p
<1>11. Keeps(t, y, p, FALSE)
  BY <1>2, <1>3, <1>4, <1>6, <1>7, <1>8, <1>9, <1>10 DEF Keeps
<1>12. QED
  BY <1>11 DEF t, y, p

\* Format writes one blank line for a run of them.
LEMMA RunKept ==
  ASSUME NEW buf, NEW w, NEW o, NEW due, Keeps(buf, w, o, due),
         NEW run \in Seq(Ended(BlankLines))
  PROVE  Keeps(WriteRun(buf, run), Grouped(w, run), o, due)
<1>1. CASE run = <<>>
  <2>1. Grouped(w, run) = w
    BY <1>1, GroupedNone
  <2>2. QED
    BY <1>1, <2>1 DEF WriteRun
<1>2. CASE run # <<>>
  <2> DEFINE y == Grouped(w, run)
             all == \E i \in DOMAIN run : run[i].nl
  <2>1. w \in Marks /\ due \in BOOLEAN
    BY DEF Keeps
  <2>2. run \in Seq(BlankLines)
    BY LineKinds, SeqMonotonic
  <2>3. run \in Seq(Lines)
    BY <2>2, LineKinds, SeqMonotonic
  <2>4. y \in Marks
    BY <2>1, <2>3, GroupedTyped
  <2>5. y = [blank |-> w.blank \/ all, above |-> w.above]
    BY <2>1, <2>2, BlanksGrouped
  <2>6. all
    <3>1. 1 \in DOMAIN run /\ run[1].nl
      BY <1>2 DEF Ended
    <3>2. QED
      BY <3>1
  <2> HIDE DEF y, all
  <2>7. y.above = w.above /\ y.blank
    BY <2>5, <2>6
  <2>8. Keeps(WriteBlankLine(buf), y, o, due)
    BY <2>1, <2>4, <2>7, BlankKept
  <2>9. QED
    BY <1>2, <2>8 DEF WriteRun, y
<1>3. QED
  BY <1>1, <1>2

LEMMA FlattenStages ==
  ASSUME NEW T, NEW ss \in Seq(Seq(T))
  PROVE  /\ FlattenSeq(SubSeq(ss, 1, 0)) = <<>>
         /\ FlattenSeq(SubSeq(ss, 1, Len(ss))) = FlattenSeq(ss)
         /\ \A n \in 0..Len(ss) : FlattenSeq(SubSeq(ss, 1, n)) \in Seq(T)
         /\ \A n \in Nat : n < Len(ss) =>
              FlattenSeq(SubSeq(ss, 1, n + 1)) = FlattenSeq(SubSeq(ss, 1, n)) \o ss[n + 1]
<1>1. \A u : ByLine!FlattenSeq(u) = FlattenSeq(u)
  BY FlattenIs
<1>2. QED
  BY <1>1, ByLine!FlattenStages, Zenon

\* The openings of a construct's comments and of itself.
Opened(count, due) == [i \in 1..count |-> due /\ i = 1]

LEMMA OpenedOn ==
  ASSUME NEW o \in Seq(BOOLEAN), NEW due \in BOOLEAN, NEW k \in Nat
  PROVE  /\ o \o Opened(0, due) = o
         /\ Append(o \o Opened(k, due), due /\ k = 0) = o \o Opened(k + 1, due)
<1> DEFINE p == Opened(k, due)
           q == Opened(k + 1, due)
           x == due /\ k = 0
           l == o \o p
           m == Len(o)
<1>1. /\ p \in Seq(BOOLEAN) /\ Len(p) = k /\ \A i \in 1..k : p[i] = (due /\ i = 1)
      /\ q \in Seq(BOOLEAN) /\ Len(q) = k + 1 /\ \A i \in 1..(k + 1) : q[i] = (due /\ i = 1)
  BY DEF Opened
<1>2. \A i \in 1..k : q[i] = p[i]
  BY <1>1
<1>3. q[k + 1] = x
  <2>1. k + 1 \in 1..(k + 1) /\ (k + 1 = 1 <=> k = 0)
    OBVIOUS
  <2>2. q[k + 1] = (due /\ k + 1 = 1)
    BY <1>1, <2>1
  <2>3. QED
    BY <2>1, <2>2
<1>4. x \in BOOLEAN
  OBVIOUS
<1> HIDE DEF p, q, x
<1>5. q = Append(p, x)
  BY <1>1, <1>2, <1>3, <1>4
<1>6. Append(o \o p, x) = o \o Append(p, x)
  <2>1. Appends(o, p, x)
    BY <1>1, <1>4, AppendConcat
  <2>2. QED
    BY <2>1 DEF Appends
<1>7. o \o Opened(0, due) = o
  <2>1. Opened(0, due) = <<>>
    BY DEF Opened
  <2>2. QED
    BY <2>1
<1>8. QED
  BY <1>5, <1>6, <1>7 DEF p, q, x

\* formatLeadingTrivia writes one comment after the other.
Stepwise(buf, n, m) ==
  \E b : /\ b[0] = buf
         /\ FormatLeadingTrivia(buf, n) = WriteRun(b[m], BlankRun(n, m + 1))
         /\ \A k \in 1..m : b[k] = Append(WriteRun(b[k - 1], BlankRun(n, k)), n.comments[k])

LEMMA AboveSteps ==
  ASSUME NEW buf, NEW n, NEW m \in Nat, DOMAIN n.comments = 1..m, Len(n.comments) = m
  PROVE  Stepwise(buf, n, m)
<1> DEFINE cs == n.comments
           rs == [i \in DOMAIN cs |-> [run |-> BlankRun(n, i), line |-> cs[i]]]
           T == {rs[i] : i \in 1..m}
<1>1. FormatLeadingTrivia(buf, n) = WriteRun(Commented(buf, rs), BlankRun(n, m + 1))
  BY CommentedIs DEF FormatLeadingTrivia
<1>2. /\ rs = [i \in 1..m |-> rs[i]]
      /\ \A i \in 1..m : rs[i] = [run |-> BlankRun(n, i), line |-> cs[i]]
  OBVIOUS
<1> HIDE DEF rs
<1>3. \A i \in 1..m : rs[i] \in T
  OBVIOUS
<1> HIDE DEF T, cs
<1>4. rs \in Seq(T) /\ Len(rs) = m
  BY <1>2, <1>3, ASequence
<1>5. \E f : /\ f[0] = buf /\ f[Len(rs)] = Commented(buf, rs) /\ DOMAIN f = 0..Len(rs)
             /\ \A k \in 1..Len(rs) : f[k] = FormatComment(f[k - 1], rs[k])
  BY <1>4, CommentedRun, SMTT(60)
<1>6. PICK b : /\ b[0] = buf /\ b[m] = Commented(buf, rs)
               /\ \A k \in 1..m : b[k] = FormatComment(b[k - 1], rs[k])
  BY <1>4, <1>5
<1>7. \A i \in 1..m : rs[i].run = BlankRun(n, i) /\ rs[i].line = cs[i]
  BY <1>2
<1>8. \A k \in 1..m : b[k] = Append(WriteRun(b[k - 1], BlankRun(n, k)), cs[k])
  BY <1>6, <1>7 DEF FormatComment
<1>9. QED
  BY <1>1, <1>6, <1>8 DEF cs, Stepwise

\* Format writes the comments above a construct, one line for each, between
\* them a blank line for a run.
LEMMA AboveKept ==
  ASSUME NEW buf, NEW w, NEW o, NEW due, Keeps(buf, w, o, due),
         NEW n \in Node, GoodConstruct(n)
  PROVE  Keeps(FormatLeadingTrivia(buf, n), Grouped(w, RenderTrivia(n)),
               o \o Opened(Len(n.comments), due), due /\ n.comments = <<>>)
<1> DEFINE cs == n.comments
           m == Len(cs)
           B == Ended(BlankLines)
           ss == [i \in DOMAIN cs |-> Append(BlankRun(n, i), cs[i])]
<1>1. /\ m \in Nat /\ DOMAIN cs = 1..m
      /\ \A i \in 1..m : cs[i] \in Lines /\ cs[i].k = "comment"
  <2> DEFINE C == Ended(CommentLines)
  <2>1. cs \in Seq(C)
    BY DEF GoodConstruct
  <2> HIDE DEF C, cs
  <2>2. m \in Nat /\ DOMAIN cs = 1..m /\ \A i \in 1..m : cs[i] \in C
    BY <2>1
  <2>3. \A c \in C : c \in Lines /\ c.k = "comment"
    BY LineKinds DEF C
  <2>4. QED
    BY <2>2, <2>3
<1>2. \A i : BlankRun(n, i) \in Seq(B)
  <2>1. n.blanks \in Seq(Seq(B))
    BY DEF GoodConstruct
  <2> HIDE DEF B
  <2>2. <<>> \in Seq(B)
    OBVIOUS
  <2>3. QED
    BY <2>1, <2>2 DEF BlankRun
<1>3. Seq(B) \subseteq Seq(Lines)
  <2>1. B \subseteq Lines
    BY LineKinds
  <2>2. QED
    BY <2>1, SeqMonotonic
<1> HIDE DEF cs, m
<1>5. ss \in Seq(Seq(Lines)) /\ Len(ss) = m /\ \A i \in 1..m : ss[i] = Append(BlankRun(n, i), cs[i])
  <2>1. /\ ss = [i \in 1..m |-> ss[i]]
        /\ \A i \in 1..m : ss[i] = Append(BlankRun(n, i), cs[i])
    BY <1>1
  <2> HIDE DEF ss
  <2>2. \A i \in 1..m : ss[i] \in Seq(Lines)
    BY <1>1, <1>2, <1>3, <2>1, SMTT(60)
  <2>3. ss \in Seq(Seq(Lines)) /\ Len(ss) = m
    BY <1>1, <2>1, <2>2, ASequence
  <2>4. QED
    BY <2>1, <2>3
<1> HIDE DEF ss, B
<1> DEFINE x(k) == FlattenSeq(SubSeq(ss, 1, k))
<1>6. /\ x(0) = <<>> /\ x(m) = FlattenSeq(ss)
      /\ \A k \in 0..m : x(k) \in Seq(Lines)
      /\ \A k \in Nat : k < m => x(k + 1) = x(k) \o ss[k + 1]
  <2> DEFINE T == Lines
  <2>1. ss \in Seq(Seq(T))
    BY <1>5
  <2> HIDE DEF T
  <2>2. /\ FlattenSeq(SubSeq(ss, 1, 0)) = <<>>
        /\ FlattenSeq(SubSeq(ss, 1, Len(ss))) = FlattenSeq(ss)
        /\ \A k \in 0..Len(ss) : FlattenSeq(SubSeq(ss, 1, k)) \in Seq(T)
        /\ \A k \in Nat : k < Len(ss) =>
             FlattenSeq(SubSeq(ss, 1, k + 1)) = FlattenSeq(SubSeq(ss, 1, k)) \o ss[k + 1]
    BY <2>1, FlattenStages
  <2>3. QED
    BY <1>5, <2>2 DEF T
<1> HIDE DEF x
<1>7. PICK b : /\ b[0] = buf
               /\ FormatLeadingTrivia(buf, n) = WriteRun(b[m], BlankRun(n, m + 1))
               /\ \A k \in 1..m : b[k] = Append(WriteRun(b[k - 1], BlankRun(n, k)), cs[k])
  <2>1. DOMAIN n.comments = 1..m /\ Len(n.comments) = m /\ m \in Nat
    BY <1>1 DEF cs, m
  <2>2. Stepwise(buf, n, m)
    BY <2>1, AboveSteps
  <2>3. QED
    BY <2>2 DEF cs, Stepwise
<1>8. w \in Marks /\ o \in Seq(BOOLEAN) /\ due \in BOOLEAN
  BY DEF Keeps
<1> DEFINE Fits(k) == Keeps(b[k], Grouped(w, x(k)), o \o Opened(k, due), due /\ k = 0)
           S == {k \in Nat : k <= m => Fits(k)}
<1>9. 0 \in S
  <2>1. Grouped(w, x(0)) = w
    BY <1>6, GroupedNone
  <2>2. o \o Opened(0, due) = o /\ (due /\ 0 = 0) = due
    BY <1>8, OpenedOn
  <2>3. Fits(0)
    BY <1>7, <2>1, <2>2
  <2>4. QED
    BY <2>3
<1>10. ASSUME NEW k \in Nat, k \in S PROVE k + 1 \in S
  <2> SUFFICES ASSUME k + 1 <= m PROVE Fits(k + 1)
    OBVIOUS
  <2>1. k + 1 \in 1..m /\ (k + 1) - 1 = k /\ k <= m /\ k < m /\ k \in 0..m
    BY <1>1
  <2>2. Fits(k)
    BY <1>10, <2>1
  <2> DEFINE c == cs[k + 1]
             run == BlankRun(n, k + 1)
             y == Grouped(w, x(k))
             p == o \o Opened(k, due)
             a == WriteRun(b[k], run)
             is == due /\ k = 0
  <2>3. c \in Lines /\ c.k # "blank"
    BY <1>1, <2>1
  <2>4. run \in Seq(B) /\ run \in Seq(Lines) /\ x(k) \in Seq(Lines)
    BY <1>2, <1>3, <1>6, <2>1
  <2>5. b[k + 1] = Append(a, c)
    BY <1>7, <2>1
  <2>6. x(k + 1) = x(k) \o Append(run, c)
    BY <1>5, <1>6, <2>1
  <2> HIDE DEF c, run
  <2>7. Keeps(a, Grouped(y, run), p, is)
    BY <2>2, <2>4, RunKept DEF B
  <2>8. Grouped(w, x(k + 1)) = GroupLine(Grouped(y, run), c)
    <3> DEFINE z == x(k)
               h == Append(run, c)
    <3>1. z \in Seq(Lines) /\ h \in Seq(Lines)
      BY <2>3, <2>4
    <3>2. Grouped(y, h) = GroupLine(Grouped(y, run), c)
      BY <2>3, <2>4, GroupedAppend
    <3> HIDE DEF z, h, y
    <3>3. Grouped(w, z \o h) = Grouped(Grouped(w, z), h)
      BY <3>1, GroupedConcat
    <3>4. QED
      BY <2>6, <3>2, <3>3 DEF z, h, y
  <2>9. Append(p, is) = o \o Opened(k + 1, due)
    BY <1>8, OpenedOn
  <2> HIDE DEF a, p, is, y
  <2>10. Keeps(Append(a, c), GroupLine(Grouped(y, run), c), Append(p, is), FALSE)
    BY <2>3, <2>7, SolidKept
  <2>11. (due /\ k + 1 = 0) = FALSE
    OBVIOUS
  <2>12. QED
    BY <2>5, <2>8, <2>9, <2>10, <2>11
<1> HIDE DEF S, Fits
<1>11. Nat \subseteq S
  BY <1>9, <1>10, Induct, Zenon
<1>12. Fits(m)
  BY <1>1, <1>11 DEF S
<1> DEFINE last == BlankRun(n, m + 1)
           y == Grouped(w, x(m))
           p == o \o Opened(m, due)
           is == due /\ m = 0
<1>13. Keeps(WriteRun(b[m], last), Grouped(y, last), p, is)
  <2> HIDE DEF y, p, is
  <2>1. Keeps(b[m], y, p, is)
    BY <1>12 DEF Fits, y, p, is
  <2>2. QED
    BY <1>2, <2>1, RunKept DEF B
<1>14. Grouped(w, RenderTrivia(n)) = Grouped(y, last)
  <2> DEFINE z == x(m)
  <2>1. z \in Seq(Lines) /\ last \in Seq(Lines)
    BY <1>1, <1>2, <1>3, <1>6
  <2>2. RenderTrivia(n) = z \o last
    BY <1>6 DEF RenderTrivia, ss, cs, m
  <2> HIDE DEF z, last
  <2>3. Grouped(w, z \o last) = Grouped(Grouped(w, z), last)
    BY <2>1, GroupedConcat
  <2>4. QED
    BY <2>2, <2>3 DEF z
<1>15. FormatLeadingTrivia(buf, n) = WriteRun(b[m], last)
  BY <1>7
<1>16. m = 0 <=> cs = <<>>
  <2>1. cs \in Seq(Ended(CommentLines))
    BY DEF GoodConstruct, cs
  <2>2. QED
    BY <2>1 DEF m
<1>17. is = (due /\ cs = <<>>)
  BY <1>16
<1> HIDE DEF y, last, is
<1>18. QED
  BY <1>13, <1>14, <1>15, <1>17 DEF p, cs, m

OpenedBy(n) ==
  IF n.k = "text" THEN IF n.line.k = "comment" THEN <<FALSE>> ELSE <<>>
  ELSE Opened(Len(n.comments) + 1, n.k = "header")
\* The marks and the openings of nodes, one after the other.
Gauge(s, n) == [marks |-> Grouped(s.marks, SerializeNode(n)), opens |-> s.opens \o OpenedBy(n)]
Tracks(buf, s) == Keeps(buf, s.marks, s.opens, FALSE)

\* Text at the end of the input.
LEMMA StandaloneTracked ==
  ASSUME NEW buf, NEW s, Tracks(buf, s), NEW n \in Goods, n.k = "text"
  PROVE  Tracks(FormatStandaloneComment(buf, n), Gauge(s, n))
<1> DEFINE line == n.line
           raw == n.raw
           w == s.marks
           o == s.opens
           out == FormatStandaloneComment(buf, n)
           y == Grouped(w, raw)
           p == o \o OpenedBy(n)
<1>1. n \in Node /\ GoodText(n) /\ line \in Lines /\ raw \in Seq(Lines)
  <2>1. n \in Node /\ GoodText(n)
    BY DEF Goods, Good
  <2>2. QED
    BY <2>1 DEF GoodText, Node
<1>2. /\ ~n.dirty /\ raw # <<>> /\ line = raw[1]
      /\ raw \in Seq(BlankLines) \/ (Len(raw) = 1 /\ line.k = "comment")
  BY <1>1 DEF GoodText, CommentLines
<1>3. Keeps(buf, w, o, FALSE) /\ w \in Marks /\ o \in Seq(BOOLEAN)
  BY DEF Tracks, Keeps
<1>4. Gauge(s, n) = [marks |-> y, opens |-> p]
  BY <1>2 DEF Gauge, SerializeNode
<1> DEFINE a == [line EXCEPT !.nl = TRUE]
           note == <<Hash>> \o line.note
           b == [line EXCEPT !.in = 0, !.note = note, !.nl = TRUE]
           some == \E i \in DOMAIN raw : raw[i].nl
           v == IF some THEN WriteBlankLine(buf) ELSE buf
<1>5. out = CASE line.k = "comment" /\ line.in = 0 -> Append(buf, a)
              [] line.k = "comment" /\ line.in # 0 -> Append(buf, b)
              [] OTHER -> v
  BY DEF FormatStandaloneComment
<1>6. a \in Lines /\ a.k = line.k /\ b \in Lines /\ b.k = line.k
  <2>1. Hash \in Names \cup {Hash} /\ line.note \in Seq(Names \cup {Hash})
    BY <1>1 DEF Lines
  <2>2. note \in Seq(Names \cup {Hash})
    BY <2>1
  <2> HIDE DEF note
  <2>3. QED
    BY <1>1, <2>2 DEF Lines
<1>7. p = IF line.k = "comment" THEN Append(o, FALSE) ELSE o
  <2>1. OpenedBy(n) = IF line.k = "comment" THEN <<FALSE>> ELSE <<>>
    BY DEF OpenedBy
  <2> HIDE DEF o, line
  <2> DEFINE f == FALSE
  <2>2. f \in BOOLEAN
    OBVIOUS
  <2> HIDE DEF f
  <2>3. o \o <<f>> = Append(o, f) /\ o \o <<>> = o
    BY <1>3, <2>2
  <2>4. QED
    BY <2>1, <2>3 DEF f
<1> HIDE DEF a, b, v, some, out, line, w, o, y, p, raw
<1>8. SUFFICES Keeps(out, y, p, FALSE)
  <2>1. Gauge(s, n).marks = y /\ Gauge(s, n).opens = p
    BY <1>4
  <2>2. QED
    BY <2>1 DEF Tracks, out
<1>9. CASE line.k = "comment"
  <2>1. raw = <<line>>
    <3>1. raw \notin Seq(BlankLines)
      BY <1>2, <1>9 DEF BlankLines
    <3>2. QED
      BY <1>1, <1>2, <3>1
  <2>2. y = GroupLine(w, line)
    <3> DEFINE e == <<>>
    <3>1. <<line>> = Append(e, line) /\ e \in Seq(Lines)
      BY <1>1
    <3>2. Grouped(w, e) = w
      BY GroupedNone
    <3> HIDE DEF e
    <3>3. Grouped(w, Append(e, line)) = GroupLine(Grouped(w, e), line)
      BY <1>1, <3>1, GroupedAppend
    <3>4. QED
      BY <2>1, <3>1, <3>2, <3>3 DEF y
  <2>3. out = Append(buf, a) \/ out = Append(buf, b)
    BY <1>5, <1>9, Zenon
  <2>4. \A l \in {a, b} : Keeps(Append(buf, l), GroupLine(w, line), Append(o, FALSE), FALSE)
    BY <1>1, <1>3, <1>6, <1>9, SolidKept, Zenon
  <2>5. QED
    BY <1>7, <1>9, <2>2, <2>3, <2>4
<1>10. CASE line.k # "comment"
  <2>1. out = v
    BY <1>5, <1>10, Zenon
  <2>2. raw \in Seq(BlankLines) /\ p = o
    BY <1>2, <1>7, <1>10
  <2>3. y = [blank |-> w.blank \/ some, above |-> w.above]
    BY <1>3, <2>2, BlanksGrouped DEF y, some
  <2>4. y \in Marks
    BY <1>1, <1>3, GroupedTyped DEF y
  <2>5. CASE some
    <3>1. y.above = w.above /\ y.blank
      BY <2>3, <2>5
    <3>2. Keeps(WriteBlankLine(buf), y, o, FALSE)
      BY <1>3, <2>4, <3>1, BlankKept
    <3>3. QED
      BY <2>1, <2>2, <2>5, <3>2 DEF v
  <2>6. CASE ~some
    <3>1. w.blank \in BOOLEAN /\ w = [blank |-> w.blank, above |-> w.above]
      BY <1>3 DEF Marks
    <3>2. (w.blank \/ some) = w.blank
      BY <2>6, <3>1
    <3>3. y = w
      BY <2>3, <3>1, <3>2
    <3>4. QED
      BY <1>3, <2>1, <2>2, <2>6, <3>3 DEF v
  <2>7. QED
    BY <2>5, <2>6
<1>11. QED
  BY <1>9, <1>10

\* A pair or a header, behind the comments above it.
LEMMA ConstructTracked ==
  ASSUME NEW buf, NEW w, NEW o, NEW due, Keeps(buf, w, o, due),
         NEW n \in Goods, n.k # "text", NEW indent \in {0, 1}
  PROVE  Keeps(Append(FormatLeadingTrivia(buf, n), FormatLine(n, indent)),
               Grouped(w, SerializeNode(n)), o \o Opened(Len(n.comments) + 1, due), FALSE)
<1> DEFINE m == Len(n.comments)
           b == FormatLeadingTrivia(buf, n)
           r == RenderTrivia(n)
           y == Grouped(w, r)
           p == o \o Opened(m, due)
           is == due /\ n.comments = <<>>
           line == FormatLine(n, indent)
<1>1. n \in Node /\ GoodConstruct(n) /\ n.k \in {"pair", "header"}
  <2>1. n \in Node /\ GoodConstruct(n)
    BY DEF Goods, Good
  <2>2. QED
    BY <2>1 DEF GoodConstruct, Node
<1>2. o \in Seq(BOOLEAN) /\ due \in BOOLEAN /\ w \in Marks
  BY DEF Keeps
<1>3. Keeps(b, y, p, is)
  BY <1>1, AboveKept
<1>4. m \in Nat /\ (n.comments = <<>> <=> m = 0)
  <2>1. n.comments \in Seq(Ended(CommentLines))
    BY <1>1 DEF GoodConstruct
  <2>2. QED
    BY <2>1
<1>5. Append(p, is) = o \o Opened(m + 1, due)
  <2>1. is = (due /\ m = 0)
    BY <1>4
  <2>2. Append(p, due /\ m = 0) = o \o Opened(m + 1, due)
    BY <1>2, <1>4, OpenedOn
  <2>3. QED
    BY <2>1, <2>2
<1>6. line \in Lines /\ line.k # "blank"
  BY <1>1, FormatLineIs
<1>7. \E l \in Lines : l.k # "blank" /\ SerializeNode(n) = Append(r, l)
  <2>1. n.line \in Lines /\ n.line.k = n.k
    BY <1>1 DEF GoodConstruct, Node
  <2>2. CASE n.dirty
    <3>1. RenderLine(n) \in Lines /\ RenderLine(n).k = n.line.k
      BY <1>1, RenderLineIs
    <3>2. SerializeNode(n) = Append(r, RenderLine(n))
      BY <2>2 DEF SerializeNode
    <3>3. QED
      BY <1>1, <2>1, <3>1, <3>2
  <2>3. CASE ~n.dirty
    <3>1. SerializeNode(n) = Append(r, n.line)
      BY <1>1, <2>3 DEF SerializeNode, GoodConstruct
    <3>2. QED
      BY <1>1, <2>1, <3>1
  <2>4. QED
    BY <2>2, <2>3
<1>8. PICK l \in Lines : l.k # "blank" /\ SerializeNode(n) = Append(r, l)
  BY <1>7
<1>9. r \in Seq(Lines)
  <2>1. r \in Seq(Ended(Lines))
    BY <1>1, RenderTyped
  <2>2. QED
    BY <2>1, LineKinds, SeqMonotonic
<1> HIDE DEF b, p, is, line, r
<1>10. Grouped(w, Append(r, l)) = GroupLine(y, l)
  BY <1>9, GroupedAppend
<1>11. Keeps(Append(b, line), GroupLine(y, l), Append(p, is), FALSE)
  BY <1>3, <1>6, <1>8, SolidKept
<1>12. QED
  BY <1>5, <1>8, <1>10, <1>11 DEF b, line

LEMMA LeafTracked ==
  ASSUME NEW buf, NEW s, Tracks(buf, s), NEW n \in Goods, NEW indent \in {0, 1}
  PROVE  Tracks(FormatLeaf(buf, n, indent), Gauge(s, n))
<1> DEFINE a == FormatStandaloneComment(buf, n)
           b == Append(FormatLeadingTrivia(buf, n), FormatLine(n, indent))
           v == WriteBlankLine(buf)
           c == Append(FormatLeadingTrivia(v, n), FormatLine(n, indent))
           out == FormatLeaf(buf, n, indent)
           w == s.marks
           o == s.opens
           y == Grouped(w, SerializeNode(n))
           due == n.k = "header"
           m == Len(n.comments) + 1
<1>1. n.k \in {"text", "pair", "header"}
  BY DEF Goods, Node
<1>2. out = CASE n.k = "text" -> a [] n.k = "pair" -> b [] n.k = "header" -> c
  BY DEF FormatLeaf
<1>3. Keeps(buf, w, o, FALSE) /\ w \in Marks
  BY DEF Tracks, Keeps
<1>4. Gauge(s, n) = [marks |-> y, opens |-> o \o OpenedBy(n)]
  BY DEF Gauge
<1>5. n.k # "text" => OpenedBy(n) = Opened(m, due)
  BY DEF OpenedBy
<1>6. due \in BOOLEAN /\ (due <=> n.k = "header")
  OBVIOUS
<1> HIDE DEF a, b, c, out, w, o, y, v, due, m
<1>7. CASE n.k = "text"
  <2>1. n.k # "pair" /\ n.k # "header"
    BY <1>7
  <2>2. out = a
    BY <1>2, <1>7, <2>1, Zenon
  <2>3. Tracks(a, Gauge(s, n))
    BY <1>7, StandaloneTracked DEF a
  <2>4. QED
    BY <2>2, <2>3 DEF out
<1>8. CASE n.k = "pair"
  <2>1. n.k # "text" /\ n.k # "header" /\ due = FALSE
    BY <1>8, <1>6
  <2>2. out = b
    BY <1>2, <1>8, <2>1, Zenon
  <2>3. Keeps(b, y, o \o Opened(m, due), FALSE)
    BY <1>3, <2>1, ConstructTracked DEF b, y, m
  <2>4. Gauge(s, n).marks = y /\ Gauge(s, n).opens = o \o Opened(m, due)
    BY <1>4, <1>5, <2>1
  <2>5. QED
    BY <2>2, <2>3, <2>4 DEF out, Tracks
<1>9. CASE n.k = "header"
  <2>1. n.k # "text" /\ n.k # "pair" /\ due = TRUE
    BY <1>9, <1>6
  <2>2. out = c
    BY <1>2, <1>9, <2>1, Zenon
  <2>3. Keeps(v, w, o, due)
    BY <1>3, <2>1, BlankKept DEF v
  <2>4. Keeps(c, y, o \o Opened(m, due), FALSE)
    BY <2>1, <2>3, ConstructTracked DEF c, y, m
  <2>5. Gauge(s, n).marks = y /\ Gauge(s, n).opens = o \o Opened(m, due)
    <3>1. n.k # "text"
      BY <1>9
    <3>2. QED
      BY <1>4, <1>5, <3>1
  <2>6. QED
    BY <2>2, <2>4, <2>5 DEF out, Tracks
<1>10. QED
  BY <1>1, <1>7, <1>8, <1>9

Gauges == INSTANCE FoldLemmas WITH Step <- Gauge
Gauged(s, ns) == Gauges!Fold(s, ns)
Unmarked == [marks |-> Ungrouped, opens |-> <<>>]

LEMMA GaugedRun ==
  ASSUME NEW T, NEW base, NEW s \in Seq(T)
  PROVE  \E f : /\ f[0] = base /\ f[Len(s)] = Gauged(base, s) /\ DOMAIN f = 0..Len(s)
                /\ \A k \in 1..Len(s) : f[k] = Gauge(f[k - 1], s[k])
BY Gauges!FoldRun DEF Gauged

LEMMA GaugedNone == \A s : Gauged(s, <<>>) = s
BY Gauges!FoldEmpty DEF Gauged

LEMMA GaugedAppend ==
  ASSUME NEW T, NEW g, NEW s \in Seq(T), NEW x \in T
  PROVE  Gauged(g, Append(s, x)) = Gauge(Gauged(g, s), x)
BY Gauges!FoldAppend DEF Gauged

LEMMA GaugedConcat ==
  ASSUME NEW T, NEW g, NEW s \in Seq(T), NEW u \in Seq(T)
  PROVE  Gauged(g, s \o u) = Gauged(Gauged(g, s), u)
BY Gauges!FoldConcat DEF Gauged

LEMMA UnderTracked ==
  ASSUME NEW buf, NEW u, Tracks(buf, u), NEW ns \in Seq(SoundLeaf)
  PROVE  Tracks(Under(buf, ns), Gauged(u, ns))
<1> DEFINE T == SoundLeaf
           m == Len(ns)
<1>1. m \in Nat /\ ns \in Seq(T) /\ \A k \in 1..m : ns[k] \in Goods
  <2>1. \A k \in 1..m : ns[k] \in SoundLeaf
    OBVIOUS
  <2>2. QED
    BY <2>1, LeafKinds
<1> HIDE DEF T
<1>2. PICK b : /\ b[0] = buf /\ b[m] = Under(buf, ns)
               /\ \A k \in 1..m : b[k] = FormatUnder(b[k - 1], ns[k])
  BY <1>1, UnderRun, SMTT(40)
<1>3. PICK v : /\ v[0] = u /\ v[m] = Gauged(u, ns)
               /\ \A k \in 1..m : v[k] = Gauge(v[k - 1], ns[k])
  <2> HIDE DEF m
  <2>1. \E f : /\ f[0] = u /\ f[Len(ns)] = Gauged(u, ns) /\ DOMAIN f = 0..Len(ns)
               /\ \A k \in 1..Len(ns) : f[k] = Gauge(f[k - 1], ns[k])
    BY <1>1, GaugedRun, SMTT(60)
  <2>2. QED
    BY <2>1 DEF m
<1> HIDE DEF m
<1> DEFINE S == {k \in Nat : k <= m => Tracks(b[k], v[k])}
<1>4. 0 \in S
  BY <1>2, <1>3
<1>5. ASSUME NEW k \in Nat, k \in S PROVE k + 1 \in S
  <2> SUFFICES ASSUME k + 1 <= m PROVE Tracks(b[k + 1], v[k + 1])
    OBVIOUS
  <2>1. k + 1 \in 1..m /\ (k + 1) - 1 = k /\ k <= m
    BY <1>1
  <2>2. Tracks(b[k], v[k])
    BY <1>5, <2>1
  <2>3. /\ b[k + 1] = FormatLeaf(b[k], ns[k + 1], 1)
        /\ v[k + 1] = Gauge(v[k], ns[k + 1])
        /\ ns[k + 1] \in Goods
    BY <1>1, <1>2, <1>3, <2>1 DEF FormatUnder
  <2>4. Tracks(FormatLeaf(b[k], ns[k + 1], 1), Gauge(v[k], ns[k + 1]))
    BY <2>2, <2>3, LeafTracked
  <2>5. QED
    BY <2>3, <2>4
<1> HIDE DEF S
<1>6. Nat \subseteq S
  BY <1>4, <1>5, Induct, Zenon
<1>7. Tracks(b[m], v[m])
  BY <1>1, <1>6 DEF S
<1>8. QED
  BY <1>2, <1>3, <1>7

LEMMA GaugedOne ==
  ASSUME NEW T, NEW u, NEW n \in T
  PROVE  Gauged(u, <<n>>) = Gauge(u, n)
<1> DEFINE e == <<>>
<1>1. e \in Seq(T) /\ n \in T
  OBVIOUS
<1>5. Append(e, n) = <<n>>
  OBVIOUS
<1>2. Gauged(u, e) = u
  BY GaugedNone
<1> HIDE DEF e
<1>3. Gauged(u, Append(e, n)) = Gauge(Gauged(u, e), n)
  BY <1>1, GaugedAppend
<1>4. QED
  BY <1>2, <1>3, <1>5

LEMMA BlockGauged ==
  ASSUME NEW u, NEW n \in Goods, n.children \in Seq(SoundLeaf)
  PROVE  Gauged(u, Block(n)) = Gauged(Gauge(u, n), n.children)
<1> DEFINE c == n.children
           T == Goods
<1>1. c \in Seq(T) /\ n \in T
  BY LeafKinds, SeqMonotonic
<1> HIDE DEF c, T
<1> DEFINE h == <<n>>
<1>2. h \in Seq(T)
  BY <1>1
<1>3. Gauged(u, h) = Gauge(u, n)
  BY <1>1, GaugedOne
<1> HIDE DEF h
<1>4. Gauged(u, h \o c) = Gauged(Gauged(u, h), c)
  BY <1>1, <1>2, GaugedConcat
<1>5. QED
  BY <1>3, <1>4 DEF Block, c, h

\* A child of the document with what is under it.
LEMMA ChildTracked ==
  ASSUME NEW buf, NEW u, Tracks(buf, u), NEW n \in SoundNode
  PROVE  Tracks(FormatChild(buf, n), Gauged(u, Block(n)))
<1> DEFINE c == n.children
<1>1. n \in Goods /\ n \in Node /\ c \in Seq(SoundLeaf)
  BY LeafKinds DEF SoundNode
<1>2. Tracks(FormatLeaf(buf, n, 0), Gauge(u, n))
  BY <1>1, LeafTracked
<1>3. Tracks(Under(FormatLeaf(buf, n, 0), c), Gauged(Gauge(u, n), c))
  BY <1>1, <1>2, UnderTracked
<1>4. FormatChild(buf, n) = Under(FormatLeaf(buf, n, 0), c)
  BY UnderIs DEF FormatChild
<1>5. Gauged(u, Block(n)) = Gauged(Gauge(u, n), c)
  BY <1>1, BlockGauged
<1>6. QED
  BY <1>3, <1>4, <1>5

LEMMA OpenedTyped ==
  \A n \in Goods : OpenedBy(n) \in Seq(BOOLEAN)
<1> SUFFICES ASSUME NEW n \in Goods PROVE OpenedBy(n) \in Seq(BOOLEAN)
  OBVIOUS
<1>1. <<FALSE>> \in Seq(BOOLEAN) /\ <<>> \in Seq(BOOLEAN)
  OBVIOUS
<1>2. \A k \in Nat : \A due : Opened(k, due) \in Seq(BOOLEAN)
  BY DEF Opened
<1>3. Len(n.comments) + 1 \in Nat
  <2>1. n.comments \in Seq(Lines)
    BY DEF Goods, Node
  <2>2. QED
    BY <2>1
<1>4. QED
  BY <1>1, <1>2, <1>3 DEF OpenedBy

\* What the nodes gauge is what their lines are grouped as.
LEMMA GaugedIs ==
  ASSUME NEW ns \in Seq(Goods)
  PROVE  LET lines == FlattenSeq([i \in DOMAIN ns |-> SerializeNode(ns[i])])
             opens == FlattenSeq([i \in DOMAIN ns |-> OpenedBy(ns[i])])
         IN /\ lines \in Seq(Lines) /\ opens \in Seq(BOOLEAN)
            /\ Gauged(Unmarked, ns) = [marks |-> Grouped(Ungrouped, lines), opens |-> opens]
<1> DEFINE m == Len(ns)
           ss == [i \in DOMAIN ns |-> SerializeNode(ns[i])]
           os == [i \in DOMAIN ns |-> OpenedBy(ns[i])]
           T == Goods
           L == Lines
           B == BOOLEAN
<1>1. m \in Nat /\ DOMAIN ns = 1..m /\ ns \in Seq(T) /\ \A i \in 1..m : ns[i] \in T
  OBVIOUS
<1>2. \A n \in T : SerializeNode(n) \in Seq(L) /\ OpenedBy(n) \in Seq(B)
  BY SerializedReadable, OpenedTyped
<1> HIDE DEF T
<1>3. PICK v : /\ v[0] = Unmarked /\ v[m] = Gauged(Unmarked, ns)
               /\ \A k \in 1..m : v[k] = Gauge(v[k - 1], ns[k])
  <2> DEFINE u == Unmarked
  <2> HIDE DEF m, u
  <2>1. ns \in Seq(T)
    BY <1>1
  <2>2. \E f : /\ f[0] = u /\ f[Len(ns)] = Gauged(u, ns) /\ DOMAIN f = 0..Len(ns)
               /\ \A k \in 1..Len(ns) : f[k] = Gauge(f[k - 1], ns[k])
    BY <2>1, GaugedRun, SMTT(40)
  <2>3. QED
    BY <2>2 DEF m, u
<1> HIDE DEF m, L, B
<1>4. /\ ss \in Seq(Seq(L)) /\ Len(ss) = m /\ \A i \in 1..m : ss[i] = SerializeNode(ns[i])
      /\ os \in Seq(Seq(B)) /\ Len(os) = m /\ \A i \in 1..m : os[i] = OpenedBy(ns[i])
  <2>1. /\ ss = [i \in 1..m |-> ss[i]] /\ \A i \in 1..m : ss[i] = SerializeNode(ns[i])
        /\ os = [i \in 1..m |-> os[i]] /\ \A i \in 1..m : os[i] = OpenedBy(ns[i])
    BY <1>1
  <2> DEFINE P == Seq(L)
             Q == Seq(B)
  <2>2. \A i \in 1..m : ss[i] \in P /\ os[i] \in Q
    BY <1>1, <1>2, <2>1
  <2> HIDE DEF P, Q, ss, os
  <2>3. ss \in Seq(P) /\ Len(ss) = m
    BY <1>1, <2>1, <2>2, ASequence
  <2>4. os \in Seq(Q) /\ Len(os) = m
    BY <1>1, <2>1, <2>2, ASequence
  <2>5. QED
    BY <2>1, <2>3, <2>4 DEF P, Q
<1> HIDE DEF ss, os
<1> DEFINE x(k) == FlattenSeq(SubSeq(ss, 1, k))
           y(k) == FlattenSeq(SubSeq(os, 1, k))
<1>5. /\ x(0) = <<>> /\ x(m) = FlattenSeq(ss)
      /\ \A k \in 0..m : x(k) \in Seq(L)
      /\ \A k \in Nat : k < m => x(k + 1) = x(k) \o ss[k + 1]
  <2>1. /\ FlattenSeq(SubSeq(ss, 1, 0)) = <<>>
        /\ FlattenSeq(SubSeq(ss, 1, Len(ss))) = FlattenSeq(ss)
        /\ \A n \in 0..Len(ss) : FlattenSeq(SubSeq(ss, 1, n)) \in Seq(L)
        /\ \A n \in Nat : n < Len(ss) =>
             FlattenSeq(SubSeq(ss, 1, n + 1)) = FlattenSeq(SubSeq(ss, 1, n)) \o ss[n + 1]
    BY <1>4, FlattenStages
  <2>2. QED
    BY <1>4, <2>1
<1>6. /\ y(0) = <<>> /\ y(m) = FlattenSeq(os)
      /\ \A k \in 0..m : y(k) \in Seq(B)
      /\ \A k \in Nat : k < m => y(k + 1) = y(k) \o os[k + 1]
  <2>1. /\ FlattenSeq(SubSeq(os, 1, 0)) = <<>>
        /\ FlattenSeq(SubSeq(os, 1, Len(os))) = FlattenSeq(os)
        /\ \A n \in 0..Len(os) : FlattenSeq(SubSeq(os, 1, n)) \in Seq(B)
        /\ \A n \in Nat : n < Len(os) =>
             FlattenSeq(SubSeq(os, 1, n + 1)) = FlattenSeq(SubSeq(os, 1, n)) \o os[n + 1]
    BY <1>4, FlattenStages
  <2>2. QED
    BY <1>4, <2>1
<1> HIDE DEF x, y
<1> DEFINE Were(k) == [marks |-> Grouped(Ungrouped, x(k)), opens |-> y(k)]
           S == {k \in Nat : k <= m => v[k] = Were(k)}
<1>7. 0 \in S
  <2>1. Grouped(Ungrouped, x(0)) = Ungrouped
    BY <1>5, GroupedNone
  <2>2. QED
    BY <1>3, <1>6, <2>1 DEF Unmarked
<1>8. ASSUME NEW k \in Nat, k \in S PROVE k + 1 \in S
  <2> SUFFICES ASSUME k + 1 <= m PROVE v[k + 1] = Were(k + 1)
    OBVIOUS
  <2>1. k + 1 \in 1..m /\ (k + 1) - 1 = k /\ k <= m /\ k < m /\ k \in 0..m
    BY <1>1
  <2>2. v[k] = Were(k)
    BY <1>8, <2>1
  <2> DEFINE n == ns[k + 1]
             a == x(k)
             c == ss[k + 1]
  <2>3. /\ v[k + 1] = Gauge(v[k], n) /\ c = SerializeNode(n) /\ os[k + 1] = OpenedBy(n)
        /\ a \in Seq(L) /\ c \in Seq(L) /\ x(k + 1) = a \o c /\ y(k + 1) = y(k) \o OpenedBy(n)
    BY <1>1, <1>2, <1>3, <1>4, <1>5, <1>6, <2>1
  <2> HIDE DEF n, a, c
  <2>4. Grouped(Ungrouped, a \o c) = Grouped(Grouped(Ungrouped, a), c)
    BY <2>3, GroupedConcat
  <2>5. v[k].marks = Grouped(Ungrouped, a) /\ v[k].opens = y(k)
    BY <2>2 DEF a
  <2>6. Gauge(v[k], n) = [marks |-> Grouped(v[k].marks, c), opens |-> v[k].opens \o OpenedBy(n)]
    BY <2>3 DEF Gauge
  <2>7. QED
    BY <2>3, <2>4, <2>5, <2>6
<1> HIDE DEF S, Were
<1>9. Nat \subseteq S
  BY <1>7, <1>8, Induct, Zenon
<1>10. v[m] = Were(m)
  BY <1>1, <1>9 DEF S
<1>11. m \in 0..m
  BY <1>1
<1>12. QED
  BY <1>3, <1>5, <1>6, <1>10, <1>11 DEF Were, ss, os, L, B

LEMMA NothingTracked == Tracks(<<>>, Unmarked)
<1> DEFINE e == <<>>
<1>1. e \in Seq(Lines) /\ e \in Seq(BOOLEAN) /\ Len(e) = 0
  OBVIOUS
<1>2. Grouped(Ungrouped, e) = Ungrouped
  BY GroupedNone
<1>3. Unmarked.marks = Ungrouped /\ Unmarked.opens = e
  BY DEF Unmarked
<1>4. Ungrouped.above = e
  BY UngroupedTyped
<1> HIDE DEF e
<1>5. Spaced(e) /\ Marked(Ungrouped, Ungrouped, e)
  BY <1>1, <1>4 DEF Spaced, Marked
<1>6. Keeps(e, Ungrouped, e, FALSE)
  BY <1>1, <1>2, <1>4, <1>5, UngroupedTyped DEF Keeps, e
<1>7. QED
  BY <1>3, <1>6 DEF Tracks, e

LEMMA DocumentTracked ==
  ASSUME NEW d \in Document
  PROVE  Tracks(Formatted(<<>>, d), Gauged(Unmarked, Nodes(d)))
<1> DEFINE T == SoundNode
           m == Len(d)
           p(k) == SubSeq(d, 1, k)
           v(k) == Gauged(Unmarked, Nodes(p(k)))
           e == <<>>
<1>1. m \in Nat /\ d \in Seq(T) /\ \A k \in 1..m : d[k] \in SoundNode
  BY DEF Document
<1>2. /\ p(0) = <<>> /\ p(m) = d
      /\ \A k \in 1..m : p(k - 1) \in Seq(T) /\ p(k) = Append(p(k - 1), d[k])
  BY <1>1, UpToEach
<1>3. \A n \in T : n.children \in Seq(T)
  <2>1. Seq(SoundLeaf) \subseteq Seq(SoundNode)
    BY LeafKinds, SeqMonotonic
  <2>2. QED
    BY <2>1 DEF SoundNode
<1>4. Seq(T) \subseteq Seq(Node)
  BY LeafKinds, SeqMonotonic DEF SoundNode
<1> HIDE DEF T
<1>5. PICK b : /\ b[0] = e /\ b[m] = Formatted(e, d)
               /\ \A k \in 1..m : b[k] = FormatChild(b[k - 1], d[k])
  <2> HIDE DEF e, p, m
  <2>1. \E f : /\ f[0] = e /\ f[Len(d)] = Formatted(e, d) /\ DOMAIN f = 0..Len(d)
               /\ \A k \in 1..Len(d) : f[k] = FormatChild(f[k - 1], d[k])
    BY <1>1, FormatRun, SMTT(60)
  <2>2. QED
    BY <2>1 DEF m
<1> HIDE DEF m, p
<1> DEFINE S == {k \in Nat : k <= m => Tracks(b[k], v(k))}
<1>6. Tracks(e, Unmarked)
  BY NothingTracked
<1>7. v(0) = Unmarked
  <2>1. <<>> \in Seq(T) /\ Len(<<>>) = 0
    OBVIOUS
  <2>2. Nodes(<<>>) = <<>>
    <3>1. Blocks(<<>>) = <<>>
      BY DEF Blocks
    <3>2. FlattenSeq(<<>>) = <<>>
      BY FlattenIs, ByLine!FlattenEmpty
    <3>3. QED
      BY <3>1, <3>2, NodesAre
  <2>3. QED
    BY <1>2, <2>2, GaugedNone
<1> HIDE DEF e
<1>8. 0 \in S
  BY <1>5, <1>6, <1>7
<1>9. ASSUME NEW k \in Nat, k \in S PROVE k + 1 \in S
  <2> SUFFICES ASSUME k + 1 <= m PROVE Tracks(b[k + 1], v(k + 1))
    OBVIOUS
  <2>1. k + 1 \in 1..m /\ (k + 1) - 1 = k /\ k <= m
    BY <1>1
  <2> DEFINE n == d[k + 1]
  <2>2. Tracks(b[k], v(k))
    BY <1>9, <2>1
  <2>3. b[k + 1] = FormatChild(b[k], n) /\ n \in SoundNode
    BY <1>1, <1>5, <2>1
  <2>4. p(k) \in Seq(T) /\ p(k + 1) = Append(p(k), n)
    BY <1>2, <2>1
  <2> HIDE DEF n
  <2>5. Nodes(Append(p(k), n)) = Nodes(p(k)) \o Block(n)
    <3>1. n \in T
      BY <2>3 DEF T
    <3>2. QED
      BY <1>3, <2>4, <3>1, NodesAppended
  <2>6. Nodes(p(k)) \in Seq(Node) /\ Block(n) \in Seq(Node)
    <3>1. Nodes(p(k)) \in Seq(T)
      BY <1>3, <2>4, BlocksTyped
    <3>2. n \in Node
      BY <2>3, LeafKinds
    <3>3. Block(n) \in Seq(Node)
      BY <3>2, BlockTold
    <3> DEFINE z == Nodes(p(k))
    <3> HIDE DEF z
    <3>4. z \in Seq(Node)
      BY <1>4, <3>1 DEF z
    <3>5. QED
      BY <3>3, <3>4 DEF z
  <2>7. v(k + 1) = Gauged(v(k), Block(n))
    <3> DEFINE z == Nodes(p(k))
               c == Block(n)
               N == Node
    <3>1. z \in Seq(N) /\ c \in Seq(N)
      BY <2>6
    <3>2. v(k) = Gauged(Unmarked, z) /\ v(k + 1) = Gauged(Unmarked, z \o c)
      BY <2>4, <2>5
    <3> HIDE DEF z, c, N, v
    <3>3. Gauged(Unmarked, z \o c) = Gauged(Gauged(Unmarked, z), c)
      BY <3>1, GaugedConcat
    <3>4. QED
      BY <3>2, <3>3 DEF c
  <2>8. Tracks(FormatChild(b[k], n), Gauged(v(k), Block(n)))
    BY <2>2, <2>3, ChildTracked
  <2>9. QED
    BY <2>3, <2>7, <2>8
<1> HIDE DEF S, v
<1>10. Nat \subseteq S
  BY <1>8, <1>9, Induct, Zenon
<1>11. Tracks(b[m], v(m))
  BY <1>1, <1>10 DEF S
<1>12. v(m) = Gauged(Unmarked, Nodes(d))
  BY <1>2 DEF v
<1>13. QED
  BY <1>5, <1>11, <1>12 DEF e

\* ensureTrailingNewline takes a blank line at the end away, and no mark.
EndsSolid(text) ==
  \A i \in DOMAIN text :
    text[i].k = "blank" => text[i] = EmptyLine /\ i \notin {1, Len(text)} /\ text[i - 1].k # "blank"

LEMMA EndGrouped ==
  ASSUME NEW buf, NEW w, NEW o, NEW due, Keeps(buf, w, o, due)
  PROVE  LET text == EnsureTrailingNewline(buf) IN
         /\ Grouped(Ungrouped, text).above = Grouped(Ungrouped, buf).above
         /\ text = <<EmptyLine>> \/ EndsSolid(text)
<1> DEFINE g == Grouped(Ungrouped, buf)
           e == EmptyLine
           m == Len(buf)
<1>1. buf \in Seq(Lines) /\ g \in Marks /\ Spaced(buf) /\ m \in Nat /\ DOMAIN buf = 1..m
  BY DEF Keeps
<1>2. e \in Lines /\ e.k = "blank"
  BY EmptyLineIs
<1>3. \A h \in Marks : GroupLine(h, e).above = h.above
  <2>1. \A h \in Marks : GroupLine(h, e) = [blank |-> h.blank \/ e.nl, above |-> h.above]
    BY <1>2, OneGrouped
  <2>2. QED
    BY <2>1
<1> HIDE DEF e
<1>4. CASE buf = <<>>
  <2>1. EnsureTrailingNewline(buf) = <<e>> /\ <<e>> = Append(buf, e)
    BY <1>4 DEF EnsureTrailingNewline, e
  <2>2. Grouped(Ungrouped, Append(buf, e)) = GroupLine(g, e)
    BY <1>1, <1>2, GroupedAppend
  <2> HIDE DEF g
  <2>3. GroupLine(g, e).above = g.above
    BY <1>1, <1>3
  <2>4. QED
    BY <2>1, <2>2, <2>3 DEF g, e
<1>5. CASE buf # <<>> /\ Last(buf) = e
  <2> DEFINE p == SubSeq(buf, 1, m - 1)
             h == Grouped(Ungrouped, p)
  <2>1. p \in Seq(Lines) /\ Last(buf) = buf[m] /\ buf = Append(p, buf[m])
    BY <1>1, <1>5, LastOf
  <2>2. EnsureTrailingNewline(buf) = p
    BY <1>5 DEF EnsureTrailingNewline, Front, e
  <2>3. /\ m \in 1..m /\ Len(p) = m - 1 /\ DOMAIN p = 1..(m - 1)
        /\ \A i \in 1..(m - 1) : p[i] = buf[i] /\ i \in 1..m
    BY <1>1, <1>5
  <2> HIDE DEF p
  <2>4. buf[m].k = "blank"
    BY <1>2, <1>5, <2>1
  <2>5. m # 1 /\ buf[m - 1].k # "blank"
    BY <1>1, <2>3, <2>4 DEF Spaced
  <2>6. g = GroupLine(h, e)
    <3>1. Grouped(Ungrouped, Append(p, e)) = GroupLine(Grouped(Ungrouped, p), e)
      BY <1>2, <2>1, GroupedAppend
    <3>2. buf = Append(p, e)
      BY <1>5, <2>1
    <3>3. QED
      BY <3>1, <3>2
  <2>7. h \in Marks
    BY <2>1, UngroupedTyped, GroupedTyped
  <2>8. h.above = g.above
    BY <1>3, <2>6, <2>7
  <2>9. EndsSolid(p)
    <3> SUFFICES ASSUME NEW i \in 1..(m - 1), p[i].k = "blank"
                 PROVE  p[i] = e /\ i # 1 /\ i # m - 1 /\ p[i - 1].k # "blank"
      BY <2>3 DEF EndsSolid, e
    <3>1. buf[i] = e /\ i # 1 /\ buf[i - 1].k # "blank"
      BY <2>3, <1>1 DEF Spaced, e
    <3>2. i - 1 \in 1..(m - 1)
      BY <1>1, <3>1
    <3>3. i # m - 1
      BY <2>3, <2>5
    <3>4. QED
      BY <2>3, <3>1, <3>2, <3>3
  <2>10. QED
    BY <2>2, <2>8, <2>9
<1>6. CASE buf # <<>> /\ Last(buf) # e
  <2>1. EnsureTrailingNewline(buf) = buf
    BY <1>6 DEF EnsureTrailingNewline, e
  <2>2. buf[m].k # "blank"
    <3>1. m \in 1..m /\ Last(buf) = buf[m]
      BY <1>1, <1>6 DEF Last
    <3>2. QED
      BY <1>1, <1>6, <3>1 DEF Spaced, e
  <2>3. EndsSolid(buf)
    BY <1>1, <2>2 DEF EndsSolid, Spaced
  <2>4. QED
    BY <2>1, <2>3
<1>7. QED
  BY <1>4, <1>5, <1>6

---------------------------------------------------------------------------
(***************************************************************************)
(* The theorems.                                                           *)
(***************************************************************************)
\* No edit of a document loses a comment: what was read or written stays in the
\* tree until a call takes it or its construct away (setVal, renamePart,
\* storeContents, deleteKeyFromParent, permuteNodes, setComment,
\* setLeadingComments).
THEOREM DocumentKeepsComments == Spec => []CommentsStay
<1>1. IInv => CommentsStay
  BY DEF IInv
<1>2. QED
  BY <1>1, InitInv, NextInv, PTL DEF Spec


\* A call writes the fragment it is about and no other (setVal, setComment,
\* setLeadingComments, renderKeyValue, renderLineTail).
THEOREM WritesStayLocal == Spec => OtherLinesStand
<1> DEFINE SetKept == \A p \in Pairs, v \in Values :
             Set(p, v) =>
               LET i == IndexOf(p) IN
               /\ OnlyOwnLinesChange(i)
               /\ Own(doc', i) = [Own(doc, i) EXCEPT ![Len(Own(doc, i))].x = v]
           CommentKept == \A p \in Constructs, note \in Written :
             SetComment(p, note) =>
               LET i == IndexOf(p)
                   was == Last(Own(doc, i))
                   is == Last(Own(doc', i))
               IN
               /\ OnlyOwnLinesChange(i)
               /\ Front(Own(doc', i)) = Front(Own(doc, i))
               /\ is = [was EXCEPT !.note = note, !.gap = is.gap]
               /\ was.note # <<>> /\ note # <<>> => is.gap = was.gap
           LeadingKept == \A p \in Constructs, notes \in Leads :
             SetLeadingComments(p, notes) =>
               LET i == IndexOf(p) IN
               /\ OnlyOwnLinesChange(i)
               /\ Own(doc', i)
                    = Recommented(Own(doc, i), [j \in DOMAIN notes |-> CommentLine(0, notes[j])])
           Stand == SetKept /\ CommentKept /\ LeadingKept
<1>1. ASSUME IInv PROVE SetKept
  BY <1>1, SetLines
<1>2. ASSUME IInv PROVE CommentKept
  BY <1>2, SetCommentLines, Zenon
<1>3. ASSUME IInv PROVE LeadingKept
  BY <1>3, SetLeadingLines
<1>4. IInv /\ [Next]_vars => [/\ SetKept /\ CommentKept /\ LeadingKept]_vars
  <2> HIDE DEF SetKept, CommentKept, LeadingKept
  <2>1. QED
    BY <1>1, <1>2, <1>3
<1>5. QED
  BY <1>4, InitInv, NextInv, PTL DEF Spec, OtherLinesStand

\* However a document was edited, its bytes can be read, a construct never
\* continuing the line before it, and tell the constructs in their order, each
\* under its comments (serializeChildren, renderTrivia, renderLineTail,
\* collectLeadingTrivia, emitOrphanTrivia).
THEOREM DocumentReads == Spec => []DocumentReadsBack
<1>1. IInv => DocumentReadsBack
  <2> SUFFICES ASSUME IInv PROVE DocumentReadsBack
    OBVIOUS
  <2>1. doc \in Document
    BY DEF IInv
  <2> DEFINE text == Bytes(doc)
  <2>2. text \in Seq(Lines) /\ Readable(text) /\ LinesTell(Nothing, text) = Told(doc)
    BY <2>1, BytesTold
  <2> HIDE DEF text
  <2>3. Told(ParseDocument(text)) = LinesTell(Nothing, text)
    BY <2>2, ParsedTold
  <2>4. QED
    BY <2>2, <2>3 DEF DocumentReadsBack, text
<1>2. QED
  BY <1>1, InitInv, NextInv, PTL DEF Spec

\* Format drops no construct and no comment and moves none: its lines read back
\* as the document's constructs in their order, each under its comments (Format,
\* formatNode, formatLeadingTrivia, formatStandaloneComment,
\* ensureTrailingNewline).
THEOREM FormatReadsSame == Spec => []FormatKeepsComments
<1>1. IInv => FormatKeepsComments
  <2> SUFFICES ASSUME IInv PROVE FormatKeepsComments
    OBVIOUS
  <2>1. doc \in Document
    BY DEF IInv
  <2> DEFINE text == Format(doc)
  <2>2. text = EnsureTrailingNewline(Formatted(<<>>, doc))
    BY FormatIs DEF Format
  <2> HIDE DEF text
  <2>3. Shows(text, Told(doc))
    BY <2>1, <2>2, DocumentShown, EndShown
  <2>4. Told(ParseDocument(text)) = LinesTell(Nothing, text)
    BY <2>3, ParsedTold DEF Shows
  <2>5. Plain(Told(ParseDocument(text))) = Plain(Told(doc))
    BY <2>3, <2>4 DEF Shows, Same
  <2>6. QED
    BY <2>5 DEF FormatKeepsComments, text
<1>2. QED
  BY <1>1, InitInv, NextInv, PTL DEF Spec

\* Format keeps the writer's groups: a line of the formatted document that is
\* not blank has a blank line above, one and no more, where it had one or where
\* it opens what belongs to a header, but for the first; none stands at either
\* end (writeBlankLine, formatLeadingTrivia, formatTableSeparation,
\* formatStandaloneComment, ensureTrailingNewline).
THEOREM FormatGroups == Spec => []FormatKeepsGroups
<1>1. IInv => FormatKeepsGroups
  <2> SUFFICES ASSUME IInv PROVE FormatKeepsGroups
    OBVIOUS
  <2> DEFINE ns == Nodes(doc)
             buf == Formatted(<<>>, doc)
             text == Format(doc)
             lines == WrittenLines(doc)
             w == Grouped(Ungrouped, lines)
             o == Openings(doc)
             is == Grouping(text)
  <2>1. doc \in Document
    BY DEF IInv
  <2>2. ns \in Seq(Goods)
    <3>1. \A n \in SoundNode : n.children \in Seq(SoundNode)
      <4>1. Seq(SoundLeaf) \subseteq Seq(SoundNode)
        BY LeafKinds, SeqMonotonic
      <4>2. QED
        BY <4>1 DEF SoundNode
    <3>2. ns \in Seq(SoundNode)
      BY <2>1, <3>1, BlocksTyped DEF Document
    <3>3. QED
      BY <3>2, LeafKinds, SeqMonotonic
  <2>3. /\ o \in Seq(BOOLEAN)
        /\ Gauged(Unmarked, ns) = [marks |-> w, opens |-> o]
    <3> DEFINE a == FlattenSeq([i \in DOMAIN ns |-> SerializeNode(ns[i])])
               c == FlattenSeq([i \in DOMAIN ns |-> OpenedBy(ns[i])])
    <3>1. lines = a
      BY DEF WrittenLines
    <3>2. o = c
      BY DEF Openings, OpenedBy, Opened
    <3> HIDE DEF ns, lines, o, a, c
    <3>3. c \in Seq(BOOLEAN) /\ Gauged(Unmarked, ns) = [marks |-> Grouped(Ungrouped, a), opens |-> c]
      BY <2>2, GaugedIs DEF a, c
    <3>4. QED
      BY <3>1, <3>2, <3>3
  <2>4. Tracks(buf, Gauged(Unmarked, ns))
    BY <2>1, DocumentTracked
  <2>5. Keeps(buf, w, o, FALSE)
    <3> HIDE DEF ns, buf, w, o
    <3>1. Gauged(Unmarked, ns).marks = w /\ Gauged(Unmarked, ns).opens = o
      BY <2>3
    <3>2. QED
      BY <2>4, <3>1 DEF Tracks
  <2>6. text = EnsureTrailingNewline(buf)
    BY FormatIs DEF Format
  <2>7. is = Grouped(Ungrouped, text).above /\ Grouping(lines) = w.above
    BY GroupedIs DEF Grouping
  <2> HIDE DEF buf, text, lines, w, o, is, ns
  <2>8. is = Grouped(Ungrouped, buf).above /\ (text = <<EmptyLine>> \/ EndsSolid(text))
    BY <2>5, <2>6, <2>7, EndGrouped
  <2> DEFINE was == w.above
  <2>9. Marked(Grouped(Ungrouped, buf), w, o) /\ w \in Marks /\ Grouped(Ungrouped, buf) \in Marks
    BY <2>5 DEF Keeps
  <2>10. /\ is \in Seq(BOOLEAN) /\ was \in Seq(BOOLEAN) /\ Len(is) = Len(was) /\ Len(o) = Len(was)
         /\ \A j \in 1..Len(o) : is[j] <=> (j > 1 /\ (was[j] \/ o[j]))
    BY <2>8, <2>9 DEF Marked, Marks
  <2> HIDE DEF was
  <2>11. DOMAIN is = DOMAIN was /\ \A j \in DOMAIN is : is[j] <=> j > 1 /\ (was[j] \/ o[j])
    BY <2>10
  <2>12. QED
    BY <2>7, <2>8, <2>11 DEF FormatKeepsGroups, text, lines, o, is, was, EndsSolid
<1>2. QED
  BY <1>1, InitInv, NextInv, PTL DEF Spec
=============================================================================
