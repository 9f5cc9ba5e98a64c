----------------------------- MODULE TomlLayer -----------------------------
(***************************************************************************)
(* The read-layer: the fold of a document into its logical records         *)
(* (record.go), and path resolution over it (resolve.go).                  *)
(*                                                                         *)
(* A record is named by its logical path, a sequence of steps <<key, i>>:  *)
(* i = 0 enters the table at key, i > 0 the i-th entry of the              *)
(* array-of-tables at key.  A layer is [ok, recs]: ok is FALSE when the    *)
(* fold failed, recs maps each record's path to                            *)
(*   node      reference of the construct backing it, NoRef if none        *)
(*   anchored  it has a header (or inline table) of its own                *)
(*   dotted    it was implied by a dotted key (dottedImplied)              *)
(*   region    reference of the container whose pairs spell it out         *)
(*   prefix    the key path from that container to it                      *)
(*   ents      its entries [key, kind, n, v] in first-appearance order     *)
(* A reference is the path of child positions from the document, which     *)
(* <<>> names.                                                             *)
(***************************************************************************)
EXTENDS TomlDoc, Integers

NoRef == <<0>>

NewRecord(node, anchored, dotted) ==
  [node |-> node, anchored |-> anchored, dotted |-> dotted,
   region |-> NoRef, prefix |-> <<>>, ents |-> <<>>]

Entry(key, kind, n, v) == [key |-> key, kind |-> kind, n |-> n, v |-> v]

\* Record.Get: the entry with this key, as a sequence of at most one.
Find(L, rp, key) == SelectSeq(L.recs[rp].ents, LAMBDA e : e.key = key)
Binds(L, rp, key) == Find(L, rp, key) # <<>>
Get(L, rp, key) == Find(L, rp, key)[1]

\* The record a step through an entry leads to: for an array-of-tables, the
\* last entry.
Through(rp, e) == Append(rp, <<e.key, IF e.kind = "records" THEN e.n ELSE 0>>)

AddEntry(L, rp, e) == [L EXCEPT !.recs[rp].ents = Append(@, e)]
AddRecord(L, rp, r) ==
  [L EXCEPT !.recs = (rp :> r) @@ L.recs]
Failed(L) == [L EXCEPT !.ok = FALSE]

---------------------------------------------------------------------------
(***************************************************************************)
(* The fold.  A walk is a pair [L, rp]: the layer so far and the record    *)
(* reached in it.                                                          *)
(***************************************************************************)
Implied(w, key, dotted) ==
  LET sub == Append(w.rp, <<key, 0>>) IN
  IF ~w.L.ok THEN w
  ELSE IF ~Binds(w.L, w.rp, key)
       THEN [L |-> AddRecord(AddEntry(w.L, w.rp, Entry(key, "record", 0, 0)), sub,
                             NewRecord(NoRef, FALSE, dotted)),
             rp |-> sub]
  ELSE IF Get(w.L, w.rp, key).kind = "value" THEN [w EXCEPT !.L = Failed(@)]
  ELSE [w EXCEPT !.rp = Through(w.rp, Get(w.L, w.rp, key))]

\* descend: the record the last part of a header's key path belongs in.
Descend(L, parts) ==
  FoldLeft(LAMBDA w, key : Implied(w, key, FALSE), [L |-> L, rp |-> <<>>], parts)

\* A record nothing else stands for is spelled where it is first mentioned.
Spelled(w, region, prefix) ==
  IF w.L.ok /\ w.L.recs[w.rp].node = NoRef /\ w.L.recs[w.rp].region = NoRef
  THEN [w EXCEPT !.L.recs[w.rp].region = region, !.L.recs[w.rp].prefix = prefix]
  ELSE w

\* The dotted prefix of a pair's key.
DottedPrefix(L, rp, parts) ==
  FoldLeft(LAMBDA w, i : Spelled(Implied(w, parts[i], TRUE),
                                 L.recs[rp].node, SubSeq(parts, 1, i)),
           [L |-> L, rp |-> rp], [i \in 1..(Len(parts) - 1) |-> i])

\* foldChildren: the pairs of a header's body or of an inline table, written in
\* the construct at ref, into the record rp.
RECURSIVE FoldPairs(_, _, _, _)

\* The last key of a pair written at reference at, in the record its dotted
\* prefix leads to (foldKeyValue, foldInlineTable).
FoldBinding(w, at, n) ==
  LET key == Last(n.path)
      sub == Append(w.rp, <<key, 0>>) IN
  IF ~w.L.ok \/ Binds(w.L, w.rp, key) THEN Failed(w.L)
  ELSE IF n.t = "kv" THEN AddEntry(w.L, w.rp, Entry(key, "value", 0, n.v))
  ELSE FoldPairs(AddRecord(AddEntry(w.L, w.rp, Entry(key, "record", 0, 0)),
                           sub, NewRecord(at, TRUE, FALSE)),
                 sub, at, n.kids)

FoldKeyValue(L, rp, at, n) == FoldBinding(DottedPrefix(L, rp, n.path), at, n)

FoldPairs(L, rp, ref, pairs) ==
  FoldLeft(LAMBDA acc, j : FoldKeyValue(acc, rp, Append(ref, j), pairs[j]),
           L, [j \in 1..Len(pairs) |-> j])

\* foldTable, in the record the header's path leads to.
OpenTable(w, ref, n) ==
  LET key == Last(n.path)
      sub == Append(w.rp, <<key, 0>>)
      opened ==
        IF ~Binds(w.L, w.rp, key)
        THEN AddRecord(AddEntry(w.L, w.rp, Entry(key, "record", 0, 0)), sub,
                       NewRecord(ref, TRUE, FALSE))
        ELSE [w.L EXCEPT !.recs[sub].node = ref, !.recs[sub].anchored = TRUE] IN
  IF ~w.L.ok THEN w.L
  ELSE IF Binds(w.L, w.rp, key) /\ (\/ Get(w.L, w.rp, key).kind # "record"
                                   \/ w.L.recs[sub].anchored)
       THEN Failed(w.L)
  ELSE FoldPairs(opened, sub, ref, n.kids)

FoldTable(L, ref, n) == OpenTable(Descend(L, Front(n.path)), ref, n)

\* foldArrayTable, the same.
OpenEntry(w, ref, n) ==
  LET key == Last(n.path)
      ents == w.L.recs[w.rp].ents
      first == ~Binds(w.L, w.rp, key)
      count == IF first THEN 1 ELSE Get(w.L, w.rp, key).n + 1
      counted ==
        IF first THEN AddEntry(w.L, w.rp, Entry(key, "records", 1, 0))
        ELSE [w.L EXCEPT !.recs[w.rp].ents =
                [i \in 1..Len(ents) |-> IF ents[i].key = key
                                        THEN [ents[i] EXCEPT !.n = count] ELSE ents[i]]]
      sub == Append(w.rp, <<key, count>>) IN
  IF ~w.L.ok THEN w.L
  ELSE IF ~first /\ Get(w.L, w.rp, key).kind # "records" THEN Failed(w.L)
  ELSE FoldPairs(AddRecord(counted, sub, NewRecord(ref, TRUE, FALSE)),
                 sub, ref, n.kids)

FoldArrayTable(L, ref, n) == OpenEntry(Descend(L, Front(n.path)), ref, n)

EmptyLayer == [ok |-> TRUE, recs |-> [p \in {<<>>} |-> NewRecord(<<>>, TRUE, FALSE)]]

\* foldDocument, from the child at i on.
RECURSIVE FoldFrom(_, _, _)
FoldFrom(L, doc, i) ==
  IF i > Len(doc) \/ ~L.ok THEN L
  ELSE FoldFrom(CASE doc[i].t = "table" -> FoldTable(L, <<i>>, doc[i])
                  [] doc[i].t = "aot" -> FoldArrayTable(L, <<i>>, doc[i])
                  [] OTHER -> FoldKeyValue(L, <<>>, <<i>>, doc[i]),
                doc, i + 1)

Fold(doc) == FoldFrom(EmptyLayer, doc, 1)

(***************************************************************************)
(* What a layer says, apart from how it is spelled: the entries of each    *)
(* record in order, and the values alone.                                  *)
(***************************************************************************)
Meaning(L) == {<<p, L.recs[p].ents>> : p \in DOMAIN L.recs}

Leaves(L) ==
  UNION {{<<Append(p, <<e.key, 0>>), e.v>> :
            e \in {x \in ToSet(L.recs[p].ents) : x.kind = "value"}}
         : p \in DOMAIN L.recs}

---------------------------------------------------------------------------
(***************************************************************************)
(* Positions (layerPos): a record, the collection of an array-of-tables,   *)
(* or a value.  For the last two, rp is the record holding the entry.      *)
(* A path segment is <<"key", k>> or <<"index", i>>, i counting from 0,    *)
(* or from the end when negative.                                          *)
(***************************************************************************)
Key(k) == <<"key", k>>
Index(i) == <<"index", i>>

Pos(kind, rp, key, n) == [kind |-> kind, rp |-> rp, key |-> key, n |-> n]
Nowhere == Pos("nowhere", <<>>, "", 0)

\* A faulty normalizeIndex: the end is counted from the last element, not
\* from behind it.
NormalizeIndexFromLast(i, length) ==
  LET at == IF i < 0 THEN length - 1 + i ELSE i IN
  IF at >= 0 /\ at < length THEN at + 1 ELSE 0

\* normalizeIndex, answering a position counted from 1; 0 is its refusal.
NormalizeIndex(i, length) ==
  LET at == IF i < 0 THEN length + i ELSE i IN
  IF at >= 0 /\ at < length THEN at + 1 ELSE 0

PosOfEntry(rp, e) ==
  IF e.kind = "record" THEN Pos("record", Append(rp, <<e.key, 0>>), "", 0)
  ELSE Pos(e.kind, rp, e.key, e.n)

StepPos(L, pos, seg) ==
  IF seg[1] = "key"
  THEN IF pos.kind = "record" /\ Binds(L, pos.rp, seg[2])
       THEN PosOfEntry(pos.rp, Get(L, pos.rp, seg[2]))
       ELSE Nowhere
  ELSE LET at == NormalizeIndex(seg[2], pos.n) IN
       IF pos.kind = "records" /\ at # 0
       THEN Pos("record", Append(pos.rp, <<pos.key, at>>), "", 0)
       ELSE Nowhere

RECURSIVE WalkFrom(_, _)
WalkFrom(L, segs) ==
  IF ~L.ok THEN Nowhere
  ELSE IF segs = <<>> THEN Pos("record", <<>>, "", 0)
  ELSE StepPos(L, WalkFrom(L, Front(segs)), Last(segs))

\* The node standing for a position that is a record, NoRef if none does.
NodeOf(L, pos) == L.recs[pos.rp].node
=============================================================================
