----------------------------- MODULE TomlMerge -----------------------------
(***************************************************************************)
(* Document.Merge (merge.go): another document, read through its           *)
(* read-layer, is written into this one entry by entry with SetCreate and  *)
(* NewArrayTable.  The first error ends it, and what was written stays.    *)
(* Comments, which travel beside the values, are left out.                 *)
(***************************************************************************)
EXTENDS TomlEdit

\* insertOrderedPair: a value under a dotted key becomes nested tables, the
\* pairs of one name in one table.
RECURSIVE InsertOrderedPair(_, _, _)
InsertOrderedPair(pairs, parts, n) ==
  LET at == SelectInSeq(pairs, LAMBDA p : p.t = "inl" /\ p.path = <<Head(parts)>>) IN
  IF Len(parts) = 1 THEN Append(pairs, Bound(parts, n))
  ELSE IF at # 0
  THEN [pairs EXCEPT ![at].kids = InsertOrderedPair(@, Tail(parts), n)]
  ELSE Append(pairs, Inline(<<Head(parts)>>, InsertOrderedPair(<<>>, Tail(parts), n)))

\* nodeToValue: the value a pair of the source binds, as it is written anew.
RECURSIVE NodeToValue(_)
NodeToValue(n) ==
  IF n.t = "kv" THEN Bound(<<>>, n)
  ELSE Inline(<<>>, FoldLeft(LAMBDA pairs, kid :
                               InsertOrderedPair(pairs, kid.path, NodeToValue(kid)),
                             <<>>, n.kids))

\* A faulty probe: it sees the values the target has and no tables.
ProbeValues(d, path) ==
  IF WalkFrom(Fold(d), path).kind = "value" THEN WalkFrom(Fold(d), path) ELSE Nowhere

\* probe: where the target has something at the path already.
Probe(d, path) == WalkFrom(Fold(d), path)

\* The record rp of the document src with layer S is merged into the target r
\* under the path prefix.
RECURSIVE MergeRecord(_, _, _, _, _)

\* mergeEntryRecords: an entry for each of the source's, written through the
\* last one.
MergeRecords(r, src, S, rp, e, path) ==
  FoldLeft(LAMBDA acc, i : IF acc.ok
                           THEN MergeRecord(NewArrayTableOp(acc.doc, path), src, S,
                                            Append(rp, <<e.key, i>>), Append(path, Index(-1)))
                           ELSE acc,
           r, [i \in 1..e.n |-> i])

\* What SetCreate is given for an entry that is written whole.
IsValue(src, S, sub, e) ==
  e.kind = "value" \/ (e.kind = "record" /\ TypeAt(src, S.recs[sub].node) = "inl")
ValueAt(src, S, sub, e) ==
  IF e.kind = "value" THEN KV(<<>>, e.v) ELSE NodeToValue(NodeAt(src, S.recs[sub].node))

\* mergeEntryValue, mergeEntryRecord, mergeEntryRecords; pos is what the target
\* has at the path.
MergeEntry(r, src, S, rp, e, path, pos) ==
  LET sub == Append(rp, <<e.key, 0>>)
      absent == pos = Nowhere IN
  IF absent /\ IsValue(src, S, sub, e)
  THEN SetCreateOp(r.doc, path, ValueAt(src, S, sub, e))
  ELSE IF absent /\ e.kind = "records" THEN MergeRecords(r, src, S, rp, e, path)
  ELSE IF e.kind = "record" /\ (absent \/ pos.kind = "record")
  THEN MergeRecord(r, src, S, sub, path)
  ELSE r

MergeUnder(r, src, S, rp, e, path) ==
  IF r.ok THEN MergeEntry(r, src, S, rp, e, path, Probe(r.doc, path)) ELSE r

MergeRecord(r, src, S, rp, prefix) ==
  FoldLeft(LAMBDA acc, e : MergeUnder(acc, src, S, rp, e, Append(prefix, Key(e.key))),
           r, S.recs[rp].ents)

MergeWith(d, src, S) == IF S.ok THEN MergeRecord(Ok(d), src, S, <<>>, <<>>) ELSE No(d)
MergeOp(d, src) == MergeWith(d, src, Fold(src))

Merge(src) == Returns("merge", <<>>, <<src>>, MergeOp(doc, src))

MergeNext == \E src \in session.sources : Merge(src)
=============================================================================
