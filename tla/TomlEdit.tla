------------------------------ MODULE TomlEdit ------------------------------
(***************************************************************************)
(* The path-based edit operations of a document (edit.go, structural.go,   *)
(* defaults.go).  Each operation is an operator from the document to       *)
(* [ok, doc]: the answer and the document it leaves behind, which a        *)
(* refused operation need not leave as it was.  The state is the document  *)
(* and the last call; every call is one step, since the library serializes *)
(* nothing and a document has one writer.                                  *)
(*                                                                         *)
(* Left out: text validity (checkWritableText), array values, and whether  *)
(* an equal write marks the node: the value written is the same.           *)
(***************************************************************************)
EXTENDS TomlLayer

CONSTANT
  Sessions   \* the editing sessions: the documents each may start from and the
             \* calls it may make (see Session)

VARIABLES
  doc,    \* the document: a sequence of nodes
  call,   \* the last call: [op, path, arg, ok, added]
  edits,  \* how many calls were made
  session \* the session, fixed at its start

vars == <<doc, call, edits, session>>

\* A session that makes no calls: [starts] the documents it may start from,
\* [max] the bound on its calls, and for each operation the arguments it is
\* called with.  Orders count positions from 1; a list of defaults is a
\* sequence of <<path, value>>; the sources are documents to merge.
Session(starts, max) ==
  [starts |-> starts, max |-> max, values |-> {}, set |-> {}, create |-> {},
   delete |-> {}, rename |-> {}, names |-> {}, header |-> {}, permute |-> {},
   orders |-> {}, defaults |-> {}, sources |-> {}]

Ok(d) == [ok |-> TRUE, doc |-> d]
No(d) == [ok |-> FALSE, doc |-> d]

---------------------------------------------------------------------------
(***************************************************************************)
(* The structure funnel: what a container holds (contents, setContents).   *)
(***************************************************************************)
RECURSIVE Contents(_, _)
Contents(d, ref) ==
  IF ref = <<>> THEN d ELSE Contents(d[Head(ref)].kids, Tail(ref))

RECURSIVE SetContents(_, _, _)
SetContents(d, ref, items) ==
  IF ref = <<>> THEN items
  ELSE [d EXCEPT ![Head(ref)].kids = SetContents(@, Tail(ref), items)]

NodeAt(d, ref) == Contents(d, Front(ref))[Last(ref)]
TypeAt(d, ref) ==
  IF ref = NoRef THEN "none" ELSE IF ref = <<>> THEN "document" ELSE NodeAt(d, ref).t

Inserted(d, ref, at, n) == SetContents(d, ref, InsertAt(Contents(d, ref), at, n))

\* A faulty firstHeaderIndex: the end of the children, headers and all.
FirstHeaderAtEnd(items) == Len(items) + 1

\* firstHeaderIndex: where the document's own pairs end.
FirstHeader(items) ==
  LET at == SelectInSeq(items, IsHeader) IN IF at = 0 THEN Len(items) + 1 ELSE at

\* A faulty hasPrefix: only the key itself, not what is dotted under it.
HasPrefixOnlyItself(path, prefix) == path = prefix

HasPrefix(path, prefix) == IsPrefix(prefix, path)

\* setVal: the pair keeps its key and binds another value.
Bound(path, value) == [value EXCEPT !.path = path]

IsKeyPath(segs) == \A i \in 1..Len(segs) : segs[i][1] = "key"
KeysOf(segs) == [i \in 1..Len(segs) |-> segs[i][2]]

---------------------------------------------------------------------------
(***************************************************************************)
(* Set and SetCreate.                                                      *)
(***************************************************************************)
\* createIntermediateTable for the last of segs, under the position that the
\* segments before it reach.
CreateIntermediateTable(d, L, parent, segs) ==
  LET key == Last(segs)[2]
      node == NodeOf(L, parent)
      type == TypeAt(d, node) IN
  IF parent.kind # "record" THEN No(d)
  ELSE CASE type = "inl" -> No(d)
         [] type = "document" -> Ok(Append(d, Table(<<key>>, <<>>)))
         [] type \in {"table", "aot"} ->
              Ok(Append(d, Table(Append(NodeAt(d, node).path, key), <<>>)))
         [] type = "none" -> IF IsKeyPath(segs)
                             THEN Ok(Append(d, Table(KeysOf(segs), <<>>)))
                             ELSE No(d)

\* One pass of resolveOrCreateParent, for the last of segs, in the document d
\* with layer L.
Pass(d, L, segs) ==
  IF WalkFrom(L, segs) # Nowhere THEN Ok(d)
  ELSE IF Last(segs)[1] # "key" THEN No(d)
  ELSE CreateIntermediateTable(d, L, WalkFrom(L, Front(segs)), segs)

\* A table made may not be where the path leads.
Resolved(r, segs) ==
  IF r.ok /\ WalkFrom(Fold(r.doc), segs) = Nowhere THEN No(r.doc) ELSE r

\* resolveOrCreateParent: one pass per segment, each on the document as the
\* pass before left it.
ResolveOrCreateParent(d, segs) ==
  Resolved(FoldLeft(LAMBDA r, i : IF r.ok THEN Pass(r.doc, Fold(r.doc), SubSeq(segs, 1, i))
                                  ELSE r,
                    Ok(d), [i \in 1..Len(segs) |-> i]),
           segs)

ResolveParentForEdit(d, segs, create) ==
  IF WalkFrom(Fold(d), segs) # Nowhere THEN Ok(d)
  ELSE IF create THEN ResolveOrCreateParent(d, segs) ELSE No(d)

\* A faulty checkValueWriteTarget: never asked.
MayHoldAnything(d, L, parent, key) == TRUE

\* checkValueWriteTarget: a value replaces a value, an inline table, or nothing.
MayHoldValue(d, L, parent, key) ==
  parent.kind = "record" /\ Binds(L, parent.rp, key) =>
    LET e == Get(L, parent.rp, key) IN
    \/ e.kind = "value"
    \/ e.kind = "record" /\ TypeAt(d, L.recs[Through(parent.rp, e)].node) = "inl"

\* Two faulty forms: a key is added beside the pair that binds it, and a pair
\* is replaced by removing it and adding one.
SetKeyByAdding(d, ref, key, value) ==
  Inserted(d, ref, IF ref = <<>> THEN FirstHeader(Contents(d, ref))
                   ELSE Len(Contents(d, ref)) + 1,
           Bound(<<key>>, value))
SetKeyAtEnd(d, ref, key, value) ==
  LET Other(n) == ~(IsPair(n) /\ n.path = <<key>>)
  IN SetKeyByAdding(SetContents(d, ref, SelectSeq(Contents(d, ref), Other)), ref, key, value)

\* setKeyInDocument and setKeyInContainer: replace the pair that binds the key,
\* or add one at the end of the container's own pairs.
SetKeyInContainer(d, ref, key, value) ==
  LET items == Contents(d, ref)
      at == SelectInSeq(items, LAMBDA n : IsPair(n) /\ n.path = <<key>>) IN
  IF at # 0 THEN SetContents(d, ref, [items EXCEPT ![at] = Bound(@.path, value)])
  ELSE Inserted(d, ref, IF ref = <<>> THEN FirstHeader(items) ELSE Len(items) + 1,
                Bound(<<key>>, value))

\* insertDottedKey: beside the last pair of the region.
InsertDottedKey(d, ref, prefix, key, value) ==
  LET items == Contents(d, ref)
      last == SelectLastInSeq(items, LAMBDA n : IsPair(n) /\ IsStrictPrefix(prefix, n.path)) IN
  Inserted(d, ref, IF last = 0 THEN FirstHeader(items) ELSE last + 1,
           Bound(Append(prefix, key), value))

\* setKeyInImpliedTable: a table no single node stands for.
SetKeyInImpliedTable(d, rec, parentSegs, key, value) ==
  LET items == Contents(d, rec.region)
      at == IF rec.region = NoRef THEN 0
            ELSE SelectInSeq(items,
                   LAMBDA n : IsPair(n) /\ n.path = Append(rec.prefix, key)) IN
  IF at # 0
  THEN Ok(SetContents(d, rec.region, [items EXCEPT ![at] = Bound(@.path, value)]))
  ELSE IF rec.region # NoRef
  THEN Ok(InsertDottedKey(d, rec.region, rec.prefix, key, value))
  ELSE IF ~IsKeyPath(parentSegs) THEN No(d)
  ELSE Ok(Append(d, Table(KeysOf(parentSegs), <<Bound(<<key>>, value)>>)))

SetKeyInParent(d, L, parent, parentSegs, key, value) ==
  IF parent.kind # "record" THEN No(d)
  ELSE IF NodeOf(L, parent) = NoRef
       THEN SetKeyInImpliedTable(d, L.recs[parent.rp], parentSegs, key, value)
  ELSE Ok(SetKeyInContainer(d, NodeOf(L, parent), key, value))

\* setInternal.  Unwritable stands for a value valueToNode refuses.
Unwritable == [KV(<<>>, 0) EXCEPT !.t = "unwritable"]

\* The write below the parent position, in the document d with layer L.
SetBelow(d, L, parent, segs, value) ==
  IF Last(segs)[1] # "key" \/ ~MayHoldValue(d, L, parent, Last(segs)[2]) THEN No(d)
  ELSE SetKeyInParent(d, L, parent, Front(segs), Last(segs)[2], value)

SetResolved(d, L, segs, value) == SetBelow(d, L, WalkFrom(L, Front(segs)), segs, value)

SetIn(made, segs, value) ==
  IF made.ok THEN SetResolved(made.doc, Fold(made.doc), segs, value) ELSE made

SetInternal(d, segs, value, create) ==
  IF value = Unwritable THEN No(d)
  ELSE SetIn(ResolveParentForEdit(d, Front(segs), create), segs, value)

SetOp(d, segs, value) == SetInternal(d, segs, value, FALSE)
SetCreateOp(d, segs, value) == SetInternal(d, segs, value, TRUE)

---------------------------------------------------------------------------
(***************************************************************************)
(* Delete.                                                                 *)
(***************************************************************************)
\* headerNodesOf: the [header] and [[header]] constructs spelling out the table
\* or the array-of-tables at an entry, with those of the tables inside it.
HeadersUnder(d, L, rp, key) ==
  {L.recs[q].node : q \in {q \in DOMAIN L.recs :
     /\ Len(q) > Len(rp) /\ IsPrefix(rp, q) /\ q[Len(rp) + 1][1] = key
     /\ TypeAt(d, L.recs[q].node) \in {"table", "aot"}}}

\* removeChild, for a set of the document's own children.
RemoveChildren(d, refs) ==
  LET kept == SelectSeq([i \in 1..Len(d) |-> i], LAMBDA i : <<i>> \notin refs)
  IN [i \in 1..Len(kept) |-> d[kept[i]]]

\* removePairsUnder, leaving the positions of the other children to the caller.
PairsUnder(d, ref, path) ==
  {i \in 1..Len(Contents(d, ref)) :
     IsPair(Contents(d, ref)[i]) /\ HasPrefix(Contents(d, ref)[i].path, path)}

\* The container whose pairs a position's keys are written in and the prefix
\* they are written under: its own construct, or the region spelling it out.
WrittenIn(L, pos) ==
  LET rec == L.recs[pos.rp] IN
  IF rec.node # NoRef THEN [ref |-> rec.node, prefix |-> <<>>]
  ELSE [ref |-> rec.region, prefix |-> rec.prefix]

\* deleteKeyFromParent: the pairs of the key's own spelling, then the headers.
DeletePairs(d, ref, path) ==
  LET items == Contents(d, ref)
      kept == SelectSeq([i \in 1..Len(items) |-> i],
                        LAMBDA i : ~(IsPair(items[i]) /\ HasPrefix(items[i].path, path)))
  IN SetContents(d, ref, [i \in 1..Len(kept) |-> items[kept[i]]])

DeleteFrom(d, w, key, headers) ==
  IF w.ref = NoRef THEN RemoveChildren(d, headers)
  ELSE IF w.ref = <<>>
  THEN RemoveChildren(d, headers \cup {<<i>> : i \in PairsUnder(d, <<>>, Append(w.prefix, key))})
  ELSE RemoveChildren(DeletePairs(d, w.ref, Append(w.prefix, key)), headers)

DeleteKey(d, L, parent, key) ==
  IF parent.kind # "record" THEN d
  ELSE DeleteFrom(d, WrittenIn(L, parent), key, HeadersUnder(d, L, parent.rp, key))

\* deleteIndexFromParent: the entry's own [[header]], and nothing else.
DeleteIndex(d, L, parent, i) ==
  LET at == NormalizeIndex(i, parent.n) IN
  IF parent.kind = "records" /\ at # 0
  THEN RemoveChildren(d, {L.recs[Append(parent.rp, <<parent.key, at>>)].node})
  ELSE d

DeleteBelow(d, L, parent, seg) ==
  IF parent = Nowhere THEN d
  ELSE IF seg[1] = "key" THEN DeleteKey(d, L, parent, seg[2])
  ELSE DeleteIndex(d, L, parent, seg[2])

DeleteAt(d, L, segs) ==
  IF L.ok THEN Ok(DeleteBelow(d, L, WalkFrom(L, Front(segs)), Last(segs))) ELSE No(d)

DeleteOp(d, segs) == DeleteAt(d, Fold(d), segs)

---------------------------------------------------------------------------
(***************************************************************************)
(* RenameKey.                                                              *)
(***************************************************************************)
\* renameHeaderPart and renamePart, for the part at position at.
RenamePart(n, at, newKey) ==
  IF at <= Len(n.path) THEN [n EXCEPT !.path[at] = newKey] ELSE n

RenameHeaders(d, refs, at, newKey) ==
  [i \in 1..Len(d) |-> IF <<i>> \in refs THEN RenamePart(d[i], at, newKey) ELSE d[i]]

RenamePairs(d, ref, prefix, oldKey, newKey) ==
  LET items == Contents(d, ref)
      pairs == PairsUnder(d, ref, Append(prefix, oldKey)) IN
  SetContents(d, ref,
    [i \in 1..Len(items) |-> IF i \in pairs
                             THEN RenamePart(items[i], Len(prefix) + 1, newKey)
                             ELSE items[i]])

\* A faulty keyDepth: indices counted in.
KeyDepthWithIndices(segs) == Len(segs)

\* keyDepth: the position in a header's path of the part a path's last key is.
KeyDepth(segs) == Len(SelectSeq(segs, LAMBDA s : s[1] = "key"))

\* A faulty check: the new name may be bound already.
MayRenameOver(L, parent, oldKey, newKey) ==
  parent.kind = "record" /\ Binds(L, parent.rp, oldKey)

\* The name exists, and the new one is free.
MayRename(L, parent, oldKey, newKey) ==
  /\ parent.kind = "record"
  /\ Binds(L, parent.rp, oldKey)
  /\ ~Binds(L, parent.rp, newKey)

\* The headers first, then the pairs of the key's own spelling.
RenameFrom(d, w, headers, segs, newKey) ==
  LET renamed == RenameHeaders(d, headers, KeyDepth(segs), newKey) IN
  IF w.ref = NoRef THEN renamed
  ELSE RenamePairs(renamed, w.ref, w.prefix, Last(segs)[2], newKey)

RenameBelow(d, L, parent, segs, newKey) ==
  IF Last(segs)[1] # "key" \/ ~MayRename(L, parent, Last(segs)[2], newKey) THEN No(d)
  ELSE Ok(RenameFrom(d, WrittenIn(L, parent), HeadersUnder(d, L, parent.rp, Last(segs)[2]),
                     segs, newKey))

RenameAt(d, L, segs, newKey) == RenameBelow(d, L, WalkFrom(L, Front(segs)), segs, newKey)

RenameOp(d, segs, newKey) == RenameAt(d, Fold(d), segs, newKey)

---------------------------------------------------------------------------
(***************************************************************************)
(* NewTable and NewArrayTable.                                             *)
(***************************************************************************)
\* A faulty test: a header may descend through an inline table.
ValuesOnly(d, L, sub, e) == e.kind = "value"

\* What a header may not descend through.
ClosedToHeaders(d, L, sub, e) == e.kind = "value" \/ TypeAt(d, L.recs[sub].node) = "inl"

\* headerTarget: the record the final key of a header belongs in, as [answer,
\* rp]; "free" when nothing binds one of the prefixes.
HeaderStep(d, L, w, key) ==
  LET sub == Through(w.rp, Get(L, w.rp, key)) IN
  IF w.answer # "bound" THEN w
  ELSE IF ~Binds(L, w.rp, key) THEN [w EXCEPT !.answer = "free"]
  ELSE IF ClosedToHeaders(d, L, sub, Get(L, w.rp, key)) THEN [w EXCEPT !.answer = "conflict"]
  ELSE [w EXCEPT !.rp = sub]
HeaderParent(d, L, parts) ==
  FoldLeft(LAMBDA w, key : HeaderStep(d, L, w, key),
           [answer |-> IF L.ok THEN "bound" ELSE "conflict", rp |-> <<>>], Front(parts))

\* The header's last key, where the prefixes lead: free, or a table only
\* longer headers imply.
NewTableIn(d, L, w, parts) ==
  LET key == Last(parts)
      rec == L.recs[Append(w.rp, <<key, 0>>)]
      refused == /\ w.answer = "bound" /\ Binds(L, w.rp, key)
                 /\ Get(L, w.rp, key).kind # "record" \/ rec.dotted \/ rec.anchored IN
  IF w.answer = "conflict" \/ refused THEN No(d) ELSE Ok(Append(d, Table(parts, <<>>)))

\* The same for another entry: free, or an array-of-tables already.
NewArrayTableIn(d, L, w, parts) ==
  LET refused == /\ w.answer = "bound" /\ Binds(L, w.rp, Last(parts))
                 /\ Get(L, w.rp, Last(parts)).kind # "records" IN
  IF w.answer = "conflict" \/ refused THEN No(d) ELSE Ok(Append(d, ArrayTable(parts, <<>>)))

NewTableAt(d, L, parts) == NewTableIn(d, L, HeaderParent(d, L, parts), parts)
NewArrayTableAt(d, L, parts) == NewArrayTableIn(d, L, HeaderParent(d, L, parts), parts)

NewTableOp(d, segs) ==
  IF IsKeyPath(segs) THEN NewTableAt(d, Fold(d), KeysOf(segs)) ELSE No(d)
NewArrayTableOp(d, segs) ==
  IF IsKeyPath(segs) THEN NewArrayTableAt(d, Fold(d), KeysOf(segs)) ELSE No(d)

---------------------------------------------------------------------------
(***************************************************************************)
(* PermuteChildren and EnsureDefaults.                                     *)
(***************************************************************************)
\* permuteNodes: order[i] is the position of the child that moves to i.
IsPermutation(order, n) ==
  Len(order) = n /\ ToSet(order) = 1..n

Permuted(d, ref, order) ==
  LET items == Contents(d, ref) IN
  IF ref = NoRef \/ ~IsPermutation(order, Len(items)) THEN No(d)
  ELSE Ok(SetContents(d, ref, [i \in 1..Len(items) |-> items[order[i]]]))

PermuteAt(d, L, pos, order) ==
  IF pos.kind = "record" THEN Permuted(d, NodeOf(L, pos), order) ELSE No(d)
PermuteIn(d, L, segs, order) == PermuteAt(d, L, WalkFrom(L, segs), order)

\* The empty path names the document, folded or not.
PermuteOp(d, segs, order) ==
  IF segs = <<>> THEN Permuted(d, <<>>, order) ELSE PermuteIn(d, Fold(d), segs, order)

\* EnsureDefaults stops at the first error and keeps what it wrote before it.
Seed(r, def) ==
  IF ~r.ok \/ WalkFrom(Fold(r.doc), def[1]) # Nowhere THEN r
  ELSE LET Wrote(w) == [ok |-> w.ok, doc |-> w.doc,
                        added |-> IF w.ok THEN r.added \cup {def[1]} ELSE r.added]
       IN Wrote(SetCreateOp(r.doc, def[1], def[2]))
EnsureDefaultsOp(d, list) == FoldLeft(Seed, [ok |-> TRUE, doc |-> d, added |-> {}], list)

---------------------------------------------------------------------------
Init ==
  /\ session \in Sessions
  /\ doc \in session.starts
  /\ call = [op |-> "none", path |-> <<>>, arg |-> <<>>, ok |-> TRUE, added |-> {}]
  /\ edits = 0

Returns(op, path, arg, r) ==
  /\ edits < session.max
  /\ edits' = edits + 1
  /\ UNCHANGED session
  /\ doc' = r.doc
  /\ call' = [op |-> op, path |-> path, arg |-> arg, ok |-> r.ok,
              added |-> IF op = "ensure" THEN r.added ELSE {}]

Set(p, v) == Returns("set", p, <<v>>, SetOp(doc, p, v))
SetCreate(p, v) == Returns("create", p, <<v>>, SetCreateOp(doc, p, v))
Delete(p) == Returns("delete", p, <<>>, DeleteOp(doc, p))
RenameKey(p, k) == Returns("rename", p, <<k>>, RenameOp(doc, p, k))
NewTable(p) == Returns("table", p, <<>>, NewTableOp(doc, p))
NewArrayTable(p) == Returns("arraytable", p, <<>>, NewArrayTableOp(doc, p))
PermuteChildren(p, order) == Returns("permute", p, <<order>>, PermuteOp(doc, p, order))
EnsureDefaults(list) == Returns("ensure", <<>>, list, EnsureDefaultsOp(doc, list))

Next ==
  \/ \E p \in session.set, v \in session.values : Set(p, v)
  \/ \E p \in session.create, v \in session.values : SetCreate(p, v)
  \/ \E p \in session.delete : Delete(p)
  \/ \E p \in session.rename, k \in session.names : RenameKey(p, k)
  \/ \E p \in session.header : NewTable(p)
  \/ \E p \in session.header : NewArrayTable(p)
  \/ \E p \in session.permute, order \in session.orders : PermuteChildren(p, order)
  \/ \E list \in session.defaults : EnsureDefaults(list)

Spec == Init /\ [][Next]_vars

---------------------------------------------------------------------------
(***************************************************************************)
(* Properties.                                                             *)
(***************************************************************************)
\* Whatever the operations were, the document still folds: no edit binds a key
\* twice or through a value, so Root does not panic (record.go, Root).
AlwaysFolds == Fold(doc).ok

\* Rendering an edited document and parsing it again is accepted and reads
\* back as the same tables, keys, values and order (README, round trip).
ReadsAs(L) == Parses(doc) /\ Meaning(Fold(Reparse(doc))) = Meaning(L)
ReadsBack == ReadsAs(Fold(doc))

=============================================================================
