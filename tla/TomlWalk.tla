------------------------------ MODULE TomlWalk ------------------------------
(***************************************************************************)
(* Document.Walk in its leaf mode (walk.go), which Diff reads a document   *)
(* with: the sequence of <<path, value>> the visitor is called with, when  *)
(* it neither skips nor stops.  The walk never asks the read-layer: it     *)
(* finds the index of an array-of-tables entry by counting, and the        *)
(* headers inside an entry by their order in the file.                     *)
(***************************************************************************)
EXTENDS TomlEdit

KeySegs(parts) == [i \in 1..Len(parts) |-> Key(parts[i])]

\* walkTableChildren, walkKV and walkValue.
RECURSIVE WalkPairs(_, _)
WalkPairs(prefix, items) ==
  LET Visit(n) == LET path == prefix \o KeySegs(n.path) IN
                  IF n.t = "inl" THEN WalkPairs(path, n.kids) ELSE << <<path, n.v>> >>
  IN FoldLeft(LAMBDA acc, n : IF IsPair(n) THEN acc \o Visit(n) ELSE acc, <<>>, items)

\* A faulty ownership: an entry has no headers but its own.
OwnsNothing(n, owner, rest) == 0

\* How many of the children after an array-of-tables entry are taken for its
\* own: those before the next entry of the same array, or of the owner's.
Owns(n, owner, rest) ==
  SelectInSeq(Append(rest, n), LAMBDA m : m.t = "aot" /\ m.path \in {n.path, owner}) - 1

\* walkDocumentTables, and walkOwnedSubTables for what an entry owns: the
\* headers among items whose path extends owner's, under prefix.  counts holds
\* the path of every array-of-tables entry walked so far.
RECURSIVE WalkTables(_, _, _, _)

\* An array-of-tables entry, visited as entry, and the k headers it owns.
WalkEntry(items, owner, prefix, counts, entry, k) ==
  LET n == Head(items) IN
  WalkPairs(entry, n.kids)
    \o WalkTables(SubSeq(items, 2, k + 1), n.path, entry, <<>>)
    \o WalkTables(SubSeq(items, k + 2, Len(items)), owner, prefix, Append(counts, n.path))

WalkTables(items, owner, prefix, counts) ==
  LET n == Head(items)
      under == prefix \o KeySegs(SubSeq(n.path, Len(owner) + 1, Len(n.path)))
      index == Index(Len(SelectSeq(counts, LAMBDA p : p = n.path))) IN
  IF items = <<>> THEN <<>>
  ELSE IF ~IsHeader(n) \/ ~HasPrefix(n.path, owner)
       THEN WalkTables(Tail(items), owner, prefix, counts)
  ELSE IF n.t = "table"
       THEN WalkPairs(under, n.kids) \o WalkTables(Tail(items), owner, prefix, counts)
  ELSE WalkEntry(items, owner, prefix, counts, Append(under, index),
                 Owns(n, owner, Tail(items)))

Walk(d) == WalkPairs(<<>>, SubSeq(d, 1, FirstHeader(d) - 1))
             \o WalkTables(d, <<>>, <<>>, <<>>)

---------------------------------------------------------------------------
\* Whether the path resolves to the value it is visited with.
ResolvesTo(L, pos, v) == pos.kind = "value" /\ Get(L, pos.rp, pos.key).v = v

\* Every path Walk hands out resolves to the value it is handed out with, and
\* none is handed out twice, however the tables are spelled and nested.
VisitsResolve(L, visits) ==
  /\ \A i \in 1..Len(visits) : ResolvesTo(L, WalkFrom(L, visits[i][1]), visits[i][2])
  /\ Cardinality({visits[i][1] : i \in 1..Len(visits)}) = Len(visits)
WalkResolves == VisitsResolve(Fold(doc), Walk(doc))

\* "Walk visits every key-value pair in the document" (walk.go).
WalkVisitsAll == Len(Walk(doc)) = Cardinality(Leaves(Fold(doc)))
=============================================================================
