---------------------------- MODULE TomlEditLogic ----------------------------
(***************************************************************************)
(* The edit operations and merging against the logical document: TomlEdit  *)
(* and TomlMerge, with the tree the document folds to kept beside it as a  *)
(* history variable, and the properties that relate a call to what it      *)
(* changed.                                                                *)
(***************************************************************************)
EXTENDS TomlMerge, TomlWalk

VARIABLE tree

TreeOf(L) == [tables |-> DOMAIN L.recs, leaves |-> Leaves(L)]
DocumentTree(d) == TreeOf(Fold(d))
ValueTree(v) == IF v.t = "inl" THEN DocumentTree(v.kids)
                ELSE [tables |-> {}, leaves |-> {<<<<>>, v.v>>}]

LogicInit == Init /\ tree = DocumentTree(doc)
LogicNext == (Next \/ MergeNext) /\ tree' = DocumentTree(doc')
LogicSpec == LogicInit /\ [][LogicNext]_<<vars, tree>>

\* The edit operations implement the logical document: a write binds its own
\* path and nothing else, a deletion and a renaming reach every spelling of
\* the key and no other, a header makes only its table, a refused call
\* changes nothing, and EnsureDefaults and Merge write only where nothing
\* stands.
Logical == INSTANCE LogicalToml
Implements == Logical!Spec

\* The keys two layers share at p come in the same order in both; those of
\* the first are renamed by To.
SameOrder(L, M, p, To(_)) ==
  LET before == [i \in 1..Len(L.recs[p].ents) |-> To(L.recs[p].ents[i].key)]
      after == [i \in 1..Len(M.recs[p].ents) |-> M.recs[p].ents[i].key]
      Both(s, t) == SelectSeq(s, LAMBDA k : k \in Range(t))
  IN Both(before, after) = Both(after, before)

KeepsOrder(L, M, target) ==
  \A p \in DOMAIN L.recs \cap DOMAIN M.recs :
    LET To(k) == IF call'.op = "rename" /\ p = Front(target) /\ k = Last(call'.path)[2]
                 THEN call'.arg[1] ELSE k
    IN (call'.op = "delete" => ~IsPrefix(p, target)) => SameOrder(L, M, p, To)

\* No operation but PermuteChildren reorders the keys it keeps: a key set
\* again or renamed stays in its place.  A deletion may take away the first
\* mention of the tables above it, so those are left out.
OrderKept == [][
  call'.op # "permute" /\ call'.ok =>
    KeepsOrder(Fold(doc), Fold(doc'), Logical!Named(tree, call'.path))]_vars

---------------------------------------------------------------------------
(***************************************************************************)
(* What the comments of the code say of particular calls.  The code does   *)
(* otherwise; the runs that check these end in a counterexample.           *)
(***************************************************************************)
\* SetCreate makes no table but those its own path leads through: in an array
\* of tables, none under another entry (edit.go, createIntermediateTable).
CreatesOnItsPath == [][
  call'.op = "create" /\ IsKeyPath(<<Last(call'.path)>>) =>
    tree'.tables \ tree.tables \subseteq Logical!Above(Logical!Named(tree, call'.path))]_vars

\* A default EnsureDefaults could not write leaves nothing behind, not even
\* the tables leading to it (defaults.go, EnsureDefaults).
FailedDefaultWritesNothing == [][
  call'.op = "ensure" => tree' = Logical!Seeded(tree, call'.arg, call'.added)]_vars

\* Deleting an array-of-tables entry takes the tables inside it along, and
\* leaves every other entry what it was (edit.go, headerNodesOf).
EntryDeletedWhole == [][
  call'.op = "delete" => Logical!Deleted(tree, tree', Logical!Named(tree, call'.path))]_vars

\* A value set over one the document carries takes its place: no other pair
\* comes to bind the key (edit.go, Set).
SetReplaces == [][
  LET p == Logical!Named(tree, call'.path) IN
  call'.op = "set" /\ call'.ok /\ (\E l \in tree.leaves : l[1] = p) => Fold(doc').ok]_vars
=============================================================================
