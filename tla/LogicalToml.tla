----------------------------- MODULE LogicalToml -----------------------------
(***************************************************************************)
(* What the edit operations promise, said of the logical document alone:   *)
(* a set of tables and a set of values, with no headers, dotted keys or    *)
(* positions.  TomlEdit implements it.                                     *)
(*                                                                         *)
(* A tree is [tables, leaves].  A table is named by its logical path, a    *)
(* sequence of steps <<key, i>>: i = 0 enters the table at key, i > 0 the  *)
(* i-th entry of the array-of-tables at key.  A leaf is <<path, value>>.   *)
(* The call is the one the step answers.                                   *)
(***************************************************************************)
EXTENDS Integers, Sequences, FiniteSets, SequencesExt

VARIABLES tree, call

\* How many entries the array-of-tables at key under the table p has.
Entries(T, p, key) == Cardinality({i \in {Last(t)[2] : t \in {t \in T.tables :
  /\ Len(t) = Len(p) + 1 /\ Front(t) = p /\ Last(t)[1] = key}} : i > 0})

\* The logical path segs names; an index out of range names no entry.
Named(T, segs) ==
  LET Step(p, seg) ==
        IF seg[1] = "key" THEN Append(p, <<seg[2], 0>>)
        ELSE LET n == Entries(T, Front(p), Last(p)[1])
                 i == IF seg[2] < 0 THEN n + seg[2] ELSE seg[2]
             IN Append(Front(p), <<Last(p)[1], IF i < 0 THEN n + 1 ELSE i + 1>>)
  IN FoldLeft(Step, <<>>, segs)

\* The logical path a header's key path names: through the last entries.
HeaderNamed(T, segs) ==
  FoldLeft(LAMBDA p, seg : Append(p, <<seg[2], Entries(T, p, seg[2])>>), <<>>, segs)

\* Whether q is p or lies under it; <<key, 0>> stands for every entry of key.
Covers(p, q) ==
  /\ Len(p) <= Len(q)
  /\ Front(p) = SubSeq(q, 1, Len(p) - 1)
  /\ q[Len(p)][1] = Last(p)[1]
  /\ Last(p)[2] \in {0, q[Len(p)][2]}

Above(p) == {SubSeq(p, 1, n) : n \in 0..(Len(p) - 1)}
Holds(T, p) == \E q \in T.tables \cup {l[1] : l \in T.leaves} :
                  q # <<>> /\ Covers(p, q)

Without(T, p) == [tables |-> {t \in T.tables : t = <<>> \/ ~Covers(p, t)},
                  leaves |-> {l \in T.leaves : ~Covers(p, l[1])}]

Moved(T, to(_)) == [tables |-> {to(t) : t \in T.tables},
                    leaves |-> {<<to(l[1]), l[2]>> : l \in T.leaves}]

---------------------------------------------------------------------------
\* A successful write binds p to the value, makes the tables above it and
\* touches nothing else.  value is the tree of the value, rooted at <<>>.
Assigned(T, p, value) ==
  LET rest == Without(T, p) IN
  [tables |-> rest.tables \cup Above(p)
                \cup {p \o t : t \in value.tables},
   leaves |-> rest.leaves \cup {<<p \o l[1], l[2]>> : l \in value.leaves}]

\* Deleting p leaves nothing of it; a table only p's own spelling implied
\* may go with it.  The entries behind a deleted one move up.
Deleted(T, U, p) ==
  LET key == Last(p)[1]
      at == Last(p)[2]
      Up(q) == IF at > 0 /\ Len(q) >= Len(p) /\ Front(p) = SubSeq(q, 1, Len(p) - 1)
                  /\ q[Len(p)][1] = key /\ q[Len(p)][2] > at
               THEN [q EXCEPT ![Len(p)] = <<key, @[2] - 1>>] ELSE q
      rest == Moved(Without(T, p), Up) IN
  IF ~Holds(T, p) THEN U = T
  ELSE /\ U.leaves = rest.leaves
       /\ U.tables \subseteq rest.tables
       /\ rest.tables \ U.tables \subseteq Above(p)

Renamed(T, p, newKey) ==
  LET To(q) == IF q # <<>> /\ Covers(p, q)
               THEN [q EXCEPT ![Len(p)] = <<newKey, @[2]>>] ELSE q
  IN Moved(T, To)

\* A header makes its table and those above it; an array-of-tables header
\* adds an entry behind the last.
Opened(T, p) == [T EXCEPT !.tables = @ \cup Above(p) \cup {p}]
NextEntry(p) == [p EXCEPT ![Len(p)] = <<@[1], @[2] + 1>>]

---------------------------------------------------------------------------
(***************************************************************************)
(* value(v) is the tree of a written value.  The defaults of EnsureDefaults*)
(* are assigned one by one, each only where nothing stands.                *)
(***************************************************************************)
CONSTANTS ValueTree(_), DocumentTree(_)

Seeded(T, list, added) ==
  LET Seed(acc, def) ==
        IF def[1] \in added THEN Assigned(acc, Named(acc, def[1]), ValueTree(def[2]))
        ELSE acc
  IN FoldLeft(Seed, T, list)

\* Whether a merge brings what S has at p: on the way there is a key T does not
\* bind at all, and up to it tables in both.
Brought(T, p) ==
  \E n \in 1..Len(p) :
    /\ ~Holds(T, [SubSeq(p, 1, n) EXCEPT ![n] = <<@[1], 0>>])
    /\ \A m \in 1..(n - 1) : p[m][2] = 0 /\ SubSeq(p, 1, m) \in T.tables

\* A merge keeps all T says, and brings from S what T leaves free and no more.
\* A table without a value of its own may stay behind, an array-of-tables
\* entry may not.  Refused halfway, it may have brought part.
Merged(T, S, U, whole) ==
  LET leaves == {l \in S.leaves : Brought(T, l[1])}
      tables == {t \in S.tables : t # <<>> /\ Brought(T, t)} IN
  /\ T.leaves \subseteq U.leaves /\ U.leaves \subseteq T.leaves \cup leaves
  /\ T.tables \subseteq U.tables /\ U.tables \subseteq T.tables \cup tables
  /\ whole => leaves \subseteq U.leaves /\ {t \in tables : Last(t)[2] > 0} \subseteq U.tables

Answers(T, U) ==
  LET p == Named(T, call'.path) IN
  CASE call'.op = "ensure" -> /\ U = Seeded(T, call'.arg, call'.added)
                              /\ \A path \in call'.added : ~Holds(T, Named(T, path))
    [] call'.op = "merge" -> Merged(T, DocumentTree(call'.arg[1]), U, call'.ok)
    [] ~call'.ok -> U = T
    [] call'.op \in {"set", "create"} -> U = Assigned(T, p, ValueTree(call'.arg[1]))
    [] call'.op = "delete" -> Deleted(T, U, p)
    [] call'.op = "rename" -> /\ Holds(T, p)
                              /\ ~Holds(T, Append(Front(p), <<call'.arg[1], 0>>))
                              /\ U = Renamed(T, p, call'.arg[1])
    [] call'.op = "table" -> U = Opened(T, HeaderNamed(T, call'.path))
    [] call'.op = "arraytable" -> U = Opened(T, NextEntry(HeaderNamed(T, call'.path)))
    [] call'.op = "permute" -> U = T

Init == call.op = "none"
Next == Answers(tree, tree')
Spec == Init /\ [][Next]_<<tree, call>>
=============================================================================
