------------------------------ MODULE TomlDoc ------------------------------
(***************************************************************************)
(* The syntax tree of a TOML document, cut down to what the logical view   *)
(* of the document depends on, and the parser's rules about which          *)
(* sequences of constructs it accepts (definitionTracker, parser.go).      *)
(*                                                                         *)
(* A node is a record [t, path, v, kids]:                                  *)
(*   "kv"     a pair binding the scalar v under the (dotted) key path      *)
(*   "inl"    a pair binding an inline table, whose pairs are kids         *)
(*   "table"  a [header], its body in kids                                 *)
(*   "aot"    an [[array-of-tables]] header, its body in kids              *)
(* A document is the sequence of its top-level nodes.  Trivia, spellings   *)
(* and positions are left out: the logical view does not depend on them.   *)
(***************************************************************************)
EXTENDS Naturals, Sequences, FiniteSets, SequencesExt

KV(path, v) == [t |-> "kv", path |-> path, v |-> v, kids |-> <<>>]
Inline(path, kids) == [t |-> "inl", path |-> path, v |-> 0, kids |-> kids]
Table(path, kids) == [t |-> "table", path |-> path, v |-> 0, kids |-> kids]
ArrayTable(path, kids) == [t |-> "aot", path |-> path, v |-> 0, kids |-> kids]

IsPair(n) == n.t \in {"kv", "inl"}
IsHeader(n) == n.t \in {"table", "aot"}

(***************************************************************************)
(* What the parser builds from the bytes of a document: a pair standing    *)
(* after a header belongs to that header's body, wherever the tree it was  *)
(* rendered from kept it.                                                  *)
(***************************************************************************)
Reparse(doc) ==
  LET Take(acc, n) ==
        IF IsPair(n) /\ acc # <<>> /\ IsHeader(Last(acc))
        THEN Append(Front(acc), [Last(acc) EXCEPT !.kids = Append(@, n)])
        ELSE Append(acc, n)
  IN FoldLeft(Take, <<>>, doc)

---------------------------------------------------------------------------
(***************************************************************************)
(* The definition tracker.  A tracker is a function from the key paths it  *)
(* has an entry for to the kind of the entry, or Refused once a construct  *)
(* has been refused.  A scope is the key path of the table being filled.   *)
(***************************************************************************)
Refused == [p \in {<<>>} |-> "refused"]

Has(T, p) == p \in DOMAIN T
Bind(T, p, kind) == (p :> kind) @@ T

\* Proper extensions of p that T knows: the entry's "sub" map, all levels.
Below(T, p) == {q \in DOMAIN T : IsStrictPrefix(p, q)}
ClearBelow(T, p) == Restrict(T, DOMAIN T \ Below(T, p))

\* The key paths the prefix parts of a definition lead through.
LedThrough(scope, parts) == {scope \o SubSeq(parts, 1, i) : i \in 1..Len(parts)}

\* A faulty test: a value is walked through like a table.
BlocksDottedOnly(kind, dotted) == dotted /\ kind \in {"explicit", "arrayTable"}

\* What no path leads through, or no dotted key does.
Blocks(kind, dotted) == kind = "value" \/ (dotted /\ kind \in {"explicit", "arrayTable"})

\* ensurePath: every prefix gets an entry, unless one of them is blocked.
EnsurePath(T, scope, parts, dotted) ==
  LET passed == LedThrough(scope, parts) IN
  IF \E p \in passed : Has(T, p) /\ Blocks(T[p], dotted) THEN Refused
  ELSE [p \in DOMAIN T \cup passed |->
          IF Has(T, p) THEN T[p] ELSE IF dotted THEN "dottedImplicit" ELSE "implicit"]

\* A faulty defineTable: a table a longer header implied cannot be opened.
DefineTableOnce(T, path) ==
  LET E == EnsurePath(T, <<>>, Front(path), FALSE) IN
  IF E = Refused \/ Has(E, path) THEN Refused ELSE Bind(E, path, "explicit")

DefineTable(T, path) ==
  LET E == EnsurePath(T, <<>>, Front(path), FALSE) IN
  IF E = Refused THEN Refused
  ELSE IF ~Has(E, path) \/ E[path] = "implicit" THEN Bind(E, path, "explicit")
  ELSE Refused

\* A faulty defineArrayTable: what the last entry defined stays defined.
DefineArrayTableKeeping(T, path) ==
  LET E == EnsurePath(T, <<>>, Front(path), FALSE) IN
  IF E = Refused THEN Refused
  ELSE IF ~Has(E, path) THEN Bind(E, path, "arrayTable")
  ELSE IF E[path] = "arrayTable" THEN E
  ELSE IF E[path] = "implicit" /\ Below(E, path) = {}
       THEN Bind(E, path, "arrayTable")
  ELSE Refused

DefineArrayTable(T, path) ==
  LET E == EnsurePath(T, <<>>, Front(path), FALSE) IN
  IF E = Refused THEN Refused
  ELSE IF ~Has(E, path) THEN Bind(E, path, "arrayTable")
  ELSE IF E[path] = "arrayTable" THEN ClearBelow(E, path)
  ELSE IF E[path] = "implicit" /\ Below(E, path) = {}
       THEN Bind(E, path, "arrayTable")
  ELSE Refused

DefineKey(T, scope, path) ==
  LET E == EnsurePath(T, scope, Front(path), TRUE)
      p == scope \o path IN
  IF E = Refused THEN Refused
  ELSE IF ~Has(E, p) THEN Bind(E, p, "value")
  ELSE IF E[p] \in {"implicit", "dottedImplicit"} /\ Below(E, p) = {}
       THEN Bind(E, p, "value")
  ELSE Refused

EmptyTracker == [p \in {} |-> ""]

(***************************************************************************)
(* The pairs of one body, defined in order in the given scope.  An inline  *)
(* table is tracked by a tracker of its own (parseInlineTableValue).       *)
(***************************************************************************)
RECURSIVE DefinePairs(_, _, _)
DefinePairs(T, scope, pairs) ==
  LET Define(acc, n) ==
        IF acc = Refused THEN Refused
        ELSE IF n.t = "inl" /\ DefinePairs(EmptyTracker, <<>>, n.kids) = Refused
             THEN Refused
        ELSE DefineKey(acc, scope, n.path)
  IN FoldLeft(Define, T, pairs)

(***************************************************************************)
(* Whether Parse accepts the bytes of a document: parseDocument, with      *)
(* parseTable and parseArrayTable opening a scope for each body.           *)
(***************************************************************************)
Tracked(doc) ==
  LET Define(acc, n) ==
        IF acc = Refused THEN Refused
        ELSE IF n.t = "table"
             THEN LET E == DefineTable(acc, n.path) IN
                  IF E = Refused THEN Refused ELSE DefinePairs(E, n.path, n.kids)
        ELSE IF n.t = "aot"
             THEN LET E == DefineArrayTable(acc, n.path) IN
                  IF E = Refused THEN Refused ELSE DefinePairs(E, n.path, n.kids)
        ELSE DefinePairs(acc, <<>>, <<n>>)
  IN FoldLeft(Define, EmptyTracker, Reparse(doc))

Parses(doc) == Tracked(doc) # Refused
=============================================================================
