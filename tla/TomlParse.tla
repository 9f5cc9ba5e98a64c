------------------------------ MODULE TomlParse ------------------------------
(***************************************************************************)
(* Parse as it consumes a document construct by construct: the definition  *)
(* tracker decides, header by header and pair by pair, and the first       *)
(* refusal ends the parse.  The read-layer is folded from what was         *)
(* accepted, by rules of its own; the properties hold the two together.    *)
(***************************************************************************)
EXTENDS TomlLayer

CONSTANTS
  Pairs,         \* the pairs a body may hold
  HeaderPaths,   \* the key paths headers name
  MaxConstructs  \* bound on the constructs of a document

VARIABLES
  doc,      \* the children parsed so far
  tracker,  \* the definition tracker
  scope,    \* the key path of the table whose body is open
  refused   \* the construct that was refused, as a sequence of at most one

vars == <<doc, tracker, scope, refused>>

Init == doc = <<>> /\ tracker = EmptyTracker /\ scope = <<>> /\ refused = <<>>

Size(d) == Len(d) + FoldLeft(LAMBDA n, x : n + Len(x.kids), 0,
                             SelectSeq(d, IsHeader))
Parsing == refused = <<>> /\ Size(doc) < MaxConstructs

\* The tree with the construct n parsed last: a pair goes to the open body.
Parsed(d, n) == Reparse(Append(d, n))

Accept(T, n, opened) ==
  IF T = Refused
  THEN refused' = <<n>> /\ UNCHANGED <<doc, tracker, scope>>
  ELSE /\ doc' = Parsed(doc, n)
       /\ tracker' = T
       /\ scope' = opened
       /\ UNCHANGED refused

ParseKeyValue(n) == Parsing /\ Accept(DefinePairs(tracker, scope, <<n>>), n, scope)
ParseTable(p) == Parsing /\ Accept(DefineTable(tracker, p), Table(p, <<>>), p)
ParseArrayTable(p) ==
  Parsing /\ Accept(DefineArrayTable(tracker, p), ArrayTable(p, <<>>), p)

Next ==
  \/ \E n \in Pairs : ParseKeyValue(n)
  \/ \E p \in HeaderPaths : ParseTable(p)
  \/ \E p \in HeaderPaths : ParseArrayTable(p)

Spec == Init /\ [][Next]_vars

---------------------------------------------------------------------------
\* A parsed document always folds: the parser refuses every conflict the fold
\* would meet (record.go, Root and foldDocument).
AcceptedFolds == Fold(doc).ok

\* The position a key path leads to, through the last entries of arrays.
Entered(L, pos) == IF pos.kind = "records" THEN StepPos(L, pos, Index(-1)) ELSE pos
Reached(L, p) ==
  FoldLeft(LAMBDA pos, key : StepPos(L, Entered(L, pos), Key(key)),
           Pos("record", <<>>, "", 0), p)

\* Whether what stands at a position is what the tracker's kind says.
Agrees(L, pos, kind) ==
  LET rec == L.recs[pos.rp] IN
  CASE kind = "arrayTable" -> pos.kind = "records"
    [] kind = "value" -> pos.kind = "value" \/ (pos.kind = "record" /\ rec.anchored)
    [] kind = "explicit" -> pos.kind = "record" /\ rec.anchored
    [] kind = "implicit" -> pos.kind = "record" /\ ~rec.anchored /\ ~rec.dotted
    [] kind = "dottedImplicit" -> pos.kind = "record" /\ ~rec.anchored /\ rec.dotted

\* The two views agree on what stands at every key path: where the tracker
\* knows a value, the layer has a value or an inline table; an explicit table
\* has its own header; an array-of-tables is a collection; a table implied by
\* a longer header or by a dotted key has no header, and the layer knows which.
Matches(L) == L.ok => \A p \in DOMAIN tracker : Agrees(L, Reached(L, p), tracker[p])
TrackerMatchesLayer == Matches(Fold(doc))

\* Whether a header's path descends into an inline table or a value.
ThroughValue(path) ==
  \E i \in 1..(Len(path) - 1) : Has(tracker, SubSeq(path, 1, i))
                                /\ tracker[SubSeq(path, 1, i)] = "value"

\* Whether TOML closes the table at a position to dotted keys, or to headers.
ToDottedKeys(L, pos) ==
  pos.kind = "records" \/ (pos.kind = "record" /\ L.recs[pos.rp].anchored)
ToHeaders(L, pos) == pos.kind = "record" /\ L.recs[pos.rp].dotted

Closes(L, n) ==
  \/ n.t = "table" /\ ToHeaders(L, Reached(L, n.path))
  \/ IsHeader(n) /\ ThroughValue(n.path)
  \/ IsPair(n) /\ \E i \in 1..(Len(n.path) - 1) :
                    ToDottedKeys(L, Reached(L, scope \o SubSeq(n.path, 1, i)))

\* The parser refuses nothing it could have read: a refused construct would
\* break the fold, reopen a table TOML closes (one a dotted key spelled out,
\* or an inline table), or add by a dotted key to a table with a header of
\* its own.
RefusedForAReason ==
  refused # <<>> =>
    ~Fold(Parsed(doc, refused[1])).ok \/ Closes(Fold(doc), refused[1])
=============================================================================
