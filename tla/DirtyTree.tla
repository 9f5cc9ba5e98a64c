------------------------------ MODULE DirtyTree ------------------------------
(***************************************************************************)
(* Dirtiness in the syntax tree (mutate.go, render.go): which nodes render *)
(* anew and which splice the bytes they were read with.                    *)
(*                                                                         *)
(* A node that is written to says so upward, once: markSubtree climbs the  *)
(* parent links and stops at the first ancestor that already knows.  The   *)
(* serializer then reads one flag per node: a pair, an array or an inline  *)
(* table splices its whole range when nothing at or below it is flagged; a *)
(* header splices its own line when it is not dirty itself.                *)
(*                                                                         *)
(* The climb is modelled turn by turn; the write funnels are its callers.  *)
(* A node taken out of its container keeps its parent link.                *)
(***************************************************************************)
CONSTANTS
  Nodes,    \* the nodes: those parsed, and those edits will build
  NoNode,   \* no node
  Parsed,   \* the nodes of the document as parsed
  Root,     \* the document
  Parents,  \* the parent of each parsed node; NoNode for the document
  Headers,  \* the document, the tables and the array-of-tables entries
  Lists,    \* the arrays and the inline tables
  Pairs,    \* the pairs
  Keys      \* the keys of pairs

ASSUME NoNodeAssumption == NoNode \notin Nodes
ASSUME KindsAssumption == Headers \cup Lists \cup Pairs \cup Keys \subseteq Nodes
ASSUME ParsedAssumption ==
  Parsed \subseteq Nodes /\ Root \in Parsed /\ Parents \in [Parsed -> Parsed \cup {NoNode}]

VARIABLES
  parent,    \* the container each node was put into
  present,   \* the nodes that are part of the document
  dirty,     \* the nodes whose own bytes are no longer valid
  subtree,   \* the nodes that know of a write at or below them
  at,        \* where markSubtree stands; NoNode when it is not running
  written,   \* history: the nodes whose own content an edit changed
  reshaped   \* history: the headers that lost, gained or moved children

vars == <<parent, present, dirty, subtree, at, written, reshaped>>

\* A node built for a write is built dirty (valueToNode, newKeyValueNode,
\* appendTable).
Init ==
  /\ parent = [n \in Nodes |-> IF n \in Parsed THEN Parents[n] ELSE NoNode]
  /\ present = Parsed
  /\ dirty = Nodes \ Parsed
  /\ subtree = Nodes \ Parsed
  /\ at = NoNode
  /\ written = Nodes \ Parsed
  /\ reshaped = {}

\* The node and everything below it, by the parent links: what lies in every
\* set of nodes that holds the node and whatever is put into a node it holds.
Closed(C) == \A m \in Nodes : parent[m] \in C => m \in C
Below(n) == LET holding == {C \in SUBSET Nodes : n \in C /\ Closed(C)}
            IN {m \in Nodes : \A C \in holding : m \in C}

\* Built for a write and not put anywhere yet.
Loose(n) == n \in Nodes \ Parsed /\ parent[n] = NoNode

Idle == at = NoNode

---------------------------------------------------------------------------
\* markSubtree, one turn of its loop.
Climb ==
  /\ at # NoNode
  /\ IF at \in subtree
     THEN at' = NoNode /\ UNCHANGED subtree
     ELSE subtree' = subtree \cup {at} /\ at' = parent[at]
  /\ UNCHANGED <<parent, present, dirty, written, reshaped>>

\* A faulty markDirty: nothing is said upward.
MarkDirtyAlone(n) ==
  /\ dirty' = dirty \cup {n}
  /\ subtree' = subtree \cup {n}
  /\ at' = NoNode

\* markDirty, up to its call of markSubtree.
MarkDirty(n) ==
  /\ dirty' = dirty \cup {n}
  /\ subtree' = subtree \cup {n}
  /\ at' = parent[n]

\* A faulty end of setContents: no container is spared.
ReshapeDirty(c) ==
  /\ MarkDirty(c)
  /\ IF c \in Headers
     THEN reshaped' = reshaped \cup {c} /\ UNCHANGED written
     ELSE written' = written \cup {c} /\ UNCHANGED reshaped

\* The end of setContents: a container that renders as one fragment is dirty,
\* another only passes the word on.  The climbs of its adopt calls start at
\* the container too, so that together they are this one.
Reshape(c) ==
  IF c \in Headers
  THEN /\ at' = c
       /\ reshaped' = reshaped \cup {c}
       /\ UNCHANGED <<dirty, subtree, written>>
  ELSE /\ MarkDirty(c)
       /\ written' = written \cup {c}
       /\ UNCHANGED reshaped

Put(c, n) == parent' = [parent EXCEPT ![n] = c]

---------------------------------------------------------------------------
\* renamePart and renameHeaderPart.
Rename(n) ==
  /\ Idle
  /\ n \in Keys \cup (Headers \ {Root})
  /\ n \in present
  /\ MarkDirty(n)
  /\ written' = written \cup {n}
  /\ UNCHANGED <<parent, present, reshaped>>

\* setComment and setLeadingComments.
SetComment(n) ==
  /\ Idle
  /\ n \notin Keys \cup {Root}
  /\ n \in present
  /\ MarkDirty(n)
  /\ written' = written \cup {n}
  /\ UNCHANGED <<parent, present, reshaped>>

\* The value a pair binds.
ValueOf(kv) == {m \in present \ Keys : parent[m] = kv}

\* setVal: the pair binds a value built for it, in the place of the old one.
SetVal(kv, v) ==
  /\ Idle
  /\ kv \in Pairs /\ kv \in present
  /\ Loose(v) /\ v \notin Pairs \cup Headers \cup Keys
  /\ Put(kv, v)
  /\ present' = (present \ UNION {Below(m) : m \in ValueOf(kv)}) \cup Below(v)
  /\ Reshape(kv)

\* appendContent and insertContent; buildAppend, when the container is itself
\* still being built.
Insert(c, n) ==
  /\ Idle
  /\ c \in Headers \cup Lists
  /\ c \in present \/ Loose(c)
  /\ Loose(n) /\ c \notin Below(n)
  /\ Put(c, n)
  /\ present' = IF c \in present THEN present \cup Below(n) ELSE present
  /\ Reshape(c)

\* setIndexInParent: an element gives way to another.
Replace(c, m, n) ==
  /\ Idle
  /\ c \in Lists /\ c \in present
  /\ parent[m] = c /\ m \in present
  /\ Loose(n)
  /\ Put(c, n)
  /\ present' = (present \ Below(m)) \cup Below(n)
  /\ Reshape(c)

\* removeContent, and setContents with what removePairsUnder keeps.
Remove(c, m) ==
  /\ Idle
  /\ c \in Headers \cup Lists /\ c \in present
  /\ parent[m] = c /\ m \in present
  /\ present' = present \ Below(m)
  /\ UNCHANGED parent
  /\ Reshape(c)

\* setContents with the same nodes in another order.
PermuteNodes(c) ==
  /\ Idle
  /\ c \in Headers \cup Lists /\ c \in present
  /\ UNCHANGED <<parent, present>>
  /\ Reshape(c)

Next ==
  \/ Climb
  \/ \E n \in Nodes : Rename(n)
  \/ \E n \in Nodes : SetComment(n)
  \/ \E c, n \in Nodes : SetVal(c, n)
  \/ \E c, n \in Nodes : Insert(c, n)
  \/ \E c, m, n \in Nodes : Replace(c, m, n)
  \/ \E c, m \in Nodes : Remove(c, m)
  \/ \E c \in Nodes : PermuteNodes(c)

Spec == Init /\ [][Next]_vars

---------------------------------------------------------------------------
\* serializeNode: what is written back as it was read.
Spliced(n) == IF n \in Headers THEN n \notin dirty ELSE n \notin subtree

\* Types of the flags and links of a node.
TypeOK ==
  /\ parent \in [Nodes -> Nodes \cup {NoNode}]
  /\ present \subseteq Nodes
  /\ dirty \subseteq Nodes
  /\ subtree \subseteq Nodes
  /\ at \in Nodes \cup {NoNode}
  /\ written \subseteq Nodes
  /\ reshaped \subseteq Headers

\* Between two edits no node splices bytes that an edit made untrue: whatever
\* is below a spliced pair, array or inline table is as it was read, though
\* markSubtree never looks above the first ancestor that knows.
NoStaleSplice ==
  Idle => \A n \in Nodes : Spliced(n) =>
    IF n \in Headers THEN n \notin written
    ELSE \E C \in SUBSET (Nodes \ written) : n \in C /\ Closed(C)

\* Every byte range an edit did not touch is written back as it was read: a
\* node below which nothing was written is not flagged, and a header line is
\* rendered anew only when it was itself written (render.go, Bytes).
Touched == written \cup reshaped
NothingElseRendered ==
  /\ \A C \in SUBSET (Nodes \ Touched) : Closed(C) => C \cap subtree = {}
  /\ dirty \cap Headers \subseteq written

---------------------------------------------------------------------------
(***************************************************************************)
(* The inductive invariant.                                                *)
(***************************************************************************)
\* A node that knows has a container that knows, or the word is on its way.
KnownAbove == \A n \in subtree : parent[n] \in subtree \cup {NoNode, at}

\* What was written is flagged; nothing else is dirty.
WrittenFlagged == written \subseteq subtree /\ written = dirty

\* The word that is on its way has a cause.
ClimbHasCause == \A C \in SUBSET (Nodes \ Touched) : Closed(C) => at \notin C

IInv ==
  /\ TypeOK
  /\ KnownAbove
  /\ WrittenFlagged
  /\ ClimbHasCause
  /\ NothingElseRendered
=============================================================================
