--------------------------- MODULE DirtyTreeProofs ---------------------------
(***************************************************************************)
(* Proofs about the dirty flags: for every tree and every sequence of      *)
(* edits, nothing stale is spliced and nothing else is rendered.           *)
(*                                                                         *)
(* All edits have one shape: at most one loose node is put into the        *)
(* container x, and x is marked, by markDirty or by the word it passes on. *)
(***************************************************************************)
EXTENDS DirtyTree, TLAPS

\* At most one loose node is put into x.
Relinks(x) ==
  \/ parent' = parent
  \/ \E n \in Nodes : Loose(n) /\ parent' = [parent EXCEPT ![n] = x]

\* x is marked as written to or reshaped.
Marks(x) ==
  \/ MarkDirty(x) /\ written' = written \cup {x} /\ UNCHANGED reshaped
  \/ /\ x \in Headers
     /\ at' = x
     /\ reshaped' = reshaped \cup {x}
     /\ UNCHANGED <<dirty, subtree, written>>

\* The end of setContents marks the container it was given.
LEMMA ReshapeMarks == ASSUME NEW c, Reshape(c) PROVE Marks(c)
  BY DEF Reshape, Marks

\* Putting a loose node somewhere takes no node from below another.
LEMMA ClosedBefore ==
  ASSUME TypeOK, NEW x \in Nodes, Relinks(x), NEW C \in SUBSET Nodes, Closed(C)'
  PROVE  Closed(C)
<1> SUFFICES ASSUME NEW m \in Nodes, parent[m] \in C PROVE m \in C
  BY DEF Closed
<1>1. parent[m] # NoNode
  BY NoNodeAssumption
<1>2. parent'[m] = parent[m]
  BY <1>1 DEF Relinks, Loose, TypeOK
<1> QED
  BY <1>2 DEF Closed

\* What lies below a node are nodes.
LEMMA BelowAreNodes == ASSUME NEW n PROVE Below(n) \subseteq Nodes
  BY DEF Below

\* The invariant holds of a document as parsed.
LEMMA InitInvariant == Init => IInv
<1> SUFFICES ASSUME Init PROVE IInv
  OBVIOUS
<1>1. TypeOK
  BY ParsedAssumption, KindsAssumption DEF Init, TypeOK
<1>2. KnownAbove
  BY DEF Init, KnownAbove
<1>3. WrittenFlagged
  BY DEF Init, WrittenFlagged
<1>4. ClimbHasCause
  BY NoNodeAssumption DEF Init, ClimbHasCause
<1>5. NothingElseRendered
  BY DEF Init, NothingElseRendered, Touched
<1> QED
  BY <1>1, <1>2, <1>3, <1>4, <1>5 DEF IInv

\* A turn of markSubtree keeps the invariant.
LEMMA ClimbInvariant == IInv /\ Climb => IInv'
<1> SUFFICES ASSUME IInv, Climb PROVE IInv'
  OBVIOUS
<1> USE DEF IInv
<1>1. at \in Nodes
  BY DEF Climb, TypeOK
<1>2. TypeOK'
  BY <1>1 DEF Climb, TypeOK
<1>3. KnownAbove'
  <2> SUFFICES ASSUME NEW n \in subtree'
               PROVE  parent'[n] \in subtree' \cup {NoNode, at'}
    BY DEF KnownAbove
  <2>1. CASE n \in subtree
    BY <2>1 DEF KnownAbove, Climb
  <2>2. CASE n \notin subtree
    BY <2>2 DEF Climb
  <2> QED
    BY <2>1, <2>2
<1>4. WrittenFlagged'
  BY DEF WrittenFlagged, Climb
<1>5. ClimbHasCause'
  <2> SUFFICES ASSUME NEW C \in SUBSET (Nodes \ Touched), Closed(C), at' \in C
               PROVE  FALSE
    BY DEF ClimbHasCause, Closed, Touched, Climb
  <2>1. at' = parent[at]
    BY NoNodeAssumption DEF Climb
  <2>2. at \in C
    BY <2>1, <1>1 DEF Closed
  <2> QED
    BY <2>2 DEF ClimbHasCause
<1>6. NothingElseRendered'
  <2> SUFFICES ASSUME NEW C \in SUBSET (Nodes \ Touched), Closed(C)
               PROVE  C \cap subtree' = {}
    BY DEF NothingElseRendered, Closed, Touched, Climb
  <2>1. C \cap subtree = {}
    BY DEF NothingElseRendered
  <2>2. at \notin C
    BY DEF ClimbHasCause
  <2> QED
    BY <2>1, <2>2 DEF Climb
<1> QED
  BY <1>2, <1>3, <1>4, <1>5, <1>6

\* An edit keeps the invariant.
LEMMA EditInvariant ==
  ASSUME IInv, Idle, NEW x \in Nodes, Relinks(x), Marks(x), present' \subseteq Nodes
  PROVE  IInv'
<1> USE DEF IInv
<1>0. /\ subtree' \subseteq subtree \cup {x}
      /\ subtree \subseteq subtree'
      /\ Touched' = Touched \cup {x}
  BY DEF Marks, MarkDirty, Touched
<1>1. TypeOK'
  <2>1. parent' \in [Nodes -> Nodes \cup {NoNode}]
    BY DEF TypeOK, Relinks
  <2>2. at' \in Nodes \cup {NoNode}
    BY DEF TypeOK, Marks, MarkDirty
  <2>3. /\ dirty' \subseteq Nodes
        /\ subtree' \subseteq Nodes
        /\ written' \subseteq Nodes
        /\ reshaped' \subseteq Headers
    BY DEF TypeOK, Marks, MarkDirty
  <2> QED
    BY <2>1, <2>2, <2>3 DEF TypeOK
<1>2. KnownAbove'
  <2> SUFFICES ASSUME NEW n \in subtree'
               PROVE  parent'[n] \in subtree' \cup {NoNode, at'}
    BY DEF KnownAbove
  <2>1. n \in Nodes
    BY <1>1 DEF TypeOK
  <2>2. x \in subtree' \cup {at'}
    BY DEF Marks, MarkDirty
  <2>3. CASE parent'[n] # parent[n]
    BY <2>1, <2>2, <2>3 DEF Relinks, TypeOK
  <2>4. CASE parent'[n] = parent[n] /\ n \in subtree
    BY <1>0, <2>4 DEF KnownAbove, Idle
  <2>5. CASE parent'[n] = parent[n] /\ n \notin subtree
    BY <2>5 DEF Marks, MarkDirty
  <2> QED
    BY <2>3, <2>4, <2>5
<1>3. WrittenFlagged'
  BY DEF WrittenFlagged, Marks, MarkDirty
<1>4. ClimbHasCause'
  <2> SUFFICES ASSUME NEW C \in SUBSET (Nodes \ Touched'), Closed(C)', at' \in C
               PROVE  FALSE
    BY DEF ClimbHasCause
  <2>1. x \notin C
    BY <1>0
  <2>2. at' = parent[x]
    BY <2>1 DEF Marks, MarkDirty
  <2>3. Closed(C)
    BY ClosedBefore
  <2> QED
    BY <2>1, <2>2, <2>3 DEF Closed
<1>5. NothingElseRendered'
  <2>1. ASSUME NEW C \in SUBSET (Nodes \ Touched'), Closed(C)'
        PROVE  C \cap subtree' = {}
    <3>1. Closed(C)
      BY <2>1, ClosedBefore
    <3>2. C \in SUBSET (Nodes \ Touched) /\ x \notin C
      BY <1>0
    <3>3. C \cap subtree = {}
      BY <3>1, <3>2 DEF NothingElseRendered
    <3> QED
      BY <1>0, <3>2, <3>3
  <2>2. dirty' \cap Headers \subseteq written'
    BY DEF NothingElseRendered, Marks, MarkDirty
  <2> QED
    BY <2>1, <2>2 DEF NothingElseRendered
<1> QED
  BY <1>1, <1>2, <1>3, <1>4, <1>5

\* Every step keeps the invariant.
LEMMA NextInvariant == IInv /\ [Next]_vars => IInv'
<1> SUFFICES ASSUME IInv, [Next]_vars PROVE IInv'
  OBVIOUS
<1>0. present \subseteq Nodes
  BY DEF IInv, TypeOK
<1>1. CASE Climb
  BY <1>1, ClimbInvariant
<1>2. ASSUME NEW n \in Nodes, Rename(n) PROVE IInv'
  <2>1. Idle /\ Relinks(n) /\ Marks(n) /\ present' \subseteq Nodes
    BY <1>0, <1>2 DEF Rename, Relinks, Marks
  <2> QED
    BY <2>1, EditInvariant
<1>3. ASSUME NEW n \in Nodes, SetComment(n) PROVE IInv'
  <2>1. Idle /\ Relinks(n) /\ Marks(n) /\ present' \subseteq Nodes
    BY <1>0, <1>3 DEF SetComment, Relinks, Marks
  <2> QED
    BY <2>1, EditInvariant
<1>4. ASSUME NEW c \in Nodes, NEW n \in Nodes, SetVal(c, n) PROVE IInv'
  <2>1. Idle /\ Relinks(c) /\ Marks(c)
    BY <1>4, ReshapeMarks DEF SetVal, Put, Relinks
  <2>2. present' \subseteq Nodes
    BY <1>0, <1>4, BelowAreNodes DEF SetVal
  <2> QED
    BY <2>1, <2>2, EditInvariant
<1>5. ASSUME NEW c \in Nodes, NEW n \in Nodes, Insert(c, n) PROVE IInv'
  <2>1. Idle /\ Relinks(c) /\ Marks(c)
    BY <1>5, ReshapeMarks DEF Insert, Put, Relinks
  <2>2. present' \subseteq Nodes
    BY <1>0, <1>5, BelowAreNodes DEF Insert
  <2> QED
    BY <2>1, <2>2, EditInvariant
<1>6. ASSUME NEW c \in Nodes, NEW m \in Nodes, NEW n \in Nodes, Replace(c, m, n)
      PROVE  IInv'
  <2>1. Idle /\ Relinks(c) /\ Marks(c)
    BY <1>6, ReshapeMarks DEF Replace, Put, Relinks
  <2>2. present' \subseteq Nodes
    BY <1>0, <1>6, BelowAreNodes DEF Replace
  <2> QED
    BY <2>1, <2>2, EditInvariant
<1>7. ASSUME NEW c \in Nodes, NEW m \in Nodes, Remove(c, m) PROVE IInv'
  <2>1. Idle /\ Relinks(c) /\ Marks(c) /\ present' \subseteq Nodes
    BY <1>0, <1>7, ReshapeMarks DEF Remove, Relinks
  <2> QED
    BY <2>1, EditInvariant
<1>8. ASSUME NEW c \in Nodes, PermuteNodes(c) PROVE IInv'
  <2>1. Idle /\ Relinks(c) /\ Marks(c) /\ present' \subseteq Nodes
    BY <1>0, <1>8, ReshapeMarks DEF PermuteNodes, Relinks
  <2> QED
    BY <2>1, EditInvariant
<1>9. CASE UNCHANGED vars
  BY <1>9 DEF vars, IInv, TypeOK, KnownAbove, WrittenFlagged, ClimbHasCause,
              NothingElseRendered, Touched, Closed
<1> QED
  BY <1>1, <1>2, <1>3, <1>4, <1>5, <1>6, <1>7, <1>8, <1>9 DEF Next

\* The invariant rules out stale bytes: the nodes that know of no write are
\* closed under what is put into them.
LEMMA InvariantMeansFresh == IInv => NoStaleSplice
<1> SUFFICES ASSUME IInv, Idle, NEW n \in Nodes, Spliced(n)
             PROVE  IF n \in Headers THEN n \notin written
                    ELSE \E C \in SUBSET (Nodes \ written) : n \in C /\ Closed(C)
  BY DEF NoStaleSplice
<1> USE DEF IInv
<1>1. CASE n \in Headers
  BY <1>1 DEF Spliced, WrittenFlagged
<1>2. CASE n \notin Headers
  <2> DEFINE Unaware == Nodes \ subtree
  <2>1. n \in Unaware
    BY <1>2 DEF Spliced
  <2>2. Unaware \in SUBSET (Nodes \ written)
    BY DEF WrittenFlagged
  <2>3. Closed(Unaware)
    <3> SUFFICES ASSUME NEW m \in Nodes, parent[m] \in Unaware PROVE m \notin subtree
      BY DEF Closed
    <3> QED
      BY NoNodeAssumption DEF KnownAbove, Idle
  <2> QED
    BY <1>2, <2>1, <2>2, <2>3
<1> QED
  BY <1>1, <1>2

\* The inductive invariant is an invariant (mutate.go, markSubtree: an ancestor
\* that already knows has ancestors that know too).
THEOREM Invariance == Spec => []IInv
<1> QED
  BY InitInvariant, NextInvariant, PTL DEF Spec

\* Flags and links keep their types.
THEOREM TypeCorrect == Spec => []TypeOK
<1>1. IInv => TypeOK
  BY DEF IInv
<1> QED
  BY <1>1, Invariance, PTL

\* However many edits a document has seen, no node splices bytes that an edit
\* below it made untrue.
THEOREM NothingStale == Spec => []NoStaleSplice
<1> QED
  BY InvariantMeansFresh, Invariance, PTL

\* Nothing is rendered anew that no edit touched (render.go, Bytes).
THEOREM Faithful == Spec => []NothingElseRendered
<1>1. IInv => NothingElseRendered
  BY DEF IInv
<1> QED
  BY <1>1, Invariance, PTL
=============================================================================
