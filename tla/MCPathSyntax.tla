---------------------------- MODULE MCPathSyntax ----------------------------
(* Every path of at most four bytes, and every list of at most two segments    *)
(* with keys of at most two bytes.                                             *)
EXTENDS PathSyntax

CONSTANT MaxPath    \* bytes of a path a caller writes
MaxKey == 2
MaxSegments == 2

Bytes == {"a", "1", ".", "[", "]", "\"", "\\", "-"}
Texts == UNION {[1..n -> Bytes] : n \in 0..MaxPath}
LeadingDots == {p \in Texts : p # <<>> /\ p[1] = "."}
ProperTexts == Texts \ LeadingDots

Segments ==
  {Key(k) : k \in UNION {[1..n -> Bytes] : n \in 0..MaxKey}} \cup
  {Index(n) : n \in {-12, 0, 7}}
Lists == UNION {[1..n -> Segments] : n \in 1..MaxSegments}
NoLists == {}

=============================================================================
