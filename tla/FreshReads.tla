----------------------------- MODULE FreshReads -----------------------------
(***************************************************************************)
(* What the read-layer promises: a write changes the document at once, and *)
(* a read answers the fold of the document as it stands.                   *)
(***************************************************************************)
CONSTANTS
  Threads,   \* the goroutines that use the document
  Shapes,    \* what the document may say
  Foldable,  \* the shapes that fold into a layer
  NoAnswer   \* the error of a read that could not fold

VARIABLES
  shape,  \* what the document says
  got     \* the last answer each thread was given

Answer(s) == IF s \in Foldable THEN s ELSE NoAnswer

Init == shape \in Shapes /\ got = [t \in Threads |-> NoAnswer]

Write == shape' \in Shapes /\ UNCHANGED got

Read(t) == got' = [got EXCEPT ![t] = Answer(shape)] /\ UNCHANGED shape

Next == Write \/ \E t \in Threads : Read(t)

Spec == Init /\ [][Next]_<<shape, got>>
=============================================================================
