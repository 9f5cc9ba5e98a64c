----------------------------- MODULE MCReadLayer -----------------------------
(***************************************************************************)
(* Three threads, two foldable shapes and one that does not fold, and a    *)
(* generation counter that wraps after two writes.                         *)
(***************************************************************************)
EXTENDS ReadLayer

CONSTANTS t1, t2, t3, s1, s2, broken

MCThreads == {t1, t2, t3}
MCFoldable == {s1, s2}
MCShapes == {s1, s2, broken}
=============================================================================
