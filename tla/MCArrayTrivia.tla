--------------------------- MODULE MCArrayTrivia ----------------------------
(***************************************************************************)
(* Every array text of up to MaxText tokens.                               *)
(***************************************************************************)
EXTENDS ArrayTrivia
CONSTANT MaxText

\* Values and comments are named by their places, every other comment is
\* indented.
Named(shape) ==
  [i \in DOMAIN shape |->
     CASE shape[i] = "value"   -> Value(i)
       [] shape[i] = "comment" -> Comment(i, IF i % 2 = 0 THEN IndentWidth ELSE 0)
       [] shape[i] = "comma"   -> Comma
       [] OTHER                -> Newline]
Shapes(n) == [1..n -> {"value", "comment", "comma", "newline"}]
MCTexts ==
  UNION {{tokens \in {Named(shape) : shape \in Shapes(n)} : Readable(tokens)} : n \in 0..MaxText}
MCNames == 1..102
MCValues == {101}
MCComments == {102}
=============================================================================
