---------------------------- MODULE MCDocTrivia -----------------------------
(***************************************************************************)
(* Every document of up to MaxText lines, written plainly and with         *)
(* whitespace wherever it may stand, with and without a newline at its     *)
(* end, and two of four lines.                                             *)
(***************************************************************************)
EXTENDS DocTrivia
CONSTANT MaxText

\* Lines are named by their places.
Plainly(k, i) ==
  CASE k = "blank"   -> BlankLine(0)
    [] k = "comment" -> CommentLine(0, i)
    [] k = "pair"    -> Line("pair", 0, i, 1, <<10 + i>>)
    [] k = "header"  -> Construct("header", i)
Spaced(k, i) ==
  CASE k = "blank"   -> BlankLine(3)
    [] k = "comment" -> CommentLine(3, i)
    [] k = "pair"    -> Construct("pair", i)
    [] k = "header"  -> Line("header", 3, i, 4, <<10 + i>>)
Shapes == UNION {[1..n -> {"blank", "comment", "pair", "header"}] : n \in 0..MaxText}
Longer == {<<"comment", "blank", "comment", "pair">>, <<"pair", "header", "blank", "comment">>}
MCTexts ==
  LET shapes == Shapes \cup Longer
      ended == {[i \in DOMAIN s |-> Plainly(s[i], i)] : s \in shapes}
                 \cup {[i \in DOMAIN s |-> Spaced(s[i], i)] : s \in shapes}
      unended == {[text EXCEPT ![Len(text)] = Unended(@)] : text \in ended \ {<<>>}}
  IN {text \in ended \cup unended : Readable(text)}
MCNames == 1..102
MCValues == {101}
MCComments == {102}
=============================================================================
