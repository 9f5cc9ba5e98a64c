----------------------------- MODULE MCWriteFile -----------------------------
(***************************************************************************)
(* Two writers, two names, so that a name is taken and a dead writer's     *)
(* litter fills the directory; two renderings, one of them unsound; two    *)
(* umasks, neither of which leaves every mode alone.                       *)
(***************************************************************************)
EXTENDS WriteFile

CONSTANTS w1, w2, n1, n2, good, bad

MCWriters == {w1, w2}
MCAlone == {w1}
MCNames == {n1, n2}
MCRenderings == {good, bad}
MCSound == {good}
MCPerms == {"rw-rw-r--", "rw-r--r--", "rw-------"}
MCSpecials == {"setgid"}
MCNewPerm == "rw-r--r--"
\* 022 and 077.
MCUmask ==
  [w \in MCWriters |->
     [p \in MCPerms |-> IF w = w2 THEN "rw-------"
                        ELSE IF p = "rw-rw-r--" THEN "rw-r--r--" ELSE p]]
AloneUmask == [w \in MCAlone |-> MCUmask[w]]
=============================================================================
