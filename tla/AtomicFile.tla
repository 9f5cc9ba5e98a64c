----------------------------- MODULE AtomicFile -----------------------------
(***************************************************************************)
(* What WriteFile promises of its destination: whatever fails or dies, the *)
(* file is at every moment one whole rendering that survives a round trip  *)
(* (or what it was before).  It changes in one step, to the rendering of a *)
(* call that answers success in that step.                                 *)
(***************************************************************************)
CONSTANTS
  Writers,     \* the calls of WriteFile
  Renderings,  \* what a document may render to
  Sound        \* the renderings that survive a round trip

VARIABLES
  content,  \* what the file holds
  wanted,   \* what each writer's last call rendered
  result    \* the answer of each writer's last call

Init == result = [w \in Writers |-> "none"]

Call(w) ==
  /\ result' = [result EXCEPT ![w] = "none"]
  /\ \E bytes \in Renderings : wanted' = [wanted EXCEPT ![w] = bytes]
  /\ UNCHANGED content

Install(w) ==
  /\ result[w] = "none"
  /\ wanted[w] \in Sound
  /\ content' = wanted[w]
  /\ result' = [result EXCEPT ![w] = "written"]
  /\ UNCHANGED wanted

Fail(w) ==
  /\ result[w] = "none"
  /\ result' = [result EXCEPT ![w] = "failed"]
  /\ UNCHANGED <<content, wanted>>

Next == \E w \in Writers : Call(w) \/ Install(w) \/ Fail(w)

Spec == Init /\ [][Next]_<<content, wanted, result>>
=============================================================================
