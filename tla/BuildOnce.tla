------------------------------ MODULE BuildOnce ------------------------------
(***************************************************************************)
(* What the build queue promises to a caller of startRun, seen from        *)
(* outside: every requested run is executed at most once, and never two of *)
(* them at the same time.  It is no promise that a run is executed: it may *)
(* be refused, or lost on the way.                                         *)
(***************************************************************************)
CONSTANT Run

VARIABLE phase   \* [Run -> {"waiting", "executing", "over"}]

Init == phase = [q \in Run |-> "waiting"]

Begin(q) ==
  /\ phase[q] = "waiting"
  /\ \A r \in Run : phase[r] # "executing"
  /\ phase' = [phase EXCEPT ![q] = "executing"]

End(q) ==
  /\ phase[q] = "executing"
  /\ phase' = [phase EXCEPT ![q] = "over"]

\* Refused, failed before it reached the queue, or lost.
Drop(q) ==
  /\ phase[q] = "waiting"
  /\ phase' = [phase EXCEPT ![q] = "over"]

Next == \E q \in Run : Begin(q) \/ End(q) \/ Drop(q)

Spec == Init /\ [][Next]_phase
=============================================================================
