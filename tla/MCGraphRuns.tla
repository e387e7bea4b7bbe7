---------------------------- MODULE MCGraphRuns ----------------------------
(* Instances of GraphRuns for TLC. *)
EXTENDS GraphRuns, TLC

Symmetry == Permutations(Request)

(***************************************************************************)
(* Behaviours without any fault: no exception, no crash, no lost reply, no *)
(* run that grows old.  What goes wrong here goes wrong by interleaving.   *)
(***************************************************************************)
Healthy ==
  /\ worker' \notin {"failing", "raised"}
  /\ lost' = {}
  /\ \A q \in Request : pc'[q] # "undoLock" /\ ~row'[q].stale

HealthySpec == Init /\ [][Next /\ Healthy]_vars
=============================================================================
