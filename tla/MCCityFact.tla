----------------------------- MODULE MCCityFact -----------------------------
(* Instances of CityFact for TLC. *)
EXTENDS CityFact, TLC

Symmetry == Permutations(Run)

\* The behaviours in which the mode changes once at most, because the key stops working.
\* Runs differ by their names only, so the first to start is always the same one.
First == CHOOSE q \in Run : TRUE

OneChangeNext ==
  /\ Next
  /\ llm' \in {llm, "unusable"}
  /\ (\E q \in Run : row'[q].status # "absent") => row'[First].status # "absent"

OneChangeFairSpec == Init /\ [][OneChangeNext]_vars /\ Fairness
=============================================================================
