----------------------------- MODULE VersionLog -----------------------------
(***************************************************************************)
(* What the itinerary versions of a trip promise to whoever shows, shares, *)
(* votes on or rebuilds from a version it has read: they are a log.  A     *)
(* version is saved behind all others, it is then the current one, and its *)
(* routes never change.  The fact about its city is settled once at most,  *)
(* when it is saved or later; a version may be replaced before it is.      *)
(***************************************************************************)
EXTENDS Integers

VARIABLES
  log,      \* version number -> its routes, or the build that made them
  settled,  \* versions whose city fact is settled
  current   \* the version that readers are shown, 0 before the first

vars == <<log, settled, current>>

Init ==
  /\ current \in {0, 1}
  /\ DOMAIN log = 1..current
  /\ settled = {}

Save ==
  /\ current' = current + 1
  /\ DOMAIN log' = 1..current'
  /\ \A v \in DOMAIN log : log'[v] = log[v]
  /\ settled' \in {settled, settled \union {current'}}

Settle(v) ==
  /\ v \in DOMAIN log \ settled
  /\ settled' = settled \union {v}
  /\ UNCHANGED <<log, current>>

Next == Save \/ \E v \in DOMAIN log : Settle(v)

Spec == Init /\ [][Next]_vars
=============================================================================
