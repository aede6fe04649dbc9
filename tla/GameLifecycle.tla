--------------------------- MODULE GameLifecycle ---------------------------
(***************************************************************************)
(* What a game of the back end promises, whatever requests, cron runs and  *)
(* end-of-round calls overlap on its row: it becomes ready, it starts, its *)
(* teams' results arrive, it is over, in that order and never backwards;   *)
(* a winner is named only in a game that is over and has both results.     *)
(* Once somebody has begun to delete it nothing more is promised.          *)
(***************************************************************************)

CONSTANT Team  \* the two sides of a game

VARIABLES
  phase,    \* none -> open -> ready -> over, and gone from any of them
  started,  \* the start of play has been recorded
  scored,   \* the teams whose score is recorded
  winner    \* "nobody", "decided" (one of the teams won)

vars == <<phase, started, scored, winner>>

Live == phase # "gone"

Init ==
  /\ phase = "none"
  /\ started = FALSE
  /\ scored = {}
  /\ winner = "nobody"

\* The game is created, with no result and nobody ready.
Open ==
  /\ phase = "none"
  /\ phase' = "open"
  /\ UNCHANGED <<started, scored, winner>>

\* The second of the two teams declares itself ready.
GetReady ==
  /\ phase = "open"
  /\ phase' = "ready"
  /\ UNCHANGED <<started, scored, winner>>

\* Play starts; a slow start may be recorded after a fast end.
Start ==
  /\ phase \in {"ready", "over"}
  /\ started' = TRUE
  /\ UNCHANGED <<phase, scored, winner>>

\* A team's score is recorded, or recorded again.
Score ==
  /\ phase \in {"ready", "over"}
  /\ \E t \in Team : scored' = scored \cup {t}
  /\ UNCHANGED <<phase, started, winner>>

\* The game is ended by its players or by its scores. The winner is settled
\* only if both scores are there.
Finish ==
  /\ phase \in {"ready", "over"}
  /\ phase' = "over"
  /\ \/ winner' = winner
     \/ scored = Team /\ winner' \in {"nobody", "decided"}
  /\ UNCHANGED <<started, scored>>

\* The game is closed from outside (hourly cron, end of an event's round):
\* missing scores are filled in, whatever is recorded is recorded in full.
Close ==
  /\ phase \in {"open", "ready", "over"}
  /\ phase' = "over"
  /\ started' = TRUE
  /\ scored' = Team
  /\ winner' \in {"nobody", "decided"}

\* Deletion begins.
Remove ==
  /\ Live
  /\ phase # "none"
  /\ phase' = "gone"
  /\ started' = FALSE
  /\ scored' = {}
  /\ winner' = "nobody"

Next == Open \/ GetReady \/ Start \/ Score \/ Finish \/ Close \/ Remove

Spec == Init /\ [][Next]_vars
=============================================================================
