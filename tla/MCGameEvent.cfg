\* A 1v1 game of an event: stale saves of endRound and remove, failing queries.
SPECIFICATION Spec
CONSTANTS
  ann = ann
  bob = bob
  cyd = cyd
  dan = dan
  r1 = r1
  r2 = r2
  Cron = Cron
  Users = {ann, bob}
  Admins = {}
  Creator = ann
  TeamSize = 1
  Scores <- MCScores
  Invitations <- MCInvitations
  Rosters <- MCSingles
  Requests = {r1, r2}
  Ops = {"startRound", "ready", "score", "end", "cancel", "remove", "endRound", "fail"}
SYMMETRY RequestSymmetry
INVARIANT PlayNeedsReadiness
PROPERTY Lifecycle
\* A deleted game stays deleted.
CHECK_DEADLOCK FALSE
