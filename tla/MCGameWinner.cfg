\* A game of an event, one request at a time: what endRound leaves behind.
SPECIFICATION Spec
CONSTANTS
  ann = ann
  bob = bob
  cyd = cyd
  dan = dan
  r1 = r1
  r2 = r2
  Cron = Cron
  Users = {ann, bob}
  Admins = {}
  Creator = ann
  TeamSize = 1
  Scores <- MCScores
  Invitations <- MCInvitations
  Rosters <- MCSingles
  Requests = {r1}
  Ops = {"startRound", "ready", "score", "endRound"}
INVARIANT WinnerMatchesScores
CHECK_DEADLOCK FALSE
