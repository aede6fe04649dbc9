\* A 1v1 ad-hoc game: two requests in flight at a time, and the cron.
SPECIFICATION Spec
CONSTANTS
  ann = ann
  bob = bob
  cyd = cyd
  dan = dan
  r1 = r1
  r2 = r2
  Cron = Cron
  Users = {ann, bob}
  Admins = {}
  Creator = ann
  TeamSize = 1
  Scores <- MCScores
  Invitations <- MCInvitations
  Rosters <- MCSingles
  Requests = {r1, r2}
  Ops = {"create", "join", "leave", "ready", "score", "end", "cancel", "remove", "cron"}
SYMMETRY RequestSymmetry
INVARIANTS
  TypeOK
  PlayNeedsReadiness
  WinnerNeedsScores
  NoLostStart
  NoLostEnd
PROPERTY Lifecycle
\* A deleted game stays deleted.
CHECK_DEADLOCK FALSE
