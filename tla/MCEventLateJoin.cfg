\* A team joins while the creator starts the first round.
SPECIFICATION Spec
CONSTANTS
  r1 = r1
  r2 = r2
  Rosters <- MCSingles
  Admins = {}
  TeamSize = 1
  Modes = {"free_for_all"}
  RoundCounts = {1}
  Limits = {5}
  Lineups <- MCUpTo4
  Results <- MCDraw
  Requests = {r1, r2}
  MaxGames = 2
  Ops = {"join", "startRound"}
PROPERTY NoLateEntry
CHECK_DEADLOCK FALSE
