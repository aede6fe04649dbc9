\* A round robin of 6 teams.
SPECIFICATION Spec
CONSTANTS
  r1 = r1
  r2 = r2
  Rosters <- MCSingles
  Admins = {}
  TeamSize = 1
  Modes = {"free_for_all"}
  RoundCounts = {1}
  Limits = {6}
  Lineups <- MCSix
  Results <- MCDraw
  Requests = {r1}
  MaxGames = 15
  Ops = {"startRound", "play"}
INVARIANT RoundRobinFresh
CHECK_DEADLOCK FALSE
