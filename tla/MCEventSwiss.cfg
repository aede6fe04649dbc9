\* A tournament of 4 teams.
SPECIFICATION Spec
CONSTANTS
  r1 = r1
  r2 = r2
  Rosters <- MCSingles
  Admins = {}
  TeamSize = 1
  Modes = {"tournament"}
  RoundCounts = {3}
  Limits = {5}
  Lineups <- MCUpTo4
  Results <- MCResults
  Requests = {r1}
  MaxGames = 6
  Ops = {"startRound", "play"}
INVARIANT RematchIsForced
CHECK_DEADLOCK FALSE
