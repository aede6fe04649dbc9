\* Events of up to 5 single players in every mode, one call at a time.
SPECIFICATION Spec
CONSTANTS
  r1 = r1
  r2 = r2
  Rosters <- MCSingles
  Admins = {}
  TeamSize = 1
  Modes = {"tournament", "free_for_all", "limited_rounds"}
  RoundCounts = {1, 2}
  Limits = {5}
  Lineups <- MCUpTo5
  Results <- MCResults
  Requests = {r1}
  MaxGames = 4
  Ops = {"startRound", "endRound", "play", "image", "fail"}
INVARIANTS
  TypeOK
  RoundsAnnounced
  OncePerRound
  DrawComplete
  SecondRoundFresh
  SmallRoundRobinFresh
  RankingAddsUp
PROPERTIES
  RankingSettles
  FinishedForGood
CHECK_DEADLOCK FALSE
