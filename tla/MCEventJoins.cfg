\* Two overlapping requests on a small 2v2 event.
SPECIFICATION Spec
CONSTANTS
  r1 = r1
  r2 = r2
  Rosters <- MCPairs
  Admins = {}
  TeamSize = 2
  Modes = {"limited_rounds"}
  RoundCounts = {1}
  Limits = {1, 2}
  Lineups <- MCNone
  Results <- MCDraw
  Requests = {r1, r2}
  MaxGames = 1
  Ops = {"join", "leave", "startRound", "delete", "update", "cancel", "tick"}
SYMMETRY RequestSymmetry
INVARIANTS
  EntriesFit
  NeverOverfull
CHECK_DEADLOCK FALSE
