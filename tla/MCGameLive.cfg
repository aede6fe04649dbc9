\* A 2v2 game between two divisions under fairness.
SPECIFICATION FairSpec
CONSTANTS
  ann = ann
  bob = bob
  cyd = cyd
  dan = dan
  r1 = r1
  r2 = r2
  Cron = Cron
  Users = {ann, bob, cyd, dan}
  Admins = {}
  Creator = ann
  TeamSize = 2
  Scores = {1}
  Invitations <- MCNobody
  Rosters <- MCPairs
  Requests = {r1, r2}
  Ops = {"create", "ready", "score", "end", "cancel", "cron"}
PROPERTIES
  ReadyGamesStart
  ScoredGamesEnd
  StartedGamesClose
