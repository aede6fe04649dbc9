\* Two requests in flight; one account, one game, one event, one picture and
\* one post; two users.
SPECIFICATION ServicesSpec
CONSTANTS
  r1 = r1
  r2 = r2
  ann = ann
  bob = bob
  picture1 = picture1
  picture2 = picture2
  like = like
  Requests = {r1, r2}
  Scenarios <- MCScenarios
  MaxSeconds = 1
  Readers = {ann, bob}
  Players = {ann, bob}
  Organizer = ann
  MaxChanges = 4
  Pictures = {picture1, picture2}
  Board = {ann, bob}
  Sockets = {1, 2}
  Texts = {1, 2}
  Reactions = {like}
INVARIANTS
  UsedOnce
  RevokedForGood
  PagesFresh
  NoPageSurvives
  PictureExists
  NoOrphans
  Reachable
  BoardCurrent
SYMMETRY MCSymmetry
CHECK_DEADLOCK FALSE
