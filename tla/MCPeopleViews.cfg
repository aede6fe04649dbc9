\* What canViewUserGameHistory says of itself, against what it answers.
SPECIFICATION PeopleSpec
CONSTANTS
  r1 = r1
  r2 = r2
  ann = ann
  bob = bob
  cid = cid
  People = {ann, bob, cid}
  AdminPeople = {}
  Founder = ann
  Host = bob
  Requests = {r1}
  Scenarios <- MCViews
  Sizes = {2}
  MaxTeams = 1
  MaxApplications = 0
  MaxDivisions = 0
  MaxFriendRequests = 1
INVARIANT HistoryAccess
CHECK_DEADLOCK FALSE
