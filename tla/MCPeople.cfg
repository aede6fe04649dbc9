\* Three users, one of them an admin, two requests in flight.
SPECIFICATION PeopleSpec
CONSTANTS
  r1 = r1
  r2 = r2
  ann = ann
  bob = bob
  cid = cid
  People = {ann, bob, cid}
  AdminPeople = {cid}
  Founder = ann
  Host = bob
  Requests = {r1, r2}
  Scenarios <- MCScenarios
  Sizes = {2, 3}
  MaxTeams = 2
  MaxApplications = 3
  MaxDivisions = 2
  MaxFriendRequests = 2
INVARIANTS
  MembershipTypeOK
  OnePendingApplication
  ApprovedWereIn
  LineupsWereMembers
  LineupsDiffer
  
  OneLink
  NoPeeking
PROPERTIES
  DecidedForGood
  FriendsForGood
SYMMETRY RequestSymmetry
CHECK_DEADLOCK FALSE
