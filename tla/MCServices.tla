----------------------------- MODULE MCServices -----------------------------
(* Instances of Services for TLC.                                          *)
EXTENDS Services, TLC

CONSTANTS r1, r2, ann, bob, picture1, picture2, like

MCScenarios ==
  {{"login", "refresh", "logout"},
   {"login", "refresh", "removeUser"},
   {"readHistory", "createGame", "endGame", "closeStale", "movePlayer", "updateGame"},
   {"readHistory", "createGame", "endGame", "closeStale", "cancelGame", "movePlayer"},
   {"readHistory", "createGame", "endGame", "cancelGame", "removeGame"},
   {"readEvents", "createEvent", "joinEvent", "leaveEvent"},
   {"readEvents", "createEvent", "joinEvent", "updateEvent", "deleteEvent"},
   {"firstPicture", "uploadAvatar", "fail"},
   {"firstPicture", "uploadPhoto", "fail"},
   {"firstPicture", "uploadEventImage", "deleteEventImage", "saveEvent", "fail"},
   {"connect", "connectTwice", "createPost"},
   {"connect", "createPost", "updatePost", "removePost"},
   {"connect", "createPost", "react", "unreact"}}

\* The requests and the pictures have no order.
MCSymmetry == Permutations(Requests) \cup Permutations(Pictures)
=============================================================================
