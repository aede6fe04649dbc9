------------------------------ MODULE MCPeople ------------------------------
(* Instances of People for TLC.                                            *)
EXTENDS People, TLC

CONSTANTS r1, r2, ann, bob, cid

MCScenarios ==
  {{"apply", "decide", "withdraw", "fail"},
   {"createTeam", "apply", "decide"},
   {"createTeam", "updateTeam", "removeTeam"},
   {"updateTeam", "updateProfile", "removeAccount"},
   {"createDivision", "updateDivision", "removeDivision", "updateProfile"},
   {"createDivision", "updateDivision", "removeAccount"},
   {"befriend", "answer", "unlink"},
   {"befriend", "answer", "removeAccount"},
   {"befriend", "answer", "view"},
   {"updateProfile", "view"},
   {"invite", "uninvite", "viewEvent", "removeAccount"}}
MCViews == {{"befriend", "answer", "view", "removeAccount"}}

RequestSymmetry == Permutations(Requests)
=============================================================================
