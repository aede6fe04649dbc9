------------------------------- MODULE MCGame -------------------------------
(* Instances of Game for TLC.                                              *)
EXTENDS Game, TLC

CONSTANTS ann, bob, cyd, dan, r1, r2

MCScores == {0, 1}

\* 1v1: ann invites bob; single players are the teams of an event.
MCInvitations == {{ann, bob}}
MCSingles == {{ann}, {bob}}

\* 2v2: the line-ups of two divisions.
MCPairs == {{ann, bob}, {cyd, dan}}
MCNobody == {}

\* The two request slots are interchangeable.
RequestSymmetry == Permutations(Requests)
=============================================================================
