--------------------------- MODULE MCEventRounds ---------------------------
(* Instances of EventRounds for TLC.                                       *)
EXTENDS Standings, TLC

CONSTANTS r1, r2

\* 1v1: single players, listed in a fixed order.
MCSingles == {{i} : i \in 1..6}
MCListed(n) == [i \in 1..n |-> {i}]
MCUpTo5 == {MCListed(n) : n \in 2..5}
MCUpTo4 == {MCListed(n) : n \in 2..4}
MCSix == {MCListed(6)}
MCNone == {<<>>}

\* 2v2: line-ups that share players.
MCPairs == {{1, 2}, {2, 3}, {3, 4}}

\* Decided, drawn, or ended without scores, which endRound makes 0:0; or always the
\* same result, where it does not matter.
MCResults == {<<1, 0>>, <<0, 1>>, <<1, 1>>, <<Null, Null>>}
MCDraw == {<<0, 0>>}

RequestSymmetry == Permutations(Requests)
=============================================================================
