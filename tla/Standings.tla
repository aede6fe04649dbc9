----------------------------- MODULE Standings -----------------------------
(***************************************************************************)
(* What an event shows of its games: the games still on, the status and    *)
(* the ranking (getActiveGames, getStatus, getRanking). They are functions *)
(* of the event and its games as one query loads them.                     *)
(***************************************************************************)
EXTENDS EventRounds

AllRounds == 0

\* getActiveGames
ActiveGames == {i \in InRound(event.round) : ~games[i].cancelled /\ ~games[i].over}

\* Mutant: that there are rounds to come is forgotten.
StatusOfRound ==
  IF Attached = {} /\ clock = "open" THEN "not started"
  ELSE IF ActiveGames = {} THEN "finished" ELSE "in progress"

\* getStatus
Status ==
  IF Attached = {} /\ clock = "open" THEN "not started"
  ELSE IF event.round >= event.rounds /\ ActiveGames = {} THEN "finished" ELSE "in progress"

-----------------------------------------------------------------------------
(* getRanking.                                                             *)

\* A round that the event does not have stands for all of them.
Asked(n) == IF n \in 1..event.rounds THEN n ELSE AllRounds

\* Mutant: all the games, whatever the round asked for.
ResultsOfAll(n) ==
  {games[i] : i \in {j \in Attached : Scored(games[j]) /\ ~games[j].cancelled}}

\* The games with both scores, up to a round.
ResultsUpTo(n) ==
  {games[i] : i \in {j \in Attached :
     Scored(games[j]) /\ ~games[j].cancelled /\ (n = AllRounds \/ games[j].round <= n)}}

\* The games of a user, with the side the user was on.
Turns(u, results) == {turn \in results \X {1, 2} : u \in turn[1].sides[turn[2]]}
For(turn) == turn[1].score[turn[2]]
Against(turn) == turn[1].score[3 - turn[2]]

\* Mutant: what is not won is lost.
UserStatsNoDraws(u, results) ==
  LET turns == Turns(u, results) IN
  [wins |-> Cardinality({turn \in turns : For(turn) > Against(turn)}),
   draws |-> Cardinality({turn \in turns : For(turn) = Against(turn)}),
   losses |-> Cardinality({turn \in turns : For(turn) <= Against(turn)}),
   pointsFor |-> SumFunction([turn \in turns |-> For(turn)]),
   pointsAgainst |-> SumFunction([turn \in turns |-> Against(turn)]),
   opponents |-> UNION {turn[1].sides[3 - turn[2]] : turn \in turns}]

UserStats(u, results) ==
  LET turns == Turns(u, results) IN
  [wins |-> Cardinality({turn \in turns : For(turn) > Against(turn)}),
   draws |-> Cardinality({turn \in turns : For(turn) = Against(turn)}),
   losses |-> Cardinality({turn \in turns : For(turn) < Against(turn)}),
   pointsFor |-> SumFunction([turn \in turns |-> For(turn)]),
   pointsAgainst |-> SumFunction([turn \in turns |-> Against(turn)]),
   opponents |-> UNION {turn[1].sides[3 - turn[2]] : turn \in turns}]

\* Tournament points, in halves: 1 for a win, 0.5 for a draw.
HalfPoints(stats) == 2 * stats.wins + stats.draws

\* An entry of the list has the numbers of its team's first member; opponents
\* that are not entered any more add nothing to their strength.
RankingEntry(i, results) ==
  LET stats == UserStats(CHOOSE u \in event.lineup[i] : TRUE, results)
      entered == stats.opponents \cap Playing(event.lineup)
      strength == SumFunction([o \in entered |-> HalfPoints(UserStats(o, results))])
  IN [position |-> i, stats |-> stats, opponentsStrength |-> strength]

\* By points scored, then by tournament points, then by the opponents' strength;
\* ties keep the order of the event's list.
Precedes(a, b) ==
  LET key(entry) == <<entry.stats.pointsFor, HalfPoints(entry.stats),
                      entry.opponentsStrength, -entry.position>>
      x == key(a)
      y == key(b)
  IN \E d \in 1..4 : x[d] > y[d] /\ \A e \in 1..(d - 1) : x[e] = y[e]

Ranking(n) ==
  LET results == ResultsUpTo(Asked(n))
      entries == {RankingEntry(i, results) : i \in DOMAIN event.lineup}
  IN [rank \in DOMAIN event.lineup |->
        CHOOSE a \in entries : Cardinality({b \in entries : Precedes(b, a)}) = rank - 1]

-----------------------------------------------------------------------------
(* Properties, as long as the calls come one after the other.              *)

Total(table, column) == SumFunction([rank \in DOMAIN table |-> table[rank].stats[column]])

\* Between the calls, every win in a ranking is somebody's loss and every point
\* scored is conceded by somebody, whichever announced round it is asked for, or none;
\* and no team shows more games than rounds have been drawn.
RankingAddsUp ==
  pc = [p \in Requests |-> "idle"] =>
    \A n \in AllRounds..event.round :
      LET table == Ranking(n)
          drawn == IF Asked(n) = AllRounds THEN event.round ELSE n
      IN /\ Total(table, "wins") = Total(table, "losses")
         /\ Total(table, "pointsFor") = Total(table, "pointsAgainst")
         /\ \A r \in DOMAIN table :
              table[r].stats.wins + table[r].stats.draws + table[r].stats.losses <= drawn

\* Every game up to round n is over with both scores, or called off, and no endRound
\* that loaded one of them before that is still to save it.
Settled(n) ==
  /\ \A i \in Attached : games[i].round <= n =>
       games[i].cancelled \/ (games[i].over /\ Scored(games[i]))
  /\ \A p \in Requests : \A g \in local[p].rows : g.round <= n => games[g.id] = g

\* The results behind the ranking of a round stay once they are settled, but for
\* games that are called off later: no save of startRound or endRound for a later
\* round, nor of endRound for this one, loses or changes any. (A game that ended
\* without its scores is not settled: endRound gives it 0:0, and overwrites a result
\* that came in after it had loaded the game.)
RankingSettles ==
  [][\A n \in 1..event.round : Settled(n) =>
       ResultsUpTo(Asked(n))' = {g \in ResultsUpTo(Asked(n)) : ~games'[g.id].cancelled}]_vars

\* No round is started any more once the event shows as finished. (Between the
\* announcement of the last round and its first game it already does, and games
\* of earlier rounds may still be on.)
FinishedForGood == [][Status = "finished" => event'.round = event.round]_vars
=============================================================================
