---------------------------- MODULE Matchmaking ----------------------------
(***************************************************************************)
(* How EventsService pairs the teams of an event for a round: greedily in  *)
(* the first round and outside tournaments (generateMatchups), by ranking  *)
(* in the later rounds of a tournament (generateTournamentMatchups).       *)
(*                                                                         *)
(* `entries` is the event's list of teams, `played` the set of games of    *)
(* earlier rounds with both scores. A game has an id, its two sides and    *)
(* their scores; teams are compared by their members, in any order.        *)
(***************************************************************************)
EXTENDS Integers, Sequences, FiniteSets, SequencesExt, FiniteSetsExt

\* havePlayedBefore
Met(a, b, played) == \E g \in played : {g.sides[1], g.sides[2]} = {a, b}

\* computeRoundRobinRounds
RoundRobinRounds(n) == IF n < 2 THEN 1 ELSE IF n % 2 = 0 THEN n - 1 ELSE n

\* Mutant: only the first of the pair is taken off the list.
DrawingOverlap(entries, pick) ==
  LET draw[rest \in Seq(ToSet(entries))] ==
        IF Len(rest) < 2 THEN <<>>
        ELSE LET c == pick[rest] IN
             <<<<rest[c[1]], rest[c[2]]>>>> \o draw[RemoveAt(rest, c[1])]
  IN draw[entries]

\* Mutant: the last pair is left out.
DrawingShort(entries, pick) ==
  LET draw[rest \in Seq(ToSet(entries))] ==
        IF Len(rest) < 3 THEN <<>>
        ELSE LET c == pick[rest] IN
             <<<<rest[c[1]], rest[c[2]]>>>> \o draw[RemoveAt(RemoveAt(rest, c[2]), c[1])]
  IN draw[entries]

\* Both generators take one pair of positions (pick[rest]) after another off the
\* list, as long as two teams remain; an odd team sits out.
Drawing(entries, pick) ==
  LET draw[rest \in Seq(ToSet(entries))] ==
        IF Len(rest) < 2 THEN <<>>
        ELSE LET c == pick[rest] IN
             <<<<rest[c[1]], rest[c[2]]>>>> \o draw[RemoveAt(RemoveAt(rest, c[2]), c[1])]
  IN draw[entries]

-----------------------------------------------------------------------------
(* generateMatchups: the first pair that has not met, or the first pair.   *)

Positions(rest) == {c \in (1..Len(rest)) \X (1..Len(rest)) : c[1] < c[2]}

FirstOf(pairs) ==
  CHOOSE c \in pairs : \A d \in pairs : c[1] < d[1] \/ (c[1] = d[1] /\ c[2] <= d[2])

\* Mutant: pairs are taken in order, met or not.
MatchupsInOrder(entries, played) ==
  Drawing(entries, [rest \in Seq(ToSet(entries)) |-> FirstOf(Positions(rest))])

Matchups(entries, played) ==
  Drawing(entries, [rest \in Seq(ToSet(entries)) |->
    LET fresh == {c \in Positions(rest) : ~Met(rest[c[1]], rest[c[2]], played)} IN
    FirstOf(IF fresh = {} THEN Positions(rest) ELSE fresh)])

-----------------------------------------------------------------------------
(* calculateTeamStats and the ranking of generateTournamentMatchups.       *)

GamesOf(t, played) == {g \in played : t \in {g.sides[1], g.sides[2]}}
Own(t, g) == IF g.sides[1] = t THEN g.score[1] ELSE g.score[2]
Other(t, g) == IF g.sides[1] = t THEN g.score[2] ELSE g.score[1]

WinRecord(t, played) ==
  LET games == GamesOf(t, played) IN
  Cardinality({g \in games : Own(t, g) > Other(t, g)})
    - Cardinality({g \in games : Own(t, g) < Other(t, g)})

PointsFor(t, played) == MapThenSumSet(LAMBDA g : Own(t, g), GamesOf(t, played))
PointsAgainst(t, played) == MapThenSumSet(LAMBDA g : Other(t, g), GamesOf(t, played))

\* Win record, then point differential, then points; ties keep the list's order.
RanksAbove(entries, played, i, j) ==
  LET key(k) == LET t == entries[k] IN
                <<WinRecord(t, played),
                  PointsFor(t, played) - PointsAgainst(t, played),
                  PointsFor(t, played), -k>>
      a == key(i)
      b == key(j)
  IN \E d \in 1..4 : a[d] > b[d] /\ \A e \in 1..(d - 1) : a[e] = b[e]

Ranked(entries, played) ==
  [r \in 1..Len(entries) |->
     entries[CHOOSE i \in 1..Len(entries) :
               Cardinality({j \in 1..Len(entries) : RanksAbove(entries, played, j, i)}) = r - 1]]

\* Mutant: the record is compared, the meetings are not.
OpponentMetOrNot(rest, played) ==
  LET peers == {i \in 2..Len(rest) :
                  WinRecord(rest[i], played) = WinRecord(rest[1], played)}
  IN IF peers = {} THEN 2 ELSE Min(peers)

\* The opponent of the best remaining team: the best one with the same record
\* that it has not met. Otherwise it is the next in the ranking, met or not: the
\* loop settles on that one before it looks further for a team it has not met.
Opponent(rest, played) ==
  LET peers == {i \in 2..Len(rest) :
                  /\ WinRecord(rest[i], played) = WinRecord(rest[1], played)
                  /\ ~Met(rest[1], rest[i], played)}
  IN IF peers = {} THEN 2 ELSE Min(peers)

TournamentMatchups(entries, played) ==
  Drawing(Ranked(entries, played),
          [rest \in Seq(ToSet(entries)) |-> <<1, Opponent(rest, played)>>])
=============================================================================
