---------------------------- MODULE EventRounds ----------------------------
(***************************************************************************)
(* One row of the `event` table, the games that hang off it, and the       *)
(* handlers of EventsService that write them: join, leave, update,         *)
(* startRound, endRound and delete. What happens inside a game is the      *)
(* subject of Game; here a game just gets its result, or is cancelled.     *)
(*                                                                         *)
(* A handler loads the event, as a rule together with its games, changes   *)
(* the loaded entity and saves it. A save writes every column of the row   *)
(* as the entity has it, `deletedAt` included, and makes the event's games *)
(* exactly those of the entity, if it has them: the others lose their      *)
(* event, missing ones get it back. Between the load and the save any      *)
(* other handler may run.                                                  *)
(***************************************************************************)
EXTENDS Matchmaking

CONSTANTS
  Rosters,   \* the teams that can be entered: sets of users
  Admins,    \* users with an admin role
  TeamSize,  \* the event's game type
  Modes,     \* the modes of this instance
  RoundCounts, Limits,  \* the values for `rounds` and `participantLimit`
  Lineups,   \* the teams that have joined so far
  Results,   \* the pairs of scores a game may end with
  Requests,  \* requests in flight at once
  MaxGames,  \* bound on the number of games ever created
  Ops        \* the operations this instance exercises

AllModes == {"tournament", "limited_rounds", "free_for_all"}
Null == -1    \* a nullable column that is null
NoLimit == 0

\* Teams that share no player, each of the event's size: what join lets in.
Disjoint(teams) == \A i, j \in DOMAIN teams : i # j => teams[i] \cap teams[j] = {}
Sized(teams) == \A i \in DOMAIN teams : Cardinality(teams[i]) = TeamSize

ASSUME EventAssumption ==
  /\ TeamSize \in Nat \ {0} /\ MaxGames \in Nat
  /\ Modes \subseteq AllModes
  /\ \A team \in Rosters : IsFiniteSet(team)
  /\ RoundCounts \subseteq Nat \ {0} /\ Limits \subseteq Nat
  /\ Lineups \subseteq Seq(Rosters)
  /\ \A lineup \in Lineups : Disjoint(lineup) /\ Sized(lineup)
  /\ Results \subseteq (Nat \cup {Null}) \X (Nat \cup {Null})

VARIABLES
  event,  \* the scalar columns of the row, its participants among them
  games,  \* the games ever created for the event, by number
  clock,  \* "open" for joining, "closed" from startTime, "ended" from endTime
  pc,     \* the await at which each request stands
  local,  \* the entity, the games and the plans it holds there
  had     \* history: the limits the row has had so far

vars == <<event, games, clock, pc, local, had>>

Teams(lineup) == ToSet(lineup)
Playing(lineup) == UNION Teams(lineup)
Attached == {i \in DOMAIN games : games[i].attached}
InRound(n) == {i \in Attached : games[i].round = n}
Scored(g) == g.score[1] # Null /\ g.score[2] # Null

\* The scored games of earlier rounds: what matchmaking looks at.
Played(n) == {games[i] : i \in {j \in Attached : games[j].round < n /\ Scored(games[j])}}

\* The games that startRound draws for round n of an event e.
Draw(e, n) ==
  IF e.mode = "tournament" /\ n > 1
  THEN TournamentMatchups(e.lineup, Played(n))
  ELSE Matchups(e.lineup, Played(n))

\* Mutant: the number of the round before, as the entity was loaded.
NewGameRoundBefore(id, n, pair) ==
  [id |-> id, round |-> n - 1, sides |-> pair, score |-> <<Null, Null>>,
   over |-> FALSE, cancelled |-> FALSE, attached |-> TRUE]

NewGame(id, n, pair) ==
  [id |-> id, round |-> n, sides |-> pair, score |-> <<Null, Null>>,
   over |-> FALSE, cancelled |-> FALSE, attached |-> TRUE]

BlankEvent == [mode |-> "limited_rounds", lineup |-> <<>>, round |-> 0, rounds |-> 1,
               limit |-> NoLimit, deleted |-> FALSE]

\* What an idle request holds.
Nothing == [event |-> BlankEvent, games |-> {}, todo |-> <<>>, rows |-> {}]

\* validateCreateEventDto
ValidEvent(mode, rounds, limit) ==
  CASE mode = "tournament" -> limit # NoLimit /\ rounds <= limit - 1
    [] mode = "limited_rounds" -> TRUE
    [] mode = "free_for_all" -> limit # NoLimit /\ rounds = 1

\* The event as create and the first joins left it.
Init ==
  /\ \E mode \in Modes, rounds \in RoundCounts, limit \in Limits, lineup \in Lineups :
       /\ ValidEvent(mode, rounds, limit)
       /\ limit # NoLimit => Len(lineup) <= limit
       /\ event = [mode |-> mode, lineup |-> lineup, round |-> 0, rounds |-> rounds,
                   limit |-> limit, deleted |-> FALSE]
  /\ games = <<>>
  /\ clock = "open"
  /\ pc = [p \in Requests |-> "idle"]
  /\ local = [p \in Requests |-> Nothing]
  /\ had = {event.limit}

-----------------------------------------------------------------------------
(* Control flow of a request.                                              *)

\* The event is found unless it is deleted.
Find(p, op) == op \in Ops /\ pc[p] = "idle" /\ ~event.deleted

\* Suspend before a write: with the entity e, changed or not, the games loaded
\* with it, the games still to be created and the game rows to be saved.
Hold(p, label, e, todo, rows) ==
  /\ pc' = [pc EXCEPT ![p] = label]
  /\ local' = [local EXCEPT ![p] =
                 [event |-> e, games |-> Attached, todo |-> todo, rows |-> rows]]
  /\ UNCHANGED <<event, games, clock, had>>

Goto(p, label) == pc' = [pc EXCEPT ![p] = label] /\ UNCHANGED local

Return(p) ==
  /\ pc' = [pc EXCEPT ![p] = "idle"]
  /\ local' = [local EXCEPT ![p] = Nothing]

\* eventsRepository.save of an entity with its loaded games.
Save(e, loaded) ==
  /\ event' = e
  /\ had' = had \cup {e.limit}
  /\ games' = [i \in DOMAIN games |-> [games[i] EXCEPT !.attached = i \in loaded]]

-----------------------------------------------------------------------------
(* Joining, leaving, editing, deleting.                                    *)

\* Mutant: one team more than the event has places.
JoinOneMore(p) ==
  /\ Find(p, "join")
  /\ event.round = 0 /\ clock = "open"
  /\ \E team \in Rosters :
       /\ team \cap Playing(event.lineup) = {} /\ Cardinality(team) = TeamSize
       /\ event.limit # NoLimit => Len(event.lineup) <= event.limit
       /\ Hold(p, "save", [event EXCEPT !.lineup = Append(@, team)], <<>>, {})

\* Mutant: only an identical team is turned away.
JoinOverlapping(p) ==
  /\ Find(p, "join")
  /\ event.round = 0 /\ clock = "open"
  /\ \E team \in Rosters :
       /\ team \notin Teams(event.lineup) /\ Cardinality(team) = TeamSize
       /\ event.limit # NoLimit => Len(event.lineup) < event.limit
       /\ Hold(p, "save", [event EXCEPT !.lineup = Append(@, team)], <<>>, {})

Join(p) ==
  /\ Find(p, "join")
  /\ event.round = 0 /\ clock = "open"
  /\ \E team \in Rosters :
       /\ team \cap Playing(event.lineup) = {} /\ Cardinality(team) = TeamSize
       /\ event.limit # NoLimit => Len(event.lineup) < event.limit
       /\ Hold(p, "save", [event EXCEPT !.lineup = Append(@, team)], <<>>, {})

\* The entries that u is not in, in their order.
Without(u, lineup) ==
  LET kept[n \in 0..Len(lineup)] ==
        IF n = 0 THEN <<>>
        ELSE IF u \in lineup[n] THEN kept[n - 1] ELSE Append(kept[n - 1], lineup[n])
  IN kept[Len(lineup)]

\* A member takes the whole team out; an admin who does not play changes nothing.
Leave(p) ==
  /\ Find(p, "leave")
  /\ \E u \in Playing(event.lineup) \cup Admins :
       Hold(p, "save", [event EXCEPT !.lineup = Without(u, @)], <<>>, {})

\* update overwrites rounds, limit and mode as told, without the checks of create;
\* a limit of null lifts it.
Update(p) ==
  /\ Find(p, "update")
  /\ \E mode \in Modes, rounds \in RoundCounts \cup {event.rounds},
        limit \in Limits \cup {NoLimit} :
       Hold(p, "save", [event EXCEPT !.mode = mode, !.rounds = rounds, !.limit = limit],
            <<>>, {})

\* The last step of join, leave and update.
EventSave(p) ==
  /\ pc[p] = "save"
  /\ Save(local[p].event, local[p].games)
  /\ Return(p)
  /\ UNCHANGED clock

\* uploadImage and deleteImage load the event without its games, change the files
\* and save it: the games stay where they are.
Picture(p) == Find(p, "image") /\ Hold(p, "saveRow", event, <<>>, {})

RowSave(p) ==
  /\ pc[p] = "saveRow"
  /\ event' = local[p].event
  /\ had' = had \cup {local[p].event.limit}
  /\ Return(p)
  /\ UNCHANGED <<games, clock>>

Delete(p) == Find(p, "delete") /\ Hold(p, "softDelete", event, <<>>, {})

SoftDelete(p) ==
  /\ pc[p] = "softDelete"
  /\ event' = [event EXCEPT !.deleted = TRUE]
  /\ Return(p)
  /\ UNCHANGED <<games, clock, had>>

-----------------------------------------------------------------------------
(* Rounds.                                                                 *)

\* Mutant: one round more than the event has.
MayStartOneMore(e, n) ==
  /\ e.mode = "limited_rounds" => clock # "ended"
  /\ n \in 1..(e.rounds + 1)
  /\ InRound(n) = {}
  /\ \A i \in DOMAIN e.lineup : Cardinality(e.lineup[i]) = TeamSize

\* The checks that follow the saving of a free-for-all's number of rounds.
MayStart(e, n) ==
  /\ e.mode = "limited_rounds" => clock # "ended"
  /\ n \in 1..e.rounds
  /\ InRound(n) = {}
  /\ \A i \in DOMAIN e.lineup : Cardinality(e.lineup[i]) = TeamSize

\* startRound, up to its first write. Only the next round passes the checks.
StartRound(p) ==
  /\ Find(p, "startRound")
  /\ Len(event.lineup) >= 2
  /\ Len(games) + Len(event.lineup) \div 2 <= MaxGames
  /\ LET n == event.round + 1
         sized == event.mode = "free_for_all" /\ n = 1
         e == IF sized THEN [event EXCEPT !.rounds = RoundRobinRounds(Len(event.lineup))]
              ELSE event
     IN /\ sized \/ MayStart(e, n)
        /\ Hold(p, IF sized THEN "saveRounds" ELSE "saveRound", e, Draw(e, n), {})

SaveRounds(p) ==
  /\ pc[p] = "saveRounds"
  /\ Save(local[p].event, local[p].games)
  /\ IF \A i \in local[p].games : games[i].round # 1
     THEN Goto(p, "saveRound") ELSE Return(p)
  /\ UNCHANGED clock

\* The round is announced before its games exist ...
SaveRound(p) ==
  /\ pc[p] = "saveRound"
  /\ Save([local[p].event EXCEPT !.round = @ + 1], local[p].games)
  /\ local' = [local EXCEPT ![p].event.round = @ + 1]
  /\ pc' = [pc EXCEPT ![p] = "createGame"]
  /\ UNCHANGED clock

\* ... and they are created one by one.
CreateGame(p) ==
  /\ pc[p] = "createGame"
  /\ games' = Append(games, NewGame(Len(games) + 1, local[p].event.round, Head(local[p].todo)))
  /\ IF Len(local[p].todo) > 1
     THEN local' = [local EXCEPT ![p].todo = Tail(@)] /\ UNCHANGED pc
     ELSE Return(p)
  /\ UNCHANGED <<event, clock, had>>

\* endRound loads the current round's games ...
EndRound(p) ==
  /\ Find(p, "endRound")
  /\ event.round > 0
  /\ LET current == {games[i] : i \in {j \in InRound(event.round) : ~games[j].cancelled}} IN
       /\ current # {}
       /\ Hold(p, "saveGames", event, <<>>, current)

\* Mutant: 0 for every score.
SaveGamesZero(p) ==
  /\ pc[p] = "saveGames"
  /\ games' = [i \in DOMAIN games |->
       IF \E g \in local[p].rows : g.id = i
       THEN LET g == CHOOSE r \in local[p].rows : r.id = i IN
            [g EXCEPT !.score = <<0, 0>>, !.over = TRUE, !.attached = games[i].attached]
       ELSE games[i]]
  /\ Return(p)
  /\ UNCHANGED <<event, clock, had>>

\* ... and saves them, ended, with 0 for every score that was missing.
SaveGames(p) ==
  /\ pc[p] = "saveGames"
  /\ games' = [i \in DOMAIN games |->
       IF \E g \in local[p].rows : g.id = i
       THEN LET g == CHOOSE r \in local[p].rows : r.id = i IN
            [g EXCEPT !.score = [k \in 1..2 |-> IF @[k] = Null THEN 0 ELSE @[k]],
                      !.over = TRUE, !.attached = games[i].attached]
       ELSE games[i]]
  /\ Return(p)
  /\ UNCHANGED <<event, clock, had>>

-----------------------------------------------------------------------------
(* Environment.                                                            *)

\* A game is played out, or called off, which it may be even when it is over: see
\* Game.
Play ==
  /\ \E i \in DOMAIN games :
       \/ /\ "play" \in Ops
          /\ ~games[i].over /\ ~games[i].cancelled
          /\ \E s \in Results : games' = [games EXCEPT ![i].score = s, ![i].over = TRUE]
       \/ "cancel" \in Ops /\ games' = [games EXCEPT ![i].cancelled = TRUE]
  /\ UNCHANGED <<event, clock, pc, local, had>>

\* startTime passes, then endTime.
Tick ==
  /\ "tick" \in Ops /\ clock # "ended"
  /\ clock' = CASE clock = "open" -> "closed" [] clock = "closed" -> "ended"
  /\ UNCHANGED <<event, games, pc, local, had>>

\* A query fails and the request is answered with 500.
Fail(p) ==
  /\ "fail" \in Ops /\ pc[p] # "idle"
  /\ Return(p)
  /\ UNCHANGED <<event, games, clock, had>>

Ask(p) == Join(p) \/ Leave(p) \/ Update(p) \/ Picture(p) \/ Delete(p) \/ StartRound(p)
          \/ EndRound(p)

Proceed(p) ==
  \/ EventSave(p) \/ RowSave(p) \/ SoftDelete(p)
  \/ SaveRounds(p) \/ SaveRound(p) \/ CreateGame(p) \/ SaveGames(p)

Next == (\E p \in Requests : Ask(p) \/ Proceed(p) \/ Fail(p)) \/ Play \/ Tick

Spec == Init /\ [][Next]_vars

-----------------------------------------------------------------------------
(* Correctness.                                                            *)

PC == {"idle", "save", "saveRow", "softDelete", "saveRounds", "saveRound", "createGame", "saveGames"}

\* The variables keep their types.
TypeOK ==
  LET Event == [mode: AllModes, lineup: Seq(Rosters), round: Nat, rounds: Nat \ {0},
                limit: Nat, deleted: BOOLEAN]
      Game == [id: Nat, round: Nat \ {0}, sides: Rosters \X Rosters,
               score: (Nat \cup {Null}) \X (Nat \cup {Null}),
               over: BOOLEAN, cancelled: BOOLEAN, attached: BOOLEAN]
  IN /\ event \in Event
     /\ games \in Seq(Game)
     /\ clock \in {"open", "closed", "ended"}
     /\ pc \in [Requests -> PC]
     /\ local \in [Requests -> [event: Event, games: SUBSET Nat,
                                todo: Seq(Rosters \X Rosters), rows: SUBSET Game]]
     /\ had \subseteq Nat

\* However joins, leaves, updates, rounds and deletions overlap, nobody is entered
\* twice, and no game has a player on both sides (which Game takes for granted of an
\* event's games): a stale save puts back an older list, never a mixture of two.
EntriesFit ==
  /\ Disjoint(event.lineup)
  /\ \A i \in DOMAIN games : games[i].sides[1] \cap games[i].sides[2] = {}

\* However they overlap, an event that has always had a limit never has more teams
\* entered than the largest it has had: two joins that both saw the last place free
\* do not take it twice. (An update may set a limit below the number already in.)
NeverOverfull ==
  NoLimit \notin had => \E limit \in had : Len(event.lineup) <= limit

\* As long as the calls come one after the other, the rounds of the games are
\* among those announced, and those among the event's, even if startRound dies
\* between announcing a round and creating its games.
RoundsAnnounced ==
  /\ \A i \in Attached : games[i].round <= event.round
  /\ event.round <= event.rounds

\* As long as the calls come one after the other, nobody plays twice in a round.
OncePerRound ==
  \A i, j \in Attached :
    i # j /\ games[i].round = games[j].round =>
      \A a, b \in 1..2 : games[i].sides[a] \cap games[j].sides[b] = {}

\* The draw that startRound would make now.
NextDraw == Draw(event, event.round + 1)
Sides(draw) == {pair[k] : pair \in ToSet(draw), k \in 1..2}
Rematch(pair) == Met(pair[1], pair[2], Played(event.round + 1))
Drawable == pc = [p \in Requests |-> "idle"] /\ event.round < event.rounds

\* A draw gives every team one game; with an odd number of teams one sits out.
DrawComplete ==
  Drawable =>
    /\ Len(NextDraw) = Len(event.lineup) \div 2
    /\ Cardinality(Sides(NextDraw)) = 2 * Len(NextDraw)
    /\ Sides(NextDraw) \subseteq Teams(event.lineup)

\* Once every game of the first round has its scores, the second round of a
\* tournament of at most five teams repeats none of them, even if startRound died
\* before it had created them all. (A game without scores counts as not played: its
\* teams can be paired first, which leaves two that drew 0:0 to meet again.)
SecondRoundFresh ==
  /\ Drawable /\ event.mode = "tournament"
  /\ event.round = 1 /\ Len(event.lineup) \in 3..5
  /\ \A i \in Attached : Scored(games[i])
  => \A k \in DOMAIN NextDraw : ~Rematch(NextDraw[k])

\* "Avoiding duplicates where possible": a team is drawn against one it has met
\* only if it has met everybody else who is left (generateMatchups, and the
\* fallbacks of generateTournamentMatchups).
RematchIsForced ==
  Drawable =>
    \A k \in DOMAIN NextDraw : Rematch(NextDraw[k]) =>
      \A t \in Teams(event.lineup) \ Sides(SubSeq(NextDraw, 1, k)) :
        Met(NextDraw[k][1], t, Played(event.round + 1))

\* computeRoundRobinRounds: "rounds needed so every team can play every other
\* team once". There is no round to spare, so no draw may repeat a game, provided
\* the games of all rounds before it have their scores. (startRound does not ask for
\* them, and to a round that is started earlier a game without scores counts as not
\* played: it may be drawn again.)
RoundRobinFresh ==
  /\ Drawable /\ event.mode = "free_for_all"
  /\ \A i \in Attached : Scored(games[i])
  => \A k \in DOMAIN NextDraw : ~Rematch(NextDraw[k])

\* Up to four teams the greedy draw does complete the round robin, provided that
\* each round is started only when all the games before it have their scores.
SmallRoundRobinFresh == Len(event.lineup) <= 4 => RoundRobinFresh

\* "No joining once games started": the list of teams does not grow any more.
NoLateEntry ==
  [][Len(event'.lineup) > Len(event.lineup) => event.round = 0]_vars
=============================================================================
