-------------------------- MODULE StandingsProofs ---------------------------
(***************************************************************************)
(* What holds of the rounds of an event, its status and its ranking as     *)
(* long as its calls come one after the other (OneCall): then a request    *)
(* has the row and the games as they are until it returns, and it may fail *)
(* at any await. Two calls at once break all of it, as the hazards listed  *)
(* for startRound say. What the ranking adds up to and what the next draw  *)
(* repeats need the list, or the event, to stay as it is once a round has  *)
(* been announced (ListStays, EventStays): a leave or an update after that *)
(* changes what the games were drawn from.                                 *)
(***************************************************************************)
EXTENDS Standings, EventRoundsProofs

\* The calls come one after the other.
OneCall == \A p, q \in Requests : p = q
\* No call lowers the event's number of rounds.
NoUpdates == "update" \notin Ops

\* Nobody in these pairs has a game in round n.
Newcomers(n, todo) ==
  \A i \in Attached : games[i].round = n =>
    \A k \in DOMAIN todo : \A a, b \in {1, 2} : games[i].sides[a] \cap todo[k][b] = {}

\* What a request holds agrees with the rows: the round it read is the round of the
\* row, the games it loaded are all there are, a planned round is one the event has,
\* and the games still to be created are of players who have none in the round yet.
InStep(p) ==
  LET e == local[p].event
      todo == local[p].todo
  IN /\ pc[p] \in {"save", "saveRow", "saveRounds", "saveRound"} => e.round = event.round
     /\ pc[p] \in {"save", "saveRounds", "saveRound"} => local[p].games = Attached
     /\ pc[p] \in {"save", "saveRow"} /\ NoUpdates => e.round <= e.rounds
     /\ pc[p] \in {"saveRounds", "saveRound"} => e.round < e.rounds /\ DrawSpread(Apart, todo)
     /\ pc[p] = "saveRound" => e.rounds = event.rounds
     /\ pc[p] = "createGame" =>
          e.round = event.round /\ DrawSpread(Apart, todo) /\ Newcomers(event.round, todo)
     /\ pc[p] = "saveGames" =>
          \A r \in local[p].rows :
            /\ r.id \in DOMAIN games
            /\ games[r.id].round = r.round /\ games[r.id].sides = r.sides

\* What the rows say: games have their numbers, rounds have been announced, and
\* nobody plays twice in one.
RowsInOrder ==
  /\ \A i \in DOMAIN games : games[i].id = i
  /\ \A i \in Attached : games[i].round <= event.round
  /\ NoUpdates => event.round <= event.rounds
  /\ OncePerRound

\* The inductive invariant of calls that come one after the other.
AloneInv == RowsInOrder /\ \A p \in Requests : InStep(p)

\* A step that leaves the games as they are, but for scores and progress.
SameShape ==
  /\ DOMAIN games' = DOMAIN games
  /\ \A i \in DOMAIN games :
       /\ games'[i].id = games[i].id /\ games'[i].round = games[i].round
       /\ games'[i].sides = games[i].sides /\ games'[i].attached = games[i].attached

\* Such a step attaches and detaches nothing.
LEMMA ShapeShows ==
  ASSUME SameShape
  PROVE  Attached' = Attached /\ \A n : InRound(n)' = InRound(n)
<1>1. Attached' = Attached
  BY DEF SameShape, Attached
<1>2. ASSUME NEW n PROVE InRound(n)' = InRound(n)
  <2>1. \A i \in Attached : games'[i].round = games[i].round
    BY DEF SameShape, Attached
  <2> QED BY <1>1, <2>1 DEF InRound
<1> QED BY <1>1, <1>2

\* It keeps the rows in order, if the event's round does not go back.
LEMMA ShapeOrder ==
  ASSUME EntriesInv, RowsInOrder, SameShape, event' \in EventRows, event'.round >= event.round,
         NoUpdates => event'.round <= event'.rounds
  PROVE  RowsInOrder'
<1>1. Attached' = Attached /\ DOMAIN games' = DOMAIN games
  BY ShapeShows DEF SameShape
<1>2. \A i \in DOMAIN games' : games'[i].id = i
  BY DEF RowsInOrder, SameShape
<1>3. \A i \in Attached' : games'[i].round <= event'.round
  <2>1. ASSUME NEW i \in Attached PROVE games'[i].round <= event'.round
    <3>1. i \in DOMAIN games /\ games'[i].round = games[i].round
      BY DEF Attached, SameShape
    <3>2. games[i].round <= event.round
      BY DEF RowsInOrder
    <3>3. games[i].round \in Nat /\ event.round \in Nat /\ event'.round \in Nat
      <4>1. games[i] \in FairGames /\ event \in EventRows
        BY <3>1, AttachedIsNat DEF EntriesInv, Entered
      <4> QED BY <4>1 DEF FairGames, GameRows, EventRows
    <3> QED BY <3>1, <3>2, <3>3
  <2> QED BY <1>1, <2>1
<1>4. OncePerRound'
  <2>1. \A i \in Attached : games'[i].round = games[i].round /\ games'[i].sides = games[i].sides
    BY DEF SameShape, Attached
  <2> QED BY <1>1, <2>1 DEF OncePerRound, RowsInOrder
<1> QED BY <1>2, <1>3, <1>4 DEF RowsInOrder

\* Saving an event with all its games changes none of them.
LEMMA SaveKeepsShape ==
  ASSUME EntriesInv, NEW e, Save(e, Attached)
  PROVE  SameShape /\ event' = e
<1>1. \A i \in DOMAIN games : games[i] \in FairGames /\ games[i].attached \in BOOLEAN
  BY AttachedIsNat DEF EntriesInv, FairGames, GameRows
<1>2. ASSUME NEW i \in DOMAIN games
      PROVE  /\ games'[i].id = games[i].id /\ games'[i].round = games[i].round
             /\ games'[i].sides = games[i].sides /\ games'[i].attached = games[i].attached
  <2>1. games'[i] = [games[i] EXCEPT !.attached = i \in Attached]
    BY DEF Save
  <2>2. (i \in Attached) = games[i].attached
    BY <1>1 DEF Attached
  <2>3. games[i] \in GameRows
    BY <1>1 DEF FairGames
  <2> QED BY <2>1, <2>2, <2>3 DEF GameRows
<1> QED BY <1>2 DEF Save, SameShape

\* A request that has returned holds nothing.
LEMMA ReturnIsIdle ==
  ASSUME EntriesInv, NEW p \in Requests, Return(p)
  PROVE  pc'[p] = "idle" /\ InStep(p)'
<1>1. pc'[p] = "idle"
  BY DEF Return, EntriesInv
<1> QED BY <1>1 DEF InStep

\* What a request holds that has suspended.
LEMMA HoldIs ==
  ASSUME EntriesInv, NEW p \in Requests, NEW label, NEW e, NEW todo, NEW rows,
         Hold(p, label, e, todo, rows)
  PROVE  /\ pc'[p] = label /\ local'[p].event = e /\ local'[p].games = Attached
         /\ local'[p].todo = todo /\ local'[p].rows = rows
         /\ event' = event /\ games' = games /\ Attached' = Attached
  BY DEF Hold, EntriesInv, Attached

\* The first step of each operation keeps the invariant.
LEMMA AskAlone ==
  ASSUME EntriesInv, RowsInOrder, NEW p \in Requests, Ask(p)
  PROVE  RowsInOrder' /\ InStep(p)'
<1>0. /\ event \in Entered /\ games \in Seq(FairGames)
      /\ event.lineup \in Seq(Rosters) /\ event \in EventRows
      /\ event.rounds \in Nat \ {0} /\ event.round \in Nat
  <2>1. event \in Entered /\ games \in Seq(FairGames)
    BY DEF EntriesInv
  <2> QED BY <2>1, EventRowFacts
<1>a. NoUpdates => event.round <= event.rounds
  BY DEF RowsInOrder
<1>1. ASSUME NEW label \in {"save", "saveRow", "softDelete"},
             NEW e, e.round = event.round, label # "softDelete" /\ NoUpdates => e.round <= e.rounds,
             Hold(p, label, e, <<>>, {})
      PROVE  InStep(p)'
  BY <1>1, HoldIs DEF InStep
<1>2. event' = event /\ games' = games
  BY DEF Ask, Join, Leave, Update, Picture, Delete, StartRound, EndRound, Hold
<1>3. RowsInOrder'
  BY <1>2 DEF RowsInOrder, OncePerRound, Attached
<1>4. CASE Join(p)
  <2>1. PICK team \in Rosters :
          Hold(p, "save", [event EXCEPT !.lineup = Append(@, team)], <<>>, {})
    BY <1>4 DEF Join
  <2> DEFINE e == [event EXCEPT !.lineup = Append(@, team)]
  <2>2. e.round = event.round /\ e.rounds = event.rounds
    BY <1>0 DEF EventRows
  <2> HIDE DEF e
  <2>3. InStep(p)'
    BY <1>1, <1>a, <2>1, <2>2 DEF e
  <2> QED BY <1>3, <2>3
<1>5. CASE Leave(p)
  <2>1. PICK u : Hold(p, "save", [event EXCEPT !.lineup = Without(u, @)], <<>>, {})
    BY <1>5 DEF Leave
  <2> DEFINE e == [event EXCEPT !.lineup = Without(u, @)]
  <2>2. e.round = event.round /\ e.rounds = event.rounds
    BY <1>0 DEF EventRows
  <2> HIDE DEF e
  <2>3. InStep(p)'
    BY <1>1, <1>a, <2>1, <2>2 DEF e
  <2> QED BY <1>3, <2>3
<1>6. CASE Update(p)
  <2>1. PICK mode \in Modes, rounds \in RoundCounts \cup {event.rounds},
             limit \in Limits \cup {NoLimit} :
          Hold(p, "save", [event EXCEPT !.mode = mode, !.rounds = rounds, !.limit = limit], <<>>, {})
    BY <1>6 DEF Update
  <2> DEFINE e == [event EXCEPT !.mode = mode, !.rounds = rounds, !.limit = limit]
  <2>2. e.round = event.round
    BY <1>0 DEF EventRows
  <2>3. ~NoUpdates
    BY <1>6 DEF Update, Find, NoUpdates
  <2> HIDE DEF e
  <2>4. InStep(p)'
    BY <1>1, <2>1, <2>2, <2>3 DEF e
  <2> QED BY <1>3, <2>4
<1>7. CASE Picture(p)
  BY <1>1, <1>3, <1>7, <1>a DEF Picture
<1>8. CASE Delete(p)
  BY <1>1, <1>3, <1>8, <1>a DEF Delete
<1>9. CASE StartRound(p)
  <2> DEFINE n == event.round + 1
             sized == event.mode = "free_for_all" /\ n = 1
             e == IF sized THEN [event EXCEPT !.rounds = RoundRobinRounds(Len(event.lineup))]
                  ELSE event
             label == IF sized THEN "saveRounds" ELSE "saveRound"
             d == Draw(e, n)
  <2>1. (sized \/ MayStart(e, n)) /\ Hold(p, label, e, d, {})
    BY <1>9 DEF StartRound
  <2>2. e \in Entered /\ e.round = event.round /\ e.round < e.rounds
        /\ (label = "saveRound" => e.rounds = event.rounds)
    <3>1. CASE sized
      <4>1. RoundRobinRounds(Len(event.lineup)) \in Nat \ {0}
        <5>1. Len(event.lineup) \in Nat
          BY <1>0, LenProperties
        <5> QED BY <5>1, RoundRobinCounts
      <4>2. [event EXCEPT !.rounds = RoundRobinRounds(Len(event.lineup))] \in Entered
        BY <1>0, <4>1, EventRowFacts
      <4>3. e.round = event.round /\ e.rounds = RoundRobinRounds(Len(event.lineup))
        BY <1>0, <3>1 DEF EventRows
      <4> QED BY <1>0, <3>1, <4>1, <4>2, <4>3
    <3>2. CASE ~sized
      <4>1. n \in 1..event.rounds
        BY <2>1, <3>2 DEF MayStart
      <4> QED BY <1>0, <3>2, <4>1
    <3> QED BY <3>1, <3>2
  <2>3. label \in {"saveRounds", "saveRound"}
    OBVIOUS
  <2> HIDE DEF e, n, label
  <2>4. DrawSpread(Apart, d)
    BY <1>0, <2>2, DrawIsFair
  <2> HIDE DEF d
  <2>5. /\ pc'[p] = label /\ local'[p].event = e /\ local'[p].games = Attached'
        /\ local'[p].todo = d /\ event' = event
    BY <2>1, HoldIs
  <2>6. InStep(p)'
    BY <2>2, <2>3, <2>4, <2>5 DEF InStep
  <2> QED BY <1>3, <2>6
<1>10. CASE EndRound(p)
  <2> DEFINE current == {games[i] : i \in {j \in InRound(event.round) : ~games[j].cancelled}}
  <2>1. Hold(p, "saveGames", event, <<>>, current)
    BY <1>10 DEF EndRound
  <2>2. ASSUME NEW r \in current
        PROVE  /\ r.id \in DOMAIN games
               /\ games[r.id].round = r.round /\ games[r.id].sides = r.sides
    <3>1. PICK i \in DOMAIN games : r = games[i]
      BY DEF InRound, Attached
    <3>2. r.id = i
      BY <3>1 DEF RowsInOrder
    <3> QED BY <3>1, <3>2
  <2> HIDE DEF current
  <2>3. pc'[p] = "saveGames" /\ local'[p].rows = current /\ games' = games
    BY <2>1, HoldIs
  <2>4. InStep(p)'
    BY <2>2, <2>3 DEF InStep
  <2> QED BY <1>3, <2>4
<1> QED BY <1>4, <1>5, <1>6, <1>7, <1>8, <1>9, <1>10 DEF Ask

\* Saving the ended games changes scores and progress: it has the games of the round
\* at hand, by their numbers.
LEMMA SaveGamesShape ==
  ASSUME EntriesInv, RowsInOrder, NEW p \in Requests, InStep(p), SaveGames(p)
  PROVE  SameShape /\ event' = event /\ Return(p)
<1> DEFINE rows == local[p].rows
           row(i) == CHOOSE r \in rows : r.id = i
<1>1. /\ pc[p] = "saveGames" /\ Return(p) /\ event' = event
      /\ games' = [i \in DOMAIN games |->
           IF \E g \in rows : g.id = i
           THEN [row(i) EXCEPT !.score = [k \in 1..2 |-> IF @[k] = Null THEN 0 ELSE @[k]],
                    !.over = TRUE, !.attached = games[i].attached]
           ELSE games[i]]
  BY DEF SaveGames
<1>2. rows \in SUBSET FairGames
  BY DEF EntriesInv, Holdings
<1>3. \A r \in rows : r.id \in DOMAIN games
          /\ games[r.id].round = r.round /\ games[r.id].sides = r.sides
  BY <1>1 DEF InStep
<1>4. ASSUME NEW i \in DOMAIN games
      PROVE  /\ games'[i].id = games[i].id /\ games'[i].round = games[i].round
             /\ games'[i].sides = games[i].sides /\ games'[i].attached = games[i].attached
  <2>1. CASE \E g \in rows : g.id = i
    <3>1. row(i) \in rows /\ row(i).id = i
      BY <2>1
    <3>2. games'[i] = [row(i) EXCEPT !.score = [k \in 1..2 |-> IF @[k] = Null THEN 0 ELSE @[k]],
                    !.over = TRUE, !.attached = games[i].attached]
      BY <1>1, <2>1
    <3> HIDE DEF rows, row
    <3>3. row(i) \in GameRows
      BY <1>2, <3>1 DEF FairGames
    <3>4. /\ games'[i].id = row(i).id /\ games'[i].round = row(i).round
          /\ games'[i].sides = row(i).sides /\ games'[i].attached = games[i].attached
      BY <3>2, <3>3 DEF GameRows
    <3>5. games[i].id = i
      BY DEF RowsInOrder
    <3> QED BY <1>3, <3>1, <3>4, <3>5
  <2>2. CASE ~\E g \in rows : g.id = i
    BY <1>1, <2>2
  <2> QED BY <2>1, <2>2
<1>5. DOMAIN games' = DOMAIN games
  BY <1>1
<1> HIDE DEF row, rows
<1> QED BY <1>1, <1>4, <1>5 DEF SameShape

\* So does every later step, and a failure.
LEMMA ProceedAlone ==
  ASSUME EntriesInv, EntriesInv', RowsInOrder, NEW p \in Requests, InStep(p), Proceed(p) \/ Fail(p)
  PROVE  RowsInOrder' /\ InStep(p)'
<1>0. /\ event \in EventRows /\ event' \in EventRows /\ local[p] \in Holdings
      /\ event.round \in Nat /\ event'.round \in Nat
      /\ event.rounds \in Nat /\ event'.rounds \in Nat
      /\ pc[p] # "idle" => local[p].event \in EventRows
  <2>1. /\ event \in EventRows /\ event' \in EventRows /\ local[p] \in Holdings
        /\ pc[p] # "idle" => local[p].event \in EventRows
    BY DEF EntriesInv, Entered
  <2> QED BY <2>1 DEF EventRows
<1>a. NoUpdates => event.round <= event.rounds
  BY DEF RowsInOrder
<1>1. CASE EventSave(p)
  <2>1. pc[p] = "save" /\ Save(local[p].event, local[p].games) /\ Return(p)
    BY <1>1 DEF EventSave
  <2>2. /\ local[p].event.round = event.round /\ local[p].games = Attached
        /\ NoUpdates => local[p].event.round <= local[p].event.rounds
    BY <2>1 DEF InStep
  <2>3. SameShape /\ event' = local[p].event
    BY <2>1, <2>2, SaveKeepsShape
  <2>4. RowsInOrder'
    BY <1>0, <2>2, <2>3, ShapeOrder
  <2> QED BY <2>1, <2>4, ReturnIsIdle
<1>2. CASE RowSave(p)
  <2>1. pc[p] = "saveRow" /\ event' = local[p].event /\ Return(p) /\ games' = games
    BY <1>2 DEF RowSave
  <2>2. /\ local[p].event.round = event.round
        /\ NoUpdates => local[p].event.round <= local[p].event.rounds
    BY <2>1 DEF InStep
  <2>3. SameShape
    BY <2>1 DEF SameShape
  <2>4. RowsInOrder'
    BY <1>0, <2>1, <2>2, <2>3, ShapeOrder
  <2> QED BY <2>1, <2>4, ReturnIsIdle
<1>3. CASE SoftDelete(p)
  <2>1. event' = [event EXCEPT !.deleted = TRUE] /\ Return(p) /\ games' = games
    BY <1>3 DEF SoftDelete
  <2>2. event'.round = event.round /\ event'.rounds = event.rounds
    BY <1>0, <2>1 DEF EventRows
  <2>3. SameShape
    BY <2>1 DEF SameShape
  <2>4. RowsInOrder'
    BY <1>0, <1>a, <2>2, <2>3, ShapeOrder
  <2> QED BY <2>1, <2>4, ReturnIsIdle
<1>4. CASE SaveRounds(p)
  <2>1. pc[p] = "saveRounds" /\ Save(local[p].event, local[p].games)
        /\ (Goto(p, "saveRound") \/ Return(p))
    BY <1>4 DEF SaveRounds
  <2>2. /\ local[p].event.round = event.round /\ local[p].games = Attached
        /\ local[p].event.round < local[p].event.rounds /\ DrawSpread(Apart, local[p].todo)
    BY <2>1 DEF InStep
  <2>3. SameShape /\ event' = local[p].event
    BY <2>1, <2>2, SaveKeepsShape
  <2>4. RowsInOrder'
    BY <1>0, <2>2, <2>3, ShapeOrder
  <2>5. CASE Return(p)
    BY <2>4, <2>5, ReturnIsIdle
  <2>6. CASE Goto(p, "saveRound")
    <3>1. pc'[p] = "saveRound" /\ local' = local
      BY <2>6 DEF Goto, EntriesInv
    <3>2. Attached' = Attached
      BY <2>3, ShapeShows
    <3>3. InStep(p)'
      BY <2>2, <2>3, <3>1, <3>2 DEF InStep
    <3> QED BY <2>4, <3>3
  <2> QED BY <2>1, <2>5, <2>6
<1>5. CASE SaveRound(p)
  <2> DEFINE e == [local[p].event EXCEPT !.round = @ + 1]
             todo == local[p].todo
  <2>1. /\ pc[p] = "saveRound" /\ Save(e, local[p].games)
        /\ local' = [local EXCEPT ![p].event.round = @ + 1]
        /\ pc' = [pc EXCEPT ![p] = "createGame"]
    BY <1>5 DEF SaveRound
  <2>2. /\ local[p].event.round = event.round /\ local[p].games = Attached
        /\ local[p].event.round < local[p].event.rounds /\ DrawSpread(Apart, todo)
    BY <2>1 DEF InStep
  <2>3. /\ e.round = event.round + 1 /\ e.rounds = local[p].event.rounds
        /\ local[p].event.rounds \in Nat
    BY <1>0, <2>1, <2>2 DEF EventRows
  <2>4. local'[p].event = e /\ local'[p].todo = todo /\ pc'[p] = "createGame"
    BY <1>0, <2>1 DEF EntriesInv, Holdings
  <2> HIDE DEF e, todo
  <2>5. SameShape /\ event' = e
    BY <2>1, <2>2, SaveKeepsShape
  <2>6. RowsInOrder'
    BY <1>0, <2>2, <2>3, <2>5, ShapeOrder
  <2>7. \A i \in Attached' : games'[i].round # event'.round
    <3>1. ASSUME NEW i \in Attached', games'[i].round = event'.round PROVE FALSE
      <4>1. i \in Attached
        BY <2>5, ShapeShows
      <4>2. i \in DOMAIN games /\ games'[i].round = games[i].round
        BY <2>5, <4>1 DEF SameShape, Attached
      <4>3. games[i].round <= event.round
        BY <4>1 DEF RowsInOrder
      <4>4. games[i].round = event.round + 1
        BY <2>3, <2>5, <3>1, <4>2
      <4> QED BY <1>0, <4>3, <4>4
    <3> QED BY <3>1
  <2>8. InStep(p)'
    BY <2>2, <2>4, <2>5, <2>7 DEF InStep, Newcomers
  <2> QED BY <2>6, <2>8
<1>6. CASE CreateGame(p)
  <2> DEFINE todo == local[p].todo
             m == Len(games) + 1
             g == NewGame(m, local[p].event.round, Head(todo))
  <2>1. /\ pc[p] = "createGame" /\ games' = Append(games, g) /\ event' = event
        /\ IF Len(todo) > 1 THEN local' = [local EXCEPT ![p].todo = Tail(@)] /\ pc' = pc
                            ELSE Return(p)
    BY <1>6 DEF CreateGame
  <2>2. /\ todo \in Seq(FairPairs) /\ todo # <<>> /\ games \in Seq(FairGames)
    BY <1>0, <2>1 DEF EntriesInv, Planning, Holdings
  <2>3. /\ local[p].event.round = event.round /\ DrawSpread(Apart, todo)
        /\ Newcomers(event.round, todo)
    BY <2>1 DEF InStep
  <2>4. /\ g.id = m /\ g.round = event.round /\ g.sides = Head(todo) /\ g.attached = TRUE
    BY <2>3 DEF NewGame
  <2>5. /\ Head(todo) = todo[1] /\ Len(Tail(todo)) = Len(todo) - 1 /\ Len(todo) \in Nat \ {0}
        /\ \A k \in 1..(Len(todo) - 1) : Tail(todo)[k] = todo[k + 1]
        /\ DOMAIN todo = 1..Len(todo) /\ Tail(todo) \in Seq(FairPairs)
        /\ DOMAIN Tail(todo) = 1..(Len(todo) - 1)
    <3> HIDE DEF todo
    <3>1. Head(todo) = todo[1] /\ Tail(todo) \in Seq(FairPairs) /\ Len(Tail(todo)) = Len(todo) - 1
          /\ \A k \in 1..Len(Tail(todo)) : Tail(todo)[k] = todo[k + 1]
      BY <2>2, HeadTailProperties
    <3>2. DOMAIN todo = 1..Len(todo) /\ Len(todo) \in Nat \ {0}
      BY <2>2, EmptySeq, LenProperties
    <3>3. DOMAIN Tail(todo) = 1..Len(Tail(todo))
      BY <3>1, LenProperties
    <3> QED BY <3>1, <3>2, <3>3
  <2> HIDE DEF g
  <2>6. /\ DOMAIN games = 1..Len(games) /\ Len(games) \in Nat /\ m \notin DOMAIN games
        /\ DOMAIN games' = DOMAIN games \cup {m} /\ games'[m] = g
        /\ \A i \in DOMAIN games : games'[i] = games[i]
    <3>1. DOMAIN games = 1..Len(games) /\ Len(games) \in Nat
      BY <2>2, LenProperties
    <3> QED BY <2>1, <2>2, <3>1
  <2> HIDE DEF m
  <2>7. Attached' = Attached \cup {m}
    BY <2>4, <2>6 DEF Attached
  <2>8. ASSUME NEW i \in Attached'
        PROVE  \/ i \in DOMAIN games /\ i \in Attached /\ i # m /\ games'[i] = games[i]
               \/ i = m /\ games'[i] = g
    BY <2>6, <2>7, <2>8 DEF Attached
  <2>9. ASSUME NEW i \in Attached, games[i].round = event.round, NEW a \in 1..2, NEW b \in 1..2
        PROVE  games[i].sides[a] \cap g.sides[b] = {}
    <3>1. 1 \in DOMAIN todo /\ a \in {1, 2} /\ b \in {1, 2}
      BY <2>5
    <3>2. games[i].sides[a] \cap todo[1][b] = {}
      BY <2>3, <2>9, <3>1 DEF Newcomers
    <3> QED BY <2>4, <2>5, <3>2
  <2>10. OncePerRound'
    <3>1. ASSUME NEW i \in Attached', NEW j \in Attached', i # j, games'[i].round = games'[j].round,
                 NEW a \in 1..2, NEW b \in 1..2
          PROVE  games'[i].sides[a] \cap games'[j].sides[b] = {}
      <4>1. CASE i # m /\ j # m
        BY <2>8, <3>1, <4>1 DEF RowsInOrder, OncePerRound
      <4>2. CASE i = m /\ j # m
        BY <2>4, <2>8, <2>9, <3>1, <4>2
      <4>3. CASE i # m /\ j = m
        BY <2>4, <2>8, <2>9, <3>1, <4>3
      <4> QED BY <3>1, <4>1, <4>2, <4>3
    <3> QED BY <3>1 DEF OncePerRound
  <2>11. RowsInOrder'
    <3>1. \A i \in DOMAIN games' : games'[i].id = i
      BY <2>4, <2>6 DEF RowsInOrder, m
    <3>2. \A i \in Attached' : games'[i].round <= event'.round
      <4>1. ASSUME NEW i \in Attached' PROVE games'[i].round <= event.round
        <5>1. g.round <= event.round
          BY <1>0, <2>4
        <5>2. \A j \in Attached : games[j].round <= event.round
          BY DEF RowsInOrder
        <5> QED BY <2>8, <5>1, <5>2
      <4> QED BY <2>1, <4>1
    <3> QED BY <1>a, <2>1, <2>10, <3>1, <3>2 DEF RowsInOrder
  <2>12. CASE Return(p)
    BY <2>11, <2>12, ReturnIsIdle
  <2>13. CASE Len(todo) > 1 /\ local' = [local EXCEPT ![p].todo = Tail(@)] /\ pc' = pc
    <3> DEFINE tail == Tail(todo)
    <3>1. local'[p].event = local[p].event /\ local'[p].todo = tail /\ pc'[p] = "createGame"
      BY <1>0, <2>1, <2>13 DEF EntriesInv, Holdings
    <3> HIDE DEF todo
    <3>2. ASSUME NEW k \in DOMAIN tail PROVE k + 1 \in DOMAIN todo /\ k + 1 # 1 /\ tail[k] = todo[k + 1]
                                             /\ k \in Nat
      BY <2>5, <3>2
    <3>3. DrawSpread(Apart, tail)
      <4>1. ASSUME NEW k \in DOMAIN tail, NEW l \in DOMAIN tail, NEW a \in {1, 2}, NEW b \in {1, 2},
                   k # l \/ a # b
            PROVE  <<tail[k][a], tail[l][b]>> \in Apart
        <5>1. k + 1 # l + 1 \/ a # b
          BY <3>2, <4>1
        <5>2. <<todo[k + 1][a], todo[l + 1][b]>> \in Apart
          BY <2>3, <3>2, <5>1 DEF DrawSpread
        <5> QED BY <3>2, <5>2
      <4> QED BY <4>1 DEF DrawSpread
    <3>4. ASSUME NEW i \in Attached', games'[i].round = event'.round, NEW k \in DOMAIN tail,
                 NEW a \in {1, 2}, NEW b \in {1, 2}
          PROVE  games'[i].sides[a] \cap tail[k][b] = {}
      <4>1. CASE i = m
        <5>1. <<todo[1][a], todo[k + 1][b]>> \in Apart
          <6>1. 1 \in DOMAIN todo
            BY <2>5
          <6> QED BY <2>3, <3>2, <6>1 DEF DrawSpread
        <5> QED BY <2>4, <2>5, <2>6, <3>2, <4>1, <5>1 DEF Apart
      <4>2. CASE i # m
        <5>1. i \in Attached /\ games'[i] = games[i] /\ games[i].round = event.round
          BY <2>1, <2>8, <3>4, <4>2
        <5> QED BY <2>3, <3>2, <5>1 DEF Newcomers
      <4> QED BY <4>1, <4>2
    <3>5. InStep(p)'
      BY <2>1, <2>3, <3>1, <3>3, <3>4 DEF InStep, Newcomers
    <3> QED BY <2>11, <3>5
  <2> QED BY <2>1, <2>12, <2>13
<1>7. CASE SaveGames(p)
  <2>1. SameShape /\ event' = event /\ Return(p)
    BY <1>7, SaveGamesShape
  <2>2. RowsInOrder'
    BY <1>0, <1>a, <2>1, ShapeOrder
  <2> QED BY <2>1, <2>2, ReturnIsIdle
<1>8. CASE Fail(p)
  <2>1. event' = event /\ games' = games /\ Return(p)
    BY <1>8 DEF Fail
  <2>2. SameShape
    BY <2>1 DEF SameShape
  <2>3. RowsInOrder'
    BY <1>0, <1>a, <2>1, <2>2, ShapeOrder
  <2> QED BY <2>1, <2>3, ReturnIsIdle
<1> QED BY <1>1, <1>2, <1>3, <1>4, <1>5, <1>6, <1>7, <1>8 DEF Proceed

\* Playing a game changes its scores and its progress.
LEMMA PlayShape ==
  ASSUME EntriesInv, Play
  PROVE  SameShape /\ event' = event /\ pc' = pc /\ local' = local
<1>1. PICK i \in DOMAIN games :
        \/ \E s \in Results : games' = [games EXCEPT ![i].score = s, ![i].over = TRUE]
        \/ games' = [games EXCEPT ![i].cancelled = TRUE]
  BY DEF Play
<1>2. \A j \in DOMAIN games : games[j] \in GameRows
  BY AttachedIsNat DEF EntriesInv, FairGames
<1>3. CASE \E s \in Results : games' = [games EXCEPT ![i].score = s, ![i].over = TRUE]
  <2>1. PICK s \in Results : games' = [games EXCEPT ![i].score = s, ![i].over = TRUE]
    BY <1>3
  <2>2. DOMAIN games' = DOMAIN games
    BY <2>1
  <2>3. ASSUME NEW j \in DOMAIN games
        PROVE  games'[j] = IF j = i THEN [games[j] EXCEPT !.score = s, !.over = TRUE] ELSE games[j]
    BY <2>1
  <2> QED BY <1>2, <2>2, <2>3 DEF SameShape, GameRows, Play
<1>4. CASE games' = [games EXCEPT ![i].cancelled = TRUE]
  <2>1. DOMAIN games' = DOMAIN games
    BY <1>4
  <2>2. ASSUME NEW j \in DOMAIN games
        PROVE  games'[j] = IF j = i THEN [games[j] EXCEPT !.cancelled = TRUE] ELSE games[j]
    BY <1>4
  <2> QED BY <1>2, <2>1, <2>2 DEF SameShape, GameRows, Play
<1> QED BY <1>1, <1>3, <1>4

\* That leaves what a request holds as good as it was.
LEMMA ShapeInStep ==
  ASSUME EntriesInv, NEW p \in Requests, InStep(p), SameShape, event' = event, pc' = pc, local' = local
  PROVE  InStep(p)'
<1>1. Attached' = Attached
  BY ShapeShows
<1>2. \A i \in DOMAIN games : games'[i].round = games[i].round /\ games'[i].sides = games[i].sides
  BY DEF SameShape
<1>3. DOMAIN games' = DOMAIN games
  BY DEF SameShape
<1>4. ASSUME NEW n, NEW todo, Newcomers(n, todo),
             NEW i \in Attached', games'[i].round = n, NEW k \in DOMAIN todo,
             NEW a \in {1, 2}, NEW b \in {1, 2}
      PROVE  games'[i].sides[a] \cap todo[k][b] = {}
  <2>1. i \in Attached /\ i \in DOMAIN games
    BY <1>1 DEF Attached
  <2> QED BY <1>2, <1>4, <2>1 DEF Newcomers
<1>5. ASSUME pc[p] = "createGame" PROVE InStep(p)'
  <2>1. /\ local[p].event.round = event.round /\ DrawSpread(Apart, local[p].todo)
        /\ Newcomers(event.round, local[p].todo)
    BY <1>5 DEF InStep
  <2>2. \A i \in Attached' : games'[i].round = event.round =>
          \A k \in DOMAIN local[p].todo : \A a, b \in {1, 2} :
            games'[i].sides[a] \cap local[p].todo[k][b] = {}
    BY <1>4, <2>1
  <2> QED BY <1>5, <2>1, <2>2 DEF InStep, Newcomers
<1>6. ASSUME pc[p] = "saveGames" PROVE InStep(p)'
  <2>1. \A r \in local[p].rows :
            /\ r.id \in DOMAIN games
            /\ games[r.id].round = r.round /\ games[r.id].sides = r.sides
    BY <1>6 DEF InStep
  <2>2. \A r \in local[p].rows :
            /\ r.id \in DOMAIN games'
            /\ games'[r.id].round = r.round /\ games'[r.id].sides = r.sides
    BY <1>2, <1>3, <2>1
  <2> QED BY <1>6, <2>2 DEF InStep
<1>7. ASSUME pc[p] # "createGame", pc[p] # "saveGames" PROVE InStep(p)'
  BY <1>1, <1>7 DEF InStep
<1> QED BY <1>5, <1>6, <1>7

\* With one call at a time every step keeps the invariant, which holds initially.
LEMMA AloneStep ==
  ASSUME OneCall, EntriesInv, EntriesInv', AloneInv, [Next]_vars
  PROVE  AloneInv'
<1>0. RowsInOrder /\ \A p \in Requests : InStep(p)
  BY DEF AloneInv
<1>1. ASSUME NEW p \in Requests, Ask(p) \/ Proceed(p) \/ Fail(p) PROVE AloneInv'
  <2>1. RowsInOrder' /\ InStep(p)'
    BY <1>0, <1>1, AskAlone, ProceedAlone
  <2>2. \A q \in Requests : q = p
    BY DEF OneCall
  <2>3. ASSUME NEW q \in Requests PROVE InStep(q)'
    <3>1. q = p
      BY <2>2
    <3> QED BY <2>1, <3>1
  <2> QED BY <2>1, <2>3 DEF AloneInv
<1>2. CASE Play \/ Tick \/ UNCHANGED vars
  <2>1. SameShape /\ event' = event /\ pc' = pc /\ local' = local
    <3>1. CASE Play
      BY <3>1, PlayShape
    <3>2. CASE Tick
      BY <3>2 DEF Tick, SameShape
    <3>3. CASE UNCHANGED vars
      BY <3>3 DEF vars, SameShape
    <3> QED BY <1>2, <3>1, <3>2, <3>3
  <2>2. event' \in EventRows /\ event.round \in Nat /\ event.rounds \in Nat
        /\ (NoUpdates => event.round <= event.rounds)
    BY <1>0, <2>1 DEF EntriesInv, Entered, EventRows, RowsInOrder
  <2>3. RowsInOrder'
    BY <1>0, <2>1, <2>2, ShapeOrder
  <2>4. \A p \in Requests : InStep(p)'
    BY <1>0, <2>1, ShapeInStep
  <2> QED BY <2>3, <2>4 DEF AloneInv
<1> QED BY <1>1, <1>2 DEF Next

\* An event that has just been created satisfies it.
LEMMA AloneStart == ASSUME Init PROVE AloneInv
<1>1. event.round = 0 /\ event.rounds \in Nat /\ event.rounds > 0
  BY EventAssumption DEF Init
<1>2. games = <<>> /\ Attached = {} /\ DOMAIN games = {}
  <2>1. games = <<>> /\ DOMAIN games = {}
    BY DEF Init
  <2> QED BY <2>1 DEF Attached
<1>3. \A p \in Requests : pc[p] = "idle"
  BY DEF Init
<1>4. RowsInOrder
  BY <1>1, <1>2 DEF RowsInOrder, OncePerRound
<1> QED BY <1>3, <1>4 DEF AloneInv, InStep

-----------------------------------------------------------------------------
(* The theorems.                                                           *)

\* Called one after the other, the operations let nobody play twice in a round, even
\* if startRound dies halfway.
THEOREM OncePerRoundAlone ==
  ASSUME OneCall
  PROVE  Spec => []OncePerRound
<1> DEFINE Inv == EntriesInv /\ AloneInv
<1>1. Init => Inv
  BY EntriesStart, AloneStart
<1>2. Inv /\ [Next]_vars => Inv'
  BY EntriesStep, AloneStep
<1>3. Inv => OncePerRound
  BY DEF AloneInv, RowsInOrder
<1> HIDE DEF Inv
<1> QED BY <1>1, <1>2, <1>3, PTL DEF Spec

\* If no update lowers the number of rounds either, the rounds of the games are among
\* those announced, and those among the event's.
THEOREM RoundsAnnouncedAlone ==
  ASSUME OneCall, NoUpdates
  PROVE  Spec => []RoundsAnnounced
<1> DEFINE Inv == EntriesInv /\ AloneInv
<1>1. Init => Inv
  BY EntriesStart, AloneStart
<1>2. Inv /\ [Next]_vars => Inv'
  BY EntriesStep, AloneStep
<1>3. Inv => RoundsAnnounced
  BY DEF AloneInv, RowsInOrder, RoundsAnnounced
<1> HIDE DEF Inv
<1> QED BY <1>1, <1>2, <1>3, PTL DEF Spec

\* startRound goes on to announce a round only if the event has it.
LEMMA FinishedStays ==
  ASSUME EntriesInv, AloneInv, [Next]_vars, Status = "finished"
  PROVE  event'.round = event.round
<1>1. /\ event \in EventRows /\ event.round \in Nat /\ event.rounds \in Nat
      /\ event.round >= event.rounds
  <2>1. event \in EventRows
    BY DEF EntriesInv, Entered
  <2> QED BY <2>1 DEF EventRows, Status
<1>2. ASSUME NEW p \in Requests, Ask(p) PROVE event' = event
  BY <1>2 DEF Ask, Join, Leave, Update, Picture, Delete, StartRound, EndRound, Hold
<1>3. ASSUME NEW p \in Requests, Proceed(p) \/ Fail(p) PROVE event'.round = event.round
  <2>1. InStep(p)
    BY DEF AloneInv
  <2>2. ASSUME pc[p] \in {"save", "saveRow", "saveRounds"}, event' = local[p].event
        PROVE  event'.round = event.round
    BY <2>1, <2>2 DEF InStep
  <2>3. CASE EventSave(p) \/ RowSave(p) \/ SaveRounds(p)
    BY <2>2, <2>3 DEF EventSave, RowSave, SaveRounds, Save
  <2>4. CASE SoftDelete(p)
    BY <1>1, <2>4 DEF SoftDelete, EventRows
  <2>5. ~SaveRound(p)
    <3>1. SUFFICES ASSUME pc[p] = "saveRound" PROVE FALSE
      BY DEF SaveRound
    <3>2. local[p].event.round = event.round /\ local[p].event.round < local[p].event.rounds
          /\ local[p].event.rounds = event.rounds
      BY <2>1, <3>1 DEF InStep
    <3> QED BY <1>1, <3>2
  <2>6. CASE CreateGame(p) \/ SaveGames(p) \/ Fail(p)
    BY <2>6 DEF CreateGame, SaveGames, Fail
  <2> QED BY <1>3, <2>3, <2>4, <2>5, <2>6 DEF Proceed
<1>4. CASE Play \/ Tick \/ UNCHANGED vars
  BY <1>4 DEF Play, Tick, vars
<1> QED BY <1>2, <1>3, <1>4 DEF Next

\* No round is started once the event shows as finished.
THEOREM FinishedForGoodAlone ==
  ASSUME OneCall
  PROVE  Spec => FinishedForGood
<1> DEFINE Inv == EntriesInv /\ AloneInv
<1>1. Init => Inv
  BY EntriesStart, AloneStart
<1>2. Inv /\ [Next]_vars => Inv'
  BY EntriesStep, AloneStep
<1>3. Inv /\ [Next]_vars => [Status = "finished" => event'.round = event.round]_vars
  BY FinishedStays
<1> HIDE DEF Inv
<1> QED BY <1>1, <1>2, <1>3, PTL DEF Spec, FinishedForGood

\* Saving an event with all its games leaves them as they are.
LEMMA SaveKeepsGames ==
  ASSUME EntriesInv, NEW e, Save(e, Attached)
  PROVE  Attached' = Attached /\ \A i \in Attached : games'[i] = games[i]
<1>1. Attached' = Attached
  BY SaveKeepsShape, ShapeShows
<1>2. ASSUME NEW i \in Attached PROVE games'[i] = games[i]
  <2>1. i \in DOMAIN games /\ games[i] \in GameRows /\ games[i].attached = TRUE
    BY AttachedIsNat DEF EntriesInv, FairGames, GameRows, Attached
  <2>2. games'[i] = [games[i] EXCEPT !.attached = TRUE]
    BY <1>2, <2>1 DEF Save
  <2> QED BY <2>1, <2>2 DEF GameRows
<1> QED BY <1>1, <1>2

\* The games that count for the ranking of a round.
Counts(g, n) == Scored(g) /\ ~g.cancelled /\ g.round <= n

\* What a step has to keep: the games that count count afterwards, unchanged, unless
\* they are cancelled, and no others do.
SameResults(n) ==
  /\ \A j \in Attached' : Counts(games'[j], n) => j \in Attached /\ games'[j] = games[j]
  /\ \A j \in Attached : Counts(games[j], n) =>
       j \in Attached' /\ (games'[j] = games[j] \/ games'[j].cancelled)

\* Ending a game that has ended with both scores changes nothing.
LEMMA EndedStays ==
  ASSUME NEW g \in GameRows, g.over = TRUE, g.attached = TRUE,
         g.score \in Scores \X Scores, g.score[1] # Null, g.score[2] # Null
  PROVE  [g EXCEPT !.score = [k \in 1..2 |-> IF @[k] = Null THEN 0 ELSE @[k]],
                   !.over = TRUE, !.attached = TRUE] = g
<1> DEFINE s == g.score
           t == [k \in 1..2 |-> IF s[k] = Null THEN 0 ELSE s[k]]
<1>1. t = g.score
  <2>1. s = <<s[1], s[2]>>
    OBVIOUS
  <2>2. t = <<s[1], s[2]>>
    OBVIOUS
  <2> QED BY <2>1, <2>2
<1>2. [g EXCEPT !.score = t, !.over = TRUE, !.attached = TRUE] = g
  <2> HIDE DEF t
  <2> QED BY <1>1 DEF GameRows
<1> QED BY <1>2

\* A request's step loses and changes no settled result.
LEMMA ProceedKeepsResults ==
  ASSUME EntriesInv, RowsInOrder, NEW p \in Requests, InStep(p), Proceed(p) \/ Fail(p),
         NEW n \in 1..event.round, Settled(n)
  PROVE  SameResults(n)
<1>1. ASSUME Attached' = Attached, \A i \in Attached : games'[i] = games[i]
      PROVE  SameResults(n)
  BY <1>1 DEF SameResults
<1>2. CASE EventSave(p) \/ SaveRounds(p) \/ SaveRound(p)
  <2>1. pc[p] \in {"save", "saveRounds", "saveRound"} /\ \E e : Save(e, local[p].games)
    BY <1>2 DEF EventSave, SaveRounds, SaveRound
  <2>2. local[p].games = Attached
    BY <2>1 DEF InStep
  <2> QED BY <1>1, <2>1, <2>2, SaveKeepsGames
<1>3. CASE RowSave(p) \/ SoftDelete(p) \/ Fail(p)
  <2>1. games' = games
    BY <1>3 DEF RowSave, SoftDelete, Fail
  <2> QED BY <1>1, <2>1 DEF Attached
<1>4. CASE CreateGame(p)
  <2> DEFINE m == Len(games) + 1
             g == NewGame(m, local[p].event.round, Head(local[p].todo))
  <2>1. games' = Append(games, g) /\ games \in Seq(FairGames)
    BY <1>4 DEF CreateGame, EntriesInv
  <2>2. ~Scored(g)
    BY DEF NewGame, Scored
  <2> HIDE DEF g
  <2>3. /\ DOMAIN games = 1..Len(games) /\ DOMAIN games' = DOMAIN games \cup {m} /\ games'[m] = g
        /\ \A i \in DOMAIN games : games'[i] = games[i]
    <3>1. DOMAIN games = 1..Len(games) /\ Len(games) \in Nat
      BY <2>1, LenProperties
    <3> QED BY <2>1, <3>1
  <2> HIDE DEF m
  <2> QED BY <2>2, <2>3 DEF SameResults, Attached, Counts
<1>5. CASE SaveGames(p)
  <2> DEFINE rows == local[p].rows
             row(i) == CHOOSE r \in rows : r.id = i
             ended(r, x) == [r EXCEPT !.score = [k \in 1..2 |-> IF @[k] = Null THEN 0 ELSE @[k]],
                                      !.over = TRUE, !.attached = x]
  <2>1. /\ pc[p] = "saveGames"
        /\ games' = [i \in DOMAIN games |->
             IF \E g \in rows : g.id = i
             THEN [row(i) EXCEPT !.score = [k \in 1..2 |-> IF @[k] = Null THEN 0 ELSE @[k]],
                      !.over = TRUE, !.attached = games[i].attached]
             ELSE games[i]]
    BY <1>5 DEF SaveGames
  <2>2. SameShape /\ Attached' = Attached
    BY <1>5, SaveGamesShape, ShapeShows
  <2>3. ASSUME NEW i \in Attached, games[i].round <= n
        PROVE  games'[i] = games[i] \/ (games'[i].cancelled /\ games[i].cancelled)
    <3>1. i \in DOMAIN games /\ games[i] \in GameRows /\ games[i].attached = TRUE
      BY AttachedIsNat DEF EntriesInv, FairGames, GameRows, Attached
    <3>2. CASE \E g \in rows : g.id = i
      <4>1. row(i) \in rows /\ row(i).id = i
        BY <3>2
      <4>2. games'[i] = ended(row(i), games[i].attached)
        BY <2>1, <3>1, <3>2
      <4>3. games[i].round = row(i).round
        BY <2>1, <4>1 DEF InStep
      <4>4. games[i] = row(i)
        BY <2>3, <4>1, <4>3 DEF Settled
      <4> HIDE DEF row, rows, ended
      <4>5. games'[i] = ended(games[i], TRUE)
        BY <3>1, <4>2, <4>4
      <4>6. CASE games[i].cancelled
        BY <3>1, <4>5, <4>6 DEF GameRows, ended
      <4>7. CASE ~games[i].cancelled
        <5>1. games[i].over = TRUE /\ Scored(games[i])
          BY <2>3, <3>1, <4>7 DEF Settled, GameRows
        <5>2. games[i].score \in Scores \X Scores
              /\ games[i].score[1] # Null /\ games[i].score[2] # Null
          BY <3>1, <5>1 DEF GameRows, Scored
        <5> QED BY <3>1, <4>5, <5>1, <5>2, EndedStays DEF ended
      <4> QED BY <4>6, <4>7
    <3>3. CASE ~\E g \in rows : g.id = i
      BY <2>1, <3>1, <3>3
    <3> QED BY <3>2, <3>3
  <2>4. \A i \in Attached : games'[i].round = games[i].round
    BY <2>2 DEF SameShape, Attached
  <2> HIDE DEF row, rows
  <2> QED BY <2>2, <2>3, <2>4 DEF SameResults, Counts
<1> QED BY <1>2, <1>3, <1>4, <1>5 DEF Proceed

\* Nor does a game that is played or called off.
LEMMA PlayKeepsResults ==
  ASSUME EntriesInv, Play, NEW n, Settled(n)
  PROVE  SameResults(n)
<1>1. SameShape /\ Attached' = Attached
  BY PlayShape, ShapeShows
<1>2. \A j \in Attached : games'[j].round = games[j].round
  BY <1>1 DEF SameShape, Attached
<1>3. \A j \in Attached : j \in DOMAIN games /\ games[j] \in GameRows
  BY AttachedIsNat DEF EntriesInv, FairGames, Attached
<1>4. PICK i \in DOMAIN games :
        \/ /\ ~games[i].over /\ ~games[i].cancelled
           /\ \E s \in Results : games' = [games EXCEPT ![i].score = s, ![i].over = TRUE]
        \/ games' = [games EXCEPT ![i].cancelled = TRUE]
  BY DEF Play
<1>5. \A j \in Attached : j # i => games'[j] = games[j]
  BY <1>3, <1>4
<1>6. CASE ~games[i].over /\ ~games[i].cancelled
           /\ \E s \in Results : games' = [games EXCEPT ![i].score = s, ![i].over = TRUE]
  <2>1. \A j \in Attached : games[j].round <= n => j # i \/ games'[j].cancelled
    BY <1>6 DEF Settled
  <2>2. \A j \in Attached : games[j].round <= n => games'[j] = games[j]
    BY <1>5, <1>6 DEF Settled
  <2> QED BY <1>1, <1>2, <2>2 DEF SameResults, Counts
<1>7. CASE games' = [games EXCEPT ![i].cancelled = TRUE]
  <2>1. i \in Attached => games'[i].cancelled = TRUE
    BY <1>3, <1>7 DEF GameRows
  <2> QED BY <1>1, <1>5, <2>1 DEF SameResults, Counts
<1> QED BY <1>4, <1>6, <1>7

\* So no step does.
LEMMA ResultsStay ==
  ASSUME EntriesInv, EntriesInv', AloneInv, AloneInv', NoUpdates, [Next]_vars,
         NEW n \in 1..event.round, Settled(n)
  PROVE  ResultsUpTo(Asked(n))' = {g \in ResultsUpTo(Asked(n)) : ~games'[g.id].cancelled}
<1>1. SameResults(n)
  <2>1. ASSUME NEW p \in Requests, Ask(p) PROVE games' = games
    BY <2>1 DEF Ask, Join, Leave, Update, Picture, Delete, StartRound, EndRound, Hold
  <2>2. CASE games' = games
    BY <2>2 DEF SameResults, Attached
  <2>3. CASE Tick \/ UNCHANGED vars
    BY <2>2, <2>3 DEF Tick, vars
  <2>4. ASSUME NEW p \in Requests, Proceed(p) \/ Fail(p) PROVE SameResults(n)
    BY <2>4, ProceedKeepsResults DEF AloneInv
  <2>5. CASE Play
    BY <2>5, PlayKeepsResults
  <2> QED BY <2>1, <2>2, <2>3, <2>4, <2>5 DEF Next
<1>2. event'.round >= event.round
  <2>1. event \in EventRows /\ event.round \in Nat
    BY DEF EntriesInv, Entered, EventRows
  <2>2. ASSUME NEW p \in Requests, Ask(p) PROVE event' = event
    BY <2>2 DEF Ask, Join, Leave, Update, Picture, Delete, StartRound, EndRound, Hold
  <2>3. ASSUME NEW p \in Requests, Proceed(p) \/ Fail(p) PROVE event'.round >= event.round
    <3>1. InStep(p)
      BY DEF AloneInv
    <3>2. ASSUME pc[p] \in {"save", "saveRow", "saveRounds"}, event' = local[p].event
          PROVE  event'.round >= event.round
      BY <2>1, <3>1, <3>2 DEF InStep
    <3>3. CASE EventSave(p) \/ RowSave(p) \/ SaveRounds(p)
      BY <3>2, <3>3 DEF EventSave, RowSave, SaveRounds, Save
    <3>4. CASE SoftDelete(p)
      BY <2>1, <3>4 DEF SoftDelete, EventRows
    <3>5. CASE SaveRound(p)
      <4>1. /\ pc[p] = "saveRound" /\ local[p].event.round = event.round
            /\ event' = [local[p].event EXCEPT !.round = @ + 1] /\ local[p].event \in EventRows
        BY <3>1, <3>5 DEF SaveRound, Save, InStep, EntriesInv, Entered
      <4>2. event'.round = event.round + 1
        BY <4>1 DEF EventRows
      <4> QED BY <2>1, <4>2
    <3>6. CASE CreateGame(p) \/ SaveGames(p) \/ Fail(p)
      <4>1. event' = event
        BY <3>6 DEF CreateGame, SaveGames, Fail
      <4> QED BY <2>1, <4>1
    <3> QED BY <2>3, <3>3, <3>4, <3>5, <3>6 DEF Proceed
  <2>4. CASE Play \/ Tick \/ UNCHANGED vars
    <3>1. event' = event
      BY <2>4 DEF Play, Tick, vars
    <3> QED BY <2>1, <3>1
  <2> QED BY <2>1, <2>2, <2>3, <2>4 DEF Next
<1>3. Asked(n) = n /\ Asked(n)' = n /\ n # AllRounds
  <2>1. /\ event.round \in Nat /\ event.rounds \in Nat /\ event.round <= event.rounds
        /\ event'.round \in Nat /\ event'.rounds \in Nat /\ event'.round <= event'.rounds
    BY DEF EntriesInv, Entered, EventRows, AloneInv, RowsInOrder
  <2> QED BY <1>2, <2>1 DEF Asked, AllRounds
<1>4. ResultsUpTo(n) = {games[j] : j \in {k \in Attached : Counts(games[k], n)}}
  BY <1>3 DEF ResultsUpTo, Counts
<1>5. ResultsUpTo(Asked(n))' = {games'[j] : j \in {k \in Attached' : Counts(games'[k], n)}}
  BY <1>3 DEF ResultsUpTo, Counts
<1>6. \A j \in Attached : games[j].id = j
  BY DEF AloneInv, RowsInOrder, Attached
<1>7. ASSUME NEW j \in Attached', Counts(games'[j], n)
      PROVE  games'[j] \in {g \in ResultsUpTo(n) : ~games'[g.id].cancelled}
  <2>1. j \in Attached /\ games'[j] = games[j] /\ games[j].id = j
    BY <1>1, <1>6, <1>7 DEF SameResults
  <2>2. Counts(games[j], n) /\ ~games'[j].cancelled
    BY <1>7, <2>1 DEF Counts
  <2> QED BY <1>4, <2>1, <2>2
<1>8. ASSUME NEW j \in Attached, Counts(games[j], n), ~games'[games[j].id].cancelled
      PROVE  games[j] \in ResultsUpTo(Asked(n))'
  <2>1. j \in Attached' /\ games'[j] = games[j]
    BY <1>1, <1>6, <1>8 DEF SameResults
  <2>2. Counts(games'[j], n)
    BY <1>8, <2>1
  <2> QED BY <1>5, <2>1, <2>2
<1> QED BY <1>3, <1>4, <1>5, <1>7, <1>8

\* The results that a round's ranking rests on stay once they are settled, but for games
\* that are called off: startRound and endRound save stale rows, yet only of games they
\* do not change.
THEOREM RankingSettlesAlone ==
  ASSUME OneCall, NoUpdates
  PROVE  Spec => RankingSettles
<1> DEFINE Inv == EntriesInv /\ AloneInv
           Settles == \A n \in 1..event.round : Settled(n) =>
             ResultsUpTo(Asked(n))' = {g \in ResultsUpTo(Asked(n)) : ~games'[g.id].cancelled}
<1>1. Init => Inv
  BY EntriesStart, AloneStart
<1>2. Inv /\ [Next]_vars => Inv'
  BY EntriesStep, AloneStep
<1>3. Inv /\ Inv' /\ [Next]_vars => [Settles]_vars
  BY ResultsStay
<1>4. RankingSettles <=> [][Settles]_vars
  BY DEF RankingSettles
<1> HIDE DEF Inv, Settles
<1> QED BY <1>1, <1>2, <1>3, <1>4, PTL DEF Spec

-----------------------------------------------------------------------------
(* The ranking: its rows, and what they add up to.                          *)

\* The member whose numbers an entry of the ranking shows.
Member(i) == CHOOSE u \in event.lineup[i] : TRUE

\* Games a ranking can count: they have scores and are between entries of the list.
Countable(results) ==
  /\ IsFiniteSet(results)
  /\ \A g \in results, k \in {1, 2} :
       g.score[k] \in Nat /\ g.sides[k] \in Teams(event.lineup)

\* The teams of a fit list are finite, each of its own players, and differ.
LEMMA LineupFacts ==
  ASSUME FitLineup(event.lineup)
  PROVE  /\ Len(event.lineup) \in Nat /\ DOMAIN event.lineup = 1..Len(event.lineup)
         /\ \A i \in 1..Len(event.lineup) : IsFiniteSet(event.lineup[i]) /\ Member(i) \in event.lineup[i]
         /\ \A i, j \in 1..Len(event.lineup) : i # j => event.lineup[i] \cap event.lineup[j] = {}
         /\ IsFiniteSet(Playing(event.lineup))
<1> DEFINE lineup == event.lineup
           n == Len(lineup)
<1>1. n \in Nat /\ DOMAIN lineup = 1..n /\ lineup \in [1..n -> Rosters]
  BY LenProperties DEF FitLineup
<1>2. ASSUME NEW i \in 1..n PROVE IsFiniteSet(lineup[i]) /\ Member(i) \in lineup[i]
  <2>1. lineup[i] \in Rosters /\ IsFiniteSet(lineup[i]) /\ Cardinality(lineup[i]) = TeamSize
        /\ TeamSize # 0
    BY <1>1, EventAssumption DEF FitLineup, Sized
  <2>2. lineup[i] # {}
    BY <2>1, FS_EmptySet
  <2> QED BY <2>1, <2>2 DEF Member
<1>3. IsFiniteSet(Playing(lineup))
  <2> DEFINE f == [i \in 1..n |-> lineup[i]]
  <2>1. IsFiniteSet(1..n)
    BY <1>1, FS_Interval
  <2>2. f \in Surjection(1..n, Teams(lineup))
    <3>1. Teams(lineup) = {lineup[i] : i \in 1..n}
      BY <1>1 DEF Teams, ToSet
    <3>2. f \in [1..n -> Teams(lineup)] /\ \A t \in Teams(lineup) : \E i \in 1..n : f[i] = t
      BY <3>1
    <3> HIDE DEF f
    <3> QED BY <3>2, Fun_IsSurj
  <2>3. IsFiniteSet(Teams(lineup))
    <3> HIDE DEF f
    <3> QED BY <2>1, <2>2, FS_Surjection
  <2>4. \A t \in Teams(lineup) : IsFiniteSet(t)
    BY <1>1, <1>2 DEF Teams, ToSet
  <2> QED BY <2>3, <2>4, FS_UNION DEF Playing
<1>4. \A i, j \in 1..n : i # j => lineup[i] \cap lineup[j] = {}
  BY <1>1 DEF FitLineup, Disjoint
<1> QED BY <1>1, <1>2, <1>3, <1>4

\* The turns of an entry's member are those of the entry.
LEMMA TurnsOfEntry ==
  ASSUME FitLineup(event.lineup), NEW results, Countable(results),
         NEW i \in 1..Len(event.lineup)
  PROVE  Turns(Member(i), results)
           = {turn \in BothSides(results) : turn[1].sides[turn[2]] = event.lineup[i]}
<1>1. ASSUME NEW turn \in BothSides(results)
      PROVE  Member(i) \in turn[1].sides[turn[2]] <=> turn[1].sides[turn[2]] = event.lineup[i]
  <2>1. PICK j \in 1..Len(event.lineup) : turn[1].sides[turn[2]] = event.lineup[j]
    <3>1. turn[1] \in results /\ turn[2] \in {1, 2}
      BY DEF BothSides
    <3>2. turn[1].sides[turn[2]] \in Teams(event.lineup)
      BY <3>1 DEF Countable
    <3> QED BY <3>2, LineupFacts DEF Teams, ToSet
  <2> QED BY <2>1, LineupFacts
<1> QED BY <1>1 DEF Turns, BothSides

\* Turns that were won, lost, drawn; the points of a turn.
Won(results) == {turn \in BothSides(results) : For(turn) > Against(turn)}
Lost(results) == {turn \in BothSides(results) : For(turn) < Against(turn)}
Drew(results) == {turn \in BothSides(results) : For(turn) = Against(turn)}
PointsOf(results) == [turn \in BothSides(results) |-> For(turn)]
PointsAt(results) == [turn \in BothSides(results) |-> Against(turn)]

\* Every result is seen from its two sides, whose points are whole numbers.
LEMMA BothSidesFacts ==
  ASSUME NEW results, Countable(results)
  PROVE  /\ IsFiniteSet(BothSides(results))
         /\ \A turn \in BothSides(results) :
              /\ turn[1] \in results /\ turn[2] \in {1, 2} /\ turn = <<turn[1], turn[2]>>
              /\ For(turn) \in Nat /\ Against(turn) \in Nat
              /\ PointsOf(results)[turn] = For(turn) /\ PointsAt(results)[turn] = Against(turn)
         /\ Won(results) \in SUBSET BothSides(results)
         /\ Lost(results) \in SUBSET BothSides(results)
         /\ Drew(results) \in SUBSET BothSides(results)
<1>1. IsFiniteSet(BothSides(results))
  <2>1. IsFiniteSet({1, 2})
    <3>1. IsFiniteSet({1}) /\ {1, 2} = {1} \cup {2}
      BY FS_Singleton
    <3> QED BY <3>1, FS_AddElement
  <2> QED BY <2>1, FS_Product DEF BothSides, Countable
<1>2. ASSUME NEW turn \in BothSides(results)
      PROVE  /\ turn[1] \in results /\ turn[2] \in {1, 2} /\ turn = <<turn[1], turn[2]>>
             /\ For(turn) \in Nat /\ Against(turn) \in Nat
  <2>1. turn[1] \in results /\ turn[2] \in {1, 2} /\ turn = <<turn[1], turn[2]>>
    BY DEF BothSides
  <2>2. 3 - turn[2] \in {1, 2}
    BY <2>1
  <2> QED BY <2>1, <2>2 DEF For, Against, Countable
<1> QED BY <1>1, <1>2 DEF Won, Lost, Drew, PointsOf, PointsAt

\* A user's numbers count and sum the user's turns.
LEMMA StatsFacts ==
  ASSUME NEW results, Countable(results), NEW u
  PROVE  LET stats == UserStats(u, results)
             turns == Turns(u, results)
         IN /\ turns \in SUBSET BothSides(results)
            /\ stats.wins = Cardinality(turns \cap Won(results))
            /\ stats.losses = Cardinality(turns \cap Lost(results))
            /\ stats.draws = Cardinality(turns \cap Drew(results))
            /\ stats.pointsFor = SumOver(turns, PointsOf(results))
            /\ stats.pointsAgainst = SumOver(turns, PointsAt(results))
            /\ stats.wins \in Nat /\ stats.losses \in Nat /\ stats.draws \in Nat
            /\ stats.pointsFor \in Int
<1> DEFINE turns == Turns(u, results)
           stats == UserStats(u, results)
<1>1. turns \in SUBSET BothSides(results) /\ IsFiniteSet(turns)
  <2>1. turns \in SUBSET BothSides(results)
    BY DEF Turns, BothSides
  <2> QED BY <2>1, BothSidesFacts, FS_Subset
<1>2. /\ {turn \in turns : For(turn) > Against(turn)} = turns \cap Won(results)
      /\ {turn \in turns : For(turn) < Against(turn)} = turns \cap Lost(results)
      /\ {turn \in turns : For(turn) = Against(turn)} = turns \cap Drew(results)
  <2> HIDE DEF turns
  <2> QED BY <1>1 DEF Won, Lost, Drew
<1>3. /\ [turn \in turns |-> For(turn)] = [turn \in turns |-> PointsOf(results)[turn]]
      /\ [turn \in turns |-> Against(turn)] = [turn \in turns |-> PointsAt(results)[turn]]
  <2> HIDE DEF turns
  <2> QED BY <1>1, BothSidesFacts
<1>4. /\ stats.wins = Cardinality({turn \in turns : For(turn) > Against(turn)})
      /\ stats.losses = Cardinality({turn \in turns : For(turn) < Against(turn)})
      /\ stats.draws = Cardinality({turn \in turns : For(turn) = Against(turn)})
      /\ stats.pointsFor = SumFunction([turn \in turns |-> For(turn)])
      /\ stats.pointsAgainst = SumFunction([turn \in turns |-> Against(turn)])
  BY DEF UserStats
<1>5. /\ stats.pointsFor = SumOver(turns, PointsOf(results))
      /\ stats.pointsAgainst = SumOver(turns, PointsAt(results))
  <2> HIDE DEF stats, turns
  <2> QED BY <1>3, <1>4 DEF SumOver
<1>6. stats.wins \in Nat /\ stats.losses \in Nat /\ stats.draws \in Nat
  <2> HIDE DEF stats, turns
  <2>1. /\ IsFiniteSet(turns \cap Won(results)) /\ IsFiniteSet(turns \cap Lost(results))
        /\ IsFiniteSet(turns \cap Drew(results))
    BY <1>1, FS_Intersection
  <2> QED BY <1>2, <1>4, <2>1, FS_CardinalityType
<1>7. stats.pointsFor \in Int
  <2> HIDE DEF stats, turns
  <2>1. \A turn \in turns : PointsOf(results)[turn] \in Int
    BY <1>1, BothSidesFacts
  <2> QED BY <1>1, <1>5, <2>1, SumIsTyped
<1> QED BY <1>1, <1>2, <1>4, <1>5, <1>6, <1>7

\* What a ranking compares.
RankingKey(i, results) ==
  <<UserStats(Member(i), results).pointsFor,
    HalfPoints(UserStats(Member(i), results)),
    RankingEntry(i, results).opponentsStrength, -i>>

\* An entry has the numbers of its member, its place in the list and integers to compare.
LEMMA EntryFacts ==
  ASSUME FitLineup(event.lineup), NEW results, Countable(results), NEW i \in 1..Len(event.lineup)
  PROVE  /\ RankingEntry(i, results).stats = UserStats(Member(i), results)
         /\ RankingEntry(i, results).position = i
         /\ RankingKey(i, results) \in Keys /\ RankingKey(i, results)[4] = -i
<1> DEFINE stats == UserStats(Member(i), results)
           entered == stats.opponents \cap Playing(event.lineup)
           weight == [o \in entered |-> HalfPoints(UserStats(o, results))]
<1>1. /\ RankingEntry(i, results).stats = stats
      /\ RankingEntry(i, results).position = i
      /\ RankingEntry(i, results).opponentsStrength = SumFunction(weight)
  BY DEF RankingEntry, Member
<1>2. ASSUME NEW u PROVE HalfPoints(UserStats(u, results)) \in Nat
  <2> DEFINE s == UserStats(u, results)
  <2>1. s.wins \in Nat /\ s.draws \in Nat
    BY StatsFacts
  <2> HIDE DEF s
  <2>2. HalfPoints(s) \in Nat
    BY <2>1 DEF HalfPoints
  <2> QED BY <2>2 DEF s
<1>3. IsFiniteSet(entered)
  BY LineupFacts, FS_Intersection
<1>4. SumFunction(weight) \in Int
  <2>1. DOMAIN weight = entered /\ \A o \in entered : weight[o] \in Int
    <3> HIDE DEF entered
    <3> QED BY <1>2
  <2>2. weight = [o \in entered |-> weight[o]]
    OBVIOUS
  <2> HIDE DEF weight, entered
  <2>3. SumOver(entered, weight) \in Int
    BY <1>3, <2>1, SumIsTyped
  <2> QED BY <2>2, <2>3 DEF SumOver
<1>5. stats.pointsFor \in Int
  BY StatsFacts
<1>6. -i \in Int
  OBVIOUS
<1> HIDE DEF weight, stats
<1>7. RankingKey(i, results) = <<stats.pointsFor, HalfPoints(stats), SumFunction(weight), -i>>
  BY <1>1 DEF RankingKey, stats
<1>8. HalfPoints(stats) \in Int
  BY <1>2 DEF stats
<1> QED BY <1>1, <1>4, <1>5, <1>6, <1>7, <1>8 DEF Keys, stats

\* Permutations of the numbers to n.
Permutes(perm, n) ==
  /\ perm \in [1..n -> 1..n]
  /\ \A r, s \in 1..n : r # s => perm[r] # perm[s]
  /\ \A i \in 1..n : \E r \in 1..n : perm[r] = i

\* What puts n places on n positions, no two on one, leaves no position out.
LEMMA PermutesOnto ==
  ASSUME NEW n \in Nat, NEW perm \in [1..n -> 1..n],
         \A r, s \in 1..n : r # s => perm[r] # perm[s]
  PROVE  Permutes(perm, n)
<1>1. IsFiniteSet(1..n) /\ Cardinality(1..n) = n
  BY FS_Interval
<1>2. perm \in Injection(1..n, 1..n)
  BY Fun_IsInj
<1>3. perm \in Surjection(1..n, 1..n)
  BY <1>1, <1>2, FS_Injection
<1> QED BY <1>3 DEF Permutes, Surjection

\* A ranking lists every entry once.
LEMMA RankingFacts ==
  ASSUME FitLineup(event.lineup), NEW n, Countable(ResultsUpTo(Asked(n)))
  PROVE  /\ DOMAIN Ranking(n) = 1..Len(event.lineup)
         /\ \E perm : /\ Permutes(perm, Len(event.lineup))
                      /\ \A r \in 1..Len(event.lineup) :
                           Ranking(n)[r] = RankingEntry(perm[r], ResultsUpTo(Asked(n)))
<1> DEFINE N == Len(event.lineup)
           results == ResultsUpTo(Asked(n))
           E(i) == RankingEntry(i, results)
           K(i) == RankingKey(i, results)
           entries == {E(i) : i \in DOMAIN event.lineup}
           R == {p \in (1..N) \X (1..N) : Above(K(p[1]), K(p[2]))}
           at(r) == CHOOSE a \in entries :
                      Cardinality({b \in entries : Precedes(b, a)}) = r - 1
<1>1. N \in Nat /\ DOMAIN event.lineup = 1..N
  BY LineupFacts
<1>2. ASSUME NEW i \in 1..N
      PROVE  K(i) \in Keys /\ K(i)[4] = -i /\ E(i).position = i
  BY EntryFacts
<1>3. ASSUME NEW i \in 1..N, NEW j \in 1..N
      PROVE  Precedes(E(i), E(j)) <=> Above(K(i), K(j))
  <2>1. /\ E(i).stats = UserStats(Member(i), results) /\ E(i).position = i
        /\ E(j).stats = UserStats(Member(j), results) /\ E(j).position = j
    BY EntryFacts
  <2> DEFINE key(entry) == <<entry.stats.pointsFor, HalfPoints(entry.stats),
                             entry.opponentsStrength, -entry.position>>
  <2>2. key(E(i)) = K(i) /\ key(E(j)) = K(j)
    <3> HIDE DEF results
    <3> QED BY <2>1 DEF RankingKey
  <2>3. Precedes(E(i), E(j)) <=> Above(key(E(i)), key(E(j)))
    <3> HIDE DEF E
    <3> QED BY DEF Precedes, Above
  <2> HIDE DEF E, K, key
  <2> QED BY <2>2, <2>3
<1>4. IsRanking(N, R)
  <2>1. \A i, j \in 1..N : <<i, j>> \in R <=> Above(K(i), K(j))
    OBVIOUS
  <2>2. R \in SUBSET ((1..N) \X (1..N))
    OBVIOUS
  <2>3. \A i, j \in 1..N : i # j => -i # -j
    BY <1>1
  <2> HIDE DEF R, K
  <2> QED BY <1>2, <2>1, <2>2, <2>3, AboveOrders DEF IsRanking
<1>5. ASSUME NEW i \in 1..N
      PROVE  Cardinality({b \in entries : Precedes(b, E(i))}) = Cardinality(Better(N, R, i))
  <2> DEFINE B == Better(N, R, i)
             C == {b \in entries : Precedes(b, E(i))}
             f == [j \in B |-> E(j)]
  <2>1. \A j \in 1..N : j \in B <=> Precedes(E(j), E(i))
    <3> HIDE DEF E, K
    <3> QED BY <1>3 DEF Better
  <2>2. B \in SUBSET (1..N)
    BY DEF Better
  <2>3. IsFiniteSet(B)
    <3>1. IsFiniteSet(1..N)
      BY <1>1, FS_Interval
    <3> HIDE DEF B
    <3> QED BY <2>2, <3>1, FS_Subset
  <2>4. C = {E(j) : j \in B}
    <3> HIDE DEF E, B, N
    <3> QED BY <1>1, <2>1, <2>2
  <2>5. f \in [B -> C] /\ \A c \in C : \E j \in B : f[j] = c
    <3> HIDE DEF E, B, C
    <3> QED BY <2>4
  <2>6. \A j, k \in B : f[j] = f[k] => j = k
    <3>1. \A j \in B : f[j].position = j
      <4> HIDE DEF E, B
      <4> QED BY <1>2, <2>2
    <3> HIDE DEF f, B
    <3> QED BY <3>1
  <2>7. ExistsBijection(B, C)
    <3>1. f \in Bijection(B, C)
      <4> HIDE DEF f, B, C
      <4> QED BY <2>5, <2>6, Fun_IsBij
    <3> HIDE DEF f, B, C
    <3> QED BY <3>1 DEF ExistsBijection
  <2>8. Cardinality(C) = Cardinality(B)
    <3> HIDE DEF f, B, C
    <3> QED BY <2>3, <2>7, FS_Bijection
  <2> QED BY <2>8
<1>6. ASSUME NEW r \in 1..N
      PROVE  \E i \in 1..N : at(r) = E(i) /\ Cardinality(Better(N, R, i)) = r - 1
  <2>1. \E i \in 1..N : Cardinality(Better(N, R, i)) = r - 1
    <3> HIDE DEF R, N
    <3> QED BY <1>1, <1>4, RanksAreTaken
  <2>2. \E a \in entries : Cardinality({b \in entries : Precedes(b, a)}) = r - 1
    <3>1. PICK i \in 1..N : Cardinality(Better(N, R, i)) = r - 1
      BY <2>1
    <3>2. Cardinality({b \in entries : Precedes(b, E(i))}) = r - 1
      BY <1>5, <3>1
    <3>3. E(i) \in entries
      BY <1>1
    <3> HIDE DEF E, entries
    <3> QED BY <3>2, <3>3
  <2>3. at(r) \in entries /\ Cardinality({b \in entries : Precedes(b, at(r))}) = r - 1
    <3> HIDE DEF entries
    <3> QED BY <2>2
  <2> HIDE DEF at
  <2>4. PICK i \in 1..N : at(r) = E(i)
    <3> HIDE DEF E
    <3> QED BY <1>1, <2>3
  <2>5. Cardinality(Better(N, R, i)) = r - 1
    <3>1. Cardinality({b \in entries : Precedes(b, E(i))}) = r - 1
      <4> HIDE DEF entries, E
      <4> QED BY <2>3, <2>4
    <3> HIDE DEF E, R, entries
    <3> QED BY <1>5, <3>1
  <2> HIDE DEF E, R
  <2> QED BY <2>4, <2>5
<1> DEFINE place(r) == CHOOSE i \in 1..N : at(r) = E(i) /\ Cardinality(Better(N, R, i)) = r - 1
           perm == [r \in 1..N |-> place(r)]
<1>7. ASSUME NEW r \in 1..N
      PROVE  place(r) \in 1..N /\ at(r) = E(place(r)) /\ Cardinality(Better(N, R, place(r))) = r - 1
  <2> HIDE DEF at, E, R, N
  <2> QED BY <1>6
<1> HIDE DEF place
<1>8. Permutes(perm, N)
  <2>1. perm \in [1..N -> 1..N]
    BY <1>7
  <2>2. ASSUME NEW r \in 1..N, NEW s \in 1..N, r # s PROVE perm[r] # perm[s]
    <3>1. Cardinality(Better(N, R, perm[r])) = r - 1 /\ Cardinality(Better(N, R, perm[s])) = s - 1
      <4> HIDE DEF R
      <4> QED BY <1>7
    <3>2. r - 1 # s - 1
      BY <2>2
    <3> HIDE DEF perm, R
    <3> QED BY <3>1, <3>2
  <2> HIDE DEF perm
  <2> QED BY <1>1, <2>1, <2>2, PermutesOnto
<1>9. Ranking(n) = [r \in 1..N |-> at(r)]
  BY <1>1 DEF Ranking
<1>10. \A r \in 1..N : Ranking(n)[r] = E(perm[r])
  <2> HIDE DEF at, E
  <2> QED BY <1>7, <1>9
<1>11. DOMAIN Ranking(n) = 1..N
  <2> HIDE DEF at
  <2> QED BY <1>9
<1> HIDE DEF perm
<1> QED BY <1>8, <1>10, <1>11

\* Every side of a countable game is the turn of one entry of the ranking, so what
\* the entries' turns measure adds up to what all the turns measure.
LEMMA TableTotal ==
  ASSUME FitLineup(event.lineup), NEW results, Countable(results),
         NEW perm, Permutes(perm, Len(event.lineup)),
         NEW M, Additive(M, BothSides(results)),
         NEW w, \A r \in 1..Len(event.lineup) : w[r] = M[Turns(Member(perm[r]), results)]
  PROVE  SumOver(1..Len(event.lineup), w) = M[BothSides(results)]
<1> DEFINE N == Len(event.lineup)
           U == BothSides(results)
           T == [r \in 1..N |-> Turns(Member(perm[r]), results)]
<1>1. N \in Nat /\ perm \in [1..N -> 1..N]
  BY LineupFacts DEF Permutes
<1>2. ASSUME NEW r \in 1..N
      PROVE  perm[r] \in 1..N /\ T[r] = {turn \in U : turn[1].sides[turn[2]] = event.lineup[perm[r]]}
  <2>1. perm[r] \in 1..N
    BY <1>1
  <2> QED BY <2>1, TurnsOfEntry
<1>3. Parts(T, N, U)
  <2>1. T \in [1..N -> SUBSET U]
    <3>1. \A r \in 1..N : T[r] \in SUBSET U
      BY <1>2
    <3> QED BY <3>1
  <2>2. ASSUME NEW i \in 1..N, NEW j \in 1..N, i # j PROVE T[i] \cap T[j] = {}
    <3>1. perm[i] \in 1..N /\ perm[j] \in 1..N /\ perm[i] # perm[j]
      BY <1>2, <2>2 DEF Permutes
    <3>2. event.lineup[perm[i]] # event.lineup[perm[j]]
      <4>1. event.lineup[perm[i]] \cap event.lineup[perm[j]] = {}
            /\ Member(perm[i]) \in event.lineup[perm[i]]
        BY <3>1, LineupFacts
      <4> QED BY <4>1
    <3> HIDE DEF T
    <3> QED BY <1>2, <3>2
  <2> HIDE DEF T
  <2> QED BY <2>1, <2>2 DEF Parts
<1>4. UNION {T[r] : r \in 1..N} = U
  <2>1. ASSUME NEW turn \in U PROVE \E r \in 1..N : turn \in T[r]
    <3>1. turn[1] \in results /\ turn[2] \in {1, 2}
      BY BothSidesFacts
    <3>2. turn[1].sides[turn[2]] \in Teams(event.lineup)
      BY <3>1 DEF Countable
    <3>3. PICK i \in 1..N : turn[1].sides[turn[2]] = event.lineup[i]
      BY <3>2, LineupFacts DEF Teams, ToSet
    <3>4. PICK r \in 1..N : perm[r] = i
      BY <3>3 DEF Permutes
    <3> HIDE DEF T, U
    <3> QED BY <1>2, <3>3, <3>4
  <2>2. \A r \in 1..N : T[r] \in SUBSET U
    BY <1>2
  <2> HIDE DEF T, U
  <2> QED BY <2>1, <2>2
<1>5. \A r \in 1..N : w[r] = M[T[r]]
  OBVIOUS
<1>6. Additive(M, U)
  OBVIOUS
<1> HIDE DEF T, U, N
<1>7. \A v : (\A r \in 1..N : v[r] = M[T[r]]) => SumOver(1..N, v) = M[UNION {T[r] : r \in 1..N}]
  BY <1>1, <1>3, <1>6, SumOfParts
<1>8. SumOver(1..N, w) = M[UNION {T[r] : r \in 1..N}]
  BY <1>5, <1>7
<1> QED BY <1>4, <1>8 DEF U, N

\* Wins are losses and points scored are points conceded, on the two sides of each game.
LEMMA SidesBalance ==
  ASSUME NEW results, Countable(results)
  PROVE  /\ Cardinality(Won(results)) = Cardinality(Lost(results))
         /\ SumOver(BothSides(results), PointsOf(results))
              = SumOver(BothSides(results), PointsAt(results))
<1> DEFINE U == BothSides(results)
           W == [A \in SUBSET U |-> Cardinality(A \cap Won(results))]
           L == [A \in SUBSET U |-> Cardinality(A \cap Lost(results))]
           P == [A \in SUBSET U |-> SumOver(A, PointsOf(results))]
           Q == [A \in SUBSET U |-> SumOver(A, PointsAt(results))]
<1>1. /\ IsFiniteSet(results) /\ IsFiniteSet(U) /\ Won(results) \in SUBSET U /\ Lost(results) \in SUBSET U
      /\ \A turn \in U : PointsOf(results)[turn] \in Int /\ PointsAt(results)[turn] \in Int
  <2>1. IsFiniteSet(results)
    BY DEF Countable
  <2> QED BY <2>1, BothSidesFacts
<1>2. Additive(W, U) /\ Additive(L, U)
  <2> HIDE DEF U
  <2> QED BY <1>1, CountIsAdditive
<1>3. Additive(P, U) /\ Additive(Q, U)
  <2> HIDE DEF U
  <2> QED BY <1>1, SumIsAdditive
<1>4. ASSUME NEW g \in results
      PROVE  /\ W[BothSides({g})] = L[BothSides({g})]
             /\ P[BothSides({g})] = Q[BothSides({g})]
  <2> DEFINE a == <<g, 1>>
             b == <<g, 2>>
  <2>1. /\ BothSides({g}) = {a, b} /\ a # b /\ a \in U /\ b \in U /\ {a, b} \in SUBSET U
        /\ For(a) = Against(b) /\ For(b) = Against(a)
    <3>1. 3 - 1 = 2 /\ 3 - 2 = 1
      OBVIOUS
    <3> QED BY <3>1 DEF BothSides, For, Against
  <2>2. /\ For(a) \in Nat /\ For(b) \in Nat /\ PointsOf(results)[a] = For(a)
        /\ PointsOf(results)[b] = For(b) /\ PointsAt(results)[a] = Against(a)
        /\ PointsAt(results)[b] = Against(b)
    BY <2>1, BothSidesFacts
  <2> HIDE DEF a, b
  <2>3. Cardinality({a, b} \cap Won(results)) = Cardinality({a, b} \cap Lost(results))
    <3>1. Cardinality({a}) = 1 /\ Cardinality({b}) = 1 /\ Cardinality({}) = 0
      BY FS_Singleton, FS_EmptySet
    <3>2. /\ a \in Won(results) <=> For(a) > For(b)
          /\ b \in Won(results) <=> For(b) > For(a)
          /\ a \in Lost(results) <=> For(a) < For(b)
          /\ b \in Lost(results) <=> For(b) < For(a)
      BY <2>1 DEF Won, Lost
    <3>3. CASE For(a) > For(b)
      <4>1. {a, b} \cap Won(results) = {a} /\ {a, b} \cap Lost(results) = {b}
        BY <2>2, <3>2, <3>3
      <4> QED BY <3>1, <4>1
    <3>4. CASE For(a) < For(b)
      <4>1. {a, b} \cap Won(results) = {b} /\ {a, b} \cap Lost(results) = {a}
        BY <2>2, <3>2, <3>4
      <4> QED BY <3>1, <4>1
    <3>5. CASE For(a) = For(b)
      <4>1. {a, b} \cap Won(results) = {} /\ {a, b} \cap Lost(results) = {}
        BY <2>2, <3>2, <3>5
      <4> QED BY <4>1
    <3> QED BY <2>2, <3>3, <3>4, <3>5
  <2>4. SumOver({a, b}, PointsOf(results)) = SumOver({a, b}, PointsAt(results))
    <3>1. IsFiniteSet({a, b}) /\ IsFiniteSet({b}) /\ {a, b} \ {a} = {b} /\ {b} \ {b} = {}
      BY <1>1, <2>1, FS_Subset, FS_Singleton
    <3>2. ASSUME NEW w, w[a] \in Int, w[b] \in Int
          PROVE  SumOver({a, b}, w) = w[a] + w[b]
      <4>1. SumOver({a, b}, w) = w[a] + SumOver({b}, w)
        BY <3>1, <3>2, SumTakes
      <4>2. SumOver({b}, w) = w[b] + SumOver({}, w)
        BY <3>1, <3>2, SumTakes
      <4>3. SumOver({}, w) = 0
        BY SumOfNone
      <4> QED BY <3>2, <4>1, <4>2, <4>3
    <3>3. /\ SumOver({a, b}, PointsOf(results)) = For(a) + For(b)
          /\ SumOver({a, b}, PointsAt(results)) = For(b) + For(a)
      BY <1>1, <2>1, <2>2, <3>2
    <3> QED BY <2>2, <3>3
  <2>5. BothSides({g}) \in SUBSET U
    BY <2>1
  <2> HIDE DEF U
  <2> QED BY <2>1, <2>3, <2>4, <2>5
<1>5. W[U] = L[U] /\ P[U] = Q[U]
  <2> HIDE DEF W, L, P, Q
  <2> QED BY <1>1, <1>2, <1>3, <1>4, Balanced
<1>6. U \in SUBSET U /\ U \cap Won(results) = Won(results) /\ U \cap Lost(results) = Lost(results)
  BY <1>1
<1> HIDE DEF U
<1> QED BY <1>5, <1>6 DEF U

\* A ranking's wins are its losses and its points scored its points conceded.
LEMMA TotalsBalance ==
  ASSUME FitLineup(event.lineup), NEW n, Countable(ResultsUpTo(Asked(n)))
  PROVE  /\ Total(Ranking(n), "wins") = Total(Ranking(n), "losses")
         /\ Total(Ranking(n), "pointsFor") = Total(Ranking(n), "pointsAgainst")
<1> DEFINE N == Len(event.lineup)
           results == ResultsUpTo(Asked(n))
           table == Ranking(n)
           U == BothSides(results)
           W == [A \in SUBSET U |-> Cardinality(A \cap Won(results))]
           L == [A \in SUBSET U |-> Cardinality(A \cap Lost(results))]
           P == [A \in SUBSET U |-> SumOver(A, PointsOf(results))]
           Q == [A \in SUBSET U |-> SumOver(A, PointsAt(results))]
           w(column) == [r \in 1..N |-> table[r].stats[column]]
<1>1. PICK perm : /\ Permutes(perm, N)
                  /\ \A r \in 1..N : table[r] = RankingEntry(perm[r], results)
  BY RankingFacts
<1>2. DOMAIN table = 1..N
  BY RankingFacts
<1>3. ASSUME NEW column PROVE Total(table, column) = SumOver(1..N, w(column))
  <2>1. Total(table, column) = SumFunction(w(column))
    <3> HIDE DEF table
    <3> QED BY <1>2 DEF Total
  <2>2. w(column) = [r \in 1..N |-> w(column)[r]]
    OBVIOUS
  <2> HIDE DEF w
  <2> QED BY <2>1, <2>2 DEF SumOver
<1>4. ASSUME NEW r \in 1..N
      PROVE  LET turns == Turns(Member(perm[r]), results) IN
             /\ turns \in SUBSET U
             /\ w("wins")[r] = W[turns] /\ w("losses")[r] = L[turns]
             /\ w("pointsFor")[r] = P[turns] /\ w("pointsAgainst")[r] = Q[turns]
  <2> DEFINE u == Member(perm[r])
             turns == Turns(u, results)
  <2>1. perm[r] \in 1..N
    BY <1>1 DEF Permutes
  <2>2. table[r].stats = UserStats(u, results)
    <3> HIDE DEF table, results
    <3> QED BY <1>1, <2>1, EntryFacts DEF results
  <2> HIDE DEF table
  <2>3. /\ w("wins")[r] = UserStats(u, results).wins /\ w("losses")[r] = UserStats(u, results).losses
        /\ w("pointsFor")[r] = UserStats(u, results).pointsFor
        /\ w("pointsAgainst")[r] = UserStats(u, results).pointsAgainst
    BY <2>2
  <2> HIDE DEF w, u, results
  <2>4. /\ turns \in SUBSET BothSides(results)
        /\ UserStats(u, results).wins = Cardinality(turns \cap Won(results))
        /\ UserStats(u, results).losses = Cardinality(turns \cap Lost(results))
        /\ UserStats(u, results).pointsFor = SumOver(turns, PointsOf(results))
        /\ UserStats(u, results).pointsAgainst = SumOver(turns, PointsAt(results))
    BY StatsFacts DEF results
  <2> HIDE DEF turns
  <2>5. /\ W[turns] = Cardinality(turns \cap Won(results)) /\ L[turns] = Cardinality(turns \cap Lost(results))
        /\ P[turns] = SumOver(turns, PointsOf(results)) /\ Q[turns] = SumOver(turns, PointsAt(results))
    BY <2>4
  <2> HIDE DEF W, L, P, Q, U
  <2> QED BY <2>3, <2>4, <2>5 DEF turns, u, U
<1>5. /\ IsFiniteSet(U) /\ Won(results) \in SUBSET U /\ Lost(results) \in SUBSET U
      /\ \A turn \in U : PointsOf(results)[turn] \in Int /\ PointsAt(results)[turn] \in Int
  <2> HIDE DEF results
  <2> QED BY BothSidesFacts DEF results
<1> HIDE DEF table, results, w
<1>6. Additive(W, U) /\ Additive(L, U) /\ Additive(P, U) /\ Additive(Q, U)
  <2> HIDE DEF U
  <2> QED BY <1>5, CountIsAdditive, SumIsAdditive
<1>7. /\ W[U] = Cardinality(Won(results)) /\ L[U] = Cardinality(Lost(results))
      /\ P[U] = SumOver(U, PointsOf(results)) /\ Q[U] = SumOver(U, PointsAt(results))
  <2>1. U \cap Won(results) = Won(results) /\ U \cap Lost(results) = Lost(results) /\ U \in SUBSET U
    BY <1>5
  <2> HIDE DEF U
  <2> QED BY <2>1
<1> HIDE DEF W, L, P, Q
<1>8. Countable(results)
  BY DEF results
<1>9. /\ SumOver(1..N, w("wins")) = W[U] /\ SumOver(1..N, w("losses")) = L[U]
      /\ SumOver(1..N, w("pointsFor")) = P[U] /\ SumOver(1..N, w("pointsAgainst")) = Q[U]
  BY <1>1, <1>4, <1>6, <1>8, TableTotal
<1>10. W[U] = L[U] /\ P[U] = Q[U]
  BY <1>7, <1>8, SidesBalance
<1> QED BY <1>3, <1>9, <1>10 DEF table

-----------------------------------------------------------------------------
(* The games are of the event's list, as long as the list stays.           *)

\* Once a round has been announced the list of teams stays (a team that leaves
\* later takes its side of the ranking with it).
ListStays == event.round > 0 => event'.lineup = event.lineup

\* Both sides of a game are entries of the event.
InList(sides) == \A k \in {1, 2} : sides[k] \in Teams(event.lineup)
\* The i-th pair of the list, from its head.
InOrder(sides, i) ==
  2 * i <= Len(event.lineup) /\ sides = <<event.lineup[2 * i - 1], event.lineup[2 * i]>>

\* Every game is between teams of the list, those of the first round in its order.
GamesListed ==
  /\ Attached = DOMAIN games
  /\ \A i \in Attached : InList(games[i].sides)
  /\ \A i \in Attached : games[i].round = 1 => InOrder(games[i].sides, i)

\* The round that a request of startRound is about.
PlannedRound(p) ==
  IF pc[p] = "createGame" THEN local[p].event.round ELSE local[p].event.round + 1

\* A request that creates a round holds the list of the row and pairs of its teams, in
\* the order of the list when the round is the first.
PlanListed(p) ==
  LET e == local[p].event
      todo == local[p].todo
  IN pc[p] \in Planning =>
       /\ e.lineup = event.lineup
       /\ \A k \in DOMAIN todo : InList(todo[k])
       /\ PlannedRound(p) = 1 => \A k \in DOMAIN todo : InOrder(todo[k], Len(games) + k)

\* What is added to the invariant when nobody leaves after the first round.
ListInv == GamesListed /\ \A p \in Requests : PlanListed(p)

\* The results the ranking reads are finitely many, each scored between two teams of the
\* list.
LEMMA ResultsAreCountable ==
  ASSUME EntriesInv, GamesListed, NEW n
  PROVE  Countable(ResultsUpTo(n))
<1> DEFINE D == {j \in Attached : Scored(games[j]) /\ ~games[j].cancelled
                                  /\ (n = AllRounds \/ games[j].round <= n)}
           f == [j \in D |-> games[j]]
           results == ResultsUpTo(n)
<1>1. /\ Attached \subseteq DOMAIN games /\ DOMAIN games = 1..Len(games) /\ Len(games) \in Nat
      /\ \A i \in DOMAIN games : games[i] \in FairGames
  BY AttachedIsNat DEF EntriesInv
<1>2. results = {games[j] : j \in D}
  BY DEF ResultsUpTo
<1>3. IsFiniteSet(D)
  <2>1. IsFiniteSet(1..Len(games)) /\ D \in SUBSET (1..Len(games))
    BY <1>1, FS_Interval
  <2> HIDE DEF D
  <2> QED BY <2>1, FS_Subset
<1>4. ASSUME NEW g \in results, NEW k \in {1, 2}
      PROVE  g.score[k] \in Nat /\ g.sides[k] \in Teams(event.lineup)
  <2>1. PICK j \in D : g = games[j]
    BY <1>2
  <2>2. g \in FairGames /\ Scored(g) /\ InList(g.sides)
    BY <1>1, <2>1 DEF GamesListed
  <2>3. g.score \in Scores \X Scores
    BY <2>2, GameRowFacts
  <2> QED BY <2>2, <2>3 DEF Scored, InList, Scores, Null
<1>5. IsFiniteSet(results)
  <2> HIDE DEF D, results
  <2>1. f \in [D -> results] /\ \A g \in results : \E j \in D : f[j] = g
    BY <1>2
  <2> HIDE DEF f
  <2>2. f \in Surjection(D, results)
    BY <2>1, Fun_IsSurj
  <2> QED BY <1>3, <2>2, FS_Surjection
<1> HIDE DEF results, D
<1>6. Countable(results)
  BY <1>4, <1>5 DEF Countable
<1> QED BY <1>6 DEF results

\* An entry shows at most one game for every round drawn.
LEMMA GamesWithinRounds ==
  ASSUME EntriesInv, RowsInOrder, GamesListed, NEW n \in AllRounds..event.round,
         NEW i \in 1..Len(event.lineup)
  PROVE  LET stats == UserStats(Member(i), ResultsUpTo(Asked(n)))
             drawn == IF Asked(n) = AllRounds THEN event.round ELSE n
         IN  stats.wins + stats.draws + stats.losses <= drawn
<1> DEFINE results == ResultsUpTo(Asked(n))
           stats == UserStats(Member(i), results)
           drawn == IF Asked(n) = AllRounds THEN event.round ELSE n
           turns == Turns(Member(i), results)
           W == turns \cap Won(results)
           L == turns \cap Lost(results)
           D == turns \cap Drew(results)
<1>1. /\ FitLineup(event.lineup) /\ event.round \in Nat /\ event.rounds \in Nat
      /\ n \in Nat /\ drawn \in Nat /\ (Asked(n) = AllRounds \/ Asked(n) = n)
  <2>1. FitLineup(event.lineup) /\ event.round \in Nat /\ event.rounds \in Nat
    BY EventRowFacts DEF EntriesInv
  <2>2. n \in Nat
    BY <2>1 DEF AllRounds
  <2> QED BY <2>1, <2>2 DEF Asked
<1>2. Countable(results)
  BY ResultsAreCountable
<1>3. turns = {turn \in BothSides(results) : turn[1].sides[turn[2]] = event.lineup[i]}
  <2> HIDE DEF results
  <2> QED BY <1>1, <1>2, TurnsOfEntry
<1>4. ASSUME NEW turn \in turns
      PROVE  /\ turn = <<turn[1], turn[2]>> /\ turn[2] \in {1, 2}
             /\ \E j \in Attached : turn[1] = games[j] /\ games[j].round \in 1..drawn
             /\ turn[1].sides[turn[2]] = event.lineup[i]
  <2>1. /\ turn[1] \in results /\ turn = <<turn[1], turn[2]>> /\ turn[2] \in {1, 2}
        /\ turn[1].sides[turn[2]] = event.lineup[i]
    <3> HIDE DEF results
    <3> QED BY <1>2, <1>3, BothSidesFacts
  <2>2. PICK j \in Attached : turn[1] = games[j] /\ (Asked(n) = AllRounds \/ games[j].round <= Asked(n))
    BY <2>1 DEF ResultsUpTo
  <2>3. games[j].round \in Nat \ {0} /\ games[j].round <= event.round
    <3>1. games[j] \in FairGames
      BY AttachedIsNat DEF EntriesInv
    <3> QED BY <3>1, GameRowFacts DEF RowsInOrder
  <2>4. games[j].round <= drawn
    BY <1>1, <2>2, <2>3 DEF AllRounds
  <2> QED BY <1>1, <2>1, <2>2, <2>3, <2>4
<1>5. ASSUME NEW s \in turns, NEW t \in turns, s[1].round = t[1].round PROVE s = t
  <2>1. PICK j \in Attached : s[1] = games[j]
    BY <1>4
  <2>2. PICK k \in Attached : t[1] = games[k]
    BY <1>4
  <2>3. s[1].sides[s[2]] = event.lineup[i] /\ t[1].sides[t[2]] = event.lineup[i]
        /\ Member(i) \in event.lineup[i] /\ s[2] \in {1, 2} /\ t[2] \in {1, 2}
        /\ s = <<s[1], s[2]>> /\ t = <<t[1], t[2]>>
    BY <1>1, <1>4, LineupFacts
  <2>4. j = k
    <3>1. SUFFICES ASSUME j # k PROVE FALSE
      OBVIOUS
    <3>2. s[2] \in 1..2 /\ t[2] \in 1..2
      BY <2>3
    <3>3. games[j].sides[s[2]] \cap games[k].sides[t[2]] = {}
      <4>1. games[j].round = games[k].round
        BY <1>5, <2>1, <2>2
      <4> HIDE DEF turns
      <4> QED BY <3>1, <3>2, <4>1 DEF RowsInOrder, OncePerRound
    <3> HIDE DEF turns
    <3> QED BY <2>1, <2>2, <2>3, <3>3
  <2>5. s[2] = t[2]
    <3>1. games[j].sides[1] \cap games[j].sides[2] = {}
      <4>1. games[j] \in FairGames
        BY AttachedIsNat DEF EntriesInv
      <4> QED BY <4>1 DEF FairGames, FairPairs
    <3> HIDE DEF turns
    <3> QED BY <2>1, <2>2, <2>3, <2>4, <3>1
  <2> HIDE DEF turns
  <2> QED BY <2>1, <2>2, <2>3, <2>4, <2>5
<1>6. IsFiniteSet(turns) /\ Cardinality(turns) <= drawn
  <2> DEFINE f == [turn \in turns |-> turn[1].round]
  <2>1. f \in [turns -> 1..drawn]
    <3> HIDE DEF turns, drawn
    <3> QED BY <1>4
  <2>2. \A s, t \in turns : f[s] = f[t] => s = t
    <3> HIDE DEF turns
    <3> QED BY <1>5
  <2>3. IsFiniteSet(1..drawn) /\ Cardinality(1..drawn) = drawn
    <3>1. drawn \in Nat /\ 1 \in Int
      BY <1>1
    <3> HIDE DEF drawn
    <3>2. IsFiniteSet(1..drawn) /\ Cardinality(1..drawn) = IF 1 > drawn THEN 0 ELSE drawn - 1 + 1
      BY <3>1, FS_Interval
    <3> QED BY <3>1, <3>2
  <2> HIDE DEF f, turns, drawn
  <2>4. f \in Injection(turns, 1..drawn)
    BY <2>1, <2>2, Fun_IsInj
  <2>5. IsFiniteSet(turns) /\ Cardinality(turns) <= Cardinality(1..drawn)
    <3> DEFINE rounds == 1..drawn
    <3>1. f \in Injection(turns, rounds) /\ IsFiniteSet(rounds)
      BY <2>3, <2>4
    <3> HIDE DEF rounds
    <3>2. IsFiniteSet(turns) /\ Cardinality(turns) <= Cardinality(rounds)
      BY <3>1, FS_Injection
    <3> QED BY <3>2 DEF rounds
  <2> QED BY <2>3, <2>5
<1> HIDE DEF results, turns, drawn
<1>7. /\ stats.wins = Cardinality(W) /\ stats.losses = Cardinality(L) /\ stats.draws = Cardinality(D)
  <2>1. turns = Turns(Member(i), results)
    BY DEF turns
  <2> QED BY <1>2, <2>1, StatsFacts
<1>8. /\ W \cap L = {} /\ (W \cup L) \cap D = {} /\ (W \cup L) \cup D \in SUBSET turns
      /\ W \in SUBSET turns /\ L \in SUBSET turns /\ D \in SUBSET turns /\ W \cup L \in SUBSET turns
  <2>1. \A turn \in BothSides(results) : For(turn) \in Nat /\ Against(turn) \in Nat
    BY <1>2, BothSidesFacts
  <2> QED BY <2>1 DEF Won, Lost, Drew
<1>9. Cardinality(W) + Cardinality(L) + Cardinality(D) <= Cardinality(turns)
  <2> HIDE DEF W, L, D
  <2>1. /\ IsFiniteSet(W) /\ IsFiniteSet(L) /\ IsFiniteSet(D) /\ IsFiniteSet(W \cup L)
        /\ Cardinality((W \cup L) \cup D) <= Cardinality(turns)
    BY <1>6, <1>8, FS_Subset
  <2>2. /\ Cardinality(W) \in Nat /\ Cardinality(L) \in Nat /\ Cardinality(D) \in Nat
        /\ Cardinality(W \cup L) \in Nat /\ Cardinality({}) = 0
    BY <2>1, FS_CardinalityType, FS_EmptySet
  <2>3. Cardinality(W \cup L) = Cardinality(W) + Cardinality(L)
    <3>1. Cardinality(W \cup L) = Cardinality(W) + Cardinality(L) - Cardinality(W \cap L)
      BY <2>1, FS_Union
    <3>2. Cardinality(W \cap L) = 0
      BY <1>8, <2>2
    <3> QED BY <2>2, <3>1, <3>2
  <2>4. Cardinality((W \cup L) \cup D) = Cardinality(W \cup L) + Cardinality(D)
    <3>1. Cardinality((W \cup L) \cup D)
            = Cardinality(W \cup L) + Cardinality(D) - Cardinality((W \cup L) \cap D)
      BY <2>1, FS_Union
    <3>2. Cardinality((W \cup L) \cap D) = 0
      BY <1>8, <2>2
    <3> QED BY <2>2, <3>1, <3>2
  <2> QED BY <2>1, <2>2, <2>3, <2>4
<1>10. /\ Cardinality(W) \in Nat /\ Cardinality(L) \in Nat /\ Cardinality(D) \in Nat
       /\ Cardinality(turns) \in Nat /\ drawn \in Nat
  <2> HIDE DEF W, L, D
  <2> QED BY <1>1, <1>6, <1>8, FS_Subset, FS_CardinalityType DEF drawn
<1>11. stats.wins + stats.draws + stats.losses <= drawn
  <2> HIDE DEF stats, W, L, D
  <2> QED BY <1>6, <1>7, <1>9, <1>10
<1> QED BY <1>11 DEF results, drawn

\* Before the first round there are no games.
LEMMA NoGamesYet ==
  ASSUME EntriesInv, RowsInOrder, GamesListed, event.round = 0
  PROVE  Attached = {} /\ DOMAIN games = {} /\ Len(games) = 0 /\ \A n : Played(n) = {}
<1>1. Attached = {}
  <2>1. ASSUME NEW i \in Attached PROVE FALSE
    <3>1. games[i].round \in Nat \ {0}
      <4>1. games[i] \in FairGames
        BY AttachedIsNat DEF EntriesInv
      <4> QED BY <4>1, GameRowFacts
    <3>2. games[i].round <= 0
      BY DEF RowsInOrder
    <3> QED BY <3>1, <3>2
  <2> QED BY <2>1
<1>2. DOMAIN games = {} /\ Len(games) = 0
  <2>1. DOMAIN games = 1..Len(games) /\ Len(games) \in Nat
    BY AttachedIsNat DEF EntriesInv
  <2>2. DOMAIN games = {}
    BY <1>1 DEF GamesListed
  <2>3. Len(games) # 0 => 1 \in DOMAIN games
    BY <2>1
  <2> QED BY <2>2, <2>3
<1>3. \A n : Played(n) = {}
  BY <1>1 DEF Played
<1> QED BY <1>1, <1>2, <1>3

\* A step that only scores or saves keeps the games listed, if the list stays or there
\* are no games yet.
LEMMA ShapeListed ==
  ASSUME EntriesInv, EntriesInv', GamesListed, SameShape,
         event'.lineup = event.lineup \/ Attached = {}
  PROVE  GamesListed' /\ Len(games') = Len(games)
<1>1. Attached' = Attached /\ DOMAIN games' = DOMAIN games
  BY ShapeShows DEF SameShape
<1>2. Len(games') = Len(games)
  <2>1. /\ DOMAIN games = 1..Len(games) /\ Len(games) \in Nat
        /\ DOMAIN games' = 1..Len(games') /\ Len(games') \in Nat
    BY LenProperties DEF EntriesInv
  <2>2. 1..Len(games) = 1..Len(games')
    BY <1>1, <2>1
  <2>3. ASSUME NEW a \in Nat, NEW b \in Nat, 1..a = 1..b PROVE a = b
    <3>1. \A c, d \in Nat : 1..c = 1..d => c <= d
      <4>1. \A c \in Nat : c \in 1..c \/ c = 0
        OBVIOUS
      <4> QED BY <4>1
    <3>2. a <= b /\ b <= a
      BY <2>3, <3>1
    <3> QED BY <3>2
  <2> DEFINE a == Len(games)
             b == Len(games')
  <2>4. a \in Nat /\ b \in Nat /\ 1..a = 1..b
    BY <2>1, <2>2
  <2> HIDE DEF a, b
  <2>5. a = b
    BY <2>3, <2>4
  <2> QED BY <2>5 DEF a, b
<1>3. ASSUME NEW i \in Attached'
      PROVE  /\ \A k \in {1, 2} : games'[i].sides[k] \in Teams(event'.lineup)
             /\ games'[i].round = 1 =>
                  /\ 2 * i <= Len(event'.lineup)
                  /\ games'[i].sides = <<event'.lineup[2 * i - 1], event'.lineup[2 * i]>>
  <2>1. i \in Attached /\ i \in DOMAIN games /\ event'.lineup = event.lineup
    BY <1>1 DEF Attached
  <2>2. games'[i].round = games[i].round /\ games'[i].sides = games[i].sides
    BY <2>1 DEF SameShape
  <2>3. InList(games[i].sides) /\ (games[i].round = 1 => InOrder(games[i].sides, i))
    BY <2>1 DEF GamesListed
  <2> QED BY <2>1, <2>2, <2>3 DEF InList, InOrder
<1>4. Attached' = DOMAIN games'
  BY <1>1 DEF GamesListed
<1> QED BY <1>2, <1>3, <1>4 DEF GamesListed, InList, InOrder

\* What a draw pairs is in the list; the first draw takes it from its head.
LEMMA DrawListed ==
  ASSUME games \in Seq(FairGames), NEW e \in Entered, NEW n
  PROVE  LET d == Draw(e, n) IN
         /\ DOMAIN d = 1..Len(d) /\ Len(d) \in Nat
         /\ \A k \in DOMAIN d, a \in {1, 2} : d[k][a] \in Teams(e.lineup)
         /\ n = 1 /\ Played(n) = {} =>
              \A k \in DOMAIN d :
                2 * k <= Len(e.lineup) /\ d[k] = <<e.lineup[2 * k - 1], e.lineup[2 * k]>>
<1> DEFINE d == Draw(e, n)
<1>1. e.lineup \in Seq(Rosters)
  BY EventRowFacts
<1>2. Drawn({}, Rosters, e.lineup, d)
  BY DrawFacts
<1>3. ASSUME n = 1, Played(n) = {}, NEW k \in 1..Len(d)
      PROVE  2 * k <= Len(e.lineup) /\ d[k] = <<e.lineup[2 * k - 1], e.lineup[2 * k]>>
  <2>1. d = Matchups(e.lineup, Played(n))
    BY <1>3 DEF Draw
  <2>2. \A a, b \in Rosters : ~Met(a, b, Played(n))
    BY <1>3 DEF Met
  <2> DEFINE lineup == e.lineup
             played == Played(n)
  <2>3. k \in 1..Len(Matchups(lineup, played))
    BY <1>3, <2>1
  <2>4. lineup \in Seq(Rosters) /\ \A a, b \in Rosters : ~Met(a, b, played)
    BY <1>1, <2>2
  <2> HIDE DEF d, lineup, played
  <2>5. 2 * k <= Len(lineup) /\ Matchups(lineup, played)[k] = <<lineup[2 * k - 1], lineup[2 * k]>>
    BY <2>3, <2>4, MatchupsFromHead
  <2> QED BY <2>1, <2>5 DEF lineup, played
<1> HIDE DEF d
<1>4. DOMAIN d = 1..Len(d) /\ Len(d) \in Nat
  <2>1. d \in Seq(Rosters \X Rosters)
    BY <1>2 DEF Drawn
  <2> QED BY <2>1, LenProperties
<1>5. \A k \in 1..Len(d), a \in {1, 2} : d[k][a] \in Teams(e.lineup)
  <2>1. \A i \in 1..Len(e.lineup) : e.lineup[i] \in Teams(e.lineup)
    BY <1>1, LenProperties DEF Teams, ToSet
  <2> QED BY <1>2, <2>1 DEF Drawn
<1> QED BY <1>3, <1>4, <1>5 DEF d

\* The first step of each operation: startRound plans games of the list.
LEMMA AskListed ==
  ASSUME EntriesInv, RowsInOrder, GamesListed, NEW p \in Requests, Ask(p)
  PROVE  GamesListed' /\ PlanListed(p)'
<1>0. event \in Entered /\ games \in Seq(FairGames) /\ event.round \in Nat /\ event.rounds \in Nat \ {0}
  BY EventRowFacts DEF EntriesInv
<1>1. event' = event /\ games' = games
  BY DEF Ask, Join, Leave, Update, Picture, Delete, StartRound, EndRound, Hold
<1>2. GamesListed'
  BY <1>1 DEF GamesListed, Attached, InList, InOrder
<1>3. CASE StartRound(p)
  <2> DEFINE n == event.round + 1
             sized == event.mode = "free_for_all" /\ n = 1
             e == IF sized THEN [event EXCEPT !.rounds = RoundRobinRounds(Len(event.lineup))]
                  ELSE event
             label == IF sized THEN "saveRounds" ELSE "saveRound"
             d == Draw(e, n)
  <2>1. Hold(p, label, e, d, {})
    BY <1>3 DEF StartRound
  <2>2. e \in Entered /\ e.round = event.round /\ e.lineup = event.lineup
    <3>1. Len(event.lineup) \in Nat
      BY <1>0, EventRowFacts, LenProperties
    <3>2. RoundRobinRounds(Len(event.lineup)) \in Nat \ {0}
      BY <3>1, RoundRobinCounts
    <3>3. [event EXCEPT !.rounds = RoundRobinRounds(Len(event.lineup))] \in Entered
      BY <1>0, <3>2, EventRowFacts
    <3> QED BY <1>0, <3>3 DEF Entered, EventRows
  <2>3. label \in {"saveRounds", "saveRound"}
    OBVIOUS
  <2> HIDE DEF label
  <2>4. n = 1 => Played(n) = {} /\ Len(games) = 0
    BY <1>0, NoGamesYet
  <2> HIDE DEF e
  <2>5. /\ \A k \in DOMAIN d : InList(d[k])
        /\ n = 1 => \A k \in DOMAIN d : InOrder(d[k], Len(games) + k)
    <3>1. /\ DOMAIN d = 1..Len(d) /\ Len(d) \in Nat
          /\ \A k \in DOMAIN d, a \in {1, 2} : d[k][a] \in Teams(e.lineup)
          /\ n = 1 /\ Played(n) = {} =>
               \A k \in DOMAIN d :
                 2 * k <= Len(e.lineup) /\ d[k] = <<e.lineup[2 * k - 1], e.lineup[2 * k]>>
      BY <1>0, <2>2, DrawListed
    <3> HIDE DEF d, n
    <3>2. n = 1 => \A k \in DOMAIN d : Len(games) + k = k
      BY <2>4, <3>1
    <3> QED BY <2>2, <2>4, <3>1, <3>2 DEF InList, InOrder
  <2> HIDE DEF d
  <2>6. /\ pc'[p] = label /\ local'[p].event = e /\ local'[p].todo = d
    BY <2>1, HoldIs
  <2>7. PlannedRound(p)' = n
    BY <2>2, <2>3, <2>6 DEF PlannedRound
  <2> QED BY <1>1, <1>2, <2>2, <2>5, <2>6, <2>7 DEF PlanListed, InList, InOrder
<1>4. CASE ~StartRound(p)
  <2>1. \E label \in {"save", "saveRow", "softDelete", "saveGames"} : \E e, rows :
          Hold(p, label, e, <<>>, rows)
    BY <1>4 DEF Ask, Join, Leave, Update, Picture, Delete, EndRound
  <2>2. pc'[p] \notin Planning
    BY <2>1, HoldIs DEF Planning
  <2> QED BY <1>2, <2>2 DEF PlanListed
<1> QED BY <1>3, <1>4

\* One game of the round is created, the others stay to be.
LEMMA CreateGameFacts ==
  ASSUME EntriesInv, NEW p \in Requests, CreateGame(p)
  PROVE  LET todo == local[p].todo
             m == Len(games) + 1
         IN /\ pc[p] = "createGame" /\ event' = event /\ 1 \in DOMAIN todo
            /\ m \notin DOMAIN games /\ DOMAIN games' = DOMAIN games \cup {m} /\ Len(games') = m
            /\ Attached' = Attached \cup {m}
            /\ \A i \in DOMAIN games : games'[i] = games[i]
            /\ games'[m].round = local[p].event.round /\ games'[m].sides = todo[1]
            /\ \/ pc'[p] = "idle"
               \/ /\ pc'[p] = "createGame" /\ local'[p].event = local[p].event
                  /\ \A k \in DOMAIN local'[p].todo :
                       k \in Nat /\ k + 1 \in DOMAIN todo /\ local'[p].todo[k] = todo[k + 1]
<1> DEFINE todo == local[p].todo
           m == Len(games) + 1
           g == NewGame(m, local[p].event.round, Head(todo))
<1>1. /\ pc[p] = "createGame" /\ games' = Append(games, g) /\ event' = event
      /\ IF Len(todo) > 1 THEN local' = [local EXCEPT ![p].todo = Tail(@)] /\ pc' = pc
                          ELSE Return(p)
  BY DEF CreateGame
<1>2. /\ todo \in Seq(FairPairs) /\ todo # <<>> /\ games \in Seq(FairGames) /\ local[p] \in Holdings
  BY <1>1 DEF EntriesInv, Planning, Holdings
<1>3. g.round = local[p].event.round /\ g.sides = Head(todo) /\ g.attached = TRUE
  BY DEF NewGame
<1>4. /\ Head(todo) = todo[1] /\ 1 \in DOMAIN todo
      /\ \A k \in DOMAIN Tail(todo) : k \in Nat /\ k + 1 \in DOMAIN todo /\ Tail(todo)[k] = todo[k + 1]
  <2> HIDE DEF todo
  <2>1. Head(todo) = todo[1] /\ Tail(todo) \in Seq(FairPairs) /\ Len(Tail(todo)) = Len(todo) - 1
        /\ \A k \in 1..Len(Tail(todo)) : Tail(todo)[k] = todo[k + 1]
    BY <1>2, HeadTailProperties
  <2>2. DOMAIN todo = 1..Len(todo) /\ Len(todo) \in Nat \ {0}
    BY <1>2, EmptySeq, LenProperties
  <2>3. DOMAIN Tail(todo) = 1..Len(Tail(todo))
    BY <2>1, LenProperties
  <2> QED BY <2>1, <2>2, <2>3
<1> HIDE DEF g
<1>5. /\ DOMAIN games = 1..Len(games) /\ Len(games) \in Nat /\ m \notin DOMAIN games
      /\ DOMAIN games' = DOMAIN games \cup {m} /\ Len(games') = m /\ games'[m] = g
      /\ \A i \in DOMAIN games : games'[i] = games[i]
  <2>1. DOMAIN games = 1..Len(games) /\ Len(games) \in Nat
    BY <1>2, LenProperties
  <2> QED BY <1>1, <1>2, <2>1
<1> HIDE DEF m
<1>6. Attached' = Attached \cup {m}
  BY <1>3, <1>5 DEF Attached
<1>7. CASE Return(p)
  <2>1. pc'[p] = "idle"
    BY <1>7, ReturnIsIdle
  <2> QED BY <1>1, <1>3, <1>4, <1>5, <1>6, <2>1 DEF m
<1>8. CASE local' = [local EXCEPT ![p].todo = Tail(@)] /\ pc' = pc
  <2>1. local'[p].event = local[p].event /\ local'[p].todo = Tail(todo) /\ pc'[p] = "createGame"
    BY <1>1, <1>2, <1>8 DEF EntriesInv, Holdings
  <2> HIDE DEF todo
  <2> QED BY <1>1, <1>3, <1>4, <1>5, <1>6, <2>1 DEF m, todo
<1> QED BY <1>1, <1>7, <1>8

\* So does every later step, and a failure.
LEMMA ProceedListed ==
  ASSUME EntriesInv, EntriesInv', RowsInOrder, GamesListed, NEW p \in Requests, InStep(p),
         PlanListed(p), Proceed(p) \/ Fail(p), ListStays
  PROVE  GamesListed' /\ PlanListed(p)'
<1>0. /\ event \in EventRows /\ event.round \in Nat /\ local[p] \in Holdings
      /\ pc[p] # "idle" => local[p].event \in EventRows /\ local[p].event.round \in Nat
  BY DEF EntriesInv, Entered, EventRows
<1>1. event'.lineup = event.lineup \/ Attached = {}
  BY <1>0, NoGamesYet DEF ListStays
<1>2. ASSUME Return(p), SameShape PROVE GamesListed' /\ PlanListed(p)'
  BY <1>1, <1>2, ReturnIsIdle, ShapeListed DEF PlanListed, Planning
<1>3. CASE EventSave(p)
  <2>1. pc[p] = "save" /\ Save(local[p].event, local[p].games) /\ Return(p)
    BY <1>3 DEF EventSave
  <2>2. SameShape
    BY <2>1, SaveKeepsShape DEF InStep
  <2> QED BY <1>2, <2>1, <2>2
<1>4. CASE RowSave(p)
  BY <1>2, <1>4 DEF RowSave, SameShape
<1>5. CASE SoftDelete(p)
  BY <1>2, <1>5 DEF SoftDelete, SameShape
<1>6. CASE SaveRounds(p)
  <2>1. pc[p] = "saveRounds" /\ Save(local[p].event, local[p].games)
        /\ (Goto(p, "saveRound") \/ Return(p))
    BY <1>6 DEF SaveRounds
  <2>2. SameShape /\ event' = local[p].event
    BY <2>1, SaveKeepsShape DEF InStep
  <2>3. CASE Goto(p, "saveRound")
    <3>1. pc'[p] = "saveRound" /\ local' = local
      BY <2>3 DEF Goto, EntriesInv
    <3>2. /\ local[p].event.lineup = event.lineup
          /\ \A k \in DOMAIN local[p].todo : InList(local[p].todo[k])
          /\ PlannedRound(p) = 1 => \A k \in DOMAIN local[p].todo :
                                      InOrder(local[p].todo[k], Len(games) + k)
      BY <2>1 DEF PlanListed, Planning
    <3>3. event'.lineup = event.lineup
      BY <2>2, <3>2
    <3>4. PlannedRound(p)' = PlannedRound(p)
      BY <2>1, <3>1 DEF PlannedRound
    <3>5. GamesListed' /\ Len(games') = Len(games)
      BY <2>2, <3>3, ShapeListed
    <3>6. PlanListed(p)'
      BY <3>1, <3>2, <3>3, <3>4, <3>5 DEF PlanListed, InList, InOrder
    <3> QED BY <3>5, <3>6
  <2> QED BY <1>2, <2>1, <2>2, <2>3
<1>7. CASE SaveRound(p)
  <2> DEFINE e == [local[p].event EXCEPT !.round = @ + 1]
             todo == local[p].todo
  <2>1. /\ pc[p] = "saveRound" /\ Save(e, local[p].games)
        /\ local' = [local EXCEPT ![p].event.round = @ + 1]
        /\ pc' = [pc EXCEPT ![p] = "createGame"]
    BY <1>7 DEF SaveRound
  <2>2. e.round = local[p].event.round + 1 /\ e.lineup = local[p].event.lineup
    BY <1>0, <2>1 DEF EventRows
  <2>3. local'[p].event = e /\ local'[p].todo = todo /\ pc'[p] = "createGame"
    BY <1>0, <2>1 DEF EntriesInv, Holdings
  <2> HIDE DEF e
  <2>4. SameShape /\ event' = e
    BY <2>1, SaveKeepsShape DEF InStep
  <2>5. /\ local[p].event.lineup = event.lineup
        /\ \A k \in DOMAIN todo : InList(todo[k])
        /\ PlannedRound(p) = 1 => \A k \in DOMAIN todo : InOrder(todo[k], Len(games) + k)
    BY <2>1 DEF PlanListed, Planning
  <2> HIDE DEF todo
  <2>6. event'.lineup = event.lineup
    BY <2>2, <2>4, <2>5
  <2>7. PlannedRound(p)' = PlannedRound(p)
    BY <2>1, <2>2, <2>3 DEF PlannedRound
  <2>8. GamesListed' /\ Len(games') = Len(games)
    BY <2>4, <2>6, ShapeListed
  <2>9. PlanListed(p)'
    BY <2>2, <2>3, <2>5, <2>6, <2>7, <2>8 DEF PlanListed, InList, InOrder
  <2> QED BY <2>8, <2>9
<1>8. CASE CreateGame(p)
  <2> DEFINE todo == local[p].todo
             m == Len(games) + 1
  <2>1. /\ pc[p] = "createGame" /\ event' = event /\ 1 \in DOMAIN todo
        /\ m \notin DOMAIN games /\ DOMAIN games' = DOMAIN games \cup {m} /\ Len(games') = m
        /\ Attached' = Attached \cup {m}
        /\ \A i \in DOMAIN games : games'[i] = games[i]
        /\ games'[m].round = local[p].event.round /\ games'[m].sides = todo[1]
        /\ \/ pc'[p] = "idle"
           \/ /\ pc'[p] = "createGame" /\ local'[p].event = local[p].event
              /\ \A k \in DOMAIN local'[p].todo :
                   k \in Nat /\ k + 1 \in DOMAIN todo /\ local'[p].todo[k] = todo[k + 1]
    BY <1>8, CreateGameFacts
  <2>2. /\ local[p].event.lineup = event.lineup
        /\ \A k \in DOMAIN todo : InList(todo[k])
        /\ local[p].event.round = 1 => \A k \in DOMAIN todo : InOrder(todo[k], Len(games) + k)
    BY <2>1 DEF PlanListed, Planning, PlannedRound
  <2>3. Len(games) \in Nat
    BY LenProperties DEF EntriesInv
  <2> HIDE DEF todo
  <2>4. ASSUME NEW i \in Attached'
        PROVE  InList(games'[i].sides) /\ (games'[i].round = 1 => InOrder(games'[i].sides, i))
    <3>1. CASE i = m
      BY <2>1, <2>2, <3>1
    <3>2. CASE i # m
      <4>1. i \in Attached /\ i \in DOMAIN games
        BY <2>1, <2>4, <3>2 DEF Attached
      <4> QED BY <2>1, <4>1 DEF GamesListed
    <3> QED BY <3>1, <3>2
  <2>5. GamesListed'
    <3>1. Attached' = DOMAIN games'
      BY <2>1 DEF GamesListed
    <3> QED BY <2>1, <2>4, <3>1 DEF GamesListed, InList, InOrder
  <2>6. CASE pc'[p] = "idle"
    BY <2>5, <2>6 DEF PlanListed, Planning
  <2>7. CASE pc'[p] # "idle"
    <3> DEFINE tail == local'[p].todo
    <3>1. /\ pc'[p] = "createGame" /\ local'[p].event = local[p].event
          /\ \A k \in DOMAIN tail : k \in Nat /\ k + 1 \in DOMAIN todo /\ tail[k] = todo[k + 1]
      BY <2>1, <2>7
    <3> HIDE DEF tail
    <3>2. \A k \in DOMAIN tail : Len(games) + (k + 1) = m + k
      BY <2>3, <3>1
    <3> HIDE DEF m
    <3>3. ASSUME NEW k \in DOMAIN tail
          PROVE  InList(tail[k]) /\ (local[p].event.round = 1 => InOrder(tail[k], m + k))
      <4>1. k + 1 \in DOMAIN todo /\ tail[k] = todo[k + 1] /\ Len(games) + (k + 1) = m + k
        BY <3>1, <3>2
      <4> QED BY <2>2, <4>1
    <3>4. PlanListed(p)'
      BY <2>1, <2>2, <3>1, <3>3 DEF PlanListed, PlannedRound, InList, InOrder, tail
    <3> QED BY <2>5, <3>4
  <2> QED BY <2>6, <2>7
<1>9. CASE SaveGames(p)
  BY <1>2, <1>9, SaveGamesShape
<1>10. CASE Fail(p)
  BY <1>2, <1>10 DEF Fail, SameShape
<1> QED BY <1>3, <1>4, <1>5, <1>6, <1>7, <1>8, <1>9, <1>10 DEF Proceed

\* With one call at a time and the list closed, every step keeps the games listed.
LEMMA ListStep ==
  ASSUME OneCall, EntriesInv, EntriesInv', AloneInv, ListInv, [Next]_vars, [ListStays]_vars
  PROVE  ListInv'
<1>0. GamesListed /\ RowsInOrder /\ \A p \in Requests : InStep(p) /\ PlanListed(p)
  BY DEF AloneInv, ListInv
<1>1. ASSUME NEW p \in Requests, Ask(p) \/ Proceed(p) \/ Fail(p), ListStays PROVE ListInv'
  <2>1. GamesListed' /\ PlanListed(p)'
    BY <1>0, <1>1, AskListed, ProceedListed
  <2>2. \A q \in Requests : q = p
    BY DEF OneCall
  <2>3. ASSUME NEW q \in Requests PROVE PlanListed(q)'
    <3>1. q = p
      BY <2>2
    <3> QED BY <2>1, <3>1
  <2> QED BY <2>1, <2>3 DEF ListInv
<1>2. CASE Play \/ Tick \/ UNCHANGED vars
  <2>1. SameShape /\ event' = event /\ pc' = pc /\ local' = local
    <3>1. CASE Play
      BY <3>1, PlayShape
    <3>2. CASE Tick
      BY <3>2 DEF Tick, SameShape
    <3>3. CASE UNCHANGED vars
      BY <3>3 DEF vars, SameShape
    <3> QED BY <1>2, <3>1, <3>2, <3>3
  <2>2. GamesListed' /\ Len(games') = Len(games)
    BY <1>0, <2>1, ShapeListed
  <2>3. ASSUME NEW q \in Requests PROVE PlanListed(q)'
    <3>1. PlanListed(q)
      BY <1>0
    <3> QED BY <2>1, <2>2, <3>1 DEF PlanListed, PlannedRound, InList, InOrder
  <2> QED BY <2>2, <2>3 DEF ListInv
<1>3. CASE ListStays /\ \E p \in Requests : Ask(p) \/ Proceed(p) \/ Fail(p)
  BY <1>1, <1>3
<1>4. CASE ~ListStays
  <2>1. UNCHANGED vars
    BY <1>4
  <2> QED BY <1>2, <2>1
<1> QED BY <1>2, <1>3, <1>4 DEF Next

\* An event that has just been created satisfies it.
LEMMA ListStart == ASSUME Init PROVE ListInv
<1>1. games = <<>> /\ Attached = {} /\ DOMAIN games = {}
  <2>1. games = <<>> /\ DOMAIN games = {}
    BY DEF Init
  <2> QED BY <2>1 DEF Attached
<1>2. \A p \in Requests : pc[p] = "idle"
  BY DEF Init
<1> QED BY <1>1, <1>2 DEF ListInv, GamesListed, PlanListed, Planning

\* The totals of a ranking agree in every state of the invariants.
LEMMA RankingsAddUp == ASSUME EntriesInv, AloneInv, ListInv PROVE RankingAddsUp
<1>1. FitLineup(event.lineup) /\ RowsInOrder /\ GamesListed
  BY EventRowFacts DEF EntriesInv, AloneInv, ListInv
<1>2. ASSUME NEW n \in AllRounds..event.round
      PROVE  LET table == Ranking(n)
                 drawn == IF Asked(n) = AllRounds THEN event.round ELSE n
             IN /\ Total(table, "wins") = Total(table, "losses")
                /\ Total(table, "pointsFor") = Total(table, "pointsAgainst")
                /\ \A r \in DOMAIN table :
                     table[r].stats.wins + table[r].stats.draws + table[r].stats.losses <= drawn
  <2> DEFINE results == ResultsUpTo(Asked(n))
             N == Len(event.lineup)
             drawn == IF Asked(n) = AllRounds THEN event.round ELSE n
             table == Ranking(n)
  <2>1. Countable(results)
    BY <1>1, ResultsAreCountable
  <2>2. /\ Total(Ranking(n), "wins") = Total(Ranking(n), "losses")
        /\ Total(Ranking(n), "pointsFor") = Total(Ranking(n), "pointsAgainst")
    BY <1>1, <2>1, TotalsBalance
  <2>3. PICK perm : /\ Permutes(perm, N)
                    /\ \A r \in 1..N : table[r] = RankingEntry(perm[r], results)
    BY <1>1, <2>1, RankingFacts
  <2>4. DOMAIN table = 1..N
    BY <1>1, <2>1, RankingFacts
  <2>5. ASSUME NEW r \in 1..N
        PROVE  table[r].stats.wins + table[r].stats.draws + table[r].stats.losses <= drawn
    <3>1. perm[r] \in 1..N
      BY <2>3 DEF Permutes
    <3>2. table[r].stats = UserStats(Member(perm[r]), results)
      <4>1. RankingEntry(perm[r], results).stats = UserStats(Member(perm[r]), results)
        <5> HIDE DEF results
        <5> QED BY <1>1, <2>1, <3>1, EntryFacts
      <4> QED BY <2>3, <4>1
    <3> DEFINE stats == UserStats(Member(perm[r]), results)
    <3>3. stats.wins + stats.draws + stats.losses <= drawn
      BY <1>1, <3>1, GamesWithinRounds
    <3> HIDE DEF results, table, drawn
    <3> QED BY <3>2, <3>3
  <2> HIDE DEF table, drawn
  <2> QED BY <2>2, <2>4, <2>5 DEF table, drawn
<1> QED BY <1>2 DEF RankingAddsUp

\* A ranking adds up, whatever it is asked for, as long as calls come one after the other
\* and no team leaves once a round has been announced.
THEOREM RankingAddsUpAlone ==
  ASSUME OneCall
  PROVE  Spec /\ [][ListStays]_vars => []RankingAddsUp
<1> DEFINE Inv == EntriesInv /\ AloneInv /\ ListInv
<1>1. Init => Inv
  BY EntriesStart, AloneStart, ListStart
<1>2. Inv /\ [Next]_vars /\ [ListStays]_vars => Inv'
  BY EntriesStep, AloneStep, ListStep
<1>3. Inv => RankingAddsUp
  BY RankingsAddUp
<1> HIDE DEF Inv
<1> QED BY <1>1, <1>2, <1>3, PTL DEF Spec

-----------------------------------------------------------------------------
(* A free-for-all of up to four teams.                                     *)

\* Once a round has been announced, the event's list, mode and rounds stay.
EventStays ==
  event.round > 0 =>
    event'.lineup = event.lineup /\ event'.mode = event.mode /\ event'.rounds = event.rounds

\* A free-for-all has as many rounds as its round robin takes, and the head of a list
\* of four plays in each of them.
RobinListed ==
  event.mode = "free_for_all" =>
    /\ event.round > 0 => event.rounds = RoundRobinRounds(Len(event.lineup))
    /\ Len(event.lineup) = 4 =>
         \A i \in Attached : games[i].round <= 3 =>
           \E j \in Attached : /\ games[j].round = games[i].round
                               /\ games[j].sides[1] = event.lineup[1]

\* A request that creates a round of a free-for-all holds what the method drew from the
\* games of the rows: in each round of four teams the head of the list plays.
PlanRobin(p) ==
  LET e == local[p].event
      n == PlannedRound(p)
  IN pc[p] \in Planning =>
       /\ e.mode = event.mode
       /\ pc[p] = "saveRounds" => e.round = 0
       /\ e.mode = "free_for_all" =>
            /\ pc[p] # "createGame" /\ n = 1 => e.rounds = RoundRobinRounds(Len(event.lineup))
            /\ Len(event.lineup) = 4 /\ n \in 1..3 /\ InRound(n) = {} =>
                 local[p].todo[1][1] = event.lineup[1]

\* What is added to the invariant when the event stays as it is.
RobinInv == RobinListed /\ \A p \in Requests : PlanRobin(p)

\* The sides of a game have players.
LEMMA TeamsArePeopled ==
  ASSUME EntriesInv, NEW team \in Teams(event.lineup)
  PROVE  team # {}
<1>1. FitLineup(event.lineup)
  BY EventRowFacts DEF EntriesInv
<1>2. PICK i \in 1..Len(event.lineup) : team = event.lineup[i]
  BY <1>1, LineupFacts DEF Teams, ToSet
<1> QED BY <1>1, <1>2, LineupFacts

\* Two games of a team are of different rounds.
LEMMA GamesOfTeam ==
  ASSUME EntriesInv, RowsInOrder, NEW a \in Teams(event.lineup), NEW i \in Attached, NEW j \in Attached,
         i # j, a \in {games[i].sides[1], games[i].sides[2]}, a \in {games[j].sides[1], games[j].sides[2]}
  PROVE  games[i].round # games[j].round
<1>1. SUFFICES ASSUME games[i].round = games[j].round PROVE FALSE
  OBVIOUS
<1>2. PICK x \in 1..2, y \in 1..2 : games[i].sides[x] = a /\ games[j].sides[y] = a
  <2>1. 1 \in 1..2 /\ 2 \in 1..2
    OBVIOUS
  <2> QED BY <2>1
<1>3. games[i].sides[x] \cap games[j].sides[y] = {}
  BY <1>1 DEF RowsInOrder, OncePerRound
<1> QED BY <1>2, <1>3, TeamsArePeopled

\* Game i is one of teams a and b in a round before the n-th.
Meeting(i, a, b, n) ==
  /\ i \in Attached /\ {games[i].sides[1], games[i].sides[2]} = {a, b}
  /\ games[i].round \in Nat \ {0} /\ games[i].round < n

\* Opponents met before a round have met in a game of an earlier one.
LEMMA MetWhen ==
  ASSUME EntriesInv, NEW n
  PROVE  \A a, b : Met(a, b, Played(n)) => \E i : Meeting(i, a, b, n)
<1>1. SUFFICES ASSUME NEW a, NEW b, Met(a, b, Played(n)) PROVE \E i : Meeting(i, a, b, n)
  OBVIOUS
<1>2. PICK i \in Attached : games[i].round < n /\ {games[i].sides[1], games[i].sides[2]} = {a, b}
  BY <1>1 DEF Met, Played
<1>3. games[i].round \in Nat \ {0}
  <2>1. games[i] \in FairGames
    BY AttachedIsNat DEF EntriesInv
  <2> QED BY <2>1, GameRowFacts
<1> QED BY <1>2, <1>3 DEF Meeting

\* A team meets two opponents in games of two rounds, whichever side it plays on.
LEMMA TwoMeetings ==
  ASSUME EntriesInv, RowsInOrder, NEW n
  PROVE  /\ \A a \in Teams(event.lineup) : \A b, c, i, j :
              b # c /\ Meeting(i, a, b, n) /\ Meeting(j, a, c, n) => games[i].round # games[j].round
         /\ \A a, b, i : Meeting(i, a, b, n) => Meeting(i, b, a, n)
<1>1. ASSUME NEW a \in Teams(event.lineup), NEW b, NEW c, NEW i, NEW j, b # c,
             Meeting(i, a, b, n), Meeting(j, a, c, n)
      PROVE  games[i].round # games[j].round
  <2>1. /\ i \in Attached /\ {games[i].sides[1], games[i].sides[2]} = {a, b}
        /\ j \in Attached /\ {games[j].sides[1], games[j].sides[2]} = {a, c}
    BY <1>1 DEF Meeting
  <2>2. i # j
    <3>1. SUFFICES ASSUME {a, b} = {a, c} PROVE FALSE
      BY <2>1
    <3> QED BY <1>1, <3>1
  <2>3. a \in {games[i].sides[1], games[i].sides[2]} /\ a \in {games[j].sides[1], games[j].sides[2]}
    BY <2>1
  <2> QED BY <2>1, <2>2, <2>3, GamesOfTeam
<1>2. ASSUME NEW a, NEW b, NEW i, Meeting(i, a, b, n) PROVE Meeting(i, b, a, n)
  <2>1. {a, b} = {b, a}
    OBVIOUS
  <2> QED BY <1>2, <2>1 DEF Meeting
<1> QED BY <1>1, <1>2

\* The entries of the list differ.
LEMMA EntriesDiffer ==
  ASSUME EntriesInv
  PROVE  /\ event.lineup \in Seq(Rosters) /\ Len(event.lineup) \in Nat
         /\ \A i \in 1..Len(event.lineup) : event.lineup[i] \in Teams(event.lineup)
         /\ \A i, j \in 1..Len(event.lineup) : i # j => event.lineup[i] # event.lineup[j]
         /\ \A team \in Teams(event.lineup) : \E i \in 1..Len(event.lineup) : team = event.lineup[i]
<1>1. FitLineup(event.lineup)
  BY EventRowFacts DEF EntriesInv
<1>2. event.lineup \in Seq(Rosters) /\ Len(event.lineup) \in Nat
      /\ DOMAIN event.lineup = 1..Len(event.lineup)
  BY <1>1, LineupFacts DEF FitLineup
<1>3. \A i, j \in 1..Len(event.lineup) : i # j => event.lineup[i] # event.lineup[j]
  BY <1>1, LineupFacts
<1>4. \A i \in 1..Len(event.lineup) : event.lineup[i] \in Teams(event.lineup)
  BY <1>2 DEF Teams, ToSet
<1>5. \A team \in Teams(event.lineup) : \E i \in 1..Len(event.lineup) : team = event.lineup[i]
  BY <1>2 DEF Teams, ToSet
<1> QED BY <1>2, <1>3, <1>4, <1>5

\* In two rounds the head of a list of four has not met all the others.
LEMMA HeadHasOpponent ==
  ASSUME EntriesInv, RowsInOrder, Len(event.lineup) = 4, NEW n \in 1..3
  PROVE  \E x \in 2..4 : ~Met(event.lineup[1], event.lineup[x], Played(n))
<1> DEFINE t == event.lineup
<1>1. SUFFICES ASSUME \A x \in 2..4 : Met(t[1], t[x], Played(n)) PROVE FALSE
  OBVIOUS
<1>2. /\ t[1] \in Teams(event.lineup) /\ t[2] # t[3] /\ t[2] # t[4] /\ t[3] # t[4]
  BY EntriesDiffer
<1>3. \E i : Meeting(i, t[1], t[2], n)
  BY <1>1, MetWhen
<1>4. \E i : Meeting(i, t[1], t[3], n)
  BY <1>1, MetWhen
<1>5. \E i : Meeting(i, t[1], t[4], n)
  BY <1>1, MetWhen
<1> HIDE DEF t
<1>6. PICK i, j, k : Meeting(i, t[1], t[2], n) /\ Meeting(j, t[1], t[3], n) /\ Meeting(k, t[1], t[4], n)
  BY <1>3, <1>4, <1>5
<1>7. games[i].round # games[j].round
  BY <1>2, <1>6, TwoMeetings
<1>8. games[i].round # games[k].round
  BY <1>2, <1>6, TwoMeetings
<1>9. games[j].round # games[k].round
  BY <1>2, <1>6, TwoMeetings
<1>10. /\ games[i].round \in Nat \ {0} /\ games[i].round < n
       /\ games[j].round \in Nat \ {0} /\ games[j].round < n
       /\ games[k].round \in Nat \ {0} /\ games[k].round < n
  BY <1>6 DEF Meeting
<1> QED BY <1>7, <1>8, <1>9, <1>10

\* The first pair drawn of four in a free-for-all has the head of the list for its home
\* side, against an opponent it has not met.
LEMMA HeadIsDrawn ==
  ASSUME EntriesInv, RowsInOrder, Len(event.lineup) = 4, NEW n \in 1..3
  PROVE  \E x \in 2..4 :
           /\ Matchups(event.lineup, Played(n))[1] = <<event.lineup[1], event.lineup[x]>>
           /\ ~Met(event.lineup[1], event.lineup[x], Played(n))
<1> DEFINE t == event.lineup
           played == Played(n)
<1>1. t \in Seq(Rosters)
  BY EntriesDiffer
<1>2. PICK y \in 2..4 : ~Met(t[1], t[y], played)
  BY HeadHasOpponent
<1>3. Len(t) = 4
  OBVIOUS
<1> HIDE DEF t, played
<1>4. PICK c \in Positions(t) :
           /\ Matchups(t, played)[1] = PairAt(t, c)
           /\ Met(t[c[1]], t[c[2]], played) => \A e \in Positions(t) : Met(t[e[1]], t[e[2]], played)
           /\ (\E i \in 2..Len(t) : ~Met(t[1], t[i], played)) => c[1] = 1
  BY <1>1, <1>3, FirstMatchup
<1>5. c[1] = 1 /\ c[2] \in 2..4
  BY <1>2, <1>3, <1>4 DEF Positions
<1>6. ~Met(t[c[1]], t[c[2]], played)
  <2>1. <<1, y>> \in Positions(t) /\ <<1, y>>[1] = 1 /\ <<1, y>>[2] = y
    BY <1>3 DEF Positions
  <2> QED BY <1>2, <1>4, <2>1
<1> QED BY <1>4, <1>5, <1>6 DEF PairAt, t, played

\* Steps that leave the games' shape alone.
LEMMA ShapeRobin ==
  ASSUME RobinListed, SameShape,
         (event'.mode = event.mode /\ event'.lineup = event.lineup) \/ Attached = {},
         event'.mode = "free_for_all" /\ event'.round > 0 =>
           event'.rounds = RoundRobinRounds(Len(event'.lineup))
  PROVE  RobinListed'
<1>1. Attached' = Attached
  BY ShapeShows
<1>2. \A i \in Attached : games'[i].round = games[i].round /\ games'[i].sides = games[i].sides
  BY DEF SameShape, Attached
<1>3. ASSUME event'.mode = "free_for_all", Len(event'.lineup) = 4, NEW i \in Attached', games'[i].round <= 3
      PROVE  \E j \in Attached' : /\ games'[j].round = games'[i].round
                                  /\ games'[j].sides[1] = event'.lineup[1]
  <2>1. event.mode = "free_for_all" /\ Len(event.lineup) = 4 /\ event'.lineup = event.lineup
    BY <1>1, <1>3
  <2>2. i \in Attached /\ games[i].round <= 3
    BY <1>1, <1>2, <1>3
  <2>3. PICK j \in Attached : games[j].round = games[i].round /\ games[j].sides[1] = event.lineup[1]
    BY <2>1, <2>2 DEF RobinListed
  <2> QED BY <1>1, <1>2, <2>1, <2>2, <2>3
<1> QED BY <1>3 DEF RobinListed

\* What a request plans when it is called agrees with the rows.
LEMMA AskRobin ==
  ASSUME EntriesInv, RowsInOrder, GamesListed, RobinListed, NEW p \in Requests, Ask(p)
  PROVE  RobinListed' /\ PlanRobin(p)'
<1>0. event \in Entered /\ games \in Seq(FairGames) /\ event.round \in Nat /\ event \in EventRows
  BY EventRowFacts DEF EntriesInv
<1>1. event' = event /\ games' = games
  BY DEF Ask, Join, Leave, Update, Picture, Delete, StartRound, EndRound, Hold
<1>2. RobinListed'
  BY <1>1 DEF RobinListed, Attached
<1>3. CASE StartRound(p)
  <2> DEFINE n == event.round + 1
             sized == event.mode = "free_for_all" /\ n = 1
             e == IF sized THEN [event EXCEPT !.rounds = RoundRobinRounds(Len(event.lineup))]
                  ELSE event
             label == IF sized THEN "saveRounds" ELSE "saveRound"
             d == Draw(e, n)
  <2>1. Hold(p, label, e, d, {})
    BY <1>3 DEF StartRound
  <2>2. /\ e.round = event.round /\ e.lineup = event.lineup /\ e.mode = event.mode
        /\ sized => e.rounds = RoundRobinRounds(Len(event.lineup))
    BY <1>0 DEF EventRows
  <2>3. label \in {"saveRounds", "saveRound"} /\ (label = "saveRounds" => n = 1)
    OBVIOUS
  <2>4. e.mode = "free_for_all" /\ n = 1 => e.rounds = RoundRobinRounds(Len(event.lineup))
    BY <2>2
  <2>5. e.mode = "free_for_all" /\ Len(event.lineup) = 4 /\ n \in 1..3 => d[1][1] = event.lineup[1]
    <3>1. SUFFICES ASSUME e.mode = "free_for_all", Len(event.lineup) = 4, n \in 1..3
                   PROVE  d[1][1] = event.lineup[1]
      OBVIOUS
    <3> HIDE DEF e, n
    <3>2. d = Matchups(event.lineup, Played(n))
      BY <2>2, <3>1 DEF Draw
    <3>3. PICK x : Matchups(event.lineup, Played(n))[1] = <<event.lineup[1], event.lineup[x]>>
      BY <3>1, HeadIsDrawn DEF AloneInv
    <3> QED BY <3>2, <3>3
  <2> HIDE DEF label, e, d
  <2>6. pc'[p] = label /\ local'[p].event = e /\ local'[p].todo = d
    BY <2>1, HoldIs
  <2>7. PlannedRound(p)' = n
    BY <2>2, <2>3, <2>6 DEF PlannedRound
  <2>8. label = "saveRounds" => e.round = 0
    BY <1>0, <2>2, <2>3
  <2> HIDE DEF n
  <2> QED BY <1>1, <1>2, <2>2, <2>3, <2>4, <2>5, <2>6, <2>7, <2>8 DEF PlanRobin
<1>4. CASE ~StartRound(p)
  <2>1. \E label \in {"save", "saveRow", "softDelete", "saveGames"} : \E e, rows :
          Hold(p, label, e, <<>>, rows)
    BY <1>4 DEF Ask, Join, Leave, Update, Picture, Delete, EndRound
  <2>2. pc'[p] \notin Planning
    BY <2>1, HoldIs DEF Planning
  <2> QED BY <1>2, <2>2 DEF PlanRobin
<1> QED BY <1>3, <1>4

\* A request that goes on creates the games it planned, or plans the next round.
LEMMA ProceedRobin ==
  ASSUME EntriesInv, RowsInOrder, GamesListed, NEW p \in Requests, InStep(p), PlanListed(p),
         RobinListed, PlanRobin(p), Proceed(p) \/ Fail(p), EventStays
  PROVE  RobinListed' /\ PlanRobin(p)'
<1>0. /\ event \in EventRows /\ event.round \in Nat /\ local[p] \in Holdings
      /\ pc[p] # "idle" => local[p].event \in EventRows /\ local[p].event.round \in Nat
  BY DEF EntriesInv, Entered, EventRows
<1>1. ASSUME event.round = 0 PROVE Attached = {}
  BY <1>1, NoGamesYet
<1>2. ASSUME Return(p), SameShape, event'.round = event.round PROVE RobinListed' /\ PlanRobin(p)'
  <2>1. RobinListed'
    <3>1. CASE event.round = 0
      BY <1>0, <1>1, <1>2, <3>1, ShapeRobin
    <3>2. CASE event.round > 0
      <4>1. event'.mode = event.mode /\ event'.lineup = event.lineup /\ event'.rounds = event.rounds
        BY <3>2 DEF EventStays
      <4> QED BY <1>2, <3>2, <4>1, ShapeRobin DEF RobinListed
    <3> QED BY <1>0, <3>1, <3>2
  <2> QED BY <1>2, <2>1, ReturnIsIdle DEF PlanRobin, Planning
<1>3. CASE EventSave(p)
  <2>1. pc[p] = "save" /\ Save(local[p].event, local[p].games) /\ Return(p)
    BY <1>3 DEF EventSave
  <2>2. SameShape /\ event' = local[p].event /\ local[p].event.round = event.round
    BY <2>1, SaveKeepsShape DEF InStep
  <2> QED BY <1>2, <2>1, <2>2
<1>4. CASE RowSave(p)
  <2>1. Return(p) /\ SameShape /\ event'.round = event.round
    BY <1>4 DEF RowSave, SameShape, InStep
  <2> QED BY <1>2, <2>1
<1>5. CASE SoftDelete(p)
  <2>1. Return(p) /\ SameShape /\ event' = [event EXCEPT !.deleted = TRUE]
    BY <1>5 DEF SoftDelete, SameShape
  <2>2. event'.round = event.round
    BY <1>0, <2>1 DEF EventRows
  <2> QED BY <1>2, <2>1, <2>2
<1>6. CASE SaveRounds(p)
  <2>1. pc[p] = "saveRounds" /\ Save(local[p].event, local[p].games)
        /\ (Goto(p, "saveRound") \/ Return(p))
    BY <1>6 DEF SaveRounds
  <2>2. SameShape /\ event' = local[p].event /\ local[p].event.round = event.round
    BY <2>1, SaveKeepsShape DEF InStep
  <2>3. CASE Goto(p, "saveRound")
    <3>1. pc'[p] = "saveRound" /\ local' = local
      BY <2>3 DEF Goto, EntriesInv
    <3>2. /\ local[p].event.mode = event.mode /\ event.round = 0
          /\ local[p].event.lineup = event.lineup
      BY <2>1, <2>2 DEF PlanRobin, PlanListed, Planning
    <3>3. PlannedRound(p)' = PlannedRound(p)
      BY <2>1, <3>1 DEF PlannedRound
    <3>4. RobinListed'
      BY <1>1, <2>2, <3>2, ShapeRobin
    <3>5. \A n : InRound(n)' = InRound(n)
      BY <2>2, ShapeShows
    <3>6. PlanRobin(p)'
      BY <2>1, <2>2, <3>1, <3>2, <3>3, <3>5 DEF PlanRobin, Planning
    <3> QED BY <3>4, <3>6
  <2> QED BY <1>2, <2>1, <2>2, <2>3
<1>7. CASE SaveRound(p)
  <2> DEFINE e == [local[p].event EXCEPT !.round = @ + 1]
             n == PlannedRound(p)
  <2>1. /\ pc[p] = "saveRound" /\ Save(e, local[p].games)
        /\ local' = [local EXCEPT ![p].event.round = @ + 1]
        /\ pc' = [pc EXCEPT ![p] = "createGame"]
    BY <1>7 DEF SaveRound
  <2>2. /\ e.round = local[p].event.round + 1 /\ e.lineup = local[p].event.lineup
        /\ e.mode = local[p].event.mode /\ e.rounds = local[p].event.rounds
    BY <1>0, <2>1 DEF EventRows
  <2>3. local'[p].event = e /\ local'[p].todo = local[p].todo /\ pc'[p] = "createGame"
    BY <1>0, <2>1 DEF EntriesInv, Holdings
  <2> HIDE DEF e
  <2>4. SameShape /\ event' = e
    BY <2>1, SaveKeepsShape DEF InStep
  <2>5. /\ local[p].event.round = event.round /\ local[p].event.rounds = event.rounds
        /\ n = event.round + 1 /\ local[p].event.lineup = event.lineup
        /\ local[p].event.mode = event.mode
    BY <2>1 DEF InStep, PlannedRound, PlanListed, PlanRobin, Planning
  <2>6. event'.mode = "free_for_all" => event'.rounds = RoundRobinRounds(Len(event'.lineup))
    <3>1. SUFFICES ASSUME event.mode = "free_for_all"
                   PROVE  event.rounds = RoundRobinRounds(Len(event.lineup))
      BY <2>2, <2>4, <2>5
    <3>2. CASE event.round = 0
      <4>1. n = 1
        BY <2>5, <3>2
      <4> HIDE DEF n
      <4> QED BY <2>1, <2>5, <3>1, <4>1 DEF PlanRobin, Planning, n
    <3>3. CASE event.round > 0
      BY <3>1, <3>3 DEF RobinListed
    <3> QED BY <1>0, <3>2, <3>3
  <2>7. RobinListed'
    BY <2>2, <2>4, <2>5, <2>6, ShapeRobin
  <2>8. \A k : InRound(k)' = InRound(k)
    BY <2>4, ShapeShows
  <2>9. PlannedRound(p)' = n
    BY <2>1, <2>2, <2>3 DEF PlannedRound
  <2>10. /\ e.mode = "free_for_all" /\ Len(event.lineup) = 4 /\ n \in 1..3 /\ InRound(n) = {} =>
              local[p].todo[1][1] = event.lineup[1]
    BY <2>1, <2>2, <2>5 DEF PlanRobin, Planning
  <2> HIDE DEF n
  <2>11. PlanRobin(p)'
    BY <2>2, <2>3, <2>4, <2>5, <2>8, <2>9, <2>10 DEF PlanRobin
  <2> QED BY <2>7, <2>11
<1>8. CASE CreateGame(p)
  <2> DEFINE m == Len(games) + 1
             n == local[p].event.round
  <2>1. /\ pc[p] = "createGame" /\ event' = event
        /\ m \notin DOMAIN games
        /\ Attached' = Attached \cup {m}
        /\ \A i \in DOMAIN games : games'[i] = games[i]
        /\ games'[m].round = n /\ games'[m].sides = local[p].todo[1]
        /\ pc'[p] = "idle" \/ (pc'[p] = "createGame" /\ local'[p].event = local[p].event)
    BY <1>8, CreateGameFacts
  <2>2. local[p].event.mode = event.mode /\ n \in Nat \ {0}
    BY <1>0, <2>1 DEF PlanRobin, Planning, EntriesInv
  <2>3. event.mode = "free_for_all" /\ Len(event.lineup) = 4 /\ n \in 1..3 /\ InRound(n) = {} =>
          local[p].todo[1][1] = event.lineup[1]
    BY <2>1, <2>2 DEF PlanRobin, Planning, PlannedRound
  <2>a. \A i \in Attached : i \in DOMAIN games /\ i # m
    BY <2>1 DEF Attached
  <2> HIDE DEF m, n
  <2>4. ASSUME event.mode = "free_for_all", Len(event.lineup) = 4, NEW i \in Attached', games'[i].round <= 3
        PROVE  \E j \in Attached' : /\ games'[j].round = games'[i].round
                                    /\ games'[j].sides[1] = event.lineup[1]
    <3>1. ASSUME NEW k \in Attached, games[k].round = games'[i].round
          PROVE  \E j \in Attached' : /\ games'[j].round = games'[i].round
                                      /\ games'[j].sides[1] = event.lineup[1]
      <4>1. PICK j \in Attached : games[j].round = games[k].round /\ games[j].sides[1] = event.lineup[1]
        BY <2>4, <3>1 DEF RobinListed
      <4>2. j \in Attached' /\ games'[j] = games[j]
        BY <2>1, <2>a
      <4> QED BY <3>1, <4>1, <4>2
    <3>2. CASE i # m
      <4>1. i \in Attached /\ games'[i] = games[i]
        BY <2>1, <2>4, <2>a, <3>2
      <4> QED BY <3>1, <4>1
    <3>3. CASE i = m /\ InRound(n) # {}
      <4>1. PICK k \in Attached : games[k].round = n
        BY <3>3 DEF InRound
      <4> QED BY <2>1, <3>1, <3>3, <4>1
    <3>4. CASE i = m /\ InRound(n) = {}
      <4>1. n \in 1..3
        BY <2>1, <2>2, <2>4, <3>4
      <4>2. games'[m].sides[1] = event.lineup[1]
        BY <2>1, <2>3, <2>4, <3>4, <4>1
      <4> QED BY <2>1, <3>4, <4>2
    <3> QED BY <3>2, <3>3, <3>4
  <2>5. RobinListed'
    BY <2>1, <2>4 DEF RobinListed
  <2>6. PlanRobin(p)'
    <3>1. CASE pc'[p] = "idle"
      BY <3>1 DEF PlanRobin, Planning
    <3>2. CASE pc'[p] = "createGame" /\ local'[p].event = local[p].event
      <4>1. PlannedRound(p)' = n
        BY <3>2 DEF PlannedRound, n
      <4>2. InRound(PlannedRound(p))' # {}
        BY <2>1, <4>1 DEF InRound
      <4>3. local'[p].event.mode = event'.mode /\ pc'[p] # "saveRounds"
        BY <2>1, <2>2, <3>2
      <4> QED BY <3>2, <4>2, <4>3 DEF PlanRobin
    <3> QED BY <2>1, <3>1, <3>2
  <2> QED BY <2>5, <2>6
<1>9. CASE SaveGames(p)
  BY <1>2, <1>9, SaveGamesShape
<1>10. CASE Fail(p)
  BY <1>2, <1>10 DEF Fail, SameShape
<1> QED BY <1>3, <1>4, <1>5, <1>6, <1>7, <1>8, <1>9, <1>10 DEF Proceed

\* Every step keeps it, whichever request takes it.
LEMMA RobinStep ==
  ASSUME OneCall, EntriesInv, AloneInv, ListInv, RobinInv, [Next]_vars, [EventStays]_vars
  PROVE  RobinInv'
<1>0. /\ GamesListed /\ RowsInOrder /\ RobinListed
      /\ \A p \in Requests : InStep(p) /\ PlanListed(p) /\ PlanRobin(p)
  BY DEF AloneInv, ListInv, RobinInv
<1>1. ASSUME NEW p \in Requests, Ask(p) \/ Proceed(p) \/ Fail(p), EventStays PROVE RobinInv'
  <2>1. RobinListed' /\ PlanRobin(p)'
    BY <1>0, <1>1, AskRobin, ProceedRobin
  <2>2. \A q \in Requests : q = p
    BY DEF OneCall
  <2>3. ASSUME NEW q \in Requests PROVE PlanRobin(q)'
    <3>1. q = p
      BY <2>2
    <3> QED BY <2>1, <3>1
  <2> QED BY <2>1, <2>3 DEF RobinInv
<1>2. CASE Play \/ Tick \/ UNCHANGED vars
  <2>1. SameShape /\ event' = event /\ pc' = pc /\ local' = local
    <3>1. CASE Play
      BY <3>1, PlayShape
    <3>2. CASE Tick
      BY <3>2 DEF Tick, SameShape
    <3>3. CASE UNCHANGED vars
      BY <3>3 DEF vars, SameShape
    <3> QED BY <1>2, <3>1, <3>2, <3>3
  <2>2. RobinListed'
    BY <1>0, <2>1, ShapeRobin DEF RobinListed
  <2>3. \A n : InRound(n)' = InRound(n)
    BY <2>1, ShapeShows
  <2>4. ASSUME NEW q \in Requests PROVE PlanRobin(q)'
    <3>1. PlanRobin(q)
      BY <1>0
    <3> QED BY <2>1, <2>3, <3>1 DEF PlanRobin, PlannedRound
  <2> QED BY <2>2, <2>4 DEF RobinInv
<1>3. CASE EventStays /\ \E p \in Requests : Ask(p) \/ Proceed(p) \/ Fail(p)
  BY <1>1, <1>3
<1>4. CASE ~EventStays
  <2>1. UNCHANGED vars
    BY <1>4
  <2> QED BY <1>2, <2>1
<1> QED BY <1>2, <1>3, <1>4 DEF Next

\* An event that has just been created satisfies it.
LEMMA RobinStart == ASSUME Init PROVE RobinInv
<1>1. Attached = {} /\ event.round = 0
  <2>1. games = <<>> /\ DOMAIN games = {} /\ event.round = 0
    BY DEF Init
  <2> QED BY <2>1 DEF Attached
<1>2. \A p \in Requests : pc[p] = "idle"
  BY DEF Init
<1> QED BY <1>1, <1>2 DEF RobinInv, RobinListed, PlanRobin, Planning

\* What the invariant says of the next round of a free-for-all of up to four teams.
LEMMA RobinsAreFresh ==
  ASSUME EntriesInv, AloneInv, ListInv, RobinInv
  PROVE  SmallRoundRobinFresh
<1> DEFINE t == event.lineup
           n == event.round + 1
           N == Len(t)
           played == Played(n)
           d == NextDraw
<1>1. SUFFICES ASSUME N <= 4, Drawable, event.mode = "free_for_all",
                      \A i \in Attached : Scored(games[i]), NEW k \in DOMAIN d,
                      Rematch(d[k])
               PROVE  FALSE
  BY DEF SmallRoundRobinFresh, RoundRobinFresh
<1>2. /\ GamesListed /\ RowsInOrder /\ RobinListed
      /\ event.round \in Nat /\ event.rounds \in Nat /\ event.round < event.rounds
      /\ event \in Entered /\ games \in Seq(FairGames)
  <2>1. event \in Entered /\ games \in Seq(FairGames)
    BY DEF EntriesInv
  <2> QED BY <1>1, <2>1, EventRowFacts DEF Drawable, AloneInv, ListInv, RobinInv
<1>3. Met(d[k][1], d[k][2], played)
  BY <1>1 DEF Rematch
<1>4. event.round > 0
  <2>1. SUFFICES ASSUME event.round = 0 PROVE FALSE
    BY <1>2
  <2>2. played = {}
    BY <1>2, <2>1, NoGamesYet
  <2> QED BY <1>3, <2>2 DEF Met
<1>5. event.rounds = RoundRobinRounds(N)
  BY <1>1, <1>2, <1>4 DEF RobinListed
<1>6. /\ t \in Seq(Rosters) /\ N \in Nat
      /\ \A i \in 1..N : t[i] \in Teams(event.lineup)
      /\ \A i, j \in 1..N : i # j => t[i] # t[j]
      /\ \A team \in Teams(event.lineup) : \E i \in 1..N : team = t[i]
  BY EntriesDiffer
<1>7. d = Matchups(t, played)
  BY <1>1 DEF NextDraw, Draw
<1>8. Drawn(Different, Rosters, t, d) /\ DrawSpread(Different, d) /\ Len(d) = N \div 2
      /\ DOMAIN d = 1..Len(d)
  <2>1. Drawn(Different, Rosters, t, d)
    BY <1>2, DrawFacts DEF NextDraw
  <2>2. Spread(Different, t)
    BY <1>2, TeamsDiffer, EventRowFacts
  <2> HIDE DEF d
  <2> QED BY <2>1, <2>2, LenProperties DEF Drawn
<1>9. N \in {3, 4} /\ n \in 2..3
  <2> HIDE DEF N, n
  <2>1. N \in {0, 1, 2, 3, 4}
    BY <1>1, <1>6
  <2>2. RoundRobinRounds(0) = 1 /\ RoundRobinRounds(1) = 1 /\ RoundRobinRounds(2) = 1
        /\ RoundRobinRounds(3) = 3 /\ RoundRobinRounds(4) = 3
    <3>1. 2 % 2 = 0 /\ 3 % 2 = 1 /\ 4 % 2 = 0
      OBVIOUS
    <3> QED BY <3>1 DEF RoundRobinRounds
  <2> QED BY <1>2, <1>4, <1>5, <2>1, <2>2 DEF n
<1> HIDE DEF d, played, n
<1>10. CASE N = 3
  <2>1. k = 1
    BY <1>1, <1>8, <1>10
  <2>2. PICK c \in Positions(t) :
           /\ d[1] = PairAt(t, c)
           /\ Met(t[c[1]], t[c[2]], played) => \A e \in Positions(t) : Met(t[e[1]], t[e[2]], played)
    BY <1>6, <1>7, <1>10, FirstMatchup
  <2>3. \A e \in Positions(t) : Met(t[e[1]], t[e[2]], played)
    BY <1>3, <2>1, <2>2 DEF PairAt
  <2>4. Met(t[1], t[2], played) /\ Met(t[1], t[3], played) /\ Met(t[2], t[3], played)
    <3>1. <<1, 2>> \in Positions(t) /\ <<1, 3>> \in Positions(t) /\ <<2, 3>> \in Positions(t)
      BY <1>10 DEF Positions
    <3>2. /\ <<1, 2>>[1] = 1 /\ <<1, 2>>[2] = 2 /\ <<1, 3>>[1] = 1 /\ <<1, 3>>[2] = 3
          /\ <<2, 3>>[1] = 2 /\ <<2, 3>>[2] = 3
      OBVIOUS
    <3> QED BY <2>3, <3>1, <3>2
  <2>5. PICK g, h, i : Meeting(g, t[1], t[2], n) /\ Meeting(h, t[1], t[3], n) /\ Meeting(i, t[2], t[3], n)
    <3>1. /\ \E g : Meeting(g, t[1], t[2], n)
          /\ \E h : Meeting(h, t[1], t[3], n)
          /\ \E i : Meeting(i, t[2], t[3], n)
      BY <2>4, MetWhen DEF played
    <3> QED BY <3>1
  <2>6. Meeting(g, t[2], t[1], n) /\ Meeting(h, t[3], t[1], n) /\ Meeting(i, t[3], t[2], n)
    BY <1>2, <2>5, TwoMeetings
  <2>7. /\ t[1] \in Teams(event.lineup) /\ t[2] \in Teams(event.lineup) /\ t[3] \in Teams(event.lineup)
        /\ t[1] # t[2] /\ t[1] # t[3] /\ t[2] # t[3]
    BY <1>6, <1>10
  <2> HIDE DEF t
  <2>8. games[g].round # games[h].round
    BY <1>2, <2>5, <2>7, TwoMeetings
  <2>9. games[g].round # games[i].round
    BY <1>2, <2>5, <2>6, <2>7, TwoMeetings
  <2>10. games[h].round # games[i].round
    BY <1>2, <2>6, <2>7, TwoMeetings
  <2>11. /\ games[g].round \in Nat \ {0} /\ games[g].round < n
         /\ games[h].round \in Nat \ {0} /\ games[h].round < n
         /\ games[i].round \in Nat \ {0} /\ games[i].round < n
    BY <2>5 DEF Meeting
  <2> QED BY <1>9, <2>8, <2>9, <2>10, <2>11
<1>11. CASE N = 4
  <2>1. PICK x \in 2..4 : d[1] = <<t[1], t[x]>> /\ ~Met(t[1], t[x], played)
    <3>1. n \in 1..3
      BY <1>9
    <3> QED BY <1>2, <1>7, <1>11, <3>1, HeadIsDrawn DEF played
  <2>2. k = 2
    <3>1. k \in {1, 2}
      BY <1>1, <1>8, <1>11
    <3>2. d[1][1] = t[1] /\ d[1][2] = t[x]
      BY <2>1
    <3> QED BY <1>3, <2>1, <3>1, <3>2
  <2>3. PICK y \in 1..4, z \in 1..4 : d[2][1] = t[y] /\ d[2][2] = t[z]
    <3>1. 2 \in 1..Len(d)
      BY <1>8, <1>11
    <3> QED BY <1>8, <1>11, <3>1 DEF Drawn
  <2>4. t[y] # t[z] /\ t[y] # t[1] /\ t[y] # t[x] /\ t[z] # t[1] /\ t[z] # t[x]
    <3>1. 1 \in DOMAIN d /\ 2 \in DOMAIN d
      BY <1>8, <1>11
    <3>a. \A j, l \in DOMAIN d : \A v, w \in {1, 2} : j # l \/ v # w => <<d[j][v], d[l][w]>> \in Different
      BY <1>8 DEF DrawSpread
    <3>b. 1 # 2
      OBVIOUS
    <3>2. ASSUME NEW v \in {1, 2}, NEW w \in {1, 2} PROVE d[1][v] # d[2][w]
      <4>1. <<d[1][v], d[2][w]>> \in Different
        BY <3>1, <3>a, <3>b, Zenon
      <4> QED BY <4>1, Z3 DEF Different
    <3>3. d[2][1] # d[2][2]
      <4>1. <<d[2][1], d[2][2]>> \in Different
        BY <3>1, <3>a, <3>b, Zenon
      <4> QED BY <4>1, Z3 DEF Different
    <3>4. d[1][1] = t[1] /\ d[1][2] = t[x]
      BY <2>1
    <3> QED BY <2>3, <3>2, <3>3, <3>4
  <2>5. PICK g \in Attached : /\ {games[g].sides[1], games[g].sides[2]} = {t[y], t[z]}
                              /\ games[g].round \in Nat \ {0} /\ games[g].round < n
    <3>1. Met(t[y], t[z], Played(n))
      BY <1>3, <2>2, <2>3 DEF played
    <3>2. \E g : Meeting(g, t[y], t[z], n)
      BY <3>1, MetWhen
    <3> QED BY <3>2 DEF Meeting
  <2>6. PICK h \in Attached : games[h].round = games[g].round /\ games[h].sides[1] = t[1]
    BY <1>1, <1>2, <1>9, <1>11, <2>5 DEF RobinListed
  <2>7. games[h].sides[2] \in Teams(event.lineup) /\ games[h].sides[2] # games[h].sides[1]
    <3>1. games[h].sides[2] \in Teams(event.lineup)
      BY <1>2 DEF GamesListed, InList
    <3>2. games[h].sides[1] \cap games[h].sides[2] = {}
      <4>1. games[h] \in FairGames
        BY AttachedIsNat DEF EntriesInv
      <4> QED BY <4>1 DEF FairGames, FairPairs
    <3>3. games[h].sides[2] # {}
      BY <3>1, TeamsArePeopled
    <3> QED BY <3>1, <3>2, <3>3
  <2>8. h # g
    <3>1. t[1] \in {games[h].sides[1], games[h].sides[2]}
      BY <2>6
    <3> QED BY <2>4, <2>5, <3>1
  <2>9. games[h].sides[2] # t[y] /\ games[h].sides[2] # t[z]
    <3>1. SUFFICES ASSUME games[h].sides[2] \in {t[y], t[z]} PROVE FALSE
      OBVIOUS
    <3> DEFINE a == games[h].sides[2]
    <3>2. a \in Teams(event.lineup) /\ a \in {games[h].sides[1], games[h].sides[2]}
          /\ a \in {games[g].sides[1], games[g].sides[2]}
      BY <2>5, <2>7, <3>1
    <3> HIDE DEF a
    <3>3. games[h].round # games[g].round
      BY <1>2, <2>8, <3>2, GamesOfTeam
    <3> QED BY <2>6, <3>3
  <2>10. games[h].sides[2] = t[x]
    <3>1. PICK w \in 1..4 : games[h].sides[2] = t[w]
      BY <1>6, <1>11, <2>7
    <3>2. y \in {2, 3, 4} /\ z \in {2, 3, 4} /\ x \in {2, 3, 4} /\ w \in {2, 3, 4}
          /\ y # z /\ y # x /\ z # x /\ w # y /\ w # z
      BY <2>1, <2>3, <2>4, <2>6, <2>7, <2>9, <3>1
    <3> QED BY <3>1, <3>2
  <2>11. games[h] \in played /\ {games[h].sides[1], games[h].sides[2]} = {t[1], t[x]}
    BY <1>1, <2>5, <2>6, <2>10 DEF played, Played
  <2> QED BY <2>1, <2>11 DEF Met
<1> QED BY <1>9, <1>10, <1>11

\* A free-for-all of up to four teams draws nobody twice against the same opponent,
\* provided that each round is started only when all games before it have their scores
\* (SmallRoundRobinFresh asks for them in the state the draw is made in), that calls come
\* one after the other and that the event stays as it is once a round has been announced.
THEOREM SmallRoundRobinFreshAlone ==
  ASSUME OneCall
  PROVE  Spec /\ [][EventStays]_vars => []SmallRoundRobinFresh
<1> DEFINE Inv == EntriesInv /\ AloneInv /\ ListInv /\ RobinInv
<1>1. Init => Inv
  BY EntriesStart, AloneStart, ListStart, RobinStart
<1>2. Inv /\ [Next]_vars /\ [EventStays]_vars => Inv'
  <2>1. SUFFICES ASSUME Inv, [Next]_vars, [EventStays]_vars PROVE Inv'
    OBVIOUS
  <2>2. [ListStays]_vars
    BY <2>1 DEF ListStays, EventStays
  <2> QED BY <2>1, <2>2, EntriesStep, AloneStep, ListStep, RobinStep
<1>3. Inv => SmallRoundRobinFresh
  BY RobinsAreFresh
<1> HIDE DEF Inv
<1> QED BY <1>1, <1>2, <1>3, PTL DEF Spec

-----------------------------------------------------------------------------
(* The second round of a tournament.                                      *)

\* The positions in the list of the teams of the i-th game of the first round.
Couple(i) == {2 * i - 1, 2 * i}
\* Two positions whose teams have met in one of the first m games.
Paired(a, b, m) == \E i \in 1..m : {a, b} = Couple(i)

\* The keys of a tournament's n teams after m games of its first round: the records of
\* a game's teams are opposite, a draw leaves no difference, who has not played has
\* nothing.
FirstKeys(K, n, m) ==
  /\ \A j \in 1..n : K[j] \in Keys /\ K[j][4] = -j /\ K[j][3] >= 0
  /\ \A i \in 1..m :
       /\ K[2 * i - 1][1] + K[2 * i][1] = 0
       /\ K[2 * i][1] = 0 => K[2 * i - 1][2] = 0 /\ K[2 * i][2] = 0
  /\ \A j \in 1..n : j > 2 * m => K[j][1] = 0 /\ K[j][2] = 0 /\ K[j][3] = 0

\* One team of every game ranks above the teams that have not played, and has no
\* negative record.
LEMMA OneRanksHigh ==
  ASSUME NEW n \in Nat, NEW m \in Nat, 2 * m <= n, NEW K, FirstKeys(K, n, m), NEW i \in 1..m
  PROVE  \E v \in Couple(i) :
           v \in 1..(2 * m) /\ K[v][1] >= 0 /\ \A j \in 1..n : j > 2 * m => Above(K[v], K[j])
<1> DEFINE a == 2 * i - 1
           b == 2 * i
<1>1. a \in 1..n /\ b \in 1..n /\ a \in 1..(2 * m) /\ b \in 1..(2 * m) /\ a \in Couple(i) /\ b \in Couple(i)
  BY DEF Couple
<1>2. /\ K[a] \in Keys /\ K[b] \in Keys /\ K[a][4] = -a /\ K[a][3] >= 0
      /\ K[a][1] + K[b][1] = 0 /\ (K[b][1] = 0 => K[a][2] = 0)
  BY <1>1 DEF FirstKeys
<1>3. ASSUME NEW j \in 1..n, j > 2 * m
      PROVE  K[j] \in Keys /\ K[j][1] = 0 /\ K[j][2] = 0 /\ K[j][3] = 0 /\ K[j][4] < -a
  BY <1>1, <1>3 DEF FirstKeys
<1> HIDE DEF a, b
<1>4. K[a][1] \in Int /\ K[a][2] \in Int /\ K[a][3] \in Int /\ K[b][1] \in Int
  BY <1>2 DEF Keys
<1>5. CASE K[b][1] > 0
  <2>1. \A j \in 1..n : j > 2 * m => Above(K[b], K[j])
    BY <1>2, <1>3, <1>5, AboveUnfolds
  <2> QED BY <1>1, <1>4, <1>5, <2>1
<1>6. CASE K[b][1] < 0
  <2>1. K[a][1] > 0
    BY <1>2, <1>4, <1>6
  <2>2. \A j \in 1..n : j > 2 * m => Above(K[a], K[j])
    BY <1>2, <1>3, <2>1, AboveUnfolds
  <2> QED BY <1>1, <1>4, <2>1, <2>2
<1>7. CASE K[b][1] = 0
  <2>1. K[a][1] = 0 /\ K[a][2] = 0
    BY <1>2, <1>4, <1>7
  <2>2. ASSUME NEW j \in 1..n, j > 2 * m PROVE Above(K[a], K[j])
    <3>1. /\ K[j] \in Keys /\ K[j][1] = 0 /\ K[j][2] = 0 /\ K[j][3] = 0 /\ K[j][4] < -a
      BY <1>3, <2>2
    <3>2. a \in Int /\ K[j][4] \in Int
      BY <1>1, <3>1 DEF Keys
    <3>3. K[a][3] > 0 \/ (K[a][3] = 0 /\ K[a][4] > K[j][4])
      BY <1>2, <1>4, <3>1, <3>2
    <3>4. /\ K[a][1] = K[j][1] /\ K[a][2] = K[j][2]
          /\ K[a][3] > K[j][3] \/ (K[a][3] = K[j][3] /\ K[a][4] > K[j][4])
      BY <2>1, <3>1, <3>3
    <3>5. K[a] \in Keys /\ K[j] \in Keys
      BY <1>2, <3>1
    <3> QED BY <3>4, <3>5, AboveUnfolds
  <2> QED BY <1>1, <2>1, <2>2
<1> QED BY <1>4, <1>5, <1>6, <1>7

\* A key above another has no lower record, and is not below it.
LEMMA AboveMeans ==
  ASSUME NEW a \in Keys, NEW b \in Keys, Above(a, b)
  PROVE  a[1] >= b[1] /\ ~Above(b, a) /\ a[1] \in Int /\ b[1] \in Int
<1>1. a[1] \in Int /\ b[1] \in Int
  BY DEF Keys
<1>2. a[1] >= b[1]
  BY <1>1, AboveUnfolds
<1>3. ~Above(b, a)
  BY AboveOrders
<1> QED BY <1>1, <1>2, <1>3

\* The best team of the ranking and the opponent chosen for it have not met, and one of
\* them has played in each of the games.
LEMMA BestPairSplits ==
  ASSUME NEW n \in 3..5, NEW m \in 1..2, 2 * m <= n, NEW K, FirstKeys(K, n, m),
         NEW perm, Permutes(perm, n),
         \A r, s \in 1..n : r < s => Above(K[perm[r]], K[perm[s]]),
         NEW o \in 2..n,
         LET peers == {r \in 2..n : /\ K[perm[r]][1] = K[perm[1]][1]
                                    /\ ~Paired(perm[1], perm[r], m)}
         IN  /\ peers = {} => o = 2
             /\ peers # {} => o \in peers /\ \A r \in peers : o <= r
  PROVE  /\ ~Paired(perm[1], perm[o], m)
         /\ \A i \in 1..m : perm[1] \in Couple(i) \/ perm[o] \in Couple(i)
<1> DEFINE t == perm[1]
           peers == {r \in 2..n : K[perm[r]][1] = K[t][1] /\ ~Paired(t, perm[r], m)}
<1>0. /\ n \in Nat /\ m \in Nat /\ 1 \in 1..n /\ t \in 1..n /\ o \in 1..n /\ perm[o] \in 1..n
      /\ peers = {} => o = 2
      /\ peers # {} => o \in peers /\ \A r \in peers : o <= r
      /\ \A j \in 1..n : K[j] \in Keys /\ K[j][1] \in Int
  <2>1. perm \in [1..n -> 1..n]
    BY DEF Permutes
  <2>2. n \in Nat /\ m \in Nat /\ 1 \in 1..n /\ o \in 1..n
    OBVIOUS
  <2>3. \A j \in 1..n : K[j] \in Keys /\ K[j][1] \in Int
    BY DEF FirstKeys, Keys
  <2> QED BY <2>1, <2>2, <2>3
<1>1. ASSUME NEW x \in 1..n, x # t
      PROVE  \E r \in 2..n : perm[r] = x /\ K[t][1] >= K[x][1] /\ ~Above(K[x], K[t])
  <2>1. PICK r \in 1..n : perm[r] = x
    BY DEF Permutes
  <2>2. 1 < r
    BY <1>1, <2>1
  <2>3. Above(K[t], K[x])
    BY <1>0, <2>1, <2>2
  <2> QED BY <1>0, <2>1, <2>2, <2>3, AboveMeans
<1> HIDE DEF t, peers
<1>2. t <= 2 * m
  <2>1. SUFFICES ASSUME t > 2 * m PROVE FALSE
    BY <1>0
  <2>2. PICK v \in Couple(1) : v \in 1..(2 * m) /\ Above(K[v], K[t])
    <3>1. 1 \in 1..m
      OBVIOUS
    <3> QED BY <1>0, <2>1, <3>1, OneRanksHigh
  <2>3. v \in 1..n /\ v # t
    BY <1>0, <2>1, <2>2
  <2> QED BY <1>1, <2>2, <2>3
<1>3. PICK i \in 1..m, u \in 1..n :
        Couple(i) = {t, u} /\ t # u /\ K[u][1] + K[t][1] = 0
  <2>1. PICK i \in 1..m : t = 2 * i - 1 \/ t = 2 * i
    BY <1>0, <1>2
  <2>2. K[2 * i - 1][1] + K[2 * i][1] = 0 /\ 2 * i - 1 \in 1..n /\ 2 * i \in 1..n
    BY DEF FirstKeys
  <2>3. CASE t = 2 * i
    BY <2>2, <2>3 DEF Couple
  <2>4. CASE t = 2 * i - 1
    <3>1. K[2 * i][1] + K[t][1] = 0
      BY <1>0, <2>2, <2>4
    <3> QED BY <2>2, <2>4, <3>1 DEF Couple
  <2> QED BY <2>1, <2>3, <2>4
<1>4. K[t][1] >= 0
  BY <1>0, <1>1, <1>3
<1>5. PICK v \in 1..n :
        /\ v \notin Couple(i) /\ K[v][1] >= 0
        /\ m = 2 => v \in 1..4 /\ \A j \in 1..n : j > 4 => Above(K[v], K[j])
  <2>1. CASE m = 1
    <3>1. K[3][1] = 0 /\ 3 \in 1..n
      BY <2>1 DEF FirstKeys
    <3>2. 3 \notin Couple(i)
      BY <2>1 DEF Couple
    <3> QED BY <2>1, <3>1, <3>2
  <2>2. CASE m = 2
    <3>1. 3 - i \in 1..m
      BY <2>2
    <3>2. PICK v \in Couple(3 - i) :
            v \in 1..(2 * m) /\ K[v][1] >= 0 /\ \A j \in 1..n : j > 2 * m => Above(K[v], K[j])
      BY <1>0, <3>1, OneRanksHigh
    <3>3. v \notin Couple(i)
      BY <2>2, <3>2 DEF Couple
    <3> QED BY <2>2, <3>2, <3>3
  <2> QED BY <2>1, <2>2
<1>6. PICK q \in 2..n : perm[q] = v /\ K[t][1] >= K[v][1] /\ v # t /\ v # u
  BY <1>1, <1>3, <1>5
<1>7. ASSUME NEW x \in 1..n, Paired(t, x, m) PROVE x = u
  <2>1. PICK k \in 1..m : {t, x} = Couple(k)
    BY <1>7 DEF Paired
  <2>2. k = i
    BY <1>3, <2>1 DEF Couple
  <2> QED BY <1>3, <2>1, <2>2
<1>8. K[v][1] = K[t][1] => q \in peers
  BY <1>6, <1>7 DEF peers
<1>9. ~Paired(t, perm[o], m)
  <2>1. SUFFICES ASSUME Paired(t, perm[o], m) PROVE FALSE
    OBVIOUS
  <2>2. perm[o] = u
    BY <1>0, <1>7, <2>1
  <2>3. peers = {} /\ o = 2
    BY <1>0, <2>1 DEF peers
  <2>4. K[t][1] # K[v][1]
    BY <1>8, <2>3
  <2>5. K[t][1] > 0 /\ K[u][1] < 0
    BY <1>0, <1>3, <1>5, <1>6, <2>4
  <2>6. q > 2 /\ q \in 1..n /\ 2 \in 1..n
    BY <1>6, <2>2, <2>3
  <2>7. Above(K[u], K[v])
    BY <1>6, <2>2, <2>3, <2>6
  <2> QED BY <1>0, <1>5, <2>5, <2>7, AboveMeans
<1>10. perm[o] # t
  <2>1. 1 # o
    OBVIOUS
  <2> QED BY <1>0, <2>1 DEF Permutes, t
<1>11. perm[o] # u
  <2>1. {t, u} = Couple(i)
    BY <1>3
  <2> QED BY <1>9, <2>1 DEF Paired
<1>12. ASSUME NEW k \in 1..m, t \notin Couple(k) PROVE perm[o] \in Couple(k)
  <2>1. m = 2 /\ k = 3 - i
    BY <1>3, <1>12
  <2>2. perm[o] \notin Couple(i)
    BY <1>3, <1>10, <1>11
  <2>3. perm[o] \in 1..4 => perm[o] \in Couple(k)
    BY <2>1, <2>2 DEF Couple
  <2>4. perm[o] <= 4
    <3>1. SUFFICES ASSUME perm[o] > 4 PROVE FALSE
      BY <1>0
    <3>2. Above(K[v], K[perm[o]]) /\ K[perm[o]][1] = 0
      <4>1. 2 * m = 4
        BY <2>1
      <4> QED BY <1>0, <1>5, <2>1, <3>1, <4>1 DEF FirstKeys
    <3>3. q < o
      <4>1. SUFFICES ASSUME ~(q < o) PROVE FALSE
        OBVIOUS
      <4>2. q # o /\ q \in 1..n
        BY <1>5, <1>6, <2>1, <3>1
      <4>3. o < q
        BY <4>1, <4>2
      <4>4. Above(K[perm[o]], K[v])
        BY <1>0, <1>6, <4>2, <4>3
      <4> QED BY <1>0, <3>2, <4>4, AboveMeans
    <3>4. o \in peers /\ ~(o <= q)
      BY <1>0, <1>6, <3>3
    <3>5. K[t][1] = 0
      BY <3>2, <3>4 DEF peers
    <3>6. K[v][1] = 0
      BY <1>0, <1>5, <1>6, <3>5
    <3> QED BY <1>0, <1>8, <3>4, <3>5, <3>6
  <2> QED BY <1>0, <2>3, <2>4
<1> QED BY <1>9, <1>12 DEF t

\* All the games of the first round are scored: they are those of the first teams of the
\* list, in its order.
LEMMA FirstRoundGames ==
  ASSUME EntriesInv, RowsInOrder, GamesListed, event.round = 1,
         \A i \in Attached : Scored(games[i])
  PROVE  LET m == Len(games)
             t == event.lineup
         IN /\ m \in Nat /\ 2 * m <= Len(t) /\ IsScored(Played(2))
            /\ Played(2) = {games[i] : i \in 1..m}
            /\ \A i \in 1..m : /\ games[i].sides = <<t[2 * i - 1], t[2 * i]>>
                               /\ 2 * i <= Len(t)
                               /\ games[i].score[1] \in Nat /\ games[i].score[2] \in Nat
<1> DEFINE m == Len(games)
           t == event.lineup
<1>1. Attached = 1..m /\ m \in Nat /\ \A i \in 1..m : games[i] \in FairGames
  BY AttachedIsNat DEF EntriesInv, GamesListed
<1>2. ASSUME NEW i \in 1..m
      PROVE  /\ games[i].round < 2 /\ games[i].sides = <<t[2 * i - 1], t[2 * i]>> /\ 2 * i <= Len(t)
             /\ Scored(games[i]) /\ games[i].score[1] \in Nat /\ games[i].score[2] \in Nat
  <2>1. games[i].round \in Nat \ {0} /\ games[i].score \in Scores \X Scores /\ i \in Attached
    BY <1>1, GameRowFacts
  <2>2. games[i].round = 1
    BY <2>1 DEF RowsInOrder
  <2>3. InOrder(games[i].sides, i)
    BY <2>1, <2>2 DEF GamesListed
  <2>4. games[i].score[1] \in Nat /\ games[i].score[2] \in Nat
    BY <2>1 DEF Scored, Scores, Null
  <2> QED BY <2>1, <2>2, <2>3, <2>4 DEF InOrder
<1>3. Played(2) = {games[i] : i \in 1..m}
  BY <1>1, <1>2 DEF Played
<1>4. IsScored(Played(2))
  BY PlayedIsScored DEF EntriesInv
<1>5. 2 * m <= Len(t)
  <2>1. Len(t) \in Nat
    BY EntriesDiffer
  <2>2. CASE m = 0
    BY <2>1, <2>2
  <2>3. CASE m # 0
    <3>1. m \in 1..m
      BY <1>1, <2>3
    <3> QED BY <1>2, <3>1
  <2> QED BY <2>2, <2>3
<1> QED BY <1>1, <1>2, <1>3, <1>4, <1>5

\* Two entries have met in the first round if they are the teams of one of its games.
LEMMA MetInFirst ==
  ASSUME EntriesInv, RowsInOrder, GamesListed, event.round = 1,
         \A i \in Attached : Scored(games[i]),
         NEW a \in 1..Len(event.lineup), NEW b \in 1..Len(event.lineup)
  PROVE  Met(event.lineup[a], event.lineup[b], Played(2)) <=> Paired(a, b, Len(games))
<1> DEFINE t == event.lineup
           n == Len(t)
           m == Len(games)
<1>1. /\ Played(2) = {games[i] : i \in 1..m} /\ m \in Nat /\ n \in Nat
      /\ \A i \in 1..m : games[i].sides = <<t[2 * i - 1], t[2 * i]>> /\ 2 * i <= n
      /\ \A i, j \in 1..n : i # j => t[i] # t[j]
  BY FirstRoundGames, EntriesDiffer
<1> HIDE DEF t, n, m
<1>2. ASSUME NEW i \in 1..m
      PROVE  {games[i].sides[1], games[i].sides[2]} = {t[a], t[b]} <=> {a, b} = Couple(i)
  <2> DEFINE x == 2 * i - 1
             y == 2 * i
  <2>1. games[i].sides = <<t[x], t[y]>> /\ x \in 1..n /\ y \in 1..n
    BY <1>1
  <2>2. a \in 1..n /\ b \in 1..n
    BY DEF n, t
  <2>3. Couple(i) = {x, y}
    BY DEF Couple
  <2> HIDE DEF x, y
  <2>4. {games[i].sides[1], games[i].sides[2]} = {t[x], t[y]}
    BY <2>1
  <2>5. {t[x], t[y]} = {t[a], t[b]} <=> {a, b} = {x, y}
    <3>1. /\ t[x] = t[a] <=> x = a
          /\ t[x] = t[b] <=> x = b
          /\ t[y] = t[a] <=> y = a
          /\ t[y] = t[b] <=> y = b
      BY <1>1, <2>1, <2>2
    <3>3. {t[x], t[y]} = {t[a], t[b]} <=> (t[x] = t[a] /\ t[y] = t[b]) \/ (t[x] = t[b] /\ t[y] = t[a])
      OBVIOUS
    <3>4. {a, b} = {x, y} <=> (a = x /\ b = y) \/ (a = y /\ b = x)
      OBVIOUS
    <3> QED BY <3>1, <3>3, <3>4
  <2> QED BY <2>3, <2>4, <2>5
<1>3. Met(t[a], t[b], Played(2)) <=> Paired(a, b, m)
  BY <1>1, <1>2 DEF Met, Paired
<1> QED BY <1>3 DEF t, m

\* After it the keys of the ranking are as FirstKeys says.
LEMMA FirstRoundKeys ==
  ASSUME EntriesInv, RowsInOrder, GamesListed, event.round = 1,
         \A i \in Attached : Scored(games[i])
  PROVE  LET n == Len(event.lineup) IN
         FirstKeys([j \in 1..n |-> Key(event.lineup, Played(2), j)], n, Len(games))
<1> DEFINE t == event.lineup
           n == Len(t)
           m == Len(games)
           played == Played(2)
           K == [j \in 1..n |-> Key(t, played, j)]
<1>1. /\ played = {games[i] : i \in 1..m} /\ m \in Nat /\ n \in Nat /\ 2 * m <= n
      /\ IsScored(played)
      /\ \A i \in 1..m : /\ games[i].sides = <<t[2 * i - 1], t[2 * i]>> /\ 2 * i <= n
                         /\ games[i].score[1] \in Nat /\ games[i].score[2] \in Nat
      /\ \A i, j \in 1..n : i # j => t[i] # t[j]
      /\ t \in Seq(Rosters)
  BY FirstRoundGames, EntriesDiffer
<1>2. \A j \in 1..n : Key(t, played, j) \in Keys /\ Key(t, played, j)[4] = -j
  BY <1>1, RankedFacts
<1> HIDE DEF t, n, m, played
<1>3. ASSUME NEW j \in 1..n
      PROVE  /\ K[j] \in Keys /\ K[j][4] = -j
             /\ K[j][1] = WinRecord(t[j], played)
             /\ K[j][2] = PointsFor(t[j], played) - PointsAgainst(t[j], played)
             /\ K[j][3] = PointsFor(t[j], played)
  BY <1>2 DEF Key
<1>4. ASSUME NEW j \in 1..n, j > 2 * m
      PROVE  K[j][1] = 0 /\ K[j][2] = 0 /\ K[j][3] = 0
  <2>1. ASSUME NEW i \in 1..m PROVE t[j] \notin {games[i].sides[1], games[i].sides[2]}
    <3>1. 2 * i \in 1..n /\ 2 * i - 1 \in 1..n /\ j # 2 * i /\ j # 2 * i - 1
      BY <1>1, <1>4
    <3>2. t[j] # t[2 * i - 1] /\ t[j] # t[2 * i]
      BY <1>1, <3>1
    <3>3. games[i].sides[1] = t[2 * i - 1] /\ games[i].sides[2] = t[2 * i]
      BY <1>1
    <3> QED BY <3>2, <3>3
  <2>2. GamesOf(t[j], played) = {}
    BY <1>1, <2>1 DEF GamesOf
  <2>3. WinRecord(t[j], played) = 0 /\ PointsFor(t[j], played) = 0 /\ PointsAgainst(t[j], played) = 0
    BY <1>1, <2>2, RecordOfOne
  <2> HIDE DEF K
  <2> QED BY <1>3, <2>3
<1>5. ASSUME NEW i \in 1..m
      PROVE  LET a == 2 * i - 1
                 b == 2 * i
             IN /\ K[a][1] + K[b][1] = 0 /\ K[a][3] >= 0 /\ K[b][3] >= 0
                /\ K[b][1] = 0 => K[a][2] = 0 /\ K[b][2] = 0
  <2> DEFINE a == 2 * i - 1
             b == 2 * i
             g == games[i]
             v == g.score[1]
             w == g.score[2]
  <2>1. a \in 1..n /\ b \in 1..n /\ a # b /\ g.sides = <<t[a], t[b]>> /\ g \in played
        /\ v \in Nat /\ w \in Nat
    BY <1>1
  <2>2. ASSUME NEW k \in 1..m, k # i
        PROVE  t[a] \notin {games[k].sides[1], games[k].sides[2]}
               /\ t[b] \notin {games[k].sides[1], games[k].sides[2]}
    <3>1. /\ 2 * k \in 1..n /\ 2 * k - 1 \in 1..n /\ a # 2 * k /\ a # 2 * k - 1
          /\ b # 2 * k /\ b # 2 * k - 1
      BY <1>1, <2>2
    <3>2. games[k].sides[1] = t[2 * k - 1] /\ games[k].sides[2] = t[2 * k]
      BY <1>1
    <3> HIDE DEF a, b
    <3>3. t[a] # t[2 * k - 1] /\ t[a] # t[2 * k] /\ t[b] # t[2 * k - 1] /\ t[b] # t[2 * k]
      BY <1>1, <2>1, <3>1
    <3> QED BY <3>2, <3>3
  <2> HIDE DEF a, b
  <2>3. t[a] # t[b]
    BY <1>1, <2>1
  <2>4. GamesOf(t[a], played) = {g} /\ GamesOf(t[b], played) = {g}
    <3>1. t[a] \in {g.sides[1], g.sides[2]} /\ t[b] \in {g.sides[1], g.sides[2]}
      BY <2>1
    <3>2. ASSUME NEW h \in played, t[a] \in {h.sides[1], h.sides[2]} \/ t[b] \in {h.sides[1], h.sides[2]}
          PROVE  h = g
      <4>1. PICK k \in 1..m : h = games[k]
        BY <1>1
      <4> QED BY <2>2, <3>2, <4>1
    <3> HIDE DEF g
    <3> QED BY <2>1, <3>1, <3>2 DEF GamesOf
  <2>5. Own(t[a], g) = v /\ Other(t[a], g) = w /\ Own(t[b], g) = w /\ Other(t[b], g) = v
    <3>1. g.sides[1] = t[a] /\ g.sides[1] # t[b]
      BY <2>1, <2>3
    <3> HIDE DEF g
    <3> QED BY <3>1 DEF Own, Other
  <2> HIDE DEF g, K, v, w
  <2>6. /\ PointsFor(t[a], played) = v /\ PointsAgainst(t[a], played) = w
        /\ v > w => WinRecord(t[a], played) = 1
        /\ v < w => WinRecord(t[a], played) = -1
        /\ v = w => WinRecord(t[a], played) = 0
    <3>1. /\ PointsFor(t[a], played) = Own(t[a], g) /\ PointsAgainst(t[a], played) = Other(t[a], g)
          /\ Own(t[a], g) > Other(t[a], g) => WinRecord(t[a], played) = 1
          /\ Own(t[a], g) < Other(t[a], g) => WinRecord(t[a], played) = -1
          /\ Own(t[a], g) = Other(t[a], g) => WinRecord(t[a], played) = 0
      <4> DEFINE u == t[a]
      <4>1. GamesOf(u, played) = {g} /\ g \in played /\ IsScored(played)
        BY <1>1, <2>1, <2>4
      <4> HIDE DEF u
      <4>2. /\ PointsFor(u, played) = Own(u, g) /\ PointsAgainst(u, played) = Other(u, g)
            /\ Own(u, g) > Other(u, g) => WinRecord(u, played) = 1
            /\ Own(u, g) < Other(u, g) => WinRecord(u, played) = -1
            /\ Own(u, g) = Other(u, g) => WinRecord(u, played) = 0
        BY <4>1, RecordOfOne
      <4> QED BY <4>2 DEF u
    <3> QED BY <2>5, <3>1
  <2>7. /\ PointsFor(t[b], played) = w /\ PointsAgainst(t[b], played) = v
        /\ w > v => WinRecord(t[b], played) = 1
        /\ w < v => WinRecord(t[b], played) = -1
        /\ w = v => WinRecord(t[b], played) = 0
    <3>1. /\ PointsFor(t[b], played) = Own(t[b], g) /\ PointsAgainst(t[b], played) = Other(t[b], g)
          /\ Own(t[b], g) > Other(t[b], g) => WinRecord(t[b], played) = 1
          /\ Own(t[b], g) < Other(t[b], g) => WinRecord(t[b], played) = -1
          /\ Own(t[b], g) = Other(t[b], g) => WinRecord(t[b], played) = 0
      <4> DEFINE u == t[b]
      <4>1. GamesOf(u, played) = {g} /\ g \in played /\ IsScored(played)
        BY <1>1, <2>1, <2>4
      <4> HIDE DEF u
      <4>2. /\ PointsFor(u, played) = Own(u, g) /\ PointsAgainst(u, played) = Other(u, g)
            /\ Own(u, g) > Other(u, g) => WinRecord(u, played) = 1
            /\ Own(u, g) < Other(u, g) => WinRecord(u, played) = -1
            /\ Own(u, g) = Other(u, g) => WinRecord(u, played) = 0
        BY <4>1, RecordOfOne
      <4> QED BY <4>2 DEF u
    <3> QED BY <2>5, <3>1
  <2>8. /\ K[a][1] + K[b][1] = 0 /\ K[a][3] >= 0 /\ K[b][3] >= 0
        /\ K[b][1] = 0 => K[a][2] = 0 /\ K[b][2] = 0
    <3>1. CASE v > w
      BY <1>3, <2>1, <2>6, <2>7, <3>1
    <3>2. CASE v < w
      BY <1>3, <2>1, <2>6, <2>7, <3>2
    <3>3. CASE v = w
      BY <1>3, <2>1, <2>6, <2>7, <3>3
    <3> QED BY <2>1, <3>1, <3>2, <3>3
  <2> QED BY <2>8 DEF a, b
<1>6. ASSUME NEW j \in 1..n PROVE K[j][3] >= 0
  <2>1. CASE j > 2 * m
    BY <1>4, <2>1
  <2>2. CASE j <= 2 * m
    <3>1. \E i \in 1..m : j = 2 * i - 1 \/ j = 2 * i
      <4> DEFINE i == (j + 1) \div 2
      <4>1. i \in Nat /\ (j = 2 * i - 1 \/ j = 2 * i)
        BY <1>1
      <4> HIDE DEF i
      <4>2. i \in 1..m
        BY <1>1, <2>2, <4>1
      <4> QED BY <4>1, <4>2
    <3> HIDE DEF K
    <3> QED BY <1>5, <3>1
  <2> QED BY <1>1, <2>1, <2>2
<1> HIDE DEF K
<1>7. FirstKeys(K, n, m)
  BY <1>3, <1>4, <1>5, <1>6 DEF FirstKeys
<1> QED BY <1>7 DEF K, n, m, t, played

\* What the invariant says of the second round of a tournament of three to five teams:
\* the first pair leaves no two teams that have met.
LEMMA SecondRoundsAreFresh ==
  ASSUME EntriesInv, AloneInv, ListInv
  PROVE  SecondRoundFresh
<1> DEFINE t == event.lineup
           N == Len(t)
           m == Len(games)
           played == Played(2)
           d == NextDraw
           ranked == Ranked(t, played)
           o == Opponent(ranked, played)
           K == [j \in 1..N |-> Key(t, played, j)]
<1>1. SUFFICES ASSUME Drawable, event.mode = "tournament", event.round = 1, N \in 3..5,
                      \A i \in Attached : Scored(games[i]), NEW k \in DOMAIN d, Rematch(d[k])
               PROVE  FALSE
  BY DEF SecondRoundFresh
<1>2. /\ GamesListed /\ RowsInOrder /\ event \in Entered /\ games \in Seq(FairGames)
  BY DEF EntriesInv, AloneInv, ListInv
<1>3. d = TournamentMatchups(t, played) /\ Met(d[k][1], d[k][2], played)
  <2>1. event.round + 1 = 2
    BY <1>1
  <2> QED BY <1>1, <2>1 DEF NextDraw, Draw, Rematch
<1>4. /\ m \in Nat /\ 2 * m <= N /\ IsScored(played) /\ played = {games[i] : i \in 1..m}
      /\ FirstKeys(K, N, m)
  BY <1>1, <1>2, FirstRoundGames, FirstRoundKeys
<1>5. \A a, b \in 1..N : Met(t[a], t[b], played) <=> Paired(a, b, m)
  BY <1>1, <1>2, MetInFirst
<1>6. t \in Seq(Rosters) /\ N \in Nat /\ N >= 2 /\ N <= 5
  <2>1. t \in Seq(Rosters)
    BY EntriesDiffer
  <2>2. N \in Nat
    BY <2>1
  <2> HIDE DEF N, t
  <2> QED BY <1>1, <2>1, <2>2
<1>7. Drawn(Different, Rosters, t, d) /\ DrawSpread(Different, d) /\ Len(d) = N \div 2
      /\ DOMAIN d = 1..Len(d)
  <2>1. Drawn(Different, Rosters, t, d)
    BY <1>2, DrawFacts DEF NextDraw
  <2>2. Spread(Different, t)
    BY <1>2, TeamsDiffer, EventRowFacts
  <2> HIDE DEF d
  <2> QED BY <2>1, <2>2, LenProperties DEF Drawn
<1> HIDE DEF d, played, m
<1>8. m \in 1..2
  <2>1. m # 0
    <3>1. SUFFICES ASSUME m = 0 PROVE FALSE
      OBVIOUS
    <3>2. played = {}
      BY <1>4, <3>1
    <3> QED BY <1>3, <3>2 DEF Met
  <2> HIDE DEF N
  <2> QED BY <1>4, <1>6, <2>1
<1>9. /\ ranked \in Seq(Rosters) /\ Len(ranked) = N
      /\ \E perm : /\ Reorders(perm, ranked, t)
                   /\ \A r, s \in 1..N : r < s => Above(Key(t, played, perm[r]), Key(t, played, perm[s]))
  BY <1>4, <1>6, RankedFacts
<1>10. PICK perm : /\ Reorders(perm, ranked, t)
                   /\ \A r, s \in 1..N : r < s => Above(Key(t, played, perm[r]), Key(t, played, perm[s]))
  BY <1>9
<1>11. d[1] = <<ranked[1], ranked[o]>>
  BY <1>3, <1>4, <1>6, FirstTournamentMatchup
<1>12. LET peers == {i \in 2..Len(ranked) :
                         /\ WinRecord(ranked[i], played) = WinRecord(ranked[1], played)
                         /\ ~Met(ranked[1], ranked[i], played)}
       IN /\ <<1, o>> \in Positions(ranked)
          /\ peers = {} => o = 2
          /\ peers # {} => o \in peers /\ \A i \in peers : o <= i
  <2>1. Len(ranked) >= 2
    BY <1>6, <1>9
  <2> HIDE DEF ranked
  <2> QED BY <1>9, <2>1, OpponentFacts
<1> HIDE DEF ranked, o
<1>13. /\ perm \in [1..N -> 1..N]
       /\ \A r \in 1..N : ranked[r] = t[perm[r]]
       /\ \A r, s \in 1..N : r # s => perm[r] # perm[s]
  BY <1>10 DEF Reorders
<1>14. Permutes(perm, N)
  BY <1>6, <1>13, PermutesOnto
<1>15. \A r, s \in 1..N : r < s => Above(K[perm[r]], K[perm[s]])
  BY <1>10, <1>13
<1>16. o \in 2..N
  <2>1. <<1, o>>[1] = 1 /\ <<1, o>>[2] = o
    OBVIOUS
  <2>2. <<1, o>>[1] < <<1, o>>[2] /\ <<1, o>>[2] \in 1..N
    BY <1>9, <1>12 DEF Positions
  <2> QED BY <1>6, <2>1, <2>2
<1>17. ASSUME NEW r \in 2..N
       PROVE  /\ (WinRecord(ranked[r], played) = WinRecord(ranked[1], played)) <=> (K[perm[r]][1] = K[perm[1]][1])
              /\ Met(ranked[1], ranked[r], played) <=> Paired(perm[1], perm[r], m)
  <2>1. r \in 1..N /\ 1 \in 1..N
    BY <1>6
  <2>2. perm[r] \in 1..N /\ perm[1] \in 1..N /\ ranked[r] = t[perm[r]] /\ ranked[1] = t[perm[1]]
    BY <1>13, <2>1
  <2>3. \A j \in 1..N : K[j][1] = WinRecord(t[j], played)
    BY DEF Key
  <2> HIDE DEF t, N, K
  <2> QED BY <1>5, <2>2, <2>3
<1>18. LET peers == {r \in 2..N : /\ K[perm[r]][1] = K[perm[1]][1]
                                  /\ ~Paired(perm[1], perm[r], m)}
       IN  /\ peers = {} => o = 2
           /\ peers # {} => o \in peers /\ \A r \in peers : o <= r
  <2>1. {i \in 2..Len(ranked) : /\ WinRecord(ranked[i], played) = WinRecord(ranked[1], played)
                                /\ ~Met(ranked[1], ranked[i], played)}
          = {r \in 2..N : /\ K[perm[r]][1] = K[perm[1]][1]
                          /\ ~Paired(perm[1], perm[r], m)}
    <3> HIDE DEF N, K
    <3> QED BY <1>9, <1>17
  <2> HIDE DEF N, K
  <2> QED BY <1>12, <2>1
<1> HIDE DEF K, N
<1>19. /\ ~Paired(perm[1], perm[o], m)
       /\ \A i \in 1..m : perm[1] \in Couple(i) \/ perm[o] \in Couple(i)
  BY <1>1, <1>4, <1>8, <1>14, <1>15, <1>16, <1>18, BestPairSplits
<1>20. /\ 1 \in 1..N /\ o \in 1..N /\ perm[1] \in 1..N /\ perm[o] \in 1..N
       /\ d[1][1] = t[perm[1]] /\ d[1][2] = t[perm[o]]
  <2>1. 1 \in 1..N /\ o \in 1..N
    BY <1>6, <1>16
  <2> QED BY <1>11, <1>13, <2>1
<1>21. k = 2
  <2>1. k \in {1, 2}
    BY <1>1, <1>7
  <2>2. k # 1
    <3>1. SUFFICES ASSUME k = 1 PROVE FALSE
      OBVIOUS
    <3>2. Met(t[perm[1]], t[perm[o]], played)
      BY <1>3, <1>20, <3>1
    <3> QED BY <1>5, <1>19, <1>20, <3>2
  <2> QED BY <2>1, <2>2
<1>22. PICK y \in 1..N, z \in 1..N : d[2][1] = t[y] /\ d[2][2] = t[z]
  <2>1. 2 \in 1..Len(d)
    BY <1>1, <1>7, <1>21
  <2> QED BY <1>7, <2>1 DEF Drawn, N
<1>23. PICK i \in 1..m : {y, z} = Couple(i)
  <2>1. Paired(y, z, m)
    BY <1>3, <1>5, <1>21, <1>22
  <2> QED BY <2>1 DEF Paired
<1>24. ASSUME NEW v \in {1, 2}, NEW w \in {1, 2} PROVE d[1][v] # d[2][w]
  <2>1. 1 \in DOMAIN d /\ 2 \in DOMAIN d /\ 1 # 2
    BY <1>1, <1>7, <1>21
  <2>2. \A j, l \in DOMAIN d : \A a, b \in {1, 2} : j # l \/ a # b => <<d[j][a], d[l][b]>> \in Different
    BY <1>7 DEF DrawSpread
  <2>3. <<d[1][v], d[2][w]>> \in Different
    BY <2>1, <2>2, Zenon
  <2> QED BY <2>3, Z3 DEF Different
<1>25. perm[1] \in {y, z} \/ perm[o] \in {y, z}
  BY <1>19, <1>23
<1> QED BY <1>20, <1>22, <1>24, <1>25

\* The second round of a tournament of three to five teams repeats no game of the first,
\* once those are scored, as long as calls come one after the other and nobody leaves
\* after the first round has been announced.
THEOREM SecondRoundFreshAlone ==
  ASSUME OneCall
  PROVE  Spec /\ [][ListStays]_vars => []SecondRoundFresh
<1> DEFINE Inv == EntriesInv /\ AloneInv /\ ListInv
<1>1. Init => Inv
  BY EntriesStart, AloneStart, ListStart
<1>2. Inv /\ [Next]_vars /\ [ListStays]_vars => Inv'
  BY EntriesStep, AloneStep, ListStep
<1>3. Inv => SecondRoundFresh
  BY SecondRoundsAreFresh
<1> HIDE DEF Inv
<1> QED BY <1>1, <1>2, <1>3, PTL DEF Spec
=============================================================================
