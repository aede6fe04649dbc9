------------------------- MODULE EventRoundsProofs --------------------------
(***************************************************************************)
(* What holds of an event and its games for any number of teams, of        *)
(* requests in flight, of rounds and of games: the variables keep their    *)
(* types, the entries fit, and every draw is complete.                     *)
(*                                                                         *)
(* A stale save puts back an older list of teams. The invariant is         *)
(* therefore about every list that a request holds as well as about the    *)
(* one in the row.                                                         *)
(***************************************************************************)
EXTENDS EventRounds, MatchmakingProofs

\* What is left of a list when somebody leaves: entries of it, at different places.
LEMMA WithoutFacts ==
  ASSUME NEW R, NEW X, NEW u, NEW lineup \in Seq(X)
  PROVE  LET w == Without(u, lineup) IN
         /\ w \in Seq(X) /\ Len(w) <= Len(lineup)
         /\ \A i \in 1..Len(w) : \E j \in 1..Len(lineup) : w[i] = lineup[j]
         /\ Spread(R, lineup) => Spread(R, w)
<1> DEFINE N == Len(lineup)
           S == 0..N
           T == Seq(X)
           m == [n \in S |-> n]
           B == {0}
           base == [n \in B |-> <<>>]
           smaller == [n \in S \ B |-> n - 1]
           op == [n \in S \ B |-> [t \in T |-> IF u \in lineup[n] THEN t ELSE Append(t, lineup[n])]]
           Kept(f) == f = [n \in S |-> IF n = 0 THEN <<>>
                                       ELSE IF u \in lineup[n] THEN f[n - 1]
                                       ELSE Append(f[n - 1], lineup[n])]
<1>1. N \in Nat /\ \A n \in S \ B : n - 1 \in S /\ lineup[n] \in X
  OBVIOUS
<1>2. m \in [S -> Nat] /\ B \in SUBSET S /\ base \in [B -> T]
  BY <1>1
<1>3. smaller \in [S \ B -> S]
  BY <1>1
<1>4. op \in [S \ B -> [T -> T]]
  <2>1. ASSUME NEW n \in S \ B, NEW t \in T
        PROVE  (IF u \in lineup[n] THEN t ELSE Append(t, lineup[n])) \in T
    BY <1>1, <2>1
  <2> HIDE DEF S, B, T
  <2> QED BY <2>1
<1>5. \A n \in S \ B : m[smaller[n]] < m[n]
  BY <1>1
<1>6. PICK f \in [S -> T] : Follows(f, S, B, base, smaller, op)
  <2> HIDE DEF S, T, m, B, base, smaller, op
  <2> QED BY <1>2, <1>3, <1>4, <1>5, Recursion
<1>7. ASSUME NEW n \in S
      PROVE  f[n] = IF n = 0 THEN <<>> ELSE IF u \in lineup[n] THEN f[n - 1]
                    ELSE Append(f[n - 1], lineup[n])
  <2>1. CASE n = 0
    BY <1>6, <2>1 DEF Follows
  <2>2. CASE n # 0
    <3>1. f[n] = op[n][f[smaller[n]]]
      BY <1>6, <2>2 DEF Follows
    <3>2. smaller[n] = n - 1 /\ f[n - 1] \in T
      BY <1>1, <1>6, <2>2
    <3>3. op[n] = [t \in T |-> IF u \in lineup[n] THEN t ELSE Append(t, lineup[n])]
      BY <2>2
    <3> HIDE DEF op, smaller, T
    <3> QED BY <2>2, <3>1, <3>2, <3>3
  <2> QED BY <2>1, <2>2
<1>8. f = [n \in S |-> f[n]]
  BY <1>6
<1>9. Kept(f)
  <2> HIDE DEF S
  <2> QED BY <1>7, <1>8
<1> DEFINE C == CHOOSE g : Kept(g)
<1>10. Kept(C)
  <2> HIDE DEF Kept
  <2> QED BY <1>9
<1>11. Without(u, lineup) = C[N]
  BY DEF Without
<1> HIDE DEF C
<1> DEFINE Good(n, w) == /\ w \in Seq(X) /\ Len(w) <= n
                         /\ \A i \in 1..Len(w) : \E j \in 1..n : w[i] = lineup[j]
                         /\ Spread(R, lineup) => Spread(R, w)
           Bad == {n \in S : ~ Good(n, C[n])}
<1>12. Bad = {}
  <2>1. SUFFICES ASSUME Bad # {} PROVE FALSE
    BY <2>1
  <2>2. PICK n \in Bad : \A k \in Bad : m[n] <= m[k]
    <3> HIDE DEF m, Bad, S
    <3>1. Bad \in SUBSET S
      BY DEF Bad
    <3> QED BY <1>2, <2>1, <3>1, Descent
  <2>3. n \in S /\ n \in Nat /\ ~ Good(n, C[n])
    BY <1>1, <2>2
  <2>4. n # 0
    <3>1. C[0] = <<>>
      BY <1>1, <1>10
    <3>2. <<>> \in Seq(X) /\ Len(<<>>) = 0 /\ DOMAIN <<>> = {} /\ 1..0 = {}
      OBVIOUS
    <3>3. Good(0, <<>>)
      BY <3>2 DEF Spread
    <3> HIDE DEF Good
    <3> QED BY <2>3, <3>1, <3>3
  <2>5. n - 1 \in S /\ m[n - 1] = n - 1 /\ m[n] = n /\ lineup[n] \in X /\ n \in 1..N
    BY <1>1, <2>3, <2>4
  <2>6. Good(n - 1, C[n - 1])
    <3>1. n - 1 \notin Bad
      <4> HIDE DEF Bad, m, S
      <4> QED BY <2>2, <2>3, <2>5
    <3> HIDE DEF Good
    <3> QED BY <2>5, <3>1
  <2> DEFINE w == C[n - 1]
             v == Append(w, lineup[n])
  <2>7. CASE u \in lineup[n]
    <3>1. C[n] = w
      BY <1>10, <2>3, <2>4, <2>7
    <3>2. Good(n, w)
      <4> HIDE DEF w
      <4>1. Len(w) <= n /\ \A j \in 1..(n - 1) : j \in 1..n
        BY <2>3, <2>6 DEF w
      <4> QED BY <2>6, <4>1 DEF w
    <3> HIDE DEF Good, w
    <3> QED BY <2>3, <3>1, <3>2
  <2>8. CASE u \notin lineup[n]
    <3>1. C[n] = v
      BY <1>10, <2>3, <2>4, <2>8
    <3>2. w \in Seq(X) /\ Len(w) \in Nat /\ Len(w) <= n - 1
      BY <2>6
    <3>3. \A i \in 1..Len(w) : \E j \in 1..(n - 1) : w[i] = lineup[j]
      BY <2>6
    <3>4. Spread(R, lineup) => Spread(R, w)
      BY <2>6
    <3> HIDE DEF w
    <3>5. /\ v \in Seq(X) /\ Len(v) = Len(w) + 1 /\ v[Len(w) + 1] = lineup[n]
          /\ \A i \in 1..Len(w) : v[i] = w[i]
      BY <2>5, <3>2, AppendProperties
    <3> HIDE DEF v
    <3>6. ASSUME NEW i \in 1..Len(v)
          PROVE  (i = Len(w) + 1 /\ v[i] = lineup[n]) \/ (i \in 1..Len(w) /\ v[i] = w[i])
      BY <3>2, <3>5
    <3>7. ASSUME NEW i \in 1..Len(v) PROVE \E j \in 1..n : v[i] = lineup[j]
      <4>1. \A j \in 1..(n - 1) : j \in 1..n
        BY <2>3
      <4> QED BY <2>5, <3>3, <3>6, <4>1
    <3>8. ASSUME Spread(R, lineup) PROVE Spread(R, v)
      <4>1. SUFFICES ASSUME NEW i \in 1..Len(v), NEW k \in 1..Len(v), i # k
                     PROVE  <<v[i], v[k]>> \in R
        BY <3>5 DEF Spread
      <4>2. \A a, b \in 1..N : a # b => <<lineup[a], lineup[b]>> \in R
        BY <3>8 DEF Spread
      <4>3. \A a, b \in 1..Len(w) : a # b => <<w[a], w[b]>> \in R
        BY <3>2, <3>4, <3>8 DEF Spread
      <4>4. \A j \in 1..(n - 1) : j \in 1..N /\ j # n
        BY <2>3, <2>5
      <4>5. ASSUME NEW a \in 1..Len(w)
            PROVE  <<w[a], lineup[n]>> \in R /\ <<lineup[n], w[a]>> \in R
        BY <2>5, <3>3, <4>2, <4>4
      <4> QED BY <3>6, <4>1, <4>3, <4>5
    <3>9. Len(v) <= n
      BY <2>3, <3>2, <3>5
    <3>10. Good(n, v)
      BY <3>5, <3>7, <3>8, <3>9
    <3> HIDE DEF Good
    <3> QED BY <2>3, <3>1, <3>10
  <2> QED BY <2>7, <2>8
<1>13. Good(N, C[N])
  <2>1. N \in S
    BY <1>1
  <2> HIDE DEF N, S, Good
  <2> QED BY <1>12, <2>1
<1> QED BY <1>11, <1>13

-----------------------------------------------------------------------------
(* What the rows hold.                                                     *)

\* A score, or none yet.
Scores == Nat \cup {Null}
\* The rows of the event and game tables.
EventRows == [mode: AllModes, lineup: Seq(Rosters), round: Nat, rounds: Nat \ {0},
              limit: Nat, deleted: BOOLEAN]
GameRows == [id: Nat, round: Nat \ {0}, sides: Rosters \X Rosters, score: Scores \X Scores,
             over: BOOLEAN, cancelled: BOOLEAN, attached: BOOLEAN]

\* A list that join let in.
FitLineup(lineup) == lineup \in Seq(Rosters) /\ Disjoint(lineup) /\ Sized(lineup)

\* An event whose list of teams fits.
Entered == {e \in EventRows : FitLineup(e.lineup)}
\* Sides without a common player, and games between them.
FairPairs == {pair \in Rosters \X Rosters : pair[1] \cap pair[2] = {}}
FairGames == {g \in GameRows : g.sides \in FairPairs}
\* What a request holds between two awaits.
Holdings == [event: EventRows, games: SUBSET Nat, todo: Seq(FairPairs), rows: SUBSET FairGames]

\* A fair game stays one when it is scored, ended, cancelled, detached or attached.
LEMMA GameRowFacts ==
  ASSUME NEW g \in FairGames
  PROVE  /\ g.id \in Nat /\ g.round \in Nat \ {0} /\ g.sides \in FairPairs
         /\ g.score \in Scores \X Scores /\ g.over \in BOOLEAN /\ g.cancelled \in BOOLEAN
         /\ \A x \in BOOLEAN : [g EXCEPT !.attached = x] \in FairGames
                               /\ [g EXCEPT !.cancelled = x] \in FairGames
         /\ \A s \in Scores \X Scores : [g EXCEPT !.score = s, !.over = TRUE] \in FairGames
         /\ \A s \in Scores \X Scores, x \in BOOLEAN :
              [g EXCEPT !.score = s, !.over = TRUE, !.attached = x] \in FairGames
  BY DEF FairGames, GameRows

\* The game created for a fair pair is a fair game.
LEMMA NewGameFits ==
  ASSUME NEW id \in Nat, NEW n \in Nat \ {0}, NEW pair \in FairPairs
  PROVE  NewGame(id, n, pair) \in FairGames
  BY DEF NewGame, FairGames, FairPairs, GameRows, Scores

\* The columns of an event that fits, and the changes it survives.
LEMMA EventRowFacts ==
  ASSUME NEW e \in Entered
  PROVE  /\ e \in EventRows /\ FitLineup(e.lineup) /\ e.lineup \in Seq(Rosters)
         /\ e.mode \in AllModes /\ e.round \in Nat /\ e.rounds \in Nat \ {0}
         /\ e.limit \in Nat /\ e.deleted \in BOOLEAN
         /\ [e EXCEPT !.deleted = TRUE] \in Entered
         /\ [e EXCEPT !.round = @ + 1] \in Entered
         /\ \A n \in Nat \ {0} : [e EXCEPT !.rounds = n] \in Entered
         /\ \A lineup \in Seq(Rosters) :
              FitLineup(lineup) => [e EXCEPT !.lineup = lineup] \in Entered
         /\ \A mode \in AllModes, rounds \in Nat \ {0}, limit \in Nat :
              [e EXCEPT !.mode = mode, !.rounds = rounds, !.limit = limit] \in Entered
<1>1. /\ e \in EventRows /\ FitLineup(e.lineup) /\ e.lineup \in Seq(Rosters)
      /\ e.mode \in AllModes /\ e.round \in Nat /\ e.rounds \in Nat \ {0}
      /\ e.limit \in Nat /\ e.deleted \in BOOLEAN
  BY DEF Entered, EventRows
<1>2. [e EXCEPT !.deleted = TRUE] \in Entered
  BY <1>1 DEF Entered, EventRows
<1>3. [e EXCEPT !.round = @ + 1] \in Entered
  BY <1>1 DEF Entered, EventRows
<1>4. ASSUME NEW n \in Nat \ {0} PROVE [e EXCEPT !.rounds = n] \in Entered
  BY <1>1 DEF Entered, EventRows
<1>5. ASSUME NEW lineup \in Seq(Rosters), FitLineup(lineup)
      PROVE  [e EXCEPT !.lineup = lineup] \in Entered
  BY <1>1, <1>5 DEF Entered, EventRows
<1>6. ASSUME NEW mode \in AllModes, NEW rounds \in Nat \ {0}, NEW limit \in Nat
      PROVE  [e EXCEPT !.mode = mode, !.rounds = rounds, !.limit = limit] \in Entered
  BY <1>1 DEF Entered, EventRows
<1> QED BY <1>1, <1>2, <1>3, <1>4, <1>5, <1>6

\* An idle request holds a blank event and nothing else.
LEMMA BlankIsRow == BlankEvent \in EventRows
  BY DEF BlankEvent, EventRows, AllModes, NoLimit

\* What a request holds before its first read is a holding.
LEMMA NothingIsHeld == Nothing \in Holdings
  BY BlankIsRow DEF Nothing, Holdings

\* RoundRobinRounds counts at least one round.
LEMMA RoundRobinCounts ==
  ASSUME NEW n \in Nat
  PROVE  RoundRobinRounds(n) \in Nat \ {0}
  BY DEF RoundRobinRounds

\* A list stays one that join lets in when a free team is added, or when some leave.
LEMMA AppendFits ==
  ASSUME NEW lineup, FitLineup(lineup), NEW team \in Rosters,
         team \cap Playing(lineup) = {}, Cardinality(team) = TeamSize
  PROVE  FitLineup(Append(lineup, team))
<1> DEFINE v == Append(lineup, team)
           n == Len(lineup)
<1>1. /\ lineup \in Seq(Rosters) /\ n \in Nat
      /\ v \in Seq(Rosters) /\ Len(v) = n + 1 /\ v[n + 1] = team
      /\ \A i \in 1..n : v[i] = lineup[i]
      /\ DOMAIN v = 1..Len(v) /\ DOMAIN lineup = 1..n
  BY AppendProperties DEF FitLineup
<1> HIDE DEF v
<1>2. ASSUME NEW i \in 1..Len(v)
      PROVE  (i = n + 1 /\ v[i] = team) \/ (i \in 1..n /\ v[i] = lineup[i])
  BY <1>1
<1>3. \A i \in 1..n : lineup[i] \cap team = {} /\ team \cap lineup[i] = {}
  BY <1>1 DEF Playing, Teams, ToSet
<1>4. Disjoint(v)
  BY <1>1, <1>2, <1>3 DEF Disjoint, FitLineup
<1>5. Sized(v)
  BY <1>1, <1>2 DEF Sized, FitLineup
<1> QED BY <1>1, <1>4, <1>5 DEF FitLineup, v

\* Teams that share no player, as a relation: what a list and its draws spread.
Apart == {p \in Rosters \X Rosters : p[1] \cap p[2] = {}}

\* A list of disjoint teams spreads them.
LEMMA DisjointSpreads ==
  ASSUME NEW lineup \in Seq(Rosters)
  PROVE  Disjoint(lineup) <=> Spread(Apart, lineup)
<1>1. DOMAIN lineup = 1..Len(lineup) /\ \A i \in 1..Len(lineup) : lineup[i] \in Rosters
  OBVIOUS
<1> QED BY <1>1 DEF Disjoint, Spread, Apart

\* A list stays one that join lets in when a team leaves.
LEMMA WithoutFits ==
  ASSUME NEW lineup, FitLineup(lineup), NEW u
  PROVE  FitLineup(Without(u, lineup))
<1> DEFINE w == Without(u, lineup)
<1>1. lineup \in Seq(Rosters) /\ Len(lineup) \in Nat /\ DOMAIN lineup = 1..Len(lineup)
  BY DEF FitLineup
<1>2. /\ w \in Seq(Rosters) /\ Len(w) <= Len(lineup)
      /\ \A i \in 1..Len(w) : \E j \in 1..Len(lineup) : w[i] = lineup[j]
      /\ Spread(Apart, lineup) => Spread(Apart, w)
  BY <1>1, WithoutFacts
<1> HIDE DEF w
<1>3. DOMAIN w = 1..Len(w) /\ Len(w) \in Nat
  BY <1>2
<1>4. Disjoint(w)
  BY <1>1, <1>2, DisjointSpreads DEF FitLineup
<1>5. Sized(w)
  BY <1>1, <1>2, <1>3 DEF Sized, FitLineup
<1> QED BY <1>2, <1>4, <1>5 DEF FitLineup, w

-----------------------------------------------------------------------------
\* The games that matchmaking looks at are finite in number and have scores.
LEMMA PlayedIsScored ==
  ASSUME games \in Seq(FairGames), NEW n
  PROVE  IsScored(Played(n))
<1> DEFINE D == {j \in Attached : games[j].round < n /\ Scored(games[j])}
           f == [i \in D |-> games[i]]
<1>1. DOMAIN games = 1..Len(games) /\ Len(games) \in Nat
      /\ \A i \in 1..Len(games) : games[i] \in FairGames
  OBVIOUS
<1>2. D \in SUBSET (1..Len(games))
  BY <1>1 DEF Attached
<1>3. IsFiniteSet(D)
  <2>1. IsFiniteSet(1..Len(games))
    BY <1>1, FS_Interval
  <2> HIDE DEF D
  <2> QED BY <1>2, <2>1, FS_Subset
<1>4. Played(n) = {games[i] : i \in D}
  BY DEF Played
<1> HIDE DEF D
<1>5. f \in Surjection(D, Played(n))
  <2>1. f \in [D -> Played(n)] /\ \A t \in Played(n) : \E s \in D : f[s] = t
    BY <1>4
  <2> HIDE DEF f
  <2> QED BY <2>1, Fun_IsSurj
<1>6. IsFiniteSet(Played(n))
  <2> HIDE DEF f
  <2> QED BY <1>3, <1>5, FS_Surjection
<1>7. ASSUME NEW g \in Played(n) PROVE g.score[1] \in Int /\ g.score[2] \in Int
  <2>1. g \in FairGames
    BY <1>1, <1>2, <1>4
  <2>2. g.score \in Scores \X Scores
    BY <2>1, GameRowFacts
  <2>3. Scores \subseteq Int
    BY DEF Scores, Null
  <2> QED BY <2>2, <2>3
<1> QED BY <1>6, <1>7 DEF IsScored

\* startRound's draw is a draw of the event's list, in either mode.
LEMMA DrawFacts ==
  ASSUME games \in Seq(FairGames), NEW e \in Entered, NEW n, NEW R
  PROVE  Drawn(R, Rosters, e.lineup, Draw(e, n))
<1>1. e.lineup \in Seq(Rosters)
  BY EventRowFacts
<1>2. IsScored(Played(n))
  BY PlayedIsScored
<1> QED BY <1>1, <1>2, MatchupsFacts, TournamentMatchupsFacts DEF Draw

\* It pairs half of the teams, and no player is drawn twice.
LEMMA DrawIsFair ==
  ASSUME games \in Seq(FairGames), NEW e \in Entered, NEW n
  PROVE  /\ Draw(e, n) \in Seq(FairPairs)
         /\ Len(Draw(e, n)) = Len(e.lineup) \div 2
         /\ DrawSpread(Apart, Draw(e, n))
<1> DEFINE d == Draw(e, n)
<1>1. Drawn(Apart, Rosters, e.lineup, d)
  BY DrawFacts
<1> HIDE DEF d
<1>2. d \in Seq(Rosters \X Rosters) /\ Len(d) = Len(e.lineup) \div 2
  BY <1>1 DEF Drawn
<1>3. DrawSpread(Apart, d)
  <2>1. FitLineup(e.lineup)
    BY EventRowFacts
  <2> QED BY <1>1, <2>1, DisjointSpreads DEF FitLineup, Drawn
<1>4. DOMAIN d = 1..Len(d) /\ Len(d) \in Nat /\ d \in [1..Len(d) -> Rosters \X Rosters]
  BY <1>2, LenProperties
<1>5. ASSUME NEW k \in 1..Len(d) PROVE d[k] \in FairPairs
  <2>1. d[k] \in Rosters \X Rosters /\ <<d[k][1], d[k][2]>> \in Apart
    <3>1. d[k] \in Rosters \X Rosters
      BY <1>4
    <3>2. k \in DOMAIN d /\ 1 \in {1, 2} /\ 2 \in {1, 2} /\ 1 # 2
      BY <1>4
    <3> QED BY <1>3, <3>1, <3>2 DEF DrawSpread
  <2> QED BY <2>1 DEF Apart, FairPairs
<1>6. d \in Seq(FairPairs)
  <2>1. d \in [1..Len(d) -> FairPairs]
    BY <1>4, <1>5
  <2> QED BY <1>4, <2>1, IsASeq
<1> QED BY <1>2, <1>3, <1>6 DEF d

-----------------------------------------------------------------------------
\* The awaits of startRound, from which games are still to be created.
Planning == {"saveRounds", "saveRound", "createGame"}

\* The inductive invariant: every list of teams, in the row or held by a request
\* that will save it, fits, and so does every game, created, planned or loaded.
EntriesInv ==
  /\ event \in Entered
  /\ games \in Seq(FairGames)
  /\ clock \in {"open", "closed", "ended"}
  /\ had \in SUBSET Nat
  /\ pc \in [Requests -> PC]
  /\ local \in [Requests -> Holdings]
  /\ \A p \in Requests : pc[p] # "idle" => local[p].event \in Entered
  /\ \A p \in Requests : pc[p] \in Planning => local[p].todo # <<>>
  /\ \A p \in Requests : pc[p] = "createGame" => local[p].event.round > 0

\* Games are numbered from 1.
LEMMA AttachedIsNat ==
  ASSUME games \in Seq(FairGames)
  PROVE  Attached \in SUBSET Nat /\ Attached \subseteq DOMAIN games /\ DOMAIN games = 1..Len(games)
         /\ Len(games) \in Nat /\ \A i \in DOMAIN games : games[i] \in FairGames
<1>1. DOMAIN games = 1..Len(games) /\ Len(games) \in Nat /\ games \in [1..Len(games) -> FairGames]
  BY LenProperties
<1> QED BY <1>1 DEF Attached

\* A request that suspends with an event that fits keeps the invariant.
LEMMA HoldKeeps ==
  ASSUME EntriesInv, NEW p \in Requests, NEW label \in PC, NEW e \in Entered,
         NEW todo \in Seq(FairPairs), NEW rows \in SUBSET FairGames,
         label \in Planning => todo # <<>>, label # "createGame",
         Hold(p, label, e, todo, rows)
  PROVE  EntriesInv'
<1> DEFINE h == [event |-> e, games |-> Attached, todo |-> todo, rows |-> rows]
<1>1. h \in Holdings /\ h.event = e /\ h.todo = todo
  BY AttachedIsNat, EventRowFacts DEF Holdings, EntriesInv
<1> HIDE DEF h
<1>2. /\ pc' = [pc EXCEPT ![p] = label] /\ local' = [local EXCEPT ![p] = h]
      /\ event' = event /\ games' = games /\ clock' = clock /\ had' = had
  BY DEF Hold, h
<1>3. pc' \in [Requests -> PC] /\ local' \in [Requests -> Holdings]
  BY <1>1, <1>2 DEF EntriesInv
<1>4. ASSUME NEW q \in Requests
      PROVE  /\ pc'[q] # "idle" => local'[q].event \in Entered
             /\ pc'[q] \in Planning => local'[q].todo # <<>>
             /\ pc'[q] = "createGame" => local'[q].event.round > 0
  <2>1. CASE q = p
    <3>1. pc'[q] = label /\ local'[q] = h
      BY <1>2, <2>1 DEF EntriesInv
    <3> QED BY <1>1, <3>1
  <2>2. CASE q # p
    <3>1. pc'[q] = pc[q] /\ local'[q] = local[q]
      BY <1>2, <2>2 DEF EntriesInv
    <3> QED BY <3>1 DEF EntriesInv
  <2> QED BY <2>1, <2>2
<1> QED BY <1>2, <1>3, <1>4 DEF EntriesInv

\* So does one that returns.
LEMMA ReturnKeeps ==
  ASSUME EntriesInv, NEW p \in Requests, Return(p), event' \in Entered,
         games' \in Seq(FairGames), clock' = clock, had' \in SUBSET Nat
  PROVE  EntriesInv'
<1>1. pc' = [pc EXCEPT ![p] = "idle"] /\ local' = [local EXCEPT ![p] = Nothing]
  BY DEF Return
<1>2. pc' \in [Requests -> PC] /\ local' \in [Requests -> Holdings]
  <2>1. "idle" \in PC
    BY DEF PC
  <2> QED BY <1>1, <2>1, NothingIsHeld DEF EntriesInv
<1>3. ASSUME NEW q \in Requests
      PROVE  /\ pc'[q] # "idle" => local'[q].event \in Entered
             /\ pc'[q] \in Planning => local'[q].todo # <<>>
             /\ pc'[q] = "createGame" => local'[q].event.round > 0
  <2>1. CASE q = p
    BY <1>1, <2>1 DEF EntriesInv, Planning
  <2>2. CASE q # p
    <3>1. pc'[q] = pc[q] /\ local'[q] = local[q]
      BY <1>1, <2>2 DEF EntriesInv
    <3> QED BY <3>1 DEF EntriesInv
  <2> QED BY <2>1, <2>2
<1>4. clock' \in {"open", "closed", "ended"}
  BY DEF EntriesInv
<1> QED BY <1>2, <1>3, <1>4 DEF EntriesInv

\* Saving an event that fits leaves a row and games that do.
LEMMA SaveKeeps ==
  ASSUME games \in Seq(FairGames), had \in SUBSET Nat, NEW e \in Entered, NEW loaded,
         Save(e, loaded)
  PROVE  event' \in Entered /\ games' \in Seq(FairGames) /\ had' \in SUBSET Nat
<1>1. DOMAIN games = 1..Len(games) /\ Len(games) \in Nat /\ \A i \in DOMAIN games : games[i] \in FairGames
  BY AttachedIsNat
<1>2. \A i \in 1..Len(games) : [games[i] EXCEPT !.attached = i \in loaded] \in FairGames
  <2>1. ASSUME NEW i \in 1..Len(games)
        PROVE  [games[i] EXCEPT !.attached = i \in loaded] \in FairGames
    <3>1. (i \in loaded) \in BOOLEAN
      OBVIOUS
    <3> QED BY <1>1, <3>1, GameRowFacts
  <2> QED BY <2>1
<1>3. games' = [i \in 1..Len(games) |-> [games[i] EXCEPT !.attached = i \in loaded]]
  BY <1>1 DEF Save
<1>4. games' \in [1..Len(games) -> FairGames]
  BY <1>2, <1>3
<1>5. games' \in Seq(FairGames)
  BY <1>1, <1>4, IsASeq
<1>6. had' \in SUBSET Nat
  BY EventRowFacts DEF Save
<1> QED BY <1>5, <1>6 DEF Save

\* The first step of each operation keeps the invariant.
LEMMA AskFits ==
  ASSUME EntriesInv, NEW p \in Requests, Ask(p)
  PROVE  EntriesInv'
<1>0. /\ event \in Entered /\ games \in Seq(FairGames) /\ <<>> \in Seq(FairPairs)
      /\ {} \in SUBSET FairGames /\ FitLineup(event.lineup) /\ event.lineup \in Seq(Rosters)
      /\ event.rounds \in Nat \ {0} /\ event.round \in Nat
  <2>1. event \in Entered /\ games \in Seq(FairGames)
    BY DEF EntriesInv
  <2>2. <<>> \in Seq(FairPairs) /\ {} \in SUBSET FairGames
    OBVIOUS
  <2> QED BY <2>1, <2>2, EventRowFacts
<1>1. CASE Join(p)
  <2>1. PICK team \in Rosters :
          /\ team \cap Playing(event.lineup) = {} /\ Cardinality(team) = TeamSize
          /\ event.limit # NoLimit => Len(event.lineup) < event.limit
          /\ Hold(p, "save", [event EXCEPT !.lineup = Append(@, team)], <<>>, {})
    BY <1>1 DEF Join
  <2>2. FitLineup(Append(event.lineup, team))
    BY <1>0, <2>1, AppendFits
  <2>3. [event EXCEPT !.lineup = Append(@, team)] \in Entered
    <3>1. Append(event.lineup, team) \in Seq(Rosters)
      BY <2>2 DEF FitLineup
    <3> QED BY <1>0, <2>2, <3>1, EventRowFacts
  <2>4. "save" \in PC /\ "save" \notin Planning /\ "save" # "createGame"
    BY DEF PC, Planning
  <2> QED BY <1>0, <2>1, <2>3, <2>4, HoldKeeps
<1>2. CASE Leave(p)
  <2>1. PICK u : Hold(p, "save", [event EXCEPT !.lineup = Without(u, @)], <<>>, {})
    BY <1>2 DEF Leave
  <2>2. [event EXCEPT !.lineup = Without(u, @)] \in Entered
    <3>1. FitLineup(Without(u, event.lineup))
      BY <1>0, WithoutFits
    <3>2. Without(u, event.lineup) \in Seq(Rosters)
      BY <3>1 DEF FitLineup
    <3> QED BY <1>0, <3>1, <3>2, EventRowFacts
  <2>3. "save" \in PC /\ "save" \notin Planning /\ "save" # "createGame"
    BY DEF PC, Planning
  <2> QED BY <1>0, <2>1, <2>2, <2>3, HoldKeeps
<1>3. CASE Update(p)
  <2>1. PICK mode \in Modes, rounds \in RoundCounts \cup {event.rounds},
             limit \in Limits \cup {NoLimit} :
          Hold(p, "save", [event EXCEPT !.mode = mode, !.rounds = rounds, !.limit = limit], <<>>, {})
    BY <1>3 DEF Update
  <2>2. mode \in AllModes /\ rounds \in Nat \ {0} /\ limit \in Nat
    BY <1>0, EventAssumption DEF NoLimit
  <2>3. [event EXCEPT !.mode = mode, !.rounds = rounds, !.limit = limit] \in Entered
    BY <1>0, <2>2, EventRowFacts
  <2>4. "save" \in PC /\ "save" \notin Planning /\ "save" # "createGame"
    BY DEF PC, Planning
  <2> QED BY <1>0, <2>1, <2>3, <2>4, HoldKeeps
<1>4. CASE Picture(p)
  <2>1. "saveRow" \in PC /\ "saveRow" \notin Planning /\ "saveRow" # "createGame"
    BY DEF PC, Planning
  <2> QED BY <1>0, <1>4, <2>1, HoldKeeps DEF Picture
<1>5. CASE Delete(p)
  <2>1. "softDelete" \in PC /\ "softDelete" \notin Planning /\ "softDelete" # "createGame"
    BY DEF PC, Planning
  <2> QED BY <1>0, <1>5, <2>1, HoldKeeps DEF Delete
<1>6. CASE StartRound(p)
  <2> DEFINE n == event.round + 1
             sized == event.mode = "free_for_all" /\ n = 1
             e == IF sized THEN [event EXCEPT !.rounds = RoundRobinRounds(Len(event.lineup))]
                  ELSE event
             label == IF sized THEN "saveRounds" ELSE "saveRound"
  <2>1. Len(event.lineup) >= 2 /\ Hold(p, label, e, Draw(e, n), {})
    BY <1>6 DEF StartRound
  <2>2. e \in Entered /\ Len(e.lineup) >= 2
    <3>1. RoundRobinRounds(Len(event.lineup)) \in Nat \ {0}
      <4>1. Len(event.lineup) \in Nat
        BY <1>0, LenProperties
      <4> QED BY <4>1, RoundRobinCounts
    <3>2. [event EXCEPT !.rounds = RoundRobinRounds(Len(event.lineup))] \in Entered
      BY <1>0, <3>1, EventRowFacts
    <3>3. [event EXCEPT !.rounds = RoundRobinRounds(Len(event.lineup))].lineup = event.lineup
      BY <1>0 DEF Entered, EventRows
    <3> QED BY <1>0, <2>1, <3>2, <3>3
  <2> HIDE DEF e, n
  <2>3. Draw(e, n) \in Seq(FairPairs) /\ Len(Draw(e, n)) = Len(e.lineup) \div 2
    BY <1>0, <2>2, DrawIsFair
  <2>4. Draw(e, n) # <<>>
    <3>1. e.lineup \in Seq(Rosters)
      BY <2>2, EventRowFacts
    <3>2. Len(e.lineup) \in Nat
      BY <3>1, LenProperties
    <3>3. \A k \in Nat : k >= 2 => k \div 2 # 0
      OBVIOUS
    <3>4. Len(<<>>) = 0
      OBVIOUS
    <3> QED BY <2>2, <2>3, <3>2, <3>3, <3>4
  <2>5. label \in PC /\ label # "createGame"
    BY DEF PC
  <2> HIDE DEF label
  <2> QED BY <1>0, <2>1, <2>2, <2>3, <2>4, <2>5, HoldKeeps
<1>7. CASE EndRound(p)
  <2> DEFINE current == {games[i] : i \in {j \in InRound(event.round) : ~games[j].cancelled}}
  <2>1. Hold(p, "saveGames", event, <<>>, current)
    BY <1>7 DEF EndRound
  <2>2. current \in SUBSET FairGames
    BY <1>0, AttachedIsNat DEF InRound
  <2> HIDE DEF current
  <2>3. "saveGames" \in PC /\ "saveGames" \notin Planning /\ "saveGames" # "createGame"
    BY DEF PC, Planning
  <2> QED BY <1>0, <2>1, <2>2, <2>3, HoldKeeps
<1> QED BY <1>1, <1>2, <1>3, <1>4, <1>5, <1>6, <1>7 DEF Ask

\* So does every later step, and a failure.
LEMMA ProceedFits ==
  ASSUME EntriesInv, NEW p \in Requests, Proceed(p) \/ Fail(p)
  PROVE  EntriesInv'
<1>0. /\ event \in Entered /\ games \in Seq(FairGames) /\ local[p] \in Holdings
      /\ pc[p] \in PC /\ had \in SUBSET Nat
      /\ pc[p] # "idle" => local[p].event \in Entered
  BY DEF EntriesInv
<1>1. CASE EventSave(p)
  <2>1. local[p].event \in Entered /\ Save(local[p].event, local[p].games) /\ Return(p) /\ clock' = clock
    BY <1>0, <1>1 DEF EventSave
  <2> QED BY <1>0, <2>1, SaveKeeps, ReturnKeeps
<1>2. CASE RowSave(p)
  <2>1. event' \in Entered /\ games' \in Seq(FairGames) /\ Return(p) /\ clock' = clock
        /\ had' \in SUBSET Nat
    BY <1>0, <1>2, EventRowFacts DEF RowSave
  <2> QED BY <2>1, ReturnKeeps
<1>3. CASE SoftDelete(p)
  <2>1. event' \in Entered /\ games' \in Seq(FairGames) /\ Return(p) /\ clock' = clock
        /\ had' = had
    BY <1>0, <1>3, EventRowFacts DEF SoftDelete
  <2> QED BY <1>0, <2>1, ReturnKeeps
<1>4. CASE SaveRounds(p)
  <2>1. local[p].event \in Entered /\ Save(local[p].event, local[p].games) /\ clock' = clock
        /\ pc[p] = "saveRounds"
    BY <1>0, <1>4 DEF SaveRounds
  <2>2. event' \in Entered /\ games' \in Seq(FairGames) /\ had' \in SUBSET Nat
    BY <1>0, <2>1, SaveKeeps
  <2>3. CASE Return(p)
    BY <2>1, <2>2, <2>3, ReturnKeeps
  <2>4. CASE Goto(p, "saveRound")
    <3>1. pc' = [pc EXCEPT ![p] = "saveRound"] /\ local' = local
      BY <2>4 DEF Goto
    <3>2. pc' \in [Requests -> PC] /\ local' \in [Requests -> Holdings]
      <4>1. "saveRound" \in PC
        BY DEF PC
      <4> QED BY <3>1, <4>1 DEF EntriesInv
    <3>3. \A q \in Requests : /\ pc'[q] # "idle" => local'[q].event \in Entered
                              /\ pc'[q] \in Planning => local'[q].todo # <<>>
                              /\ pc'[q] = "createGame" => local'[q].event.round > 0
      BY <2>1, <3>1 DEF EntriesInv, Planning
    <3> QED BY <2>1, <2>2, <3>2, <3>3 DEF EntriesInv
  <2> QED BY <1>4, <2>3, <2>4 DEF SaveRounds
<1>5. CASE SaveRound(p)
  <2> DEFINE e == [local[p].event EXCEPT !.round = @ + 1]
             h == [local[p] EXCEPT !.event.round = @ + 1]
  <2>1. /\ local[p].event \in Entered /\ Save(e, local[p].games) /\ clock' = clock
        /\ pc[p] = "saveRound" /\ local' = [local EXCEPT ![p] = h]
        /\ pc' = [pc EXCEPT ![p] = "createGame"]
    BY <1>0, <1>5 DEF SaveRound
  <2>2. e \in Entered
    BY <2>1, EventRowFacts
  <2>3. event' \in Entered /\ games' \in Seq(FairGames) /\ had' \in SUBSET Nat
    BY <1>0, <2>1, <2>2, SaveKeeps
  <2>4. h = [local[p] EXCEPT !.event = e]
    BY <1>0 DEF Holdings
  <2>5. h \in Holdings /\ h.event = e /\ h.todo = local[p].todo
    <3> HIDE DEF e, h
    <3> QED BY <1>0, <2>2, <2>4, EventRowFacts DEF Holdings
  <2> HIDE DEF e, h
  <2>6. pc' \in [Requests -> PC] /\ local' \in [Requests -> Holdings]
    <3>1. "createGame" \in PC
      BY DEF PC
    <3> QED BY <2>1, <2>5, <3>1 DEF EntriesInv
  <2>7. ASSUME NEW q \in Requests
        PROVE  /\ pc'[q] # "idle" => local'[q].event \in Entered
               /\ pc'[q] \in Planning => local'[q].todo # <<>>
               /\ pc'[q] = "createGame" => local'[q].event.round > 0
    <3>1. CASE q = p
      <4>1. local'[q] = h
        BY <2>1, <3>1 DEF EntriesInv
      <4>2. local[p].todo # <<>>
        BY <2>1 DEF EntriesInv, Planning
      <4>3. e.round > 0
        <5>1. local[p].event.round \in Nat /\ e.round = local[p].event.round + 1
          BY <2>1 DEF e, Entered, EventRows
        <5> QED BY <5>1
      <4> QED BY <2>2, <2>5, <4>1, <4>2, <4>3
    <3>2. CASE q # p
      <4>1. pc'[q] = pc[q] /\ local'[q] = local[q]
        BY <2>1, <3>2 DEF EntriesInv
      <4> QED BY <4>1 DEF EntriesInv
    <3> QED BY <3>1, <3>2
  <2>8. clock' \in {"open", "closed", "ended"}
    BY <2>1 DEF EntriesInv
  <2> QED BY <2>3, <2>6, <2>7, <2>8 DEF EntriesInv
<1>6. CASE CreateGame(p)
  <2> DEFINE todo == local[p].todo
             h == [local[p] EXCEPT !.todo = Tail(@)]
             g == NewGame(Len(games) + 1, local[p].event.round, Head(todo))
  <2>1. /\ pc[p] = "createGame" /\ games' = Append(games, g) /\ event' = event /\ clock' = clock
        /\ had' = had
        /\ IF Len(todo) > 1 THEN local' = [local EXCEPT ![p] = h] /\ pc' = pc ELSE Return(p)
    BY <1>6 DEF CreateGame
  <2>2. /\ todo \in Seq(FairPairs) /\ todo # <<>> /\ Head(todo) \in FairPairs
        /\ Tail(todo) \in Seq(FairPairs)
        /\ Len(todo) > 1 => Tail(todo) # <<>>
    <3>1. todo \in Seq(FairPairs) /\ todo # <<>>
      BY <1>0, <2>1 DEF EntriesInv, Planning, Holdings
    <3>2. Head(todo) \in FairPairs /\ Tail(todo) \in Seq(FairPairs) /\ Len(Tail(todo)) = Len(todo) - 1
      BY <3>1, HeadTailProperties
    <3> HIDE DEF todo
    <3>3. Len(todo) \in Nat /\ Len(<<>>) = 0
      BY <3>1, LenProperties
    <3>4. ASSUME Len(todo) > 1 PROVE Tail(todo) # <<>>
      <4>1. Len(Tail(todo)) # 0
        BY <3>2, <3>3, <3>4
      <4> QED BY <3>3, <4>1
    <3> QED BY <3>1, <3>2, <3>4
  <2>3. g \in FairGames
    <3>1. Len(games) + 1 \in Nat /\ local[p].event \in Entered
      BY <1>0, <2>1, AttachedIsNat
    <3>2. local[p].event.round \in Nat \ {0}
      <4>1. local[p].event.round \in Nat /\ local[p].event.round > 0
        BY <2>1, <3>1, EventRowFacts DEF EntriesInv
      <4> QED BY <4>1
    <3> QED BY <2>2, <3>1, <3>2, NewGameFits
  <2>4. games' \in Seq(FairGames)
    <3> HIDE DEF g
    <3> QED BY <1>0, <2>1, <2>3, AppendProperties
  <2> HIDE DEF g
  <2>5. event' \in Entered /\ clock' \in {"open", "closed", "ended"} /\ had' \in SUBSET Nat
    BY <1>0, <2>1 DEF EntriesInv
  <2>6. CASE Return(p)
    BY <2>1, <2>4, <2>5, <2>6, ReturnKeeps
  <2>7. CASE Len(todo) > 1 /\ local' = [local EXCEPT ![p] = h] /\ pc' = pc
    <3>1. h \in Holdings /\ h.event = local[p].event /\ h.todo # <<>>
      BY <1>0, <2>2, <2>7 DEF Holdings
    <3> HIDE DEF h
    <3>2. pc' \in [Requests -> PC] /\ local' \in [Requests -> Holdings]
      BY <2>7, <3>1 DEF EntriesInv
    <3>3. ASSUME NEW q \in Requests
          PROVE  /\ pc'[q] # "idle" => local'[q].event \in Entered
                 /\ pc'[q] \in Planning => local'[q].todo # <<>>
                 /\ pc'[q] = "createGame" => local'[q].event.round > 0
      <4>1. pc'[q] = pc[q] /\ local'[q] = IF q = p THEN h ELSE local[q]
        BY <2>7 DEF EntriesInv
      <4> QED BY <3>1, <4>1 DEF EntriesInv
    <3> QED BY <2>4, <2>5, <3>2, <3>3 DEF EntriesInv
  <2> QED BY <2>1, <2>6, <2>7
<1>7. CASE SaveGames(p)
  <2> DEFINE rows == local[p].rows
             row(i) == CHOOSE r \in rows : r.id = i
             score(r) == [k \in 1..2 |-> IF r.score[k] = Null THEN 0 ELSE r.score[k]]
             saved(i) == [row(i) EXCEPT !.score = [k \in 1..2 |-> IF @[k] = Null THEN 0 ELSE @[k]],
                                        !.over = TRUE, !.attached = games[i].attached]
             now(i) == IF \E r \in rows : r.id = i THEN saved(i) ELSE games[i]
  <2>1. Return(p) /\ event' = event /\ clock' = clock /\ had' = had
        /\ games' = [i \in DOMAIN games |-> now(i)]
    BY <1>7 DEF SaveGames
  <2>2. rows \in SUBSET FairGames
    BY <1>0 DEF Holdings
  <2>3. ASSUME NEW r \in FairGames
        PROVE  score(r) \in Scores \X Scores
    <3>1. r.score \in Scores \X Scores
      BY GameRowFacts
    <3> QED BY <3>1 DEF Scores, Null
  <2>4. ASSUME NEW i \in DOMAIN games PROVE now(i) \in FairGames
    <3>1. games[i] \in FairGames /\ games[i].attached \in BOOLEAN
      BY <1>0, AttachedIsNat DEF FairGames, GameRows
    <3>2. CASE \E r \in rows : r.id = i
      <4>1. row(i) \in FairGames
        BY <2>2, <3>2
      <4> HIDE DEF row, rows
      <4>2. score(row(i)) \in Scores \X Scores
        BY <2>3, <4>1
      <4>3. saved(i) = [row(i) EXCEPT !.score = score(row(i)), !.over = TRUE, !.attached = games[i].attached]
        OBVIOUS
      <4> HIDE DEF saved, score
      <4>4. saved(i) \in FairGames
        <5> DEFINE r == row(i)
                   sc == score(row(i))
                   x == games[i].attached
        <5>1. r \in FairGames /\ sc \in Scores \X Scores /\ x \in BOOLEAN
              /\ saved(i) = [r EXCEPT !.score = sc, !.over = TRUE, !.attached = x]
          BY <3>1, <4>1, <4>2, <4>3
        <5> HIDE DEF r, sc, x
        <5>2. [r EXCEPT !.score = sc, !.over = TRUE, !.attached = x] \in FairGames
          BY <5>1, GameRowFacts
        <5> QED BY <5>1, <5>2
      <4> QED BY <3>2, <4>4
    <3> HIDE DEF saved, rows
    <3> QED BY <3>1, <3>2
  <2> HIDE DEF now
  <2>5. games' \in Seq(FairGames)
    <3>1. DOMAIN games = 1..Len(games) /\ Len(games) \in Nat
      BY <1>0, AttachedIsNat
    <3>2. games' \in [1..Len(games) -> FairGames]
      BY <2>1, <2>4, <3>1
    <3> QED BY <3>1, <3>2, IsASeq
  <2> QED BY <1>0, <2>1, <2>5, ReturnKeeps
<1>8. CASE Fail(p)
  <2>1. event' \in Entered /\ games' \in Seq(FairGames) /\ Return(p) /\ clock' = clock
        /\ had' \in SUBSET Nat
    BY <1>0, <1>8 DEF Fail
  <2> QED BY <2>1, ReturnKeeps
<1> QED BY <1>1, <1>2, <1>3, <1>4, <1>5, <1>6, <1>7, <1>8 DEF Proceed


\* So do a game that is played or cancelled and the passing of time.
LEMMA PlayFits ==
  ASSUME EntriesInv, Play \/ Tick
  PROVE  EntriesInv'
<1>1. CASE Tick
  <2>1. clock' \in {"open", "closed", "ended"} /\ event' = event /\ games' = games
        /\ pc' = pc /\ local' = local /\ had' = had
    BY <1>1 DEF Tick, EntriesInv
  <2> QED BY <2>1 DEF EntriesInv, Planning
<1>2. CASE Play
  <2>1. PICK i \in DOMAIN games :
          \/ \E s \in Results : games' = [games EXCEPT ![i].score = s, ![i].over = TRUE]
          \/ games' = [games EXCEPT ![i].cancelled = TRUE]
    BY <1>2 DEF Play
  <2>2. /\ DOMAIN games = 1..Len(games) /\ Len(games) \in Nat
        /\ \A j \in DOMAIN games : games[j] \in FairGames
        /\ games \in [1..Len(games) -> FairGames]
    <3>1. games \in Seq(FairGames)
      BY DEF EntriesInv
    <3> QED BY <3>1, AttachedIsNat
  <2>3. PICK g \in FairGames : games' = [games EXCEPT ![i] = g]
    <3>1. CASE \E s \in Results : games' = [games EXCEPT ![i].score = s, ![i].over = TRUE]
      <4>1. PICK s \in Results : games' = [games EXCEPT ![i].score = s, ![i].over = TRUE]
        BY <3>1
      <4>2. s \in Scores \X Scores
        BY EventAssumption DEF Scores
      <4>3. games[i] \in FairGames
        BY <2>2
      <4>4. [games[i] EXCEPT !.score = s, !.over = TRUE] \in FairGames
        BY <4>2, <4>3, GameRowFacts
      <4>5. games' = [games EXCEPT ![i] = [games[i] EXCEPT !.score = s, !.over = TRUE]]
        BY <2>2, <4>1
      <4> QED BY <4>4, <4>5
    <3>2. CASE games' = [games EXCEPT ![i].cancelled = TRUE]
      <4>1. [games[i] EXCEPT !.cancelled = TRUE] \in FairGames
        <5>1. games[i] \in FairGames
          BY <2>2
        <5> QED BY <5>1, GameRowFacts
      <4>2. games' = [games EXCEPT ![i] = [games[i] EXCEPT !.cancelled = TRUE]]
        BY <2>2, <3>2
      <4> QED BY <4>1, <4>2
    <3> QED BY <2>1, <3>1, <3>2
  <2>4. games' \in Seq(FairGames)
    <3>1. games' \in [1..Len(games) -> FairGames]
      BY <2>2, <2>3
    <3> QED BY <2>2, <3>1, IsASeq
  <2>5. event' = event /\ clock' = clock /\ pc' = pc /\ local' = local /\ had' = had
    BY <1>2 DEF Play
  <2> QED BY <2>4, <2>5 DEF EntriesInv, Planning
<1> QED BY <1>1, <1>2

\* The invariant holds initially, is kept by every step, and says what is to be shown.
LEMMA EntriesStart == ASSUME Init PROVE EntriesInv
<1>1. PICK mode \in Modes, rounds \in RoundCounts, limit \in Limits, lineup \in Lineups :
        /\ limit # NoLimit => Len(lineup) <= limit
        /\ event = [mode |-> mode, lineup |-> lineup, round |-> 0, rounds |-> rounds,
                    limit |-> limit, deleted |-> FALSE]
  BY DEF Init
<1>2. FitLineup(lineup)
  BY <1>1, EventAssumption DEF FitLineup
<1>3. event \in Entered
  BY <1>1, <1>2, EventAssumption DEF Entered, EventRows, FitLineup
<1>4. games \in Seq(FairGames) /\ clock \in {"open", "closed", "ended"}
  BY DEF Init
<1>6. had \in SUBSET Nat
  <2>1. event.limit \in Nat /\ had = {event.limit}
    BY <1>3, EventRowFacts DEF Init
  <2> QED BY <2>1
<1>5. /\ pc \in [Requests -> PC] /\ local \in [Requests -> Holdings]
      /\ \A p \in Requests : pc[p] = "idle"
  <2>1. "idle" \in PC
    BY DEF PC
  <2> QED BY <2>1, NothingIsHeld DEF Init
<1> QED BY <1>3, <1>4, <1>5, <1>6 DEF EntriesInv, Planning

\* Every step keeps the invariant.
LEMMA EntriesStep == ASSUME EntriesInv, [Next]_vars PROVE EntriesInv'
<1>1. CASE UNCHANGED vars
  BY <1>1 DEF vars, EntriesInv
<1>2. CASE Next
  BY <1>2, AskFits, ProceedFits, PlayFits DEF Next
<1> QED BY <1>1, <1>2

\* What it says of the rows.
LEMMA EntriesHold == ASSUME EntriesInv PROVE TypeOK /\ EntriesFit
<1>1. event \in EventRows /\ FitLineup(event.lineup)
  BY DEF EntriesInv, Entered
<1>2. EntriesFit
  <2>1. \A i \in DOMAIN games : games[i].sides[1] \cap games[i].sides[2] = {}
    <3>1. ASSUME NEW i \in DOMAIN games PROVE games[i].sides[1] \cap games[i].sides[2] = {}
      <4>1. games[i] \in FairGames
        BY AttachedIsNat DEF EntriesInv
      <4> QED BY <4>1 DEF FairGames, FairPairs
    <3> QED BY <3>1
  <2> QED BY <1>1, <2>1 DEF EntriesFit, FitLineup
<1>3. FairGames \subseteq GameRows /\ FairPairs \subseteq Rosters \X Rosters
  BY DEF FairGames, FairPairs
<1>4. games \in Seq(GameRows)
  BY <1>3, SeqMonotonic DEF EntriesInv
<1>5. Holdings \subseteq [event: EventRows, games: SUBSET Nat,
                          todo: Seq(Rosters \X Rosters), rows: SUBSET GameRows]
  <2>1. Seq(FairPairs) \subseteq Seq(Rosters \X Rosters)
    BY <1>3, SeqMonotonic
  <2>2. SUBSET FairGames \subseteq SUBSET GameRows
    BY <1>3
  <2> QED BY <2>1, <2>2 DEF Holdings
<1>6. TypeOK
  <2>1. clock \in {"open", "closed", "ended"} /\ pc \in [Requests -> PC] /\ had \subseteq Nat
    BY DEF EntriesInv
  <2>2. local \in [Requests -> [event: EventRows, games: SUBSET Nat,
                          todo: Seq(Rosters \X Rosters), rows: SUBSET GameRows]]
    BY <1>5 DEF EntriesInv
  <2> QED BY <1>1, <1>4, <2>1, <2>2 DEF TypeOK, EventRows, GameRows, Scores
<1> QED BY <1>2, <1>6

\* However joins, leaves, updates, rounds and deletions overlap, nobody is entered
\* twice, and no game has a player on both sides.
THEOREM EntriesFitAlways == Spec => []EntriesFit
<1>1. Init => EntriesInv
  BY EntriesStart
<1>2. EntriesInv /\ [Next]_vars => EntriesInv'
  BY EntriesStep
<1>3. EntriesInv => EntriesFit
  BY EntriesHold
<1> QED BY <1>1, <1>2, <1>3, PTL DEF Spec

\* The variables keep their types.
THEOREM RoundsTypeOK == Spec => []TypeOK
<1>1. Init => EntriesInv
  BY EntriesStart
<1>2. EntriesInv /\ [Next]_vars => EntriesInv'
  BY EntriesStep
<1>3. EntriesInv => TypeOK
  BY EntriesHold
<1> QED BY <1>1, <1>2, <1>3, PTL DEF Spec

-----------------------------------------------------------------------------
(* The limits the event has had.                                           *)

\* No more teams than one of those limits allows.
InLimit(lineup) == NoLimit \notin had => \E limit \in had : Len(lineup) <= limit

\* Every list that is in the row, or that a request will write back, was within a
\* limit the row has had; a request that sets another limit has not added a team.
LimitInv ==
  /\ event.limit \in had
  /\ InLimit(event.lineup)
  /\ \A p \in Requests : pc[p] # "idle" => InLimit(local[p].event.lineup)

\* A list within a limit stays so whatever other limits the row gets.
LEMMA MoreLimits ==
  ASSUME had \subseteq had', NEW lineup, InLimit(lineup)
  PROVE  NoLimit \notin had' => \E limit \in had' : Len(lineup) <= limit
BY DEF InLimit

\* A request that suspends with a list within a limit keeps the invariant.
LEMMA HoldInLimit ==
  ASSUME EntriesInv, LimitInv, NEW p \in Requests, NEW label, NEW e, NEW todo, NEW rows,
         InLimit(e.lineup), Hold(p, label, e, todo, rows)
  PROVE  LimitInv'
<1>1. event' = event /\ had' = had /\ pc' = [pc EXCEPT ![p] = label]
      /\ \A q \in Requests : local'[q].event = IF q = p THEN e ELSE local[q].event
  BY DEF Hold, EntriesInv
<1>2. \A q \in Requests : q # p => pc'[q] = pc[q]
  BY <1>1 DEF EntriesInv
<1> QED BY <1>1, <1>2 DEF LimitInv, InLimit

\* So does one that writes a row whose list is within a limit, and one that writes none.
LEMMA WriteInLimit ==
  ASSUME EntriesInv, LimitInv, NEW e, InLimit(e.lineup), event' = e,
         had' = had \cup {e.limit},
         \A q \in Requests : pc'[q] # "idle" =>
           pc[q] # "idle" /\ local'[q].event.lineup = local[q].event.lineup
  PROVE  LimitInv'
<1>1. had \subseteq had' /\ event'.limit \in had'
  OBVIOUS
<1>2. NoLimit \notin had' => \E limit \in had' : Len(event'.lineup) <= limit
  BY <1>1, MoreLimits
<1>3. ASSUME NEW q \in Requests, pc'[q] # "idle"
      PROVE  NoLimit \notin had' => \E limit \in had' : Len(local'[q].event.lineup) <= limit
  <2>1. InLimit(local[q].event.lineup) /\ local'[q].event.lineup = local[q].event.lineup
    BY <1>3 DEF LimitInv
  <2> QED BY <1>1, <2>1, MoreLimits
<1> QED BY <1>1, <1>2, <1>3 DEF LimitInv, InLimit

\* The row is within a limit from the beginning.
LEMMA LimitStart == ASSUME Init PROVE LimitInv
<1>1. PICK mode \in Modes, rounds \in RoundCounts, limit \in Limits, lineup \in Lineups :
        /\ limit # NoLimit => Len(lineup) <= limit
        /\ event = [mode |-> mode, lineup |-> lineup, round |-> 0, rounds |-> rounds,
                    limit |-> limit, deleted |-> FALSE]
  BY DEF Init
<1>2. had = {limit} /\ event.limit = limit /\ event.lineup = lineup
      /\ \A p \in Requests : pc[p] = "idle"
  BY <1>1 DEF Init
<1> QED BY <1>1, <1>2 DEF LimitInv, InLimit

\* The first step of a request holds a list within a limit: join adds a team only
\* where there is room.
LEMMA AskInLimit ==
  ASSUME EntriesInv, LimitInv, NEW p \in Requests, Ask(p)
  PROVE  LimitInv'
<1>0. event \in EventRows /\ event.lineup \in Seq(Rosters) /\ FitLineup(event.lineup)
      /\ event.limit \in had /\ InLimit(event.lineup) /\ Len(event.lineup) \in Nat
      /\ event.limit \in Nat
  <2>1. event \in Entered
    BY DEF EntriesInv
  <2> QED BY <2>1, EventRowFacts, LenProperties DEF LimitInv
<1>1. CASE Join(p)
  <2>1. PICK team \in Rosters :
          /\ event.limit # NoLimit => Len(event.lineup) < event.limit
          /\ Hold(p, "save", [event EXCEPT !.lineup = Append(@, team)], <<>>, {})
    BY <1>1 DEF Join
  <2>2. Len(Append(event.lineup, team)) = Len(event.lineup) + 1
    BY <1>0, AppendProperties
  <2>3. InLimit(Append(event.lineup, team))
    BY <1>0, <2>1, <2>2 DEF InLimit
  <2>4. [event EXCEPT !.lineup = Append(@, team)].lineup = Append(event.lineup, team)
    BY <1>0 DEF EventRows
  <2> QED BY <2>1, <2>3, <2>4, HoldInLimit
<1>2. CASE Leave(p)
  <2>1. PICK u : Hold(p, "save", [event EXCEPT !.lineup = Without(u, @)], <<>>, {})
    BY <1>2 DEF Leave
  <2>2. Without(u, event.lineup) \in Seq(Rosters)
        /\ Len(Without(u, event.lineup)) <= Len(event.lineup)
    BY <1>0, WithoutFacts
  <2>3. InLimit(Without(u, event.lineup))
    <3>1. had \subseteq Nat /\ Len(Without(u, event.lineup)) \in Nat
      BY <2>2, LenProperties DEF EntriesInv
    <3> QED BY <1>0, <2>2, <3>1 DEF InLimit
  <2>4. [event EXCEPT !.lineup = Without(u, @)].lineup = Without(u, event.lineup)
    BY <1>0 DEF EventRows
  <2> QED BY <2>1, <2>3, <2>4, HoldInLimit
<1>3. CASE Update(p)
  <2>1. PICK mode, rounds, limit :
          Hold(p, "save", [event EXCEPT !.mode = mode, !.rounds = rounds, !.limit = limit], <<>>, {})
    BY <1>3 DEF Update
  <2>2. [event EXCEPT !.mode = mode, !.rounds = rounds, !.limit = limit].lineup = event.lineup
    BY <1>0 DEF EventRows
  <2> QED BY <1>0, <2>1, <2>2, HoldInLimit
<1>4. CASE Picture(p) \/ Delete(p)
  BY <1>0, <1>4, HoldInLimit DEF Picture, Delete
<1>5. CASE StartRound(p)
  <2>1. PICK label, e, todo : Hold(p, label, e, todo, {}) /\ e.lineup = event.lineup
    <3> DEFINE n == event.round + 1
               sized == event.mode = "free_for_all" /\ n = 1
               e == IF sized THEN [event EXCEPT !.rounds = RoundRobinRounds(Len(event.lineup))]
                    ELSE event
               label == IF sized THEN "saveRounds" ELSE "saveRound"
    <3>1. Hold(p, label, e, Draw(e, n), {})
      BY <1>5 DEF StartRound
    <3>2. e.lineup = event.lineup
      BY <1>0 DEF EventRows
    <3> HIDE DEF e, label, n
    <3> QED BY <3>1, <3>2
  <2>2. InLimit(e.lineup)
    BY <1>0, <2>1
  <2> QED BY <2>1, <2>2, HoldInLimit
<1>6. CASE EndRound(p)
  <2>1. PICK rows : Hold(p, "saveGames", event, <<>>, rows)
    BY <1>6 DEF EndRound
  <2> QED BY <1>0, <2>1, HoldInLimit
<1> QED BY <1>1, <1>2, <1>3, <1>4, <1>5, <1>6 DEF Ask

\* The later steps write back what they hold, or leave the row's list alone.
LEMMA ProceedInLimit ==
  ASSUME EntriesInv, LimitInv, NEW p \in Requests, Proceed(p) \/ Fail(p)
  PROVE  LimitInv'
<1>0. pc \in [Requests -> PC] /\ local \in [Requests -> Holdings]
      /\ event \in EventRows /\ had = had \cup {event.limit} /\ InLimit(event.lineup)
  BY DEF EntriesInv, LimitInv, Entered
<1>r. ASSUME Return(p), NEW q \in Requests, pc'[q] # "idle"
      PROVE  pc[q] # "idle" /\ local'[q].event.lineup = local[q].event.lineup
  <2>1. q # p
    BY <1>0, <1>r DEF Return
  <2> QED BY <1>0, <1>r, <2>1 DEF Return
<1>1. CASE EventSave(p) \/ RowSave(p)
  <2>1. /\ event' = local[p].event /\ had' = had \cup {local[p].event.limit}
        /\ Return(p) /\ InLimit(local[p].event.lineup)
    BY <1>1 DEF EventSave, RowSave, Save, LimitInv
  <2> QED BY <1>r, <2>1, WriteInLimit
<1>2. CASE SoftDelete(p)
  <2> DEFINE e == [event EXCEPT !.deleted = TRUE]
  <2>1. event' = e /\ had' = had /\ Return(p) /\ e.lineup = event.lineup /\ e.limit = event.limit
    BY <1>0, <1>2 DEF SoftDelete, EventRows
  <2> HIDE DEF e
  <2>2. InLimit(e.lineup) /\ had' = had \cup {e.limit}
    BY <1>0, <2>1
  <2> QED BY <1>r, <2>1, <2>2, WriteInLimit
<1>3. CASE SaveRounds(p)
  <2>1. /\ event' = local[p].event /\ had' = had \cup {local[p].event.limit}
        /\ InLimit(local[p].event.lineup) /\ pc[p] # "idle"
    BY <1>3 DEF SaveRounds, Save, LimitInv
  <2>2. ASSUME NEW q \in Requests, pc'[q] # "idle"
        PROVE  pc[q] # "idle" /\ local'[q].event.lineup = local[q].event.lineup
    <3>1. CASE Return(p)
      BY <1>r, <2>2, <3>1
    <3>2. CASE Goto(p, "saveRound")
      BY <1>0, <2>1, <2>2, <3>2 DEF Goto
    <3> QED BY <1>3, <3>1, <3>2 DEF SaveRounds
  <2> QED BY <2>1, <2>2, WriteInLimit
<1>4. CASE SaveRound(p)
  <2> DEFINE e == [local[p].event EXCEPT !.round = @ + 1]
  <2>1. /\ event' = e /\ had' = had \cup {e.limit} /\ pc[p] # "idle"
        /\ local' = [local EXCEPT ![p].event.round = @ + 1]
        /\ pc' = [pc EXCEPT ![p] = "createGame"]
    BY <1>4 DEF SaveRound, Save
  <2>2. local[p].event \in EventRows /\ e.lineup = local[p].event.lineup
    BY <1>0 DEF Holdings, EventRows
  <2>3. InLimit(e.lineup)
    BY <2>1, <2>2 DEF LimitInv
  <2>4. ASSUME NEW q \in Requests, pc'[q] # "idle"
        PROVE  pc[q] # "idle" /\ local'[q].event.lineup = local[q].event.lineup
    <3>1. CASE q = p
      BY <1>0, <2>1, <2>2, <3>1 DEF Holdings, EventRows
    <3>2. CASE q # p
      BY <1>0, <2>1, <2>4, <3>2
    <3> QED BY <3>1, <3>2
  <2> HIDE DEF e
  <2> QED BY <2>1, <2>3, <2>4, WriteInLimit
<1>5. CASE CreateGame(p)
  <2>1. event' = event /\ had' = had /\ pc[p] # "idle"
    BY <1>5 DEF CreateGame
  <2>2. ASSUME NEW q \in Requests, pc'[q] # "idle"
        PROVE  pc[q] # "idle" /\ local'[q].event.lineup = local[q].event.lineup
    <3>1. CASE Return(p)
      BY <1>r, <2>2, <3>1
    <3>2. CASE local' = [local EXCEPT ![p].todo = Tail(@)] /\ pc' = pc
      BY <1>0, <2>2, <3>2 DEF Holdings
    <3> QED BY <1>5, <3>1, <3>2 DEF CreateGame
  <2> QED BY <1>0, <2>1, <2>2, WriteInLimit
<1>6. CASE SaveGames(p) \/ Fail(p)
  <2>1. event' = event /\ had' = had /\ Return(p)
    BY <1>6 DEF SaveGames, Fail
  <2> QED BY <1>0, <1>r, <2>1, WriteInLimit
<1> QED BY <1>1, <1>2, <1>3, <1>4, <1>5, <1>6 DEF Proceed

\* Every step keeps the invariant.
LEMMA LimitStep ==
  ASSUME EntriesInv, LimitInv, [Next]_vars
  PROVE  LimitInv'
<1>1. CASE UNCHANGED vars
  BY <1>1 DEF vars, LimitInv, InLimit
<1>2. CASE Play \/ Tick
  <2>1. event' = event /\ had' = had /\ pc' = pc /\ local' = local
    BY <1>2 DEF Play, Tick
  <2> QED BY <2>1 DEF LimitInv, InLimit
<1> QED BY <1>1, <1>2, AskInLimit, ProceedInLimit DEF Next

\* An event that has always had a limit never has more teams entered than the
\* largest it has had, for any teams, limits and number of joins that overlap.
THEOREM NeverOverfullAlways == Spec => []NeverOverfull
<1>1. Init => EntriesInv /\ LimitInv
  BY EntriesStart, LimitStart
<1>2. EntriesInv /\ LimitInv /\ [Next]_vars => (EntriesInv /\ LimitInv)'
  BY EntriesStep, LimitStep
<1>3. LimitInv => NeverOverfull
  BY DEF LimitInv, InLimit, NeverOverfull
<1> QED BY <1>1, <1>2, <1>3, PTL DEF Spec

-----------------------------------------------------------------------------
(* Every draw that startRound could make is complete.                      *)

\* Two teams, as a relation.
Different == {p \in Rosters \X Rosters : p[1] # p[2]}

\* The teams of a list that fits differ: they share no player, and have some.
LEMMA TeamsDiffer ==
  ASSUME NEW lineup, FitLineup(lineup)
  PROVE  Spread(Different, lineup)
<1>1. /\ lineup \in [1..Len(lineup) -> Rosters] /\ DOMAIN lineup = 1..Len(lineup)
      /\ Disjoint(lineup) /\ Sized(lineup)
  BY LenProperties DEF FitLineup
<1>2. ASSUME NEW i \in DOMAIN lineup, NEW j \in DOMAIN lineup, i # j
      PROVE  lineup[i] # lineup[j]
  <2>1. SUFFICES ASSUME lineup[i] = lineup[j] PROVE FALSE
    OBVIOUS
  <2>2. lineup[i] = {}
    BY <1>1, <1>2, <2>1 DEF Disjoint
  <2>3. Cardinality(lineup[i]) # 0
    BY <1>1, EventAssumption DEF Sized
  <2> QED BY <2>2, <2>3, FS_EmptySet
<1> QED BY <1>1, <1>2 DEF Spread, Different

\* Pairs of different teams have two sides each, counted once.
LEMMA DistinctSides ==
  ASSUME NEW d \in Seq(Rosters \X Rosters), DrawSpread(Different, d)
  PROVE  Cardinality(Sides(d)) = 2 * Len(d)
<1> DEFINE n == Len(d)
           P == (1..n) \X (1..2)
           f == [c \in P |-> d[c[1]][c[2]]]
<1>1. n \in Nat /\ DOMAIN d = 1..n /\ \A k \in 1..n : d[k] \in Rosters \X Rosters
  <2>1. d \in [1..n -> Rosters \X Rosters] /\ n \in Nat
    BY LenProperties
  <2> QED BY <2>1
<1>2. IsFiniteSet(P) /\ Cardinality(P) = 2 * n
  <2>1. IsFiniteSet(1..n) /\ Cardinality(1..n) = n
    BY <1>1, FS_Interval
  <2>2. IsFiniteSet(1..2) /\ Cardinality(1..2) = 2
    <3>1. 1 \in Int /\ 2 \in Int
      OBVIOUS
    <3>2. IsFiniteSet(1..2) /\ Cardinality(1..2) = IF 1 > 2 THEN 0 ELSE 2 - 1 + 1
      BY <3>1, FS_Interval, Zenon
    <3> QED BY <3>2
  <2>3. IsFiniteSet(P) /\ Cardinality(P) = Cardinality(1..n) * Cardinality(1..2)
    BY <2>1, <2>2, FS_Product
  <2> QED BY <1>1, <2>1, <2>2, <2>3
<1>3. ToSet(d) = {d[k] : k \in 1..n}
  BY <1>1 DEF ToSet
<1>4. f \in [P -> Sides(d)]
  BY <1>3 DEF Sides
<1>5. \A t \in Sides(d) : \E c \in P : f[c] = t
  <2>1. ASSUME NEW t \in Sides(d) PROVE \E c \in P : f[c] = t
    <3>1. PICK k \in 1..n, a \in 1..2 : t = d[k][a]
      BY <1>3 DEF Sides
    <3>2. <<k, a>> \in P /\ f[<<k, a>>] = t
      BY <3>1
    <3> QED BY <3>2
  <2> QED BY <2>1
<1>6. \A b, c \in P : f[b] = f[c] => b = c
  <2>1. ASSUME NEW b \in P, NEW c \in P, f[b] = f[c], b # c PROVE FALSE
    <3>1. PICK k \in 1..n, a \in 1..2 : b = <<k, a>>
      OBVIOUS
    <3>2. PICK l \in 1..n, e \in 1..2 : c = <<l, e>>
      OBVIOUS
    <3>3. k # l \/ a # e
      BY <2>1, <3>1, <3>2
    <3>4. a \in {1, 2} /\ e \in {1, 2}
      OBVIOUS
    <3>5. <<d[k][a], d[l][e]>> \in Different
      BY <1>1, <3>3, <3>4 DEF DrawSpread
    <3>6. d[k][a] = d[l][e]
      BY <2>1, <3>1, <3>2
    <3> QED BY <3>5, <3>6 DEF Different
  <2> QED BY <2>1
<1> HIDE DEF f, P
<1>7. ExistsBijection(P, Sides(d))
  <2>1. f \in Bijection(P, Sides(d))
    BY <1>4, <1>5, <1>6, Fun_IsBij
  <2> QED BY <2>1 DEF ExistsBijection
<1> QED BY <1>2, <1>7, FS_Bijection

\* What the invariant says of the draw startRound would make.
LEMMA DrawsAreComplete == ASSUME EntriesInv PROVE DrawComplete
<1> DEFINE d == Draw(event, event.round + 1)
           lineup == event.lineup
<1>1. event \in Entered /\ FitLineup(lineup) /\ games \in Seq(FairGames)
  BY DEF EntriesInv, Entered
<1>2. Drawn(Different, Rosters, lineup, d)
  BY <1>1, DrawFacts
<1>3. d \in Seq(Rosters \X Rosters) /\ Len(d) = Len(lineup) \div 2 /\ DrawSpread(Different, d)
  BY <1>1, <1>2, TeamsDiffer DEF Drawn
<1>4. Cardinality(Sides(d)) = 2 * Len(d)
  BY <1>3, DistinctSides
<1>5. Sides(d) \subseteq Teams(lineup)
  <2>1. ASSUME NEW t \in Sides(d) PROVE t \in Teams(lineup)
    <3> HIDE DEF d
    <3>1. DOMAIN d = 1..Len(d) /\ DOMAIN lineup = 1..Len(lineup)
      BY <1>1, <1>3, LenProperties DEF FitLineup
    <3>2. PICK k \in 1..Len(d), a \in 1..2 : t = d[k][a]
      BY <3>1 DEF Sides, ToSet
    <3>3. \E i \in 1..Len(lineup) : d[k][a] = lineup[i]
      <4>1. a \in {1, 2}
        OBVIOUS
      <4> QED BY <1>2, <4>1 DEF Drawn
    <3> QED BY <3>1, <3>2, <3>3 DEF Teams, ToSet
  <2> QED BY <2>1
<1> QED BY <1>3, <1>4, <1>5 DEF DrawComplete, NextDraw

\* A draw gives every team one game, and one sits out if they are odd in number,
\* whatever number of teams, mode, results and interleaving of the calls.
THEOREM DrawsComplete == Spec => []DrawComplete
<1>1. Init => EntriesInv
  BY EntriesStart
<1>2. EntriesInv /\ [Next]_vars => EntriesInv'
  BY EntriesStep
<1>3. EntriesInv => DrawComplete
  BY DrawsAreComplete
<1> QED BY <1>1, <1>2, <1>3, PTL DEF Spec
=============================================================================
