-------------------------------- MODULE Game --------------------------------
(***************************************************************************)
(* One row of the `game` table and everything that writes it: the handlers *)
(* of GamesController and GamesService, the hourly clean-up of             *)
(* GamesSchedulerService and the two operations of EventsService that      *)
(* write the games of an event (startRound, endRound).                     *)
(*                                                                         *)
(* The server is one Node thread and a PostgreSQL database without         *)
(* explicit transactions or locks: a handler runs without interruption     *)
(* from one awaited query to the next, each query is atomic, and between   *)
(* two queries any other handler may run. A handler is a process with a    *)
(* program counter, and keeps across an await exactly what the code keeps  *)
(* in its local variables. `update` writes the named columns of the row,   *)
(* if there still is a row. `save` of an entity that was loaded before     *)
(* writes back every column of it, the stale ones too, and inserts the row *)
(* again if it has been deleted.                                           *)
(***************************************************************************)
EXTENDS Integers, FiniteSets

CONSTANTS
  Users,        \* user accounts
  Admins,       \* those with an admin role
  Creator,      \* who creates the game (createdBy)
  TeamSize,     \* the game's type: 1 (1v1), 2, 3, 4 or 6
  Scores,       \* the scores a team may submit
  Invitations,  \* the participant lists a creation request may carry
  Rosters,      \* the line-ups of the divisions, or of an event's teams
  Requests,     \* HTTP requests that can be in flight at once
  Cron,         \* the scheduler's own flow of control
  Ops           \* the operations this instance exercises

AllOps == {"create", "startRound", "join", "leave", "ready", "score", "end",
           "cancel", "remove", "cron", "endRound", "fail"}

ASSUME GameAssumption ==
  /\ Admins \subseteq Users
  /\ Creator \in Users
  /\ TeamSize \in Nat \ {0}
  /\ Scores \subseteq Nat
  /\ Invitations \subseteq SUBSET Users
  /\ Rosters \subseteq SUBSET Users
  /\ Cron \notin Requests
  /\ Ops \subseteq AllOps

Team == {1, 2}
Null == -1      \* a nullable score column that is null
NoWinner == 0   \* a null winner column: a tie, or not decided
Procs == Requests \cup {Cron}

(***************************************************************************)
(* The scalar columns of a row. startTime and endTime matter only for      *)
(* being set; `stale` below says whether startTime is over an hour old.    *)
(***************************************************************************)
Row == [ready: [Team -> BOOLEAN], score: [Team -> Scores \cup {Null, 0}],
        started: BOOLEAN, ended: BOOLEAN, cancelled: BOOLEAN, winner: 0..2]

BlankRow ==
  [ready |-> [t \in Team |-> FALSE], score |-> [t \in Team |-> Null],
   started |-> FALSE, ended |-> FALSE, cancelled |-> FALSE, winner |-> NoWinner]

VARIABLES
  kind,          \* "none" (no row), "adhoc", "event" (has an event), or
                 \* "reborn": re-inserted with neither creator nor event
  row,           \* the scalar columns
  members,       \* team1Members and team2Members
  participants,  \* the flat list of players
  stale,         \* startTime lies more than an hour back
  pc,            \* the await at which each process stands
  arg,           \* the parameters it still needs
  snap,          \* the row as it read it, where it still needs that
  removed,       \* history: a removal has written to the row
  failed         \* history: some request died at an await

relations == <<members, participants>>
rest == <<kind, relations, stale, removed, failed>>
vars == <<kind, row, members, participants, stale, pc, arg, snap, removed, failed>>

Exists == kind # "none"
BothReady == \A t \in Team : row.ready[t]
AllScored == \A t \in Team : row.score[t] # Null
Playing == UNION {members[t] : t \in Team}

\* The first request about a game can only follow the answer to its creation:
\* until then nobody knows its id.
Known == Exists /\ \A p \in Requests : pc[p] # "createTeams"

NoArg == [team |-> 1, user |-> Creator, score |-> 0]

\* Mutant: the winner as the sign of the difference.
OutcomeAsSign(score) ==
  IF score[1] > score[2] THEN 1 ELSE IF score[2] > score[1] THEN -1 ELSE NoWinner

Outcome(score) ==
  IF score[1] > score[2] THEN 1 ELSE IF score[2] > score[1] THEN 2 ELSE NoWinner

OrZero(score) == [t \in Team |-> IF score[t] = Null THEN 0 ELSE score[t]]

Init ==
  /\ kind = "none"
  /\ row = BlankRow
  /\ members = [t \in Team |-> {}]
  /\ participants = {}
  /\ stale = FALSE
  /\ pc = [p \in Procs |-> "idle"]
  /\ arg = [p \in Procs |-> NoArg]
  /\ snap = [p \in Procs |-> BlankRow]
  /\ removed = FALSE
  /\ failed = FALSE

-----------------------------------------------------------------------------
(* Control flow of a process.                                              *)

Idle(p, op) == op \in Ops /\ pc[p] = "idle"

\* Go on to the next await, keeping parameters and snapshot.
Goto(p, label) == pc' = [pc EXCEPT ![p] = label] /\ UNCHANGED <<arg, snap>>

\* Suspend before a write that needs parameter a.
Await(p, label, a) ==
  /\ pc' = [pc EXCEPT ![p] = label]
  /\ arg' = [arg EXCEPT ![p] = a]
  /\ UNCHANGED snap

\* Suspend with the row as just read, or with its scores only.
Load(p, label, r) ==
  /\ pc' = [pc EXCEPT ![p] = label]
  /\ snap' = [snap EXCEPT ![p] = r]
  /\ UNCHANGED arg

ScoresOf(r) == [BlankRow EXCEPT !.score = r.score]

\* The handler answers, or throws.
Return(p) ==
  /\ pc' = [pc EXCEPT ![p] = "idle"]
  /\ arg' = [arg EXCEPT ![p] = NoArg]
  /\ snap' = [snap EXCEPT ![p] = BlankRow]

\* repository.update: sets columns of the row, if there is one.
Update(r) == row' = IF Exists THEN r ELSE row

-----------------------------------------------------------------------------
(* Creation.                                                               *)

\* create: the bare game is saved before its teams are known.
CreateBare(p) ==
  /\ Idle(p, "create")
  /\ kind = "none" /\ ~removed
  /\ kind' = "adhoc"
  /\ Goto(p, "createTeams")
  /\ UNCHANGED <<row, relations, stale, removed, failed>>

CreateFromDivisions(p) ==
  /\ pc[p] = "createTeams"
  /\ TeamSize # 1
  /\ \E r1, r2 \in Rosters :
       /\ Cardinality(r1) = TeamSize /\ Cardinality(r2) = TeamSize
       /\ members' = [t \in Team |-> IF t = 1 THEN r1 ELSE r2]
       /\ participants' = r1 \cup r2
  /\ Return(p)
  /\ UNCHANGED <<kind, row, stale, removed, failed>>

\* The listed participants join the teams later, or are dealt to them at random.
CreateFromInvitations(p) ==
  /\ pc[p] = "createTeams"
  /\ \E P \in Invitations :
       /\ participants' = P
       /\ \/ UNCHANGED members
          \/ \E half \in SUBSET P :
               /\ Cardinality(P) >= 2
               /\ Cardinality(half) = Cardinality(P) \div 2
               /\ members' = [t \in Team |-> IF t = 1 THEN half ELSE P \ half]
  /\ Return(p)
  /\ UNCHANGED <<kind, row, stale, removed, failed>>

\* No participants are listed, or a division is rejected: either way the bare
\* game stays.
CreateNobody(p) ==
  /\ pc[p] = "createTeams"
  /\ Return(p)
  /\ UNCHANGED <<kind, row, relations, stale, removed, failed>>

\* EventsService.startRound saves one complete game per pairing of two teams.
CreateForRound(p) ==
  /\ Idle(p, "startRound")
  /\ kind = "none" /\ ~removed
  /\ \E r1, r2 \in Rosters :
       /\ Cardinality(r1) = TeamSize /\ Cardinality(r2) = TeamSize
       /\ r1 \cap r2 = {}
       /\ members' = [t \in Team |-> IF t = 1 THEN r1 ELSE r2]
       /\ participants' = r1 \cup r2
  /\ kind' = "event"
  /\ UNCHANGED <<row, stale, pc, arg, snap, removed, failed>>

-----------------------------------------------------------------------------
(* Teams.                                                                  *)

JoinTeam(p) ==
  /\ Idle(p, "join") /\ Known
  /\ \E t \in Team, u \in Users :
       /\ u \in Admins \cup participants
       /\ u \notin Playing
       /\ Cardinality(members[t]) < TeamSize
       /\ Await(p, "joinAdd", [NoArg EXCEPT !.team = t, !.user = u])
  /\ UNCHANGED <<row, rest>>

\* A second row for the same member, or one for a deleted game, violates a key
\* and the request fails.
JoinAdd(p) ==
  /\ pc[p] = "joinAdd"
  /\ members' = IF Exists
                THEN [members EXCEPT ![arg[p].team] = @ \cup {arg[p].user}]
                ELSE members
  /\ Return(p)
  /\ UNCHANGED <<row, kind, participants, stale, removed, failed>>

LeaveTeam(p) ==
  /\ Idle(p, "leave") /\ Known
  /\ \E u \in Playing :
       Await(p, "leaveRemove",
             [NoArg EXCEPT !.team = IF u \in members[1] THEN 1 ELSE 2, !.user = u])
  /\ UNCHANGED <<row, rest>>

\* Mutant: leaving takes the team's declaration back.
LeaveRemoveUnready(p) ==
  /\ pc[p] = "leaveRemove"
  /\ members' = [members EXCEPT ![arg[p].team] = @ \ {arg[p].user}]
  /\ Update([row EXCEPT !.ready[arg[p].team] = FALSE])
  /\ Return(p)
  /\ UNCHANGED <<kind, participants, stale, removed, failed>>

LeaveRemove(p) ==
  /\ pc[p] = "leaveRemove"
  /\ members' = [members EXCEPT ![arg[p].team] = @ \ {arg[p].user}]
  /\ Return(p)
  /\ UNCHANGED <<row, kind, participants, stale, removed, failed>>

-----------------------------------------------------------------------------
(* Readiness: the handler of the second team's call starts the game.       *)

SetTeamReady(p) ==
  /\ Idle(p, "ready") /\ Known
  /\ \E t \in Team :
       /\ Admins \cup members[t] # {}
       /\ Cardinality(members[t]) = TeamSize
       /\ Await(p, "readyWrite", [NoArg EXCEPT !.team = t])
  /\ UNCHANGED <<row, rest>>

\* Mutant: the row is read back before the flag is written, not after.
ReadyWriteLate(p) ==
  /\ pc[p] = "readyWrite"
  /\ Update([row EXCEPT !.ready[arg[p].team] = TRUE])
  /\ IF BothReady THEN Goto(p, "startWrite") ELSE Return(p)
  /\ UNCHANGED rest

\* The decision to start is taken on what is read back after the write.
ReadyWrite(p) ==
  /\ pc[p] = "readyWrite"
  /\ Update([row EXCEPT !.ready[arg[p].team] = TRUE])
  /\ Goto(p, "readyReread")
  /\ UNCHANGED rest

ReadyReread(p) ==
  /\ pc[p] = "readyReread"
  /\ IF Exists /\ BothReady /\ ~row.started THEN Goto(p, "startWrite") ELSE Return(p)
  /\ UNCHANGED <<row, rest>>

StartGame(p) ==
  /\ pc[p] = "startWrite"
  /\ Update([row EXCEPT !.started = TRUE])
  /\ stale' = (stale /\ ~Exists)
  /\ Return(p)
  /\ UNCHANGED <<kind, relations, removed, failed>>

-----------------------------------------------------------------------------
(* Scores: the handler that finds both of them recorded ends the game.     *)

\* Mutant: no check that the game is ready.
UpdateTeamScoreUnready(p) ==
  /\ Idle(p, "score") /\ Known
  /\ ~row.ended /\ ~row.cancelled
  /\ \E t \in Team, s \in Scores :
       Await(p, "scoreWrite", [NoArg EXCEPT !.team = t, !.score = s])
  /\ UNCHANGED <<row, rest>>

UpdateTeamScore(p) ==
  /\ Idle(p, "score") /\ Known
  /\ BothReady /\ ~row.ended /\ ~row.cancelled
  /\ \E t \in Team, s \in Scores :
       /\ Admins \cup members[t] # {}
       /\ Await(p, "scoreWrite", [NoArg EXCEPT !.team = t, !.score = s])
  /\ UNCHANGED <<row, rest>>

\* Mutant: the row is read back before the score is written, not after.
ScoreWriteLate(p) ==
  /\ pc[p] = "scoreWrite"
  /\ Update([row EXCEPT !.score[arg[p].team] = arg[p].score])
  /\ IF AllScored THEN Goto(p, "endRead") ELSE Return(p)
  /\ UNCHANGED rest

ScoreWrite(p) ==
  /\ pc[p] = "scoreWrite"
  /\ Update([row EXCEPT !.score[arg[p].team] = arg[p].score])
  /\ Goto(p, "scoreReread")
  /\ UNCHANGED rest

ScoreReread(p) ==
  /\ pc[p] = "scoreReread"
  /\ IF Exists /\ AllScored THEN Goto(p, "endRead") ELSE Return(p)
  /\ UNCHANGED <<row, rest>>

-----------------------------------------------------------------------------
(* End: validated, then authorised, then carried out by endGame.           *)

EndValidate(p) ==
  /\ Idle(p, "end") /\ Known
  /\ BothReady
  /\ Goto(p, "endAuthorize")
  /\ UNCHANGED <<row, rest>>

EndAuthorize(p) ==
  /\ pc[p] = "endAuthorize"
  /\ \/ /\ Exists
        /\ kind # "reborn" \/ participants \cup Playing \cup Admins # {}
        /\ Goto(p, "endRead")
     \/ Return(p)
  /\ UNCHANGED <<row, rest>>

\* endGame reads the scores first ...
EndRead(p) ==
  /\ pc[p] = "endRead"
  /\ IF Exists THEN Load(p, "endWrite", ScoresOf(row)) ELSE Return(p)
  /\ UNCHANGED <<row, rest>>

\* Mutant: a score that is missing counts as 0.
EndWriteMissingIsZero(p) ==
  /\ pc[p] = "endWrite"
  /\ Update([row EXCEPT !.ended = TRUE, !.winner = Outcome(OrZero(snap[p].score))])
  /\ Return(p)
  /\ UNCHANGED rest

\* ... and then writes endTime, and the winner only if it read both scores.
EndWrite(p) ==
  /\ pc[p] = "endWrite"
  /\ LET score == snap[p].score IN
       Update([row EXCEPT
                 !.ended = TRUE,
                 !.winner = IF \A t \in Team : score[t] # Null THEN Outcome(score) ELSE @])
  /\ Return(p)
  /\ UNCHANGED rest

-----------------------------------------------------------------------------
(* Cancellation and removal.                                               *)

CancelValidate(p) ==
  /\ Idle(p, "cancel") /\ Known
  /\ kind \in {"adhoc", "event"}
  /\ Goto(p, "cancelSave")
  /\ UNCHANGED <<row, rest>>

\* save({id, isCancelled: true}) inserts a row where it finds none.
CancelSave(p) ==
  /\ pc[p] = "cancelSave"
  /\ row' = [(IF Exists THEN row ELSE BlankRow) EXCEPT !.cancelled = TRUE]
  /\ kind' = IF Exists THEN kind ELSE "reborn"
  /\ Return(p)
  /\ UNCHANGED <<relations, stale, removed, failed>>

RemoveAuthorize(p) ==
  /\ Idle(p, "remove") /\ Known
  /\ kind # "reborn" \/ Admins # {}
  /\ Goto(p, "removeLoad")
  /\ UNCHANGED <<row, rest>>

RemoveLoad(p) ==
  /\ pc[p] = "removeLoad"
  /\ IF Exists THEN Load(p, "removeSave", row) ELSE Return(p)
  /\ UNCHANGED <<row, rest>>

\* The loaded entity is saved with its three relations emptied, and with it
\* every column as it was when loaded.
RemoveSave(p) ==
  /\ pc[p] = "removeSave"
  /\ row' = snap[p]
  /\ kind' = IF Exists THEN kind ELSE "reborn"
  /\ members' = [t \in Team |-> {}]
  /\ participants' = {}
  /\ removed' = TRUE
  /\ Goto(p, "removeDelete")
  /\ UNCHANGED <<stale, failed>>

RemoveDelete(p) ==
  /\ pc[p] = "removeDelete"
  /\ kind' = "none"
  /\ row' = BlankRow
  /\ members' = [t \in Team |-> {}]
  /\ participants' = {}
  /\ stale' = FALSE
  /\ Return(p)
  /\ UNCHANGED <<removed, failed>>

-----------------------------------------------------------------------------
(* Closing from outside.                                                   *)

\* Mutant: only games without any score are taken for stale.
CronFindUnscored ==
  /\ Idle(Cron, "cron")
  /\ kind \in {"adhoc", "reborn"}
  /\ row.started /\ stale /\ ~row.ended /\ ~row.cancelled
  /\ \A t \in Team : row.score[t] = Null
  /\ Load(Cron, "cronClose", ScoresOf(row))
  /\ UNCHANGED <<row, rest>>

\* closeStaleUnfinishedGames: find the game ...
CronFind ==
  /\ Idle(Cron, "cron")
  /\ kind \in {"adhoc", "reborn"}
  /\ row.started /\ stale /\ ~row.ended /\ ~row.cancelled
  /\ Load(Cron, "cronClose", ScoresOf(row))
  /\ UNCHANGED <<row, rest>>

\* ... and, when its turn comes, write scores and winner from what was found.
CronClose ==
  /\ pc[Cron] = "cronClose"
  /\ LET score == OrZero(snap[Cron].score) IN
       Update([row EXCEPT !.score = score, !.ended = TRUE, !.winner = Outcome(score)])
  /\ Return(Cron)
  /\ UNCHANGED rest

\* EventsService.endRound loads the games of the event ...
EndRoundLoad(p) ==
  /\ Idle(p, "endRound") /\ Known
  /\ kind = "event"
  /\ ~row.cancelled
  /\ Load(p, "endRoundSave", row)
  /\ UNCHANGED <<row, rest>>

\* Mutant: the ready flags are left as they were.
EndRoundSaveUnready(p) ==
  /\ pc[p] = "endRoundSave"
  /\ row' = [snap[p] EXCEPT !.score = OrZero(@), !.started = TRUE, !.ended = TRUE]
  /\ kind' = IF Exists THEN kind ELSE "reborn"
  /\ stale' = (stale /\ snap[p].started)
  /\ Return(p)
  /\ UNCHANGED <<relations, removed, failed>>

\* Mutant: missing scores are left missing.
EndRoundSaveUnscored(p) ==
  /\ pc[p] = "endRoundSave"
  /\ row' = [snap[p] EXCEPT !.ready = [t \in Team |-> TRUE],
                            !.started = TRUE, !.ended = TRUE]
  /\ kind' = IF Exists THEN kind ELSE "reborn"
  /\ stale' = (stale /\ snap[p].started)
  /\ Return(p)
  /\ UNCHANGED <<relations, removed, failed>>

\* ... and saves them, ended, with missing scores 0 and the winner as it was.
EndRoundSave(p) ==
  /\ pc[p] = "endRoundSave"
  /\ row' = [snap[p] EXCEPT !.ready = [t \in Team |-> TRUE], !.score = OrZero(@),
                            !.started = TRUE, !.ended = TRUE]
  /\ kind' = IF Exists THEN kind ELSE "reborn"
  /\ stale' = (stale /\ snap[p].started)
  /\ Return(p)
  /\ UNCHANGED <<relations, removed, failed>>

-----------------------------------------------------------------------------
(* Environment.                                                            *)

\* An hour goes by since the start.
HourPasses ==
  /\ row.started /\ ~stale
  /\ stale' = TRUE
  /\ UNCHANGED <<kind, row, relations, pc, arg, snap, removed, failed>>

\* A query fails: the request answers 500 and leaves things as they are.
Fail(p) ==
  /\ "fail" \in Ops /\ pc[p] # "idle"
  /\ failed' = TRUE
  /\ Return(p)
  /\ UNCHANGED <<row, kind, relations, stale, removed>>

-----------------------------------------------------------------------------
\* What a user may ask for.
Ask(p) ==
  \/ CreateBare(p) \/ CreateForRound(p)
  \/ JoinTeam(p) \/ LeaveTeam(p) \/ SetTeamReady(p) \/ UpdateTeamScore(p)
  \/ EndValidate(p) \/ CancelValidate(p) \/ RemoveAuthorize(p) \/ EndRoundLoad(p)

\* How the server carries on with it.
Proceed(p) ==
  \/ CreateFromDivisions(p) \/ CreateFromInvitations(p) \/ CreateNobody(p)
  \/ JoinAdd(p) \/ LeaveRemove(p)
  \/ ReadyWrite(p) \/ ReadyReread(p) \/ StartGame(p)
  \/ ScoreWrite(p) \/ ScoreReread(p)
  \/ EndAuthorize(p) \/ EndRead(p) \/ EndWrite(p)
  \/ CancelSave(p) \/ RemoveLoad(p) \/ RemoveSave(p) \/ RemoveDelete(p)
  \/ EndRoundSave(p)

Next ==
  \/ \E p \in Requests : Ask(p) \/ Proceed(p)
  \/ \E p \in Procs : Fail(p)
  \/ CronFind \/ CronClose
  \/ HourPasses

Spec == Init /\ [][Next]_vars

\* Pending queries get their answer and the scheduler keeps firing; nobody is
\* obliged to ask for anything.
Fairness ==
  /\ \A p \in Requests : WF_vars(Proceed(p))
  /\ WF_vars(HourPasses) /\ WF_vars(CronFind) /\ WF_vars(CronClose)

FairSpec == Spec /\ Fairness

-----------------------------------------------------------------------------
(* Correctness.                                                            *)

\* Every handler that came in has answered.
Quiet == \A p \in Procs : pc[p] = "idle"

PC == {"idle", "createTeams", "joinAdd", "leaveRemove", "readyWrite", "readyReread",
       "startWrite", "scoreWrite", "scoreReread", "endAuthorize", "endRead", "endWrite",
       "cancelSave", "removeLoad", "removeSave", "removeDelete", "cronClose",
       "endRoundSave"}

\* The variables keep their types.
TypeOK ==
  /\ kind \in {"none", "adhoc", "event", "reborn"}
  /\ row \in Row
  /\ members \in [Team -> SUBSET Users]
  /\ participants \in SUBSET Users
  /\ stale \in BOOLEAN
  /\ pc \in [Procs -> PC]
  /\ arg \in [Procs -> [team: Team, user: Users, score: Scores \cup {0}]]
  /\ snap \in [Procs -> Row]
  /\ removed \in BOOLEAN
  /\ failed \in BOOLEAN

\* Nothing is played before both teams are ready: a game that has started, is
\* over or has a score was declared ready by both, although the guards of
\* updateTeamScore and endGame are evaluated on a row read long before the write.
PlayNeedsReadiness ==
  ~removed /\ (row.started \/ row.ended \/ \E t \in Team : row.score[t] # Null)
    => BothReady

\* A persisted winner, which the division and user statistics trust without
\* looking at the scores, is only ever found on a game that is over and has
\* both scores, whichever of score, end, cron and endRound wrote last.
WinnerNeedsScores ==
  ~removed /\ row.winner # NoWinner => row.ended /\ AllScored

\* The automatic start of setTeamReady is never lost: when two calls make the
\* teams ready at the same time, at least one of them sees both flags.
NoLostStart ==
  Quiet /\ ~removed /\ ~failed /\ BothReady => row.started

\* The automatic end of updateTeamScore is never lost: when the two scores come
\* in at the same time, at least one of the calls sees both.
NoLostEnd ==
  Quiet /\ ~removed /\ ~failed /\ AllScored => row.ended

\* The row, whatever overlaps on it, goes through the phases of GameLifecycle.
Phase ==
  CASE removed -> "gone"
    [] ~removed /\ ~Exists -> "none"
    [] ~removed /\ Exists /\ row.ended -> "over"
    [] ~removed /\ Exists /\ ~row.ended /\ BothReady -> "ready"
    [] ~removed /\ Exists /\ ~row.ended /\ ~BothReady -> "open"

Promise == INSTANCE GameLifecycle WITH
  phase   <- Phase,
  started <- ~removed /\ row.started,
  scored  <- {t \in Team : ~removed /\ row.score[t] # Null},
  winner  <- IF ~removed /\ row.winner # NoWinner THEN "decided" ELSE "nobody"

Lifecycle == Promise!Spec

\* Two ready teams get their game started (setTeamReady: "Auto-start game if
\* both teams ready").
ReadyGamesStart == BothReady ~> row.started

\* Two recorded scores end the game (updateTeamScore: "Auto-end game if both
\* scores submitted").
ScoredGamesEnd == AllScored ~> row.ended

\* A started ad-hoc game does not stay open for ever: the players, a
\* cancellation or the hourly cron take it off the list of active games.
StartedGamesClose == kind = "adhoc" /\ row.started ~> row.ended \/ row.cancelled

\* The persisted winner is the one the scores name (game.entity.ts: "1 = team1
\* won, 2 = team2 won, null = tie or not finished") once nothing is in flight.
WinnerMatchesScores ==
  Quiet /\ ~removed /\ row.ended /\ AllScored => row.winner = Outcome(row.score)
=============================================================================
