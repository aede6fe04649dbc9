----------------------------- MODULE GameProofs -----------------------------
(***************************************************************************)
(* What holds of a game's row for every set of users, every team size and  *)
(* any number of requests in flight: types, the two safety invariants, no  *)
(* lost start or end, and the refinement of GameLifecycle. The inductive   *)
(* invariant is Safe, below; KeptStep is what makes stale saves harmless.  *)
(***************************************************************************)
EXTENDS Game, TLAPS

(***************************************************************************)
(* Types.                                                                  *)
(***************************************************************************)

ProcType ==
  /\ pc \in [Procs -> PC]
  /\ arg \in [Procs -> [team: Team, user: Users, score: Scores \cup {0}]]
  /\ snap \in [Procs -> Row]

\* The row that creation inserts is well typed.
LEMMA BlankType == BlankRow \in Row
BY DEF BlankRow, Row, NoWinner

\* Computing a winner gives 0 (null), 1 or 2.
LEMMA OutcomeType ==
  ASSUME NEW score
  PROVE  Outcome(score) \in 0..2
BY DEF Outcome, NoWinner

\* Filling in missing scores leaves a well typed pair with none missing.
LEMMA OrZeroType ==
  ASSUME NEW score \in [Team -> Scores \cup {Null, 0}]
  PROVE  /\ OrZero(score) \in [Team -> Scores \cup {Null, 0}]
         /\ \A t \in Team : OrZero(score)[t] # Null
BY GameAssumption DEF OrZero, Null

\* Going on to the next await keeps the control state well typed.
LEMMA GotoType ==
  ASSUME ProcType, NEW p \in Procs, NEW l \in PC, Goto(p, l)
  PROVE  ProcType'
BY DEF ProcType, Goto

\* So does suspending with parameters ...
LEMMA AwaitType ==
  ASSUME ProcType, NEW p \in Procs, NEW l \in PC,
         NEW a \in [team: Team, user: Users, score: Scores \cup {0}], Await(p, l, a)
  PROVE  ProcType'
BY DEF ProcType, Await

\* ... suspending with a row just read ...
LEMMA LoadType ==
  ASSUME ProcType, NEW p \in Procs, NEW l \in PC, NEW r \in Row, Load(p, l, r)
  PROVE  ProcType'
BY DEF ProcType, Load

\* (The parameters of an idle process are well typed.)
LEMMA NoArgType == NoArg \in [team: Team, user: Users, score: Scores \cup {0}]
BY GameAssumption DEF NoArg, Team

\* ... and answering.
LEMMA ReturnType ==
  ASSUME ProcType, NEW p \in Procs, Return(p)
  PROVE  ProcType'
BY BlankType, NoArgType DEF ProcType, Return, PC

\* An update of columns keeps the row well typed if the new columns are.
LEMMA UpdateType ==
  ASSUME row \in Row, NEW r \in Row, Update(r)
  PROVE  row' \in Row
BY DEF Update

\* What endGame and the scheduler keep of the row they read is well typed.
LEMMA ScoresOfType ==
  ASSUME NEW r \in Row
  PROVE  ScoresOf(r) \in Row
BY BlankType DEF ScoresOf, Row

\* Every combination of columns that some handler writes is well typed.
LEMMA RowEdits ==
  ASSUME NEW r \in Row, NEW t \in Team
  PROVE  /\ [r EXCEPT !.ready[t] = TRUE] \in Row
         /\ \A s \in Scores \cup {0} : [r EXCEPT !.score[t] = s] \in Row
         /\ [r EXCEPT !.started = TRUE] \in Row
         /\ [r EXCEPT !.cancelled = TRUE] \in Row
         /\ \A w \in 0..2 : [r EXCEPT !.ended = TRUE, !.winner = w] \in Row
         /\ \A w \in 0..2, sc \in [Team -> Scores \cup {Null, 0}] :
              [r EXCEPT !.score = sc, !.ended = TRUE, !.winner = w] \in Row
         /\ \A rd \in [Team -> BOOLEAN], sc \in [Team -> Scores \cup {Null, 0}] :
              [r EXCEPT !.ready = rd, !.score = sc, !.started = TRUE, !.ended = TRUE] \in Row
BY DEF Row

\* The four ways a handler's step leaves its own control state.
LEMMA ControlType ==
  ASSUME ProcType, NEW p \in Procs,
         \/ Return(p)
         \/ \E l \in PC : Goto(p, l)
         \/ \E l \in PC : \E a \in [team: Team, user: Users, score: Scores \cup {0}] :
              Await(p, l, a)
         \/ \E l \in PC, r \in Row : Load(p, l, r)
  PROVE  ProcType'
BY GotoType, AwaitType, LoadType, ReturnType

\* TypeOK is preserved by every step: no handler leaves its types.
LEMMA TypeStep == TypeOK /\ [Next]_vars => TypeOK'
<1> SUFFICES ASSUME TypeOK, [Next]_vars PROVE TypeOK'
  OBVIOUS
<1> DEFINE Rest == /\ kind' \in {"none", "adhoc", "event", "reborn"}
                   /\ members' \in [Team -> SUBSET Users]
                   /\ participants' \in SUBSET Users
                   /\ stale' \in BOOLEAN
                   /\ removed' \in BOOLEAN
                   /\ failed' \in BOOLEAN
<1>a. ProcType /\ row \in Row
  BY DEF TypeOK, ProcType
<1>b. ASSUME ProcType', row' \in Row, Rest PROVE TypeOK'
  BY <1>b DEF TypeOK, ProcType
<1>c. \A p \in Requests : p \in Procs
  BY DEF Procs
<1> HIDE DEF Rest
<1>1. ASSUME NEW p \in Requests, CreateBare(p) PROVE TypeOK'
  <2>1. ProcType'
    BY <1>1, <1>a, <1>c, ControlType DEF CreateBare, PC
  <2>2. row' \in Row
    BY <1>1, <1>a DEF CreateBare, rest, relations
  <2>3. Rest
    BY <1>1, GameAssumption DEF CreateBare, Rest, TypeOK, relations, rest, Team
  <2> QED BY <2>1, <2>2, <2>3, <1>b
<1>2. ASSUME NEW p \in Requests, CreateFromDivisions(p) PROVE TypeOK'
  <2>1. ProcType'
    BY <1>2, <1>a, <1>c, ControlType DEF CreateFromDivisions, PC
  <2>2. row' \in Row
    BY <1>2, <1>a DEF CreateFromDivisions, rest, relations
  <2>3. Rest
    BY <1>2, GameAssumption DEF CreateFromDivisions, Rest, TypeOK, relations, rest, Team
  <2> QED BY <2>1, <2>2, <2>3, <1>b
<1>3. ASSUME NEW p \in Requests, CreateFromInvitations(p) PROVE TypeOK'
  <2>1. ProcType'
    BY <1>3, <1>a, <1>c, ControlType DEF CreateFromInvitations, PC
  <2>2. row' \in Row
    BY <1>3, <1>a DEF CreateFromInvitations, rest, relations
  <2>3. Rest
    BY <1>3, GameAssumption DEF CreateFromInvitations, Rest, TypeOK, relations, rest, Team
  <2> QED BY <2>1, <2>2, <2>3, <1>b
<1>4. ASSUME NEW p \in Requests, CreateNobody(p) PROVE TypeOK'
  <2>1. ProcType'
    BY <1>4, <1>a, <1>c, ControlType DEF CreateNobody, PC
  <2>2. row' \in Row
    BY <1>4, <1>a DEF CreateNobody, rest, relations
  <2>3. Rest
    BY <1>4, GameAssumption DEF CreateNobody, Rest, TypeOK, relations, rest, Team
  <2> QED BY <2>1, <2>2, <2>3, <1>b
<1>5. ASSUME NEW p \in Requests, CreateForRound(p) PROVE TypeOK'
  <2>1. ProcType'
    BY <1>5, <1>a DEF CreateForRound, ProcType
  <2>2. row' \in Row
    BY <1>5, <1>a DEF CreateForRound, rest, relations
  <2>3. Rest
    BY <1>5, GameAssumption DEF CreateForRound, Rest, TypeOK, relations, rest, Team
  <2> QED BY <2>1, <2>2, <2>3, <1>b
<1>6. ASSUME NEW p \in Requests, JoinTeam(p) PROVE TypeOK'
  <2>1. ProcType'
    BY <1>6, <1>a, <1>c, ControlType, NoArgType DEF JoinTeam, PC, NoArg, Team
  <2>2. row' \in Row
    BY <1>6, <1>a DEF JoinTeam, rest, relations
  <2>3. Rest
    BY <1>6, GameAssumption DEF JoinTeam, Rest, TypeOK, relations, rest, Team
  <2> QED BY <2>1, <2>2, <2>3, <1>b
<1>7. ASSUME NEW p \in Requests, LeaveTeam(p) PROVE TypeOK'
  <2>1. ProcType'
    <3>1. PICK u \in Playing :
            Await(p, "leaveRemove",
                  [NoArg EXCEPT !.team = IF u \in members[1] THEN 1 ELSE 2, !.user = u])
      BY <1>7 DEF LeaveTeam
    <3>2. u \in Users
      BY <3>1 DEF Playing, TypeOK
    <3>3. [NoArg EXCEPT !.team = IF u \in members[1] THEN 1 ELSE 2, !.user = u]
            \in [team: Team, user: Users, score: Scores \cup {0}]
      BY <3>2, NoArgType DEF NoArg, Team
    <3> QED BY <3>1, <3>3, <1>a, <1>c, AwaitType DEF PC
  <2>2. row' \in Row
    BY <1>7, <1>a DEF LeaveTeam, rest, relations
  <2>3. Rest
    BY <1>7, GameAssumption DEF LeaveTeam, Rest, TypeOK, relations, rest, Team
  <2> QED BY <2>1, <2>2, <2>3, <1>b
<1>8. ASSUME NEW p \in Requests, SetTeamReady(p) PROVE TypeOK'
  <2>1. ProcType'
    BY <1>8, <1>a, <1>c, ControlType, NoArgType DEF SetTeamReady, PC, NoArg, Team
  <2>2. row' \in Row
    BY <1>8, <1>a DEF SetTeamReady, rest, relations
  <2>3. Rest
    BY <1>8, GameAssumption DEF SetTeamReady, Rest, TypeOK, relations, rest, Team
  <2> QED BY <2>1, <2>2, <2>3, <1>b
<1>9. ASSUME NEW p \in Requests, UpdateTeamScore(p) PROVE TypeOK'
  <2>1. ProcType'
    BY <1>9, <1>a, <1>c, ControlType, NoArgType DEF UpdateTeamScore, PC, NoArg, Team
  <2>2. row' \in Row
    BY <1>9, <1>a DEF UpdateTeamScore, rest, relations
  <2>3. Rest
    BY <1>9, GameAssumption DEF UpdateTeamScore, Rest, TypeOK, relations, rest, Team
  <2> QED BY <2>1, <2>2, <2>3, <1>b
<1>10. ASSUME NEW p \in Requests, JoinAdd(p) PROVE TypeOK'
  <2>1. ProcType'
    BY <1>10, <1>a, <1>c, ControlType DEF JoinAdd, PC
  <2>2. row' \in Row
    BY <1>10, <1>a DEF JoinAdd, rest, relations
  <2>3. Rest
    <3>1. arg[p].team \in Team /\ arg[p].user \in Users
      BY <1>10, <1>a, <1>c DEF ProcType
    <3> QED BY <1>10, <3>1 DEF JoinAdd, Rest, TypeOK
  <2> QED BY <2>1, <2>2, <2>3, <1>b
<1>11. ASSUME NEW p \in Requests, LeaveRemove(p) PROVE TypeOK'
  <2>1. ProcType'
    BY <1>11, <1>a, <1>c, ControlType DEF LeaveRemove, PC
  <2>2. row' \in Row
    BY <1>11, <1>a DEF LeaveRemove, rest, relations
  <2>3. Rest
    BY <1>11, GameAssumption DEF LeaveRemove, Rest, TypeOK, relations, rest, Team, ProcType
  <2> QED BY <2>1, <2>2, <2>3, <1>b
<1>12. ASSUME NEW p \in Requests, ReadyReread(p) PROVE TypeOK'
  <2>1. ProcType'
    BY <1>12, <1>a, <1>c, ControlType DEF ReadyReread, PC
  <2>2. row' \in Row
    BY <1>12, <1>a DEF ReadyReread, rest, relations
  <2>3. Rest
    BY <1>12, GameAssumption DEF ReadyReread, Rest, TypeOK, relations, rest, Team, ProcType
  <2> QED BY <2>1, <2>2, <2>3, <1>b
<1>13. ASSUME NEW p \in Requests, ScoreReread(p) PROVE TypeOK'
  <2>1. ProcType'
    BY <1>13, <1>a, <1>c, ControlType DEF ScoreReread, PC
  <2>2. row' \in Row
    BY <1>13, <1>a DEF ScoreReread, rest, relations
  <2>3. Rest
    BY <1>13, GameAssumption DEF ScoreReread, Rest, TypeOK, relations, rest, Team, ProcType
  <2> QED BY <2>1, <2>2, <2>3, <1>b
<1>14. ASSUME NEW p \in Requests, EndValidate(p) PROVE TypeOK'
  <2>1. ProcType'
    BY <1>14, <1>a, <1>c, ControlType DEF EndValidate, PC
  <2>2. row' \in Row
    BY <1>14, <1>a DEF EndValidate, rest, relations
  <2>3. Rest
    BY <1>14, GameAssumption DEF EndValidate, Rest, TypeOK, relations, rest, Team, ProcType
  <2> QED BY <2>1, <2>2, <2>3, <1>b
<1>15. ASSUME NEW p \in Requests, EndAuthorize(p) PROVE TypeOK'
  <2>1. ProcType'
    BY <1>15, <1>a, <1>c, ControlType DEF EndAuthorize, PC
  <2>2. row' \in Row
    BY <1>15, <1>a DEF EndAuthorize, rest, relations
  <2>3. Rest
    BY <1>15, GameAssumption DEF EndAuthorize, Rest, TypeOK, relations, rest, Team, ProcType
  <2> QED BY <2>1, <2>2, <2>3, <1>b
<1>16. ASSUME NEW p \in Requests, CancelValidate(p) PROVE TypeOK'
  <2>1. ProcType'
    BY <1>16, <1>a, <1>c, ControlType DEF CancelValidate, PC
  <2>2. row' \in Row
    BY <1>16, <1>a DEF CancelValidate, rest, relations
  <2>3. Rest
    BY <1>16, GameAssumption DEF CancelValidate, Rest, TypeOK, relations, rest, Team, ProcType
  <2> QED BY <2>1, <2>2, <2>3, <1>b
<1>17. ASSUME NEW p \in Requests, RemoveAuthorize(p) PROVE TypeOK'
  <2>1. ProcType'
    BY <1>17, <1>a, <1>c, ControlType DEF RemoveAuthorize, PC
  <2>2. row' \in Row
    BY <1>17, <1>a DEF RemoveAuthorize, rest, relations
  <2>3. Rest
    BY <1>17, GameAssumption DEF RemoveAuthorize, Rest, TypeOK, relations, rest, Team, ProcType
  <2> QED BY <2>1, <2>2, <2>3, <1>b
<1>18. ASSUME NEW p \in Requests, ReadyWrite(p) PROVE TypeOK'
  <2>1. ProcType'
    BY <1>18, <1>a, <1>c, ControlType DEF ReadyWrite, PC
  <2>2. row' \in Row
    BY <1>18, <1>a, <1>c, UpdateType, RowEdits DEF ReadyWrite, ProcType
  <2>3. Rest
    BY <1>18, GameAssumption DEF ReadyWrite, Rest, TypeOK, relations, rest, Team
  <2> QED BY <2>1, <2>2, <2>3, <1>b
<1>19. ASSUME NEW p \in Requests, StartGame(p) PROVE TypeOK'
  <2>1. ProcType'
    BY <1>19, <1>a, <1>c, ControlType DEF StartGame, PC
  <2>2. row' \in Row
    BY <1>19, <1>a, <1>c, UpdateType, RowEdits DEF StartGame, Team
  <2>3. Rest
    BY <1>19, GameAssumption DEF StartGame, Rest, TypeOK, relations, rest, Team
  <2> QED BY <2>1, <2>2, <2>3, <1>b
<1>20. ASSUME NEW p \in Requests, ScoreWrite(p) PROVE TypeOK'
  <2>1. ProcType'
    BY <1>20, <1>a, <1>c, ControlType DEF ScoreWrite, PC
  <2>2. row' \in Row
    BY <1>20, <1>a, <1>c, UpdateType, RowEdits DEF ScoreWrite, ProcType
  <2>3. Rest
    BY <1>20, GameAssumption DEF ScoreWrite, Rest, TypeOK, relations, rest, Team
  <2> QED BY <2>1, <2>2, <2>3, <1>b
<1>21. ASSUME NEW p \in Requests, EndRead(p) PROVE TypeOK'
  <2>1. ProcType'
    BY <1>21, <1>a, <1>c, ControlType, ScoresOfType DEF EndRead, PC
  <2>2. row' \in Row
    BY <1>21, <1>a DEF EndRead, rest, relations
  <2>3. Rest
    BY <1>21, GameAssumption DEF EndRead, Rest, TypeOK, relations, rest, Team
  <2> QED BY <2>1, <2>2, <2>3, <1>b
<1>22. ASSUME NEW p \in Requests, EndWrite(p) PROVE TypeOK'
  <2>1. ProcType'
    BY <1>22, <1>a, <1>c, ControlType DEF EndWrite, PC
  <2>2. row' \in Row
    BY <1>22, <1>a, <1>c, OutcomeType, RowEdits DEF EndWrite, Row, Update, Team
  <2>3. Rest
    BY <1>22, GameAssumption DEF EndWrite, Rest, TypeOK, relations, rest, Team
  <2> QED BY <2>1, <2>2, <2>3, <1>b
<1>23. ASSUME NEW p \in Requests, CancelSave(p) PROVE TypeOK'
  <2>1. ProcType'
    BY <1>23, <1>a, <1>c, ControlType DEF CancelSave, PC
  <2>2. row' \in Row
    BY <1>23, <1>a, BlankType, RowEdits DEF CancelSave, Team
  <2>3. Rest
    BY <1>23, GameAssumption DEF CancelSave, Rest, TypeOK, relations, rest, Team
  <2> QED BY <2>1, <2>2, <2>3, <1>b
<1>24. ASSUME NEW p \in Requests, RemoveLoad(p) PROVE TypeOK'
  <2>1. ProcType'
    BY <1>24, <1>a, <1>c, ControlType DEF RemoveLoad, PC
  <2>2. row' \in Row
    BY <1>24, <1>a DEF RemoveLoad, rest, relations
  <2>3. Rest
    BY <1>24, GameAssumption DEF RemoveLoad, Rest, TypeOK, relations, rest, Team
  <2> QED BY <2>1, <2>2, <2>3, <1>b
<1>25. ASSUME NEW p \in Requests, RemoveSave(p) PROVE TypeOK'
  <2>1. ProcType'
    BY <1>25, <1>a, <1>c, ControlType DEF RemoveSave, PC
  <2>2. row' \in Row
    BY <1>25, <1>a, <1>c DEF RemoveSave, ProcType
  <2>3. Rest
    BY <1>25, GameAssumption DEF RemoveSave, Rest, TypeOK, relations, rest, Team
  <2> QED BY <2>1, <2>2, <2>3, <1>b
<1>26. ASSUME NEW p \in Requests, RemoveDelete(p) PROVE TypeOK'
  <2>1. ProcType'
    BY <1>26, <1>a, <1>c, ControlType DEF RemoveDelete, PC
  <2>2. row' \in Row
    BY <1>26, BlankType DEF RemoveDelete
  <2>3. Rest
    BY <1>26, GameAssumption DEF RemoveDelete, Rest, TypeOK, relations, rest, Team
  <2> QED BY <2>1, <2>2, <2>3, <1>b
<1>27. ASSUME NEW p \in Requests, EndRoundLoad(p) PROVE TypeOK'
  <2>1. ProcType'
    BY <1>27, <1>a, <1>c, ControlType DEF EndRoundLoad, PC
  <2>2. row' \in Row
    BY <1>27, <1>a DEF EndRoundLoad, rest, relations
  <2>3. Rest
    BY <1>27, GameAssumption DEF EndRoundLoad, Rest, TypeOK, relations, rest, Team
  <2> QED BY <2>1, <2>2, <2>3, <1>b
<1>28. ASSUME NEW p \in Requests, EndRoundSave(p) PROVE TypeOK'
  <2>1. ProcType'
    BY <1>28, <1>a, <1>c, ControlType DEF EndRoundSave, PC
  <2>2. row' \in Row
    <3>1. snap[p] \in Row /\ snap[p].score \in [Team -> Scores \cup {Null, 0}]
      BY <1>a, <1>c DEF ProcType, Row
    <3>2. OrZero(snap[p].score) \in [Team -> Scores \cup {Null, 0}]
      BY <3>1, OrZeroType
    <3>3. row' = [snap[p] EXCEPT !.ready = [t \in Team |-> TRUE],
                                 !.score = OrZero(snap[p].score),
                                 !.started = TRUE, !.ended = TRUE]
      BY <1>28, <3>1 DEF EndRoundSave
    <3>4. [t \in Team |-> TRUE] \in [Team -> BOOLEAN]
      OBVIOUS
    <3> QED BY <3>1, <3>2, <3>3, <3>4 DEF Row
  <2>3. Rest
    BY <1>28, GameAssumption DEF EndRoundSave, Rest, TypeOK, relations, rest, Team
  <2> QED BY <2>1, <2>2, <2>3, <1>b
<1>29. ASSUME CronFind PROVE TypeOK'
  <2>1. ProcType'
    BY <1>29, <1>a, ControlType, ScoresOfType DEF CronFind, PC, Procs
  <2>2. row' \in Row
    BY <1>29, <1>a DEF CronFind, rest, relations
  <2>3. Rest
    BY <1>29, GameAssumption DEF CronFind, Rest, TypeOK, relations, rest, Team
  <2> QED BY <2>1, <2>2, <2>3, <1>b
<1>30. ASSUME CronClose PROVE TypeOK'
  <2>1. ProcType'
    BY <1>30, <1>a, ControlType, ScoresOfType DEF CronClose, PC, Procs
  <2>2. row' \in Row
    <3> DEFINE sc == OrZero(snap[Cron].score)
               new == [row EXCEPT !.score = sc, !.ended = TRUE, !.winner = Outcome(sc)]
    <3>1. snap[Cron].score \in [Team -> Scores \cup {Null, 0}]
      BY <1>a DEF ProcType, Row, Procs
    <3>2. sc \in [Team -> Scores \cup {Null, 0}] /\ Outcome(sc) \in 0..2
      BY <3>1, OrZeroType, OutcomeType
    <3>3. Update(new)
      BY <1>30 DEF CronClose
    <3>4. new \in Row
      BY <3>2, <1>a DEF Row
    <3> QED BY <3>3, <3>4, <1>a, UpdateType
  <2>3. Rest
    BY <1>30, GameAssumption DEF CronClose, Rest, TypeOK, relations, rest, Team
  <2> QED BY <2>1, <2>2, <2>3, <1>b
<1>31. ASSUME HourPasses PROVE TypeOK'
  <2>1. ProcType'
    BY <1>31, <1>a DEF HourPasses, ProcType
  <2>2. row' \in Row
    BY <1>31, <1>a DEF HourPasses, rest, relations
  <2>3. Rest
    BY <1>31, GameAssumption DEF HourPasses, Rest, TypeOK, relations, rest, Team
  <2> QED BY <2>1, <2>2, <2>3, <1>b
<1>32. ASSUME NEW p \in Procs, Fail(p) PROVE TypeOK'
  <2>1. ProcType'
    BY <1>32, <1>a, <1>c, ControlType DEF Fail, PC
  <2>2. row' \in Row
    BY <1>32, <1>a DEF Fail, rest, relations
  <2>3. Rest
    BY <1>32, GameAssumption DEF Fail, Rest, TypeOK, relations, rest, Team
  <2> QED BY <2>1, <2>2, <2>3, <1>b
<1>33. CASE UNCHANGED vars
  BY <1>33 DEF vars, TypeOK
<1> QED
  BY <1>1, <1>2, <1>3, <1>4, <1>5, <1>6, <1>7, <1>8, <1>9, <1>10, <1>11, <1>12, <1>13, <1>14, <1>15, <1>16, <1>17, <1>18, <1>19, <1>20, <1>21, <1>22, <1>23, <1>24, <1>25, <1>26, <1>27, <1>28, <1>29, <1>30, <1>31, <1>32, <1>33 DEF Next, Ask, Proceed

\* The variables keep their types, for any users, scores and number of requests.
THEOREM TypeCorrect == Spec => []TypeOK
<1>1. Init => TypeOK
  BY GameAssumption, BlankType, NoArgType DEF Init, TypeOK, PC
<1> QED BY <1>1, TypeStep, PTL DEF Spec

(***************************************************************************)
(* The inductive invariant: what the handlers rely on between two awaits.  *)
(***************************************************************************)

\* Before the game is created, nobody is working on it.
Fresh == ~removed /\ ~Exists => row = BlankRow /\ \A p \in Procs : pc[p] = "idle"

\* Whoever passed a guard on readiness is still right about it.
Admitted == {"startWrite", "scoreWrite", "scoreReread", "endAuthorize", "endRead",
             "endWrite", "cronClose"}
AdmittedReady == ~removed => \A p \in Procs : pc[p] \in Admitted => BothReady

\* A score that endGame has read is still there when it writes the winner.
ReadScores ==
  ~removed => \A p \in Procs : pc[p] = "endWrite" =>
    \A t \in Team : snap[p].score[t] # Null => row.score[t] # Null

\* Whoever is about to delete the row has written to it.
RemovalSeen == \A p \in Procs : pc[p] = "removeDelete" => removed

\* A game that the scheduler has found to be stale has started.
CronFound == ~removed /\ pc[Cron] = "cronClose" => row.started

Safe == /\ Fresh /\ AdmittedReady /\ ReadScores /\ RemovalSeen /\ CronFound
        /\ PlayNeedsReadiness /\ WinnerNeedsScores

\* No step takes back a declaration, a score, the start or the end, except a removal.
Kept ==
  /\ \A t \in Team : row.ready[t] => row'.ready[t]
  /\ \A t \in Team : row.score[t] # Null => row'.score[t] # Null
  /\ row.started => row'.started
  /\ row.ended => row'.ended

\* Short of a removal, stale saves included, no step undoes what others wrote.
LEMMA KeptStep ==
  ASSUME TypeOK, Safe, Next, ~removed'
  PROVE  Kept /\ ~removed
<1> USE DEF Kept
<1>0. row \in Row /\ snap \in [Procs -> Row] /\ arg \in [Procs -> [team: Team, user: Users, score: Scores \cup {0}]]
      /\ pc \in [Procs -> PC]
  BY DEF TypeOK
<1>00. \A p \in Requests : p \in Procs
  BY DEF Procs
<1>1. ASSUME NEW p \in Requests, CreateBare(p) PROVE Kept /\ ~removed
  BY <1>1, <1>0, <1>00, GameAssumption, OrZeroType DEF CreateBare, rest, relations, Update, Safe, Fresh, Row, Null
<1>2. ASSUME NEW p \in Requests, CreateForRound(p) PROVE Kept /\ ~removed
  BY <1>2, <1>0, <1>00, GameAssumption, OrZeroType DEF CreateForRound, rest, relations, Update, Safe, Fresh, Row, Null
<1>3. ASSUME NEW p \in Requests, JoinTeam(p) PROVE Kept /\ ~removed
  BY <1>3, <1>0, <1>00, GameAssumption, OrZeroType DEF JoinTeam, rest, relations, Update, Safe, Fresh, Row, Null
<1>4. ASSUME NEW p \in Requests, LeaveTeam(p) PROVE Kept /\ ~removed
  BY <1>4, <1>0, <1>00, GameAssumption, OrZeroType DEF LeaveTeam, rest, relations, Update, Safe, Fresh, Row, Null
<1>5. ASSUME NEW p \in Requests, SetTeamReady(p) PROVE Kept /\ ~removed
  BY <1>5, <1>0, <1>00, GameAssumption, OrZeroType DEF SetTeamReady, rest, relations, Update, Safe, Fresh, Row, Null
<1>6. ASSUME NEW p \in Requests, UpdateTeamScore(p) PROVE Kept /\ ~removed
  BY <1>6, <1>0, <1>00, GameAssumption, OrZeroType DEF UpdateTeamScore, rest, relations, Update, Safe, Fresh, Row, Null
<1>7. ASSUME NEW p \in Requests, EndValidate(p) PROVE Kept /\ ~removed
  BY <1>7, <1>0, <1>00, GameAssumption, OrZeroType DEF EndValidate, rest, relations, Update, Safe, Fresh, Row, Null
<1>8. ASSUME NEW p \in Requests, CancelValidate(p) PROVE Kept /\ ~removed
  BY <1>8, <1>0, <1>00, GameAssumption, OrZeroType DEF CancelValidate, rest, relations, Update, Safe, Fresh, Row, Null
<1>9. ASSUME NEW p \in Requests, RemoveAuthorize(p) PROVE Kept /\ ~removed
  BY <1>9, <1>0, <1>00, GameAssumption, OrZeroType DEF RemoveAuthorize, rest, relations, Update, Safe, Fresh, Row, Null
<1>10. ASSUME NEW p \in Requests, EndRoundLoad(p) PROVE Kept /\ ~removed
  BY <1>10, <1>0, <1>00, GameAssumption, OrZeroType DEF EndRoundLoad, rest, relations, Update, Safe, Fresh, Row, Null
<1>11. ASSUME NEW p \in Requests, CreateFromDivisions(p) PROVE Kept /\ ~removed
  BY <1>11, <1>0, <1>00, GameAssumption, OrZeroType DEF CreateFromDivisions, rest, relations, Update, Safe, Fresh, Row, Null
<1>12. ASSUME NEW p \in Requests, CreateFromInvitations(p) PROVE Kept /\ ~removed
  BY <1>12, <1>0, <1>00, GameAssumption, OrZeroType DEF CreateFromInvitations, rest, relations, Update, Safe, Fresh, Row, Null
<1>13. ASSUME NEW p \in Requests, CreateNobody(p) PROVE Kept /\ ~removed
  BY <1>13, <1>0, <1>00, GameAssumption, OrZeroType DEF CreateNobody, rest, relations, Update, Safe, Fresh, Row, Null
<1>14. ASSUME NEW p \in Requests, JoinAdd(p) PROVE Kept /\ ~removed
  BY <1>14, <1>0, <1>00, GameAssumption, OrZeroType DEF JoinAdd, rest, relations, Update, Safe, Fresh, Row, Null
<1>15. ASSUME NEW p \in Requests, LeaveRemove(p) PROVE Kept /\ ~removed
  BY <1>15, <1>0, <1>00, GameAssumption, OrZeroType DEF LeaveRemove, rest, relations, Update, Safe, Fresh, Row, Null
<1>16. ASSUME NEW p \in Requests, ReadyWrite(p) PROVE Kept /\ ~removed
  BY <1>16, <1>0, <1>00, GameAssumption, OrZeroType DEF ReadyWrite, rest, relations, Update, Safe, Fresh, Row, Null
<1>17. ASSUME NEW p \in Requests, ReadyReread(p) PROVE Kept /\ ~removed
  BY <1>17, <1>0, <1>00, GameAssumption, OrZeroType DEF ReadyReread, rest, relations, Update, Safe, Fresh, Row, Null
<1>18. ASSUME NEW p \in Requests, StartGame(p) PROVE Kept /\ ~removed
  BY <1>18, <1>0, <1>00, GameAssumption, OrZeroType DEF StartGame, rest, relations, Update, Safe, Fresh, Row, Null
<1>19. ASSUME NEW p \in Requests, ScoreWrite(p) PROVE Kept /\ ~removed
  BY <1>19, <1>0, <1>00, GameAssumption, OrZeroType DEF ScoreWrite, rest, relations, Update, Safe, Fresh, Row, Null
<1>20. ASSUME NEW p \in Requests, ScoreReread(p) PROVE Kept /\ ~removed
  BY <1>20, <1>0, <1>00, GameAssumption, OrZeroType DEF ScoreReread, rest, relations, Update, Safe, Fresh, Row, Null
<1>21. ASSUME NEW p \in Requests, EndAuthorize(p) PROVE Kept /\ ~removed
  BY <1>21, <1>0, <1>00, GameAssumption, OrZeroType DEF EndAuthorize, rest, relations, Update, Safe, Fresh, Row, Null
<1>22. ASSUME NEW p \in Requests, EndRead(p) PROVE Kept /\ ~removed
  BY <1>22, <1>0, <1>00, GameAssumption, OrZeroType DEF EndRead, rest, relations, Update, Safe, Fresh, Row, Null
<1>23. ASSUME NEW p \in Requests, EndWrite(p) PROVE Kept /\ ~removed
  BY <1>23, <1>0, <1>00, GameAssumption, OrZeroType DEF EndWrite, rest, relations, Update, Safe, Fresh, Row, Null
<1>24. ASSUME NEW p \in Requests, CancelSave(p) PROVE Kept /\ ~removed
  BY <1>24, <1>0, <1>00, GameAssumption, OrZeroType DEF CancelSave, rest, relations, Update, Safe, Fresh, Row, Null
<1>25. ASSUME NEW p \in Requests, RemoveLoad(p) PROVE Kept /\ ~removed
  BY <1>25, <1>0, <1>00, GameAssumption, OrZeroType DEF RemoveLoad, rest, relations, Update, Safe, Fresh, Row, Null
<1>26. ASSUME NEW p \in Requests, RemoveSave(p) PROVE Kept /\ ~removed
  BY <1>26, <1>0, <1>00, GameAssumption, OrZeroType DEF RemoveSave, rest, relations, Update, Safe, Fresh, Row, Null
<1>27. ASSUME NEW p \in Requests, RemoveDelete(p) PROVE Kept /\ ~removed
  BY <1>27, <1>0, <1>00, GameAssumption DEF RemoveDelete, Safe, RemovalSeen
<1>28. ASSUME NEW p \in Requests, EndRoundSave(p) PROVE Kept /\ ~removed
  BY <1>28, <1>0, <1>00, GameAssumption, OrZeroType DEF EndRoundSave, rest, relations, Update, Safe, Fresh, Row, Null
<1>29. ASSUME CronFind PROVE Kept /\ ~removed
  BY <1>29, <1>0, <1>00, GameAssumption, OrZeroType DEF CronFind, rest, relations, Update, Safe, Fresh, Row, Null
<1>30. ASSUME CronClose PROVE Kept /\ ~removed
  <2> DEFINE sc == OrZero(snap[Cron].score)
  <2>1. snap[Cron].score \in [Team -> Scores \cup {Null, 0}]
    BY <1>0 DEF Procs, Row
  <2>2. sc \in [Team -> Scores \cup {Null, 0}] /\ \A t \in Team : sc[t] # Null
    BY <2>1, OrZeroType
  <2>3. row' = IF Exists THEN [row EXCEPT !.score = sc, !.ended = TRUE, !.winner = Outcome(sc)]
                         ELSE row
    BY <1>30 DEF CronClose, Update
  <2>4. removed' = removed
    BY <1>30 DEF CronClose, rest
  <2> HIDE DEF sc
  <2> QED BY <2>2, <2>3, <2>4, <1>0 DEF Row
<1>31. ASSUME HourPasses PROVE Kept /\ ~removed
  BY <1>31, <1>0, <1>00, GameAssumption, OrZeroType DEF HourPasses, rest, relations, Update, Safe, Fresh, Row, Null
<1>32. ASSUME NEW p \in Procs, Fail(p) PROVE Kept /\ ~removed
  BY <1>32, <1>0, <1>00, GameAssumption, OrZeroType DEF Fail, rest, relations, Update, Safe, Fresh, Row, Null
<1> QED
  BY <1>1, <1>2, <1>3, <1>4, <1>5, <1>6, <1>7, <1>8, <1>9, <1>10, <1>11, <1>12, <1>13, <1>14, <1>15, <1>16, <1>17, <1>18, <1>19, <1>20, <1>21, <1>22, <1>23, <1>24, <1>25, <1>26, <1>27, <1>28, <1>29, <1>30, <1>31, <1>32 DEF Next, Ask, Proceed

\* A step that only reads the row keeps the invariant if what it goes on to do
\* is justified by what it has just read.
LEMMA ReadStep ==
  ASSUME TypeOK, Safe, NEW p \in Procs, NEW l \in PC \ {"removeDelete"},
         pc' = [pc EXCEPT ![p] = l],
         snap' = snap \/ snap' = [snap EXCEPT ![p] = ScoresOf(row)]
           \/ snap' = [snap EXCEPT ![p] = BlankRow] \/ snap' = [snap EXCEPT ![p] = row],
         UNCHANGED <<row, kind, removed>>,
         l = "idle" \/ Exists \/ removed,
         l \in Admitted => BothReady \/ removed,
         l = "endWrite" => snap' = [snap EXCEPT ![p] = ScoresOf(row)],
         l = "cronClose" => row.started \/ removed
  PROVE  Safe'
<1>0. pc \in [Procs -> PC] /\ snap \in [Procs -> Row] /\ row \in Row
  BY DEF TypeOK
<1>1. Fresh' /\ RemovalSeen'
  BY <1>0 DEF Safe, Fresh, RemovalSeen, Exists
<1>2. AdmittedReady'
  BY <1>0 DEF Safe, AdmittedReady, BothReady
<1>3. ReadScores'
  <2> SUFFICES ASSUME ~removed, NEW q \in Procs, pc'[q] = "endWrite",
                      NEW t \in Team, snap'[q].score[t] # Null
               PROVE  row.score[t] # Null
    BY DEF ReadScores
  <2>1. CASE q = p
    BY <2>1, <1>0 DEF ScoresOf, BlankRow
  <2>2. CASE q # p
    BY <2>2, <1>0 DEF Safe, ReadScores
  <2> QED BY <2>1, <2>2
<1>4. PlayNeedsReadiness' /\ WinnerNeedsScores'
  BY DEF Safe, PlayNeedsReadiness, WinnerNeedsScores, BothReady, AllScored
<1>5. CronFound'
  BY <1>0 DEF Safe, CronFound, Procs
<1> QED BY <1>1, <1>2, <1>3, <1>4, <1>5 DEF Safe

\* The invariant is inductive: each handler, at each await, keeps what the
\* others rely on.
LEMMA SafeStep ==
  ASSUME TypeOK, Safe, [Next]_vars
  PROVE  Safe'
<1> USE DEF Safe, Fresh, AdmittedReady, Admitted, ReadScores, RemovalSeen, CronFound,
            PlayNeedsReadiness, WinnerNeedsScores, BothReady, AllScored, Exists
<1>0. row \in Row /\ snap \in [Procs -> Row] /\ pc \in [Procs -> PC]
      /\ arg \in [Procs -> [team: Team, user: Users, score: Scores \cup {0}]]
  BY DEF TypeOK
<1>00. \A p \in Requests : p \in Procs
  BY DEF Procs
<1>k. ASSUME Next, ~removed' PROVE Kept /\ ~removed
  BY <1>k, KeptStep
<1>1. ASSUME Next, NEW p \in Requests, CreateBare(p) PROVE Safe'
  BY <1>1, <1>k, <1>0, <1>00 DEF CreateBare, Kept, Idle, Goto, Await, Load, Return, rest, relations, Update, Row, Null
<1>2. ASSUME Next, NEW p \in Requests, CreateForRound(p) PROVE Safe'
  BY <1>2, <1>k, <1>0, <1>00 DEF CreateForRound, Kept, Idle, Goto, Await, Load, Return, rest, relations, Update, Row, Null
<1>3. ASSUME Next, NEW p \in Requests, JoinTeam(p) PROVE Safe'
  BY <1>3, <1>00, ReadStep DEF JoinTeam, Known, Idle, Goto, Await, Load, Return, rest, PC
<1>4. ASSUME Next, NEW p \in Requests, LeaveTeam(p) PROVE Safe'
  BY <1>4, <1>00, ReadStep DEF LeaveTeam, Known, Idle, Goto, Await, Load, Return, rest, PC
<1>5. ASSUME Next, NEW p \in Requests, SetTeamReady(p) PROVE Safe'
  BY <1>5, <1>00, ReadStep DEF SetTeamReady, Known, Idle, Goto, Await, Load, Return, rest, PC
<1>6. ASSUME Next, NEW p \in Requests, UpdateTeamScore(p) PROVE Safe'
  BY <1>6, <1>00, ReadStep DEF UpdateTeamScore, Known, Idle, Goto, Await, Load, Return, rest, PC
<1>7. ASSUME Next, NEW p \in Requests, EndValidate(p) PROVE Safe'
  BY <1>7, <1>00, ReadStep DEF EndValidate, Known, Idle, Goto, Await, Load, Return, rest, PC
<1>8. ASSUME Next, NEW p \in Requests, CancelValidate(p) PROVE Safe'
  BY <1>8, <1>k, <1>0, <1>00 DEF CancelValidate, Kept, Idle, Goto, Await, Load, Return, rest, relations, Update, Row, Null
<1>9. ASSUME Next, NEW p \in Requests, RemoveAuthorize(p) PROVE Safe'
  BY <1>9, <1>00, ReadStep DEF RemoveAuthorize, Known, Idle, Goto, Await, Load, Return, rest, PC
<1>10. ASSUME Next, NEW p \in Requests, EndRoundLoad(p) PROVE Safe'
  BY <1>10, <1>k, <1>0, <1>00 DEF EndRoundLoad, Kept, Idle, Goto, Await, Load, Return, rest, relations, Update, Row, Null
<1>11. ASSUME Next, NEW p \in Requests, CreateFromDivisions(p) PROVE Safe'
  BY <1>11, <1>k, <1>0, <1>00 DEF CreateFromDivisions, Kept, Idle, Goto, Await, Load, Return, rest, relations, Update, Row, Null
<1>12. ASSUME Next, NEW p \in Requests, CreateFromInvitations(p) PROVE Safe'
  BY <1>12, <1>k, <1>0, <1>00 DEF CreateFromInvitations, Kept, Idle, Goto, Await, Load, Return, rest, relations, Update, Row, Null
<1>13. ASSUME Next, NEW p \in Requests, CreateNobody(p) PROVE Safe'
  BY <1>13, <1>k, <1>0, <1>00 DEF CreateNobody, Kept, Idle, Goto, Await, Load, Return, rest, relations, Update, Row, Null
<1>14. ASSUME Next, NEW p \in Requests, JoinAdd(p) PROVE Safe'
  BY <1>14, <1>k, <1>0, <1>00 DEF JoinAdd, Kept, Idle, Goto, Await, Load, Return, rest, relations, Update, Row, Null
<1>15. ASSUME Next, NEW p \in Requests, LeaveRemove(p) PROVE Safe'
  BY <1>15, <1>k, <1>0, <1>00 DEF LeaveRemove, Kept, Idle, Goto, Await, Load, Return, rest, relations, Update, Row, Null
<1>16. ASSUME Next, NEW p \in Requests, ReadyWrite(p) PROVE Safe'
  BY <1>16, <1>k, <1>0, <1>00 DEF ReadyWrite, Kept, Idle, Goto, Await, Load, Return, rest, relations, Update, Row, Null
<1>17. ASSUME Next, NEW p \in Requests, ReadyReread(p) PROVE Safe'
  BY <1>17, <1>00, ReadStep DEF ReadyReread, Known, Idle, Goto, Await, Load, Return, rest, PC
<1>18. ASSUME Next, NEW p \in Requests, StartGame(p) PROVE Safe'
  BY <1>18, <1>k, <1>0, <1>00 DEF StartGame, Kept, Idle, Goto, Await, Load, Return, rest, relations, Update, Row, Null
<1>19. ASSUME Next, NEW p \in Requests, ScoreWrite(p) PROVE Safe'
  BY <1>19, <1>k, <1>0, <1>00 DEF ScoreWrite, Kept, Idle, Goto, Await, Load, Return, rest, relations, Update, Row, Null
<1>20. ASSUME Next, NEW p \in Requests, ScoreReread(p) PROVE Safe'
  BY <1>20, <1>00, ReadStep DEF ScoreReread, Known, Idle, Goto, Await, Load, Return, rest, PC
<1>21. ASSUME Next, NEW p \in Requests, EndAuthorize(p) PROVE Safe'
  BY <1>21, <1>00, ReadStep DEF EndAuthorize, Known, Idle, Goto, Await, Load, Return, rest, PC
<1>22. ASSUME Next, NEW p \in Requests, EndRead(p) PROVE Safe'
  BY <1>22, <1>00, ReadStep DEF EndRead, Known, Idle, Goto, Await, Load, Return, rest, PC
<1>23. ASSUME Next, NEW p \in Requests, EndWrite(p) PROVE Safe'
  BY <1>23, <1>k, <1>0, <1>00 DEF EndWrite, Kept, Idle, Goto, Await, Load, Return, rest, relations, Update, Row, Null
<1>24. ASSUME Next, NEW p \in Requests, CancelSave(p) PROVE Safe'
  BY <1>24, <1>k, <1>0, <1>00 DEF CancelSave, Kept, Idle, Goto, Await, Load, Return, rest, relations, Update, Row, Null
<1>25. ASSUME Next, NEW p \in Requests, RemoveLoad(p) PROVE Safe'
  BY <1>25, <1>00, ReadStep DEF RemoveLoad, Known, Idle, Goto, Await, Load, Return, rest, PC
<1>26. ASSUME Next, NEW p \in Requests, RemoveSave(p) PROVE Safe'
  BY <1>26, <1>k, <1>0, <1>00 DEF RemoveSave, Kept, Idle, Goto, Await, Load, Return, rest, relations, Update, Row, Null
<1>27. ASSUME Next, NEW p \in Requests, RemoveDelete(p) PROVE Safe'
  BY <1>27, <1>k, <1>0, <1>00 DEF RemoveDelete, Kept, Idle, Goto, Await, Load, Return, rest, relations, Update, Row, Null
<1>28. ASSUME Next, NEW p \in Requests, EndRoundSave(p) PROVE Safe'
  <2>1. removed' = removed /\ snap[p] \in Row /\ pc[p] = "endRoundSave"
    BY <1>28, <1>00, <1>0 DEF EndRoundSave
  <2>2. row' = [snap[p] EXCEPT !.ready = [t \in Team |-> TRUE],
                               !.score = OrZero(snap[p].score),
                               !.started = TRUE, !.ended = TRUE]
    BY <1>28, <2>1 DEF EndRoundSave
  <2>3. \A t \in Team : OrZero(snap[p].score)[t] # Null
    BY <2>1, OrZeroType DEF Row
  <2>4. BothReady' /\ AllScored' /\ row'.started /\ row'.ended
    BY <2>1, <2>2, <2>3 DEF Row
  <2>5. Exists \/ removed
    BY <2>1, <1>00
  <2>6. pc' = [pc EXCEPT ![p] = "idle"] /\ snap' = [snap EXCEPT ![p] = BlankRow]
        /\ (Exists => kind' = kind)
    BY <1>28 DEF EndRoundSave, Return
  <2> QED BY <2>1, <2>4, <2>5, <2>6, <1>00, <1>0
<1>29. ASSUME Next, CronFind PROVE Safe'
  BY <1>29, <1>k, <1>0, <1>00 DEF CronFind, Kept, Idle, Goto, Await, Load, Return, rest, relations, Update, Row, Null
<1>30. ASSUME Next, CronClose PROVE Safe'
  <2> DEFINE sc == OrZero(snap[Cron].score)
  <2>1. sc \in [Team -> Scores \cup {Null, 0}] /\ \A t \in Team : sc[t] # Null
    BY <1>0, OrZeroType DEF Procs, Row
  <2>2. row' = IF Exists THEN [row EXCEPT !.score = sc, !.ended = TRUE, !.winner = Outcome(sc)]
                         ELSE row
    BY <1>30 DEF CronClose, Update
  <2>3. pc' = [pc EXCEPT ![Cron] = "idle"] /\ snap' = [snap EXCEPT ![Cron] = BlankRow]
        /\ kind' = kind /\ removed' = removed /\ pc[Cron] = "cronClose"
    BY <1>30 DEF CronClose, Return, rest
  <2>4. Cron \in Procs
    BY DEF Procs
  <2>5. ASSUME ~removed PROVE BothReady /\ Exists
    BY <2>3, <2>4, <2>5
  <2>6. ASSUME ~removed PROVE BothReady' /\ AllScored' /\ row'.ended
    <3> HIDE DEF sc
    <3>1. row'.ready = row.ready /\ row'.score = sc /\ row'.ended
      BY <2>1, <2>2, <2>5, <2>6, <1>0 DEF Row
    <3> QED BY <3>1, <2>1, <2>5, <2>6
  <2> QED BY <2>3, <2>4, <2>5, <2>6, <1>0
<1>31. ASSUME Next, HourPasses PROVE Safe'
  BY <1>31, <1>k, <1>0, <1>00 DEF HourPasses, Kept, Idle, Goto, Await, Load, Return, rest, relations, Update, Row, Null
<1>32. ASSUME Next, NEW p \in Procs, Fail(p) PROVE Safe'
  BY <1>32, <1>k, <1>0, <1>00 DEF Fail, Kept, Idle, Goto, Await, Load, Return, rest, relations, Update, Row, Null
<1>33. CASE UNCHANGED vars
  BY <1>33 DEF vars
<1> QED
  BY <1>1, <1>2, <1>3, <1>4, <1>5, <1>6, <1>7, <1>8, <1>9, <1>10, <1>11, <1>12, <1>13, <1>14, <1>15, <1>16, <1>17, <1>18, <1>19, <1>20, <1>21, <1>22, <1>23, <1>24, <1>25, <1>26, <1>27, <1>28, <1>29, <1>30, <1>31, <1>32, <1>33 DEF Next, Ask, Proceed

\* Types and invariant hold of every reachable state, for all constants.
LEMMA Invariance == Spec => [](TypeOK /\ Safe)
<1>1. Init => Safe
  BY DEF Init, Safe, Fresh, AdmittedReady, Admitted, ReadScores, RemovalSeen, CronFound,
         PlayNeedsReadiness, WinnerNeedsScores, BlankRow, Team, Procs
<1> QED BY <1>1, TypeCorrect, SafeStep, PTL DEF Spec

\* Only games that both teams declared ready are played.
THEOREM PlayIsReady == Spec => []PlayNeedsReadiness
<1>1. Safe => PlayNeedsReadiness
  BY DEF Safe
<1> QED BY <1>1, Invariance, PTL

\* A persisted winner comes with an ended game and two scores.
THEOREM WinnerIsScored == Spec => []WinnerNeedsScores
<1>1. Safe => WinnerNeedsScores
  BY DEF Safe
<1> QED BY <1>1, Invariance, PTL

(***************************************************************************)
(* No automatic start or end is lost: as long as a ready game has not      *)
(* started, some handler is still on its way to start it; likewise for the *)
(* end of a game with two scores.                                          *)
(***************************************************************************)

Starting == {"readyReread", "startWrite"}
StartPending ==
  ~removed /\ ~failed /\ BothReady /\ ~row.started
    => \E p \in Requests : pc[p] \in Starting

Ending == {"scoreReread", "endRead", "endWrite"}
EndPending ==
  ~removed /\ ~failed /\ AllScored /\ ~row.ended
    => \E p \in Requests : pc[p] \in Ending

\* Whoever makes a ready game wait for its start is still about to start it.
LEMMA StartStep ==
  ASSUME TypeOK, Safe, StartPending, [Next]_vars
  PROVE  StartPending'
<1> USE DEF StartPending, Starting, BothReady
<1>0. row \in Row /\ pc \in [Procs -> PC] /\ snap \in [Procs -> Row]
      /\ arg \in [Procs -> [team: Team, user: Users, score: Scores \cup {0}]]
  BY DEF TypeOK
<1>00. (\A p \in Requests : p \in Procs) /\ Cron \notin Requests /\ Cron \in Procs
  BY GameAssumption DEF Procs
<1>k. ASSUME Next, ~removed' PROVE Kept /\ ~removed
  BY <1>k, KeptStep
<1>1. ASSUME Next, NEW p \in Requests, CreateBare(p) PROVE StartPending'
  BY <1>1, <1>k, <1>0, <1>00 DEF CreateBare, Kept, Known, Idle, Goto, Await, Load, Return, rest, relations, Update, Exists, Safe, Fresh, Row
<1>2. ASSUME Next, NEW p \in Requests, CreateForRound(p) PROVE StartPending'
  BY <1>2, <1>k, <1>0, <1>00 DEF CreateForRound, Kept, Known, Idle, Goto, Await, Load, Return, rest, relations, Update, Exists, Safe, Fresh, Row
<1>3. ASSUME Next, NEW p \in Requests, JoinTeam(p) PROVE StartPending'
  BY <1>3, <1>k, <1>0, <1>00 DEF JoinTeam, Kept, Known, Idle, Goto, Await, Load, Return, rest, relations, Update, Exists, Safe, Fresh, Row
<1>4. ASSUME Next, NEW p \in Requests, LeaveTeam(p) PROVE StartPending'
  BY <1>4, <1>k, <1>0, <1>00 DEF LeaveTeam, Kept, Known, Idle, Goto, Await, Load, Return, rest, relations, Update, Exists, Safe, Fresh, Row
<1>5. ASSUME Next, NEW p \in Requests, SetTeamReady(p) PROVE StartPending'
  BY <1>5, <1>k, <1>0, <1>00 DEF SetTeamReady, Kept, Known, Idle, Goto, Await, Load, Return, rest, relations, Update, Exists, Safe, Fresh, Row
<1>6. ASSUME Next, NEW p \in Requests, UpdateTeamScore(p) PROVE StartPending'
  BY <1>6, <1>k, <1>0, <1>00 DEF UpdateTeamScore, Kept, Known, Idle, Goto, Await, Load, Return, rest, relations, Update, Exists, Safe, Fresh, Row
<1>7. ASSUME Next, NEW p \in Requests, EndValidate(p) PROVE StartPending'
  BY <1>7, <1>k, <1>0, <1>00 DEF EndValidate, Kept, Known, Idle, Goto, Await, Load, Return, rest, relations, Update, Exists, Safe, Fresh, Row
<1>8. ASSUME Next, NEW p \in Requests, CancelValidate(p) PROVE StartPending'
  BY <1>8, <1>k, <1>0, <1>00 DEF CancelValidate, Kept, Known, Idle, Goto, Await, Load, Return, rest, relations, Update, Exists, Safe, Fresh, Row
<1>9. ASSUME Next, NEW p \in Requests, RemoveAuthorize(p) PROVE StartPending'
  BY <1>9, <1>k, <1>0, <1>00 DEF RemoveAuthorize, Kept, Known, Idle, Goto, Await, Load, Return, rest, relations, Update, Exists, Safe, Fresh, Row
<1>10. ASSUME Next, NEW p \in Requests, EndRoundLoad(p) PROVE StartPending'
  BY <1>10, <1>k, <1>0, <1>00 DEF EndRoundLoad, Kept, Known, Idle, Goto, Await, Load, Return, rest, relations, Update, Exists, Safe, Fresh, Row
<1>11. ASSUME Next, NEW p \in Requests, CreateFromDivisions(p) PROVE StartPending'
  BY <1>11, <1>k, <1>0, <1>00 DEF CreateFromDivisions, Kept, Known, Idle, Goto, Await, Load, Return, rest, relations, Update, Exists, Safe, Fresh, Row
<1>12. ASSUME Next, NEW p \in Requests, CreateFromInvitations(p) PROVE StartPending'
  BY <1>12, <1>k, <1>0, <1>00 DEF CreateFromInvitations, Kept, Known, Idle, Goto, Await, Load, Return, rest, relations, Update, Exists, Safe, Fresh, Row
<1>13. ASSUME Next, NEW p \in Requests, CreateNobody(p) PROVE StartPending'
  BY <1>13, <1>k, <1>0, <1>00 DEF CreateNobody, Kept, Known, Idle, Goto, Await, Load, Return, rest, relations, Update, Exists, Safe, Fresh, Row
<1>14. ASSUME Next, NEW p \in Requests, JoinAdd(p) PROVE StartPending'
  BY <1>14, <1>k, <1>0, <1>00 DEF JoinAdd, Kept, Known, Idle, Goto, Await, Load, Return, rest, relations, Update, Exists, Safe, Fresh, Row
<1>15. ASSUME Next, NEW p \in Requests, LeaveRemove(p) PROVE StartPending'
  BY <1>15, <1>k, <1>0, <1>00 DEF LeaveRemove, Kept, Known, Idle, Goto, Await, Load, Return, rest, relations, Update, Exists, Safe, Fresh, Row
<1>16. ASSUME Next, NEW p \in Requests, ReadyWrite(p) PROVE StartPending'
  BY <1>16, <1>k, <1>0, <1>00 DEF ReadyWrite, Kept, Known, Idle, Goto, Await, Load, Return, rest, relations, Update, Exists, Safe, Fresh, Row
<1>17. ASSUME Next, NEW p \in Requests, ReadyReread(p) PROVE StartPending'
  BY <1>17, <1>k, <1>0, <1>00 DEF ReadyReread, Kept, Known, Idle, Goto, Await, Load, Return, rest, relations, Update, Exists, Safe, Fresh, Row
<1>18. ASSUME Next, NEW p \in Requests, StartGame(p) PROVE StartPending'
  BY <1>18, <1>k, <1>0, <1>00 DEF StartGame, Kept, Known, Idle, Goto, Await, Load, Return, rest, relations, Update, Exists, Safe, Fresh, Row
<1>19. ASSUME Next, NEW p \in Requests, ScoreWrite(p) PROVE StartPending'
  BY <1>19, <1>k, <1>0, <1>00 DEF ScoreWrite, Kept, Known, Idle, Goto, Await, Load, Return, rest, relations, Update, Exists, Safe, Fresh, Row
<1>20. ASSUME Next, NEW p \in Requests, ScoreReread(p) PROVE StartPending'
  BY <1>20, <1>k, <1>0, <1>00 DEF ScoreReread, Kept, Known, Idle, Goto, Await, Load, Return, rest, relations, Update, Exists, Safe, Fresh, Row
<1>21. ASSUME Next, NEW p \in Requests, EndAuthorize(p) PROVE StartPending'
  BY <1>21, <1>k, <1>0, <1>00 DEF EndAuthorize, Kept, Known, Idle, Goto, Await, Load, Return, rest, relations, Update, Exists, Safe, Fresh, Row
<1>22. ASSUME Next, NEW p \in Requests, EndRead(p) PROVE StartPending'
  BY <1>22, <1>k, <1>0, <1>00 DEF EndRead, Kept, Known, Idle, Goto, Await, Load, Return, rest, relations, Update, Exists, Safe, Fresh, Row
<1>23. ASSUME Next, NEW p \in Requests, EndWrite(p) PROVE StartPending'
  BY <1>23, <1>k, <1>0, <1>00 DEF EndWrite, Kept, Known, Idle, Goto, Await, Load, Return, rest, relations, Update, Exists, Safe, Fresh, Row
<1>24. ASSUME Next, NEW p \in Requests, CancelSave(p) PROVE StartPending'
  BY <1>24, <1>k, <1>0, <1>00 DEF CancelSave, Kept, Known, Idle, Goto, Await, Load, Return, rest, relations, Update, Exists, Safe, Fresh, Row
<1>25. ASSUME Next, NEW p \in Requests, RemoveLoad(p) PROVE StartPending'
  BY <1>25, <1>k, <1>0, <1>00 DEF RemoveLoad, Kept, Known, Idle, Goto, Await, Load, Return, rest, relations, Update, Exists, Safe, Fresh, Row
<1>26. ASSUME Next, NEW p \in Requests, RemoveSave(p) PROVE StartPending'
  BY <1>26, <1>k, <1>0, <1>00 DEF RemoveSave, Kept, Known, Idle, Goto, Await, Load, Return, rest, relations, Update, Exists, Safe, Fresh, Row
<1>27. ASSUME Next, NEW p \in Requests, RemoveDelete(p) PROVE StartPending'
  BY <1>27, <1>k, <1>0, <1>00 DEF RemoveDelete, Safe, RemovalSeen
<1>28. ASSUME Next, NEW p \in Requests, EndRoundSave(p) PROVE StartPending'
  BY <1>28, <1>k, <1>0, <1>00 DEF EndRoundSave, Kept, Known, Idle, Goto, Await, Load, Return, rest, relations, Update, Exists, Safe, Fresh, Row
<1>29. ASSUME Next, CronFind PROVE StartPending'
  BY <1>29, <1>k, <1>0, <1>00 DEF CronFind, Kept, Known, Idle, Goto, Await, Load, Return, rest, relations, Update, Exists, Safe, Fresh, Row
<1>30. ASSUME Next, CronClose PROVE StartPending'
  BY <1>30, <1>k, <1>0, <1>00 DEF CronClose, Kept, Known, Idle, Goto, Await, Load, Return, rest, relations, Update, Exists, Safe, Fresh, Row
<1>31. ASSUME Next, HourPasses PROVE StartPending'
  BY <1>31, <1>k, <1>0, <1>00 DEF HourPasses, Kept, Known, Idle, Goto, Await, Load, Return, rest, relations, Update, Exists, Safe, Fresh, Row
<1>32. ASSUME Next, NEW p \in Procs, Fail(p) PROVE StartPending'
  BY <1>32, <1>k, <1>0, <1>00 DEF Fail, Kept, Known, Idle, Goto, Await, Load, Return, rest, relations, Update, Exists, Safe, Fresh, Row
<1>33. CASE UNCHANGED vars
  BY <1>33 DEF vars
<1> QED
  BY <1>1, <1>2, <1>3, <1>4, <1>5, <1>6, <1>7, <1>8, <1>9, <1>10, <1>11, <1>12, <1>13, <1>14, <1>15, <1>16, <1>17, <1>18, <1>19, <1>20, <1>21, <1>22, <1>23, <1>24, <1>25, <1>26, <1>27, <1>28, <1>29, <1>30, <1>31, <1>32, <1>33 DEF Next, Ask, Proceed

\* Whoever recorded the second score, or a later one, is still about to end it.
LEMMA EndStep ==
  ASSUME TypeOK, Safe, EndPending, [Next]_vars
  PROVE  EndPending'
<1> USE DEF EndPending, Ending, AllScored
<1>0. row \in Row /\ pc \in [Procs -> PC] /\ snap \in [Procs -> Row]
      /\ arg \in [Procs -> [team: Team, user: Users, score: Scores \cup {0}]]
  BY DEF TypeOK
<1>00. (\A p \in Requests : p \in Procs) /\ Cron \notin Requests /\ Cron \in Procs
  BY GameAssumption DEF Procs
<1>k. ASSUME Next, ~removed' PROVE Kept /\ ~removed
  BY <1>k, KeptStep
<1>1. ASSUME Next, NEW p \in Requests, CreateBare(p) PROVE EndPending'
  BY <1>1, <1>k, <1>0, <1>00 DEF CreateBare, Kept, Known, Idle, Goto, Await, Load, Return, rest, relations, Update, Exists, Safe, Fresh, Row
<1>2. ASSUME Next, NEW p \in Requests, CreateForRound(p) PROVE EndPending'
  BY <1>2, <1>k, <1>0, <1>00 DEF CreateForRound, Kept, Known, Idle, Goto, Await, Load, Return, rest, relations, Update, Exists, Safe, Fresh, Row
<1>3. ASSUME Next, NEW p \in Requests, JoinTeam(p) PROVE EndPending'
  BY <1>3, <1>k, <1>0, <1>00 DEF JoinTeam, Kept, Known, Idle, Goto, Await, Load, Return, rest, relations, Update, Exists, Safe, Fresh, Row
<1>4. ASSUME Next, NEW p \in Requests, LeaveTeam(p) PROVE EndPending'
  BY <1>4, <1>k, <1>0, <1>00 DEF LeaveTeam, Kept, Known, Idle, Goto, Await, Load, Return, rest, relations, Update, Exists, Safe, Fresh, Row
<1>5. ASSUME Next, NEW p \in Requests, SetTeamReady(p) PROVE EndPending'
  BY <1>5, <1>k, <1>0, <1>00 DEF SetTeamReady, Kept, Known, Idle, Goto, Await, Load, Return, rest, relations, Update, Exists, Safe, Fresh, Row
<1>6. ASSUME Next, NEW p \in Requests, UpdateTeamScore(p) PROVE EndPending'
  BY <1>6, <1>k, <1>0, <1>00 DEF UpdateTeamScore, Kept, Known, Idle, Goto, Await, Load, Return, rest, relations, Update, Exists, Safe, Fresh, Row
<1>7. ASSUME Next, NEW p \in Requests, EndValidate(p) PROVE EndPending'
  BY <1>7, <1>k, <1>0, <1>00 DEF EndValidate, Kept, Known, Idle, Goto, Await, Load, Return, rest, relations, Update, Exists, Safe, Fresh, Row
<1>8. ASSUME Next, NEW p \in Requests, CancelValidate(p) PROVE EndPending'
  BY <1>8, <1>k, <1>0, <1>00 DEF CancelValidate, Kept, Known, Idle, Goto, Await, Load, Return, rest, relations, Update, Exists, Safe, Fresh, Row
<1>9. ASSUME Next, NEW p \in Requests, RemoveAuthorize(p) PROVE EndPending'
  BY <1>9, <1>k, <1>0, <1>00 DEF RemoveAuthorize, Kept, Known, Idle, Goto, Await, Load, Return, rest, relations, Update, Exists, Safe, Fresh, Row
<1>10. ASSUME Next, NEW p \in Requests, EndRoundLoad(p) PROVE EndPending'
  BY <1>10, <1>k, <1>0, <1>00 DEF EndRoundLoad, Kept, Known, Idle, Goto, Await, Load, Return, rest, relations, Update, Exists, Safe, Fresh, Row
<1>11. ASSUME Next, NEW p \in Requests, CreateFromDivisions(p) PROVE EndPending'
  BY <1>11, <1>k, <1>0, <1>00 DEF CreateFromDivisions, Kept, Known, Idle, Goto, Await, Load, Return, rest, relations, Update, Exists, Safe, Fresh, Row
<1>12. ASSUME Next, NEW p \in Requests, CreateFromInvitations(p) PROVE EndPending'
  BY <1>12, <1>k, <1>0, <1>00 DEF CreateFromInvitations, Kept, Known, Idle, Goto, Await, Load, Return, rest, relations, Update, Exists, Safe, Fresh, Row
<1>13. ASSUME Next, NEW p \in Requests, CreateNobody(p) PROVE EndPending'
  BY <1>13, <1>k, <1>0, <1>00 DEF CreateNobody, Kept, Known, Idle, Goto, Await, Load, Return, rest, relations, Update, Exists, Safe, Fresh, Row
<1>14. ASSUME Next, NEW p \in Requests, JoinAdd(p) PROVE EndPending'
  BY <1>14, <1>k, <1>0, <1>00 DEF JoinAdd, Kept, Known, Idle, Goto, Await, Load, Return, rest, relations, Update, Exists, Safe, Fresh, Row
<1>15. ASSUME Next, NEW p \in Requests, LeaveRemove(p) PROVE EndPending'
  BY <1>15, <1>k, <1>0, <1>00 DEF LeaveRemove, Kept, Known, Idle, Goto, Await, Load, Return, rest, relations, Update, Exists, Safe, Fresh, Row
<1>16. ASSUME Next, NEW p \in Requests, ReadyWrite(p) PROVE EndPending'
  BY <1>16, <1>k, <1>0, <1>00 DEF ReadyWrite, Kept, Known, Idle, Goto, Await, Load, Return, rest, relations, Update, Exists, Safe, Fresh, Row
<1>17. ASSUME Next, NEW p \in Requests, ReadyReread(p) PROVE EndPending'
  BY <1>17, <1>k, <1>0, <1>00 DEF ReadyReread, Kept, Known, Idle, Goto, Await, Load, Return, rest, relations, Update, Exists, Safe, Fresh, Row
<1>18. ASSUME Next, NEW p \in Requests, StartGame(p) PROVE EndPending'
  BY <1>18, <1>k, <1>0, <1>00 DEF StartGame, Kept, Known, Idle, Goto, Await, Load, Return, rest, relations, Update, Exists, Safe, Fresh, Row
<1>19. ASSUME Next, NEW p \in Requests, ScoreWrite(p) PROVE EndPending'
  BY <1>19, <1>k, <1>0, <1>00 DEF ScoreWrite, Kept, Known, Idle, Goto, Await, Load, Return, rest, relations, Update, Exists, Safe, Fresh, Row
<1>20. ASSUME Next, NEW p \in Requests, ScoreReread(p) PROVE EndPending'
  BY <1>20, <1>k, <1>0, <1>00 DEF ScoreReread, Kept, Known, Idle, Goto, Await, Load, Return, rest, relations, Update, Exists, Safe, Fresh, Row
<1>21. ASSUME Next, NEW p \in Requests, EndAuthorize(p) PROVE EndPending'
  BY <1>21, <1>k, <1>0, <1>00 DEF EndAuthorize, Kept, Known, Idle, Goto, Await, Load, Return, rest, relations, Update, Exists, Safe, Fresh, Row
<1>22. ASSUME Next, NEW p \in Requests, EndRead(p) PROVE EndPending'
  BY <1>22, <1>k, <1>0, <1>00 DEF EndRead, Kept, Known, Idle, Goto, Await, Load, Return, rest, relations, Update, Exists, Safe, Fresh, Row
<1>23. ASSUME Next, NEW p \in Requests, EndWrite(p) PROVE EndPending'
  BY <1>23, <1>k, <1>0, <1>00 DEF EndWrite, Kept, Known, Idle, Goto, Await, Load, Return, rest, relations, Update, Exists, Safe, Fresh, Row
<1>24. ASSUME Next, NEW p \in Requests, CancelSave(p) PROVE EndPending'
  BY <1>24, <1>k, <1>0, <1>00 DEF CancelSave, Kept, Known, Idle, Goto, Await, Load, Return, rest, relations, Update, Exists, Safe, Fresh, Row
<1>25. ASSUME Next, NEW p \in Requests, RemoveLoad(p) PROVE EndPending'
  BY <1>25, <1>k, <1>0, <1>00 DEF RemoveLoad, Kept, Known, Idle, Goto, Await, Load, Return, rest, relations, Update, Exists, Safe, Fresh, Row
<1>26. ASSUME Next, NEW p \in Requests, RemoveSave(p) PROVE EndPending'
  BY <1>26, <1>k, <1>0, <1>00 DEF RemoveSave, Kept, Known, Idle, Goto, Await, Load, Return, rest, relations, Update, Exists, Safe, Fresh, Row
<1>27. ASSUME Next, NEW p \in Requests, RemoveDelete(p) PROVE EndPending'
  BY <1>27, <1>k, <1>0, <1>00 DEF RemoveDelete, Safe, RemovalSeen
<1>28. ASSUME Next, NEW p \in Requests, EndRoundSave(p) PROVE EndPending'
  BY <1>28, <1>k, <1>0, <1>00 DEF EndRoundSave, Kept, Known, Idle, Goto, Await, Load, Return, rest, relations, Update, Exists, Safe, Fresh, Row
<1>29. ASSUME Next, CronFind PROVE EndPending'
  BY <1>29, <1>k, <1>0, <1>00 DEF CronFind, Kept, Known, Idle, Goto, Await, Load, Return, rest, relations, Update, Exists, Safe, Fresh, Row
<1>30. ASSUME Next, CronClose PROVE EndPending'
  BY <1>30, <1>k, <1>0, <1>00 DEF CronClose, Kept, Known, Idle, Goto, Await, Load, Return, rest, relations, Update, Exists, Safe, Fresh, Row
<1>31. ASSUME Next, HourPasses PROVE EndPending'
  BY <1>31, <1>k, <1>0, <1>00 DEF HourPasses, Kept, Known, Idle, Goto, Await, Load, Return, rest, relations, Update, Exists, Safe, Fresh, Row
<1>32. ASSUME Next, NEW p \in Procs, Fail(p) PROVE EndPending'
  BY <1>32, <1>k, <1>0, <1>00 DEF Fail, Kept, Known, Idle, Goto, Await, Load, Return, rest, relations, Update, Exists, Safe, Fresh, Row
<1>33. CASE UNCHANGED vars
  BY <1>33 DEF vars
<1> QED
  BY <1>1, <1>2, <1>3, <1>4, <1>5, <1>6, <1>7, <1>8, <1>9, <1>10, <1>11, <1>12, <1>13, <1>14, <1>15, <1>16, <1>17, <1>18, <1>19, <1>20, <1>21, <1>22, <1>23, <1>24, <1>25, <1>26, <1>27, <1>28, <1>29, <1>30, <1>31, <1>32, <1>33 DEF Next, Ask, Proceed

\* Whenever nothing is in flight and no query failed, a game whose teams are
\* both ready has started.
THEOREM NoStartIsLost == Spec => []NoLostStart
<1>1. Init => StartPending
  BY DEF Init, StartPending, BothReady, BlankRow, Team
<1>2. StartPending => NoLostStart
  BY DEF StartPending, NoLostStart, Quiet, Starting, Procs
<1> QED BY <1>1, <1>2, StartStep, Invariance, PTL DEF Spec

\* Whenever nothing is in flight and no query failed, a game with both scores
\* is over.
THEOREM NoEndIsLost == Spec => []NoLostEnd
<1>1. Init => EndPending
  BY DEF Init, EndPending, AllScored, BlankRow, Team
<1>2. EndPending => NoLostEnd
  BY DEF EndPending, NoLostEnd, Quiet, Ending, Procs
<1> QED BY <1>1, <1>2, EndStep, Invariance, PTL DEF Spec

(***************************************************************************)
(* Refinement of GameLifecycle.                                            *)
(***************************************************************************)

\* A step that the lifecycle allows, or does not see.
Implements == [Promise!Next]_(Promise!vars)

\* The lifecycle sees the row only ...
LEMMA StutterStep ==
  ASSUME row' = row, kind' = kind, removed' = removed
  PROVE  Implements
BY DEF Implements, Promise!vars, Phase, Exists, BothReady

\* ... and nothing of a game that is being deleted.
LEMMA GoneStep ==
  ASSUME removed, removed'
  PROVE  Implements
BY DEF Implements, Promise!vars, Phase, Exists, BothReady

\* Every step of a handler, the scheduler or the clock is a step of the
\* lifecycle or a stutter.
LEMMA LifecycleStep ==
  ASSUME TypeOK, Safe, Safe', [Next]_vars
  PROVE  Implements
<1>0. row \in Row /\ pc \in [Procs -> PC] /\ snap \in [Procs -> Row]
      /\ arg \in [Procs -> [team: Team, user: Users, score: Scores \cup {0}]]
  BY DEF TypeOK
<1>00. (\A p \in Requests : p \in Procs) /\ Cron \in Procs
  BY DEF Procs
<1>r. ASSUME removed, removed' PROVE Implements
  BY <1>r, GoneStep
<1>h. row' = row /\ kind' = kind /\ removed' = removed => Implements
  BY StutterStep
<1>e. ASSUME ~removed, NEW p \in Procs, pc[p] \in Admitted
      PROVE  BothReady /\ Exists /\ Phase = IF row.ended THEN "over" ELSE "ready"
  BY <1>e DEF Safe, AdmittedReady, Fresh, Admitted, Phase, BothReady, BlankRow, Team
<1>1. ASSUME NEW p \in Requests,
           \/ JoinTeam(p) \/ LeaveTeam(p) \/ SetTeamReady(p) \/ UpdateTeamScore(p)
           \/ EndValidate(p) \/ CancelValidate(p) \/ RemoveAuthorize(p)
           \/ EndRoundLoad(p)
     PROVE  Implements
  BY <1>1, <1>h DEF JoinTeam, LeaveTeam, SetTeamReady, UpdateTeamScore, EndValidate, CancelValidate, RemoveAuthorize, EndRoundLoad,
       rest, relations
<1>2. ASSUME NEW p \in Requests,
           \/ CreateFromDivisions(p) \/ CreateFromInvitations(p) \/ CreateNobody(p)
           \/ JoinAdd(p) \/ LeaveRemove(p) \/ ReadyReread(p) \/ ScoreReread(p)
           \/ EndAuthorize(p) \/ EndRead(p) \/ RemoveLoad(p)
     PROVE  Implements
  BY <1>2, <1>h DEF CreateFromDivisions, CreateFromInvitations, CreateNobody, JoinAdd, LeaveRemove, ReadyReread, ScoreReread, EndAuthorize, EndRead, RemoveLoad,
       rest, relations
<1>3. ASSUME CronFind \/ HourPasses \/ \E p \in Procs : Fail(p) PROVE Implements
  BY <1>3, <1>h DEF CronFind, HourPasses, Fail, rest, relations
<1>4. ASSUME NEW p \in Requests, CreateBare(p) PROVE Implements
  BY <1>4, <1>h, <1>r, <1>0, <1>00, GameAssumption, OrZeroType DEF Implements, CreateBare, Goto, Return, Update, rest, relations, Idle, Row, BlankRow, Safe, Fresh, RemovalSeen, AdmittedReady, Admitted, PlayNeedsReadiness, Phase, Exists, BothReady, Promise!Next, Promise!vars, Promise!Open, Promise!Live
<1>5. ASSUME NEW p \in Requests, CreateForRound(p) PROVE Implements
  BY <1>5, <1>h, <1>r, <1>0, <1>00, GameAssumption, OrZeroType DEF Implements, CreateForRound, Goto, Return, Update, rest, relations, Idle, Row, BlankRow, Safe, Fresh, RemovalSeen, AdmittedReady, Admitted, PlayNeedsReadiness, Phase, Exists, BothReady, Promise!Next, Promise!vars, Promise!Open, Promise!Live
<1>6. ASSUME NEW p \in Requests, ReadyWrite(p) PROVE Implements
  BY <1>6, <1>h, <1>r, <1>0, <1>00, GameAssumption, OrZeroType DEF Implements, ReadyWrite, Goto, Return, Update, rest, relations, Idle, Row, BlankRow, Safe, Fresh, RemovalSeen, AdmittedReady, Admitted, PlayNeedsReadiness, Phase, Exists, BothReady, Promise!Next, Promise!vars, Promise!GetReady, Promise!Live
<1>7. ASSUME NEW p \in Requests, StartGame(p) PROVE Implements
  BY <1>7, <1>h, <1>r, <1>0, <1>00, GameAssumption, OrZeroType DEF Implements, StartGame, Goto, Return, Update, rest, relations, Idle, Row, BlankRow, Safe, Fresh, RemovalSeen, AdmittedReady, Admitted, PlayNeedsReadiness, Phase, Exists, BothReady, Promise!Next, Promise!vars, Promise!Start, Promise!Live
<1>8. ASSUME NEW p \in Requests, ScoreWrite(p) PROVE Implements
  <2>1. pc[p] = "scoreWrite" /\ kind' = kind /\ removed' = removed
        /\ row' = IF Exists THEN [row EXCEPT !.score[arg[p].team] = arg[p].score] ELSE row
    BY <1>8 DEF ScoreWrite, Update, rest
  <2>2. SUFFICES ASSUME ~removed PROVE Promise!Score
    BY <2>1, <1>r DEF Implements, Promise!Next
  <2>3. BothReady /\ Exists /\ Phase = IF row.ended THEN "over" ELSE "ready"
    BY <2>1, <2>2, <1>e, <1>00 DEF Admitted
  <2>4. arg[p].team \in Team /\ arg[p].score # Null
    BY <1>0, <1>00, GameAssumption DEF Null
  <2>5. /\ row'.ready = row.ready /\ row'.started = row.started
        /\ row'.ended = row.ended /\ row'.winner = row.winner
        /\ row'.score = [row.score EXCEPT ![arg[p].team] = arg[p].score]
    BY <2>1, <2>3, <1>0 DEF Row
  <2>6. Phase' = Phase
    BY <2>1, <2>5 DEF Phase, Exists, BothReady
  <2>7. row.score \in [Team -> Scores \cup {Null, 0}]
    BY <1>0 DEF Row
  <2>8. {t \in Team : ~removed' /\ row'.score[t] # Null}
          = {t \in Team : ~removed /\ row.score[t] # Null} \cup {arg[p].team}
    BY <2>1, <2>2, <2>4, <2>5, <2>7
  <2> QED BY <2>1, <2>3, <2>4, <2>5, <2>6, <2>8 DEF Promise!Score
<1>9. ASSUME NEW p \in Requests, EndWrite(p) PROVE Implements
  <2> DEFINE score == snap[p].score
             w == IF \A t \in Team : score[t] # Null THEN Outcome(score) ELSE row.winner
  <2>1. pc[p] = "endWrite" /\ kind' = kind /\ removed' = removed
        /\ row' = IF Exists THEN [row EXCEPT !.ended = TRUE, !.winner = w] ELSE row
    BY <1>9 DEF EndWrite, Update, rest
  <2>2. SUFFICES ASSUME ~removed PROVE Promise!Finish
    BY <2>1, <1>r DEF Implements, Promise!Next
  <2>3. BothReady /\ Exists /\ Phase = IF row.ended THEN "over" ELSE "ready"
    BY <2>1, <2>2, <1>e, <1>00 DEF Admitted
  <2>4. w = row.winner \/ \A t \in Team : row.score[t] # Null
    BY <2>1, <2>2, <1>00 DEF Safe, ReadScores
  <2>5. /\ row'.ready = row.ready /\ row'.started = row.started
        /\ row'.ended = TRUE /\ row'.winner = w /\ row'.score = row.score
    <3> HIDE DEF w
    <3> QED BY <2>1, <2>3, <1>0 DEF Row
  <2> HIDE DEF w
  <2>6. Phase' = "over"
    BY <2>1, <2>2, <2>3, <2>5 DEF Phase, Exists, BothReady
  <2>7. {t \in Team : ~removed' /\ row'.score[t] # Null}
          = {t \in Team : ~removed /\ row.score[t] # Null}
    BY <2>1, <2>2, <2>5
  <2> QED BY <2>1, <2>2, <2>3, <2>4, <2>5, <2>6, <2>7 DEF Promise!Finish
<1>10. ASSUME NEW p \in Requests, CancelSave(p) PROVE Implements
  BY <1>10, <1>h, <1>r, <1>0, <1>00, GameAssumption, OrZeroType DEF Implements, CancelSave, Goto, Return, Update, rest, relations, Idle, Row, BlankRow, Safe, Fresh, RemovalSeen, AdmittedReady, Admitted, PlayNeedsReadiness, Phase, Exists, BothReady, Promise!Next, Promise!vars, Promise!Open, Promise!Live
<1>11. ASSUME NEW p \in Requests, RemoveSave(p) PROVE Implements
  BY <1>11, <1>h, <1>r, <1>0, <1>00, GameAssumption, OrZeroType DEF Implements, RemoveSave, Goto, Return, Update, rest, relations, Idle, Row, BlankRow, Safe, Fresh, RemovalSeen, AdmittedReady, Admitted, PlayNeedsReadiness, Phase, Exists, BothReady, Promise!Next, Promise!vars, Promise!Remove, Promise!Live
<1>12. ASSUME NEW p \in Requests, RemoveDelete(p) PROVE Implements
  BY <1>12, <1>h, <1>r, <1>0, <1>00, GameAssumption, OrZeroType DEF Implements, RemoveDelete, Goto, Return, Update, rest, relations, Idle, Row, BlankRow, Safe, Fresh, RemovalSeen, AdmittedReady, Admitted, PlayNeedsReadiness, Phase, Exists, BothReady, Promise!Next, Promise!vars, Promise!Open, Promise!Live
<1>13. ASSUME NEW p \in Requests, EndRoundSave(p) PROVE Implements
  <2> DEFINE score == OrZero(snap[p].score)
  <2>1. pc[p] = "endRoundSave" /\ removed' = removed
        /\ kind' = (IF Exists THEN kind ELSE "reborn")
        /\ row' = [snap[p] EXCEPT !.ready = [t \in Team |-> TRUE], !.score = score,
                                  !.started = TRUE, !.ended = TRUE]
    BY <1>13 DEF EndRoundSave
  <2>2. SUFFICES ASSUME ~removed PROVE Promise!Close
    BY <2>1, <1>r DEF Implements, Promise!Next
  <2>3. Exists
    BY <2>1, <2>2, <1>00 DEF Safe, Fresh
  <2>4. \A t \in Team : score[t] # Null
    BY <1>0, <1>00, OrZeroType DEF Row
  <2> HIDE DEF score
  <2>5. row'.started = TRUE /\ row'.ended = TRUE /\ row'.score = score
    BY <2>1, <1>0, <1>00 DEF Row
  <2>6. Phase' = "over"
    BY <2>1, <2>2, <2>3, <2>5 DEF Phase, Exists, BothReady
  <2>7. Phase \in {"open", "ready", "over"}
    BY <2>2, <2>3 DEF Phase, Exists, BothReady
  <2>8. {t \in Team : ~removed' /\ row'.score[t] # Null} = Team
    BY <2>1, <2>2, <2>4, <2>5
  <2> QED BY <2>1, <2>2, <2>5, <2>6, <2>7, <2>8 DEF Promise!Close
<1>14. ASSUME CronClose PROVE Implements
  <2> DEFINE score == OrZero(snap[Cron].score)
  <2>1. pc[Cron] = "cronClose" /\ kind' = kind /\ removed' = removed
        /\ row' = IF Exists
                  THEN [row EXCEPT !.score = score, !.ended = TRUE, !.winner = Outcome(score)]
                  ELSE row
    BY <1>14 DEF CronClose, Update, rest
  <2>2. SUFFICES ASSUME ~removed PROVE Promise!Close
    BY <2>1, <1>r DEF Implements, Promise!Next
  <2>3. BothReady /\ Exists /\ row.started
    BY <2>1, <2>2, <1>e, <1>00 DEF Admitted, Safe, CronFound
  <2>4. \A t \in Team : score[t] # Null
    BY <1>0, <1>00, OrZeroType DEF Row
  <2> HIDE DEF score
  <2>5. row'.started = TRUE /\ row'.ended = TRUE /\ row'.score = score
    BY <2>1, <2>3, <1>0, <1>00 DEF Row
  <2>6. Phase' = "over"
    BY <2>1, <2>2, <2>3, <2>5 DEF Phase, Exists, BothReady
  <2>7. Phase \in {"open", "ready", "over"}
    BY <2>2, <2>3 DEF Phase, Exists, BothReady
  <2>8. {t \in Team : ~removed' /\ row'.score[t] # Null} = Team
    BY <2>1, <2>2, <2>4, <2>5
  <2> QED BY <2>1, <2>2, <2>5, <2>6, <2>7, <2>8 DEF Promise!Close
<1>15. CASE UNCHANGED vars
  BY <1>15, StutterStep DEF vars
<1> QED
  BY <1>1, <1>2, <1>3, <1>4, <1>5, <1>6, <1>7, <1>8, <1>9, <1>10, <1>11, <1>12, <1>13, <1>14, <1>15 DEF Next, Ask, Proceed

\* Whatever the users, the scores, the team size and the number of requests in
\* flight: a game's row implements the lifecycle.
THEOREM GameRefinesLifecycle == Spec => Lifecycle
<1>1. Init => Promise!Init
  BY DEF Init, Promise!Init, Phase, Exists, BlankRow, Team, NoWinner, Null
<1>2. TypeOK /\ Safe /\ (TypeOK /\ Safe)' /\ [Next]_vars => [Promise!Next]_(Promise!vars)
  BY LifecycleStep DEF Implements
<1> QED BY <1>1, <1>2, Invariance, PTL DEF Spec, Lifecycle, Promise!Spec
=============================================================================
