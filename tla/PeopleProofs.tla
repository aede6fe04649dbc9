---------------------------- MODULE PeopleProofs ----------------------------
(***************************************************************************)
(* What holds of accounts, teams, applications and divisions for any       *)
(* number of users, rows and requests in flight, however these overlap:    *)
(* no row points to a deleted team, whoever was approved has been in the   *)
(* team, and so has everybody in a line-up.                                *)
(*                                                                         *)
(* A handler writes what it checked one or more awaits ago. What makes     *)
(* that harmless is that rows are numbered for ever, that an application   *)
(* and a division never change their team, and that `past` only grows      *)
(* (Grown): what a request holds (Held) stays true while it waits.         *)
(***************************************************************************)
EXTENDS People, TLAPS

Roles == {"user", "supervisor", "admin"}
Statuses == {"inProgress", "approved", "rejected", "archived"}
Team == [by : People, gone : BOOLEAN]
Division == [team : Nat, type : Sizes, members : SUBSET People, gone : BOOLEAN]
Application == [user : People, team : Nat, status : Statuses]
Slots == DOMAIN pc = Requests /\ DOMAIN local = Requests

Rows ==
  /\ teams \in Seq(Team)
  /\ applications \in Seq(Application)
  /\ divisions \in Seq(Division)
  /\ MembershipTypeOK
  /\ \A u \in People : users[u].team \in past[u] \cup {NoTeam}

TeamCalls == {"saveTeam", "deleteTeam"}
RowCalls == {"approve", "reject", "archive"}
LineupCalls == {"divisionMembers", "divisionTwins", "saveDivision"}
Calls == TeamCalls \cup RowCalls \cup LineupCalls
           \cup {"insertTeam", "saveProfile", "insertApplication", "deleteDivision"}

\* The members a request holds have been looked for in the team.
Checked(p) ==
  \/ pc[p] = "saveDivision"
  \/ pc[p] = "divisionTwins" /\ local[p].row = NewDivision

\* What a request holds at an await.
Held(p) ==
  /\ pc[p] = "insertTeam" => local[p].by \in People /\ local[p].role \in Roles
  /\ pc[p] \in TeamCalls => local[p].team \in DOMAIN teams
  /\ pc[p] = "saveProfile" => local[p].by \in People
  /\ pc[p] = "insertApplication" => local[p].user \in People /\ local[p].team \in DOMAIN teams
  /\ pc[p] \in RowCalls => local[p].row \in DOMAIN applications
  /\ pc[p] \in LineupCalls =>
       /\ local[p].team \in DOMAIN teams /\ local[p].type \in Sizes
       /\ local[p].members \subseteq People
       /\ \/ local[p].row = NewDivision
          \/ local[p].row \in DOMAIN divisions /\ divisions[local[p].row].team = local[p].team
  /\ Checked(p) => \A u \in local[p].members : local[p].team \in past[u]
  /\ pc[p] = "deleteDivision" => local[p].row \in DOMAIN divisions

PeopleInv ==
  /\ Slots /\ Rows
  /\ \A p \in Requests : Held(p)
  /\ ApprovedWereIn /\ LineupsWereMembers

(***************************************************************************)
(* Moving on.                                                              *)
(***************************************************************************)

\* Only the request p moves.
Moved(p) ==
  Slots' /\ \A q \in Requests \ {p} : pc'[q] = pc[q] /\ local'[q] = local[q]

LEMMA SuspendMoves ==
  ASSUME Slots, NEW p \in Requests, NEW label, NEW held, Suspend(p, label, held)
  PROVE  Moved(p) /\ pc'[p] = label /\ local'[p] = held
BY DEF Slots, Moved, Suspend

\* A request that has answered, or asks for nothing but permission, holds
\* nothing of interest.
LEMMA OtherHeld ==
  ASSUME NEW p \in Requests, pc'[p] \notin Calls
  PROVE  Held(p)'
BY DEF Held, Checked, Calls, TeamCalls, RowCalls, LineupCalls

LEMMA SuspendOther ==
  ASSUME Slots, NEW p \in Requests, NEW label, label \notin Calls, NEW held,
         Suspend(p, label, held)
  PROVE  Moved(p) /\ Held(p)'
BY SuspendMoves, OtherHeld

LEMMA ReturnOther ==
  ASSUME Slots, NEW p \in Requests, Return(p)
  PROVE  Moved(p) /\ Held(p)'
BY SuspendOther DEF Return, Calls, TeamCalls, RowCalls, LineupCalls

\* Rows are never taken away, nor given to another team.
Grown ==
  /\ DOMAIN teams \subseteq DOMAIN teams'
  /\ DOMAIN applications \subseteq DOMAIN applications'
  /\ DOMAIN divisions \subseteq DOMAIN divisions'
  /\ \A d \in DOMAIN divisions : divisions'[d].team = divisions[d].team
  /\ \A u \in People : past[u] \subseteq past'[u]

LEMMA HeldStays ==
  ASSUME NEW q \in Requests, Held(q), Grown, pc'[q] = pc[q], local'[q] = local[q]
  PROVE  Held(q)'
<1>1. Checked(q)' <=> Checked(q)
  BY DEF Checked
<1>2. Checked(q) => pc[q] \in LineupCalls
  BY DEF Checked, LineupCalls
<1>3. Checked(q) => \A u \in local[q].members : local[q].team \in past'[u]
  BY <1>2 DEF Held, Grown
<1> QED BY <1>1, <1>3 DEF Held, Grown

LEMMA AllHeld ==
  ASSUME NEW p \in Requests, \A q \in Requests : Held(q), Grown, Moved(p), Held(p)'
  PROVE  \A q \in Requests : Held(q)'
<1>1. ASSUME NEW q \in Requests, q # p PROVE Held(q)'
  BY <1>1, HeldStays DEF Moved
<1> QED BY <1>1

\* A step that only reads.
LEMMA ReadKeeps ==
  ASSUME PeopleInv, NEW p \in Requests, Moved(p), Held(p)', UNCHANGED membership
  PROVE  PeopleInv'
<1>1. UNCHANGED <<users, teams, applications, divisions, past>>
  BY DEF membership
<1>2. Grown
  BY <1>1 DEF Grown
<1>3. \A q \in Requests : Held(q)'
  BY <1>2, AllHeld DEF PeopleInv
<1>4. Slots'
  BY DEF Moved
<1> QED BY <1>1, <1>3, <1>4
        DEF PeopleInv, Rows, MembershipTypeOK, LiveTeams, ApprovedWereIn, LineupsWereMembers

\* A step that writes.
LEMMA WriteKeeps ==
  ASSUME PeopleInv, NEW p \in Requests, Moved(p), Held(p)',
         Grown, Rows', ApprovedWereIn', LineupsWereMembers'
  PROVE  PeopleInv'
<1>1. \A q \in Requests : Held(q)'
  BY AllHeld DEF PeopleInv
<1> QED BY <1>1 DEF PeopleInv, Moved


(***************************************************************************)
(* Reading. Every step of Friends, and the first step of every operation.  *)
(***************************************************************************)

LEMMA FriendsKeep ==
  ASSUME PeopleInv, NEW p \in Requests, FriendsNext(p)
  PROVE  PeopleInv'
<1> USE SuspendOther, ReturnOther DEF Calls, TeamCalls, RowCalls, LineupCalls
<1>1. CASE CreateFriendRequest(p) \/ InsertLink(p) \/ AnswerFriendRequest(p) \/ SaveLink(p)
           \/ DeleteFriendRequest(p) \/ DeleteLink(p)
  <2>1. Moved(p) /\ Held(p)'
    BY <1>1 DEF CreateFriendRequest, InsertLink, AnswerFriendRequest, SaveLink,
                DeleteFriendRequest, DeleteLink, PeopleInv
  <2>2. UNCHANGED membership
    BY <1>1 DEF CreateFriendRequest, InsertLink, AnswerFriendRequest, SaveLink,
                DeleteFriendRequest, DeleteLink
  <2> QED BY <2>1, <2>2, ReadKeeps
<1>2. CASE ViewHistory(p)
  BY <1>2, ReadKeeps DEF ViewHistory, PeopleInv
<1>3. CASE ViewFriends(p)
  BY <1>3, ReadKeeps DEF ViewFriends, PeopleInv
<1>4. CASE ViewTeam(p) \/ HasInvitation(p)
  BY <1>4, ReadKeeps DEF ViewTeam, HasInvitation, PeopleInv
<1>5. CASE SendInvitation(p) \/ InsertInvitation(p) \/ DeleteInvitation(p) \/ RemoveInvitation(p)
  BY <1>5, ReadKeeps DEF SendInvitation, InsertInvitation, DeleteInvitation, RemoveInvitation,
                         PeopleInv
<1>6. CASE ViewEvent(p)
  BY <1>6, ReadKeeps DEF ViewEvent, PeopleInv
<1>7. CASE Answered(p)
  BY <1>7, ReadKeeps DEF Answered, PeopleInv
<1> QED BY <1>1, <1>2, <1>3, <1>4, <1>5, <1>6, <1>7 DEF FriendsNext

\* The callers and rows that a request takes along exist.
LEMMA Existing ==
  ASSUME PeopleInv
  PROVE  /\ \A u \in Active : u \in People /\ users[u].role \in Roles
         /\ LiveTeams \subseteq DOMAIN teams
         /\ \A t \in DOMAIN teams : t \in Nat /\ t # NoTeam
         /\ \A i \in DOMAIN applications : applications[i].user \in People
BY DEF PeopleInv, Rows, MembershipTypeOK, Active, LiveTeams, Roles, NoTeam

LEMMA AskingKeeps ==
  ASSUME PeopleInv, NEW p \in Requests,
         \/ CreateTeam(p) \/ UpdateTeam(p) \/ RemoveTeam(p) \/ UpdateProfile(p)
         \/ CreateApplication(p) \/ DecideApplication(p) \/ RemoveApplication(p)
         \/ RemoveDivision(p)
  PROVE  PeopleInv'
<1>0. Slots
  BY DEF PeopleInv
<1>1. CASE CreateTeam(p)
  <2>1. PICK u \in Active :
          Suspend(p, "insertTeam", [op |-> "createTeam", by |-> u, role |-> users[u].role])
    BY <1>1 DEF CreateTeam
  <2>2. /\ Moved(p) /\ pc'[p] = "insertTeam"
        /\ local'[p] = [op |-> "createTeam", by |-> u, role |-> users[u].role]
    BY <1>0, <2>1, SuspendMoves
  <2>3. UNCHANGED membership
    BY <1>1 DEF CreateTeam
  <2>4. Held(p)'
    BY <2>2, <2>3, Existing DEF membership, Held, Checked, TeamCalls, RowCalls, LineupCalls
  <2> QED BY <2>2, <2>3, <2>4, ReadKeeps
<1>2. CASE UpdateTeam(p)
  <2>1. PICK t \in LiveTeams, members \in SUBSET People :
          Suspend(p, "saveTeam", [op |-> "updateTeam", team |-> t, members |-> members])
    BY <1>2 DEF UpdateTeam
  <2>2. /\ Moved(p) /\ pc'[p] = "saveTeam"
        /\ local'[p] = [op |-> "updateTeam", team |-> t, members |-> members]
    BY <1>0, <2>1, SuspendMoves
  <2>3. UNCHANGED membership
    BY <1>2 DEF UpdateTeam
  <2>4. Held(p)'
    BY <2>2, <2>3, Existing DEF membership, Held, Checked, TeamCalls, RowCalls, LineupCalls
  <2> QED BY <2>2, <2>3, <2>4, ReadKeeps
<1>3. CASE RemoveTeam(p)
  <2>1. PICK t \in LiveTeams : Suspend(p, "deleteTeam", [op |-> "removeTeam", team |-> t])
    BY <1>3 DEF RemoveTeam
  <2>2. /\ Moved(p) /\ pc'[p] = "deleteTeam"
        /\ local'[p] = [op |-> "removeTeam", team |-> t]
    BY <1>0, <2>1, SuspendMoves
  <2>3. UNCHANGED membership
    BY <1>3 DEF RemoveTeam
  <2>4. Held(p)'
    BY <2>2, <2>3, Existing DEF membership, Held, Checked, TeamCalls, RowCalls, LineupCalls
  <2> QED BY <2>2, <2>3, <2>4, ReadKeeps
<1>4. CASE UpdateProfile(p)
  <2>1. PICK u \in Active, t \in LiveTeams \cup {NoTeam} :
          Suspend(p, "saveProfile", [op |-> "updateProfile", by |-> u, team |-> t])
    BY <1>4 DEF UpdateProfile
  <2>2. /\ Moved(p) /\ pc'[p] = "saveProfile"
        /\ local'[p] = [op |-> "updateProfile", by |-> u, team |-> t]
    BY <1>0, <2>1, SuspendMoves
  <2>3. UNCHANGED membership
    BY <1>4 DEF UpdateProfile
  <2>4. Held(p)'
    BY <2>2, <2>3, Existing DEF membership, Held, Checked, TeamCalls, RowCalls, LineupCalls
  <2> QED BY <2>2, <2>3, <2>4, ReadKeeps
<1>5. CASE CreateApplication(p)
  <2>1. PICK u \in Active, t \in LiveTeams :
          Suspend(p, "insertApplication", [op |-> "apply", user |-> u, team |-> t])
    BY <1>5 DEF CreateApplication
  <2>2. /\ Moved(p) /\ pc'[p] = "insertApplication"
        /\ local'[p] = [op |-> "apply", user |-> u, team |-> t]
    BY <1>0, <2>1, SuspendMoves
  <2>3. UNCHANGED membership
    BY <1>5 DEF CreateApplication
  <2>4. Held(p)'
    BY <2>2, <2>3, Existing DEF membership, Held, Checked, TeamCalls, RowCalls, LineupCalls
  <2> QED BY <2>2, <2>3, <2>4, ReadKeeps
<1>6. CASE DecideApplication(p)
  <2>1. PICK i \in DOMAIN applications, label \in {"approve", "reject"} :
          Suspend(p, label, [op |-> "decide", row |-> i])
    BY <1>6 DEF DecideApplication
  <2>2. /\ Moved(p) /\ pc'[p] = label
        /\ local'[p] = [op |-> "decide", row |-> i]
    BY <1>0, <2>1, SuspendMoves
  <2>3. UNCHANGED membership
    BY <1>6 DEF DecideApplication
  <2>4. Held(p)'
    BY <2>2, <2>3, Existing DEF membership, Held, Checked, TeamCalls, RowCalls, LineupCalls
  <2> QED BY <2>2, <2>3, <2>4, ReadKeeps
<1>7. CASE RemoveApplication(p)
  <2>1. PICK i \in DOMAIN applications : Suspend(p, "archive", [op |-> "withdraw", row |-> i])
    BY <1>7 DEF RemoveApplication
  <2>2. /\ Moved(p) /\ pc'[p] = "archive"
        /\ local'[p] = [op |-> "withdraw", row |-> i]
    BY <1>0, <2>1, SuspendMoves
  <2>3. UNCHANGED membership
    BY <1>7 DEF RemoveApplication
  <2>4. Held(p)'
    BY <2>2, <2>3, Existing DEF membership, Held, Checked, TeamCalls, RowCalls, LineupCalls
  <2> QED BY <2>2, <2>3, <2>4, ReadKeeps
<1>8. CASE RemoveDivision(p)
  <2>1. PICK d \in DOMAIN divisions :
          Suspend(p, "deleteDivision", [op |-> "removeDivision", row |-> d])
    BY <1>8 DEF RemoveDivision
  <2>2. /\ Moved(p) /\ pc'[p] = "deleteDivision"
        /\ local'[p] = [op |-> "removeDivision", row |-> d]
    BY <1>0, <2>1, SuspendMoves
  <2>3. UNCHANGED membership
    BY <1>8 DEF RemoveDivision
  <2>4. Held(p)'
    BY <2>2, <2>3, Existing DEF membership, Held, Checked, TeamCalls, RowCalls, LineupCalls
  <2> QED BY <2>2, <2>3, <2>4, ReadKeeps
<1> QED BY <1>1, <1>2, <1>3, <1>4, <1>5, <1>6, <1>7, <1>8

\* A division is checked in two or three steps; at the last one its members
\* are, or have been, members of the team.
LEMMA CheckingKeeps ==
  ASSUME PeopleInv, NEW p \in Requests,
         CreateDivision(p) \/ UpdateDivision(p) \/ CheckMembers(p) \/ CheckTwins(p)
  PROVE  PeopleInv'
<1>0. Slots /\ Held(p)
  BY DEF PeopleInv
<1>1. UNCHANGED membership
  BY DEF CreateDivision, UpdateDivision, CheckMembers, CheckTwins
<1> SUFFICES Moved(p) /\ Held(p)'
  BY <1>1, ReadKeeps
<1>2. UNCHANGED <<teams, applications, divisions, past>>
  BY <1>1 DEF membership
<1>3. CASE CreateDivision(p)
  <2>1. PICK t \in LiveTeams, type \in Sizes, members \in SUBSET People :
          Suspend(p, "divisionMembers",
            [op |-> "createDivision", row |-> NewDivision, team |-> t, type |-> type,
             members |-> members])
    BY <1>3 DEF CreateDivision
  <2>2. /\ Moved(p) /\ pc'[p] = "divisionMembers"
        /\ local'[p] = [op |-> "createDivision", row |-> NewDivision, team |-> t,
                        type |-> type, members |-> members]
    BY <1>0, <2>1, SuspendMoves
  <2> QED BY <1>2, <2>2, Existing DEF Held, Checked, TeamCalls, RowCalls, LineupCalls
<1>4. CASE UpdateDivision(p)
  <2>1. PICK d \in DOMAIN divisions, type \in Sizes, dto \in SUBSET People :
          LET t == divisions[d].team
              members == IF dto = Kept THEN Loaded(d) ELSE dto
          IN /\ t \in LiveTeams
             /\ Suspend(p, IF dto = Kept THEN "saveDivision" ELSE "divisionTwins",
                  [op |-> "updateDivision", row |-> d, team |-> t, type |-> type,
                   members |-> members])
    BY <1>4 DEF UpdateDivision, CanManageDivisions
  <2> DEFINE members == IF dto = Kept THEN Loaded(d) ELSE dto
             t == divisions[d].team
  <2>2. /\ Moved(p)
        /\ pc'[p] = IF dto = Kept THEN "saveDivision" ELSE "divisionTwins"
        /\ local'[p] = [op |-> "updateDivision", row |-> d, team |-> t, type |-> type,
                        members |-> members]
    BY <1>0, <2>1, SuspendMoves
  <2>3. d # NewDivision
    BY DEF PeopleInv, Rows, NewDivision
  <2>4. Loaded(d) \subseteq People /\ \A u \in Loaded(d) : t \in past[u]
    BY DEF Loaded, Active, PeopleInv, LineupsWereMembers
  <2>5. t \in DOMAIN teams /\ members \subseteq People
    BY <2>1, <2>4, Existing
  <2> QED BY <1>2, <2>2, <2>3, <2>4, <2>5 DEF Held, Checked, TeamCalls, RowCalls, LineupCalls
<1>5. CASE CheckMembers(p)
  <2>1. CASE Return(p)
    BY <1>0, <2>1, ReturnOther
  <2>2. CASE /\ local[p].team \in LiveTeams /\ local[p].members \subseteq Members(local[p].team)
             /\ Suspend(p, IF local[p].row = NewDivision THEN "divisionTwins" ELSE "saveDivision",
                        local[p])
    <3>1. /\ Moved(p) /\ local'[p] = local[p] /\ pc[p] = "divisionMembers"
          /\ pc'[p] = IF local[p].row = NewDivision THEN "divisionTwins" ELSE "saveDivision"
      BY <1>0, <1>5, <2>2, SuspendMoves DEF CheckMembers, At
    <3>2. \A u \in local[p].members : local[p].team \in past[u]
      BY <2>2, Existing DEF Members, Active, PeopleInv, Rows
    <3> QED BY <1>0, <1>2, <3>1, <3>2 DEF Held, Checked, TeamCalls, RowCalls, LineupCalls
  <2> QED BY <1>5, <2>1, <2>2 DEF CheckMembers
<1>6. CASE CheckTwins(p)
  <2>1. CASE Return(p)
    BY <1>0, <2>1, ReturnOther
  <2>2. CASE Suspend(p, IF local[p].row = NewDivision THEN "saveDivision" ELSE "divisionMembers",
                     local[p])
    <3>1. /\ Moved(p) /\ local'[p] = local[p] /\ pc[p] = "divisionTwins"
          /\ pc'[p] = IF local[p].row = NewDivision THEN "saveDivision" ELSE "divisionMembers"
      BY <1>0, <1>6, <2>2, SuspendMoves DEF CheckTwins, At
    <3> QED BY <1>0, <1>2, <3>1 DEF Held, Checked, TeamCalls, RowCalls, LineupCalls
  <2> QED BY <1>6, <2>1, <2>2 DEF CheckTwins
<1> QED BY <1>3, <1>4, <1>5, <1>6

(***************************************************************************)
(* Writing.                                                                *)
(***************************************************************************)

LEMMA RowFacts ==
  ASSUME Rows
  PROVE  /\ users \in [People -> [role : Roles, team : {NoTeam} \cup LiveTeams, gone : BOOLEAN]]
         /\ \A i \in DOMAIN applications : applications[i].user \in People
         /\ \A t \in DOMAIN teams : teams[t] \in Team
         /\ \A d \in DOMAIN divisions :
              divisions[d] \in Division /\ divisions[d].members \subseteq People
<1>1. users \in [People -> [role : Roles, team : {NoTeam} \cup LiveTeams, gone : BOOLEAN]]
  BY DEF Rows, MembershipTypeOK, Roles
<1>2. \A i \in DOMAIN applications : applications[i].user \in People
  BY DEF Rows, MembershipTypeOK
<1>3. /\ \A t \in DOMAIN teams : teams[t] \in Team
      /\ \A d \in DOMAIN divisions : divisions[d] \in Division
  BY DEF Rows
<1>4. \A division \in Division : division.members \subseteq People
  BY DEF Division
<1> QED BY <1>1, <1>2, <1>3, <1>4

\* Writing team columns: everybody is in an existing team, and `past` knows.
LEMMA PlaceKeeps ==
  ASSUME Rows, NEW rows, Place(rows), DOMAIN teams \subseteq DOMAIN teams',
         rows \in [People -> [role : Roles, team : {NoTeam} \cup LiveTeams', gone : BOOLEAN]]
  PROVE  /\ users' \in [People -> [role : Roles, team : {NoTeam} \cup LiveTeams', gone : BOOLEAN]]
         /\ past' \in [People -> SUBSET DOMAIN teams']
         /\ \A u \in People : /\ past[u] \subseteq past'[u]
                              /\ users'[u].team \in past'[u] \cup {NoTeam}
<1>1. /\ users' = rows
      /\ past' = [u \in People |-> past[u] \cup ({rows[u].team} \ {NoTeam})]
  BY DEF Place
<1>2. LiveTeams' \subseteq DOMAIN teams'
  BY DEF LiveTeams
<1>3. \A u \in People : past[u] \subseteq DOMAIN teams
  BY DEF Rows, MembershipTypeOK
<1> QED BY <1>1, <1>2, <1>3

\* Steps that write team columns and nothing else.
LEMMA PlacingKeeps ==
  ASSUME PeopleInv, NEW p \in Requests, Return(p), NEW rows, Place(rows),
         rows \in [People -> [role : Roles, team : {NoTeam} \cup LiveTeams, gone : BOOLEAN]],
         UNCHANGED <<teams, applications, divisions>>
  PROVE  PeopleInv'
<1>0. Slots /\ Rows
  BY DEF PeopleInv
<1>1. LiveTeams' = LiveTeams
  BY DEF LiveTeams
<1>2. /\ users' \in [People -> [role : Roles, team : {NoTeam} \cup LiveTeams', gone : BOOLEAN]]
      /\ past' \in [People -> SUBSET DOMAIN teams']
      /\ \A u \in People : /\ past[u] \subseteq past'[u]
                           /\ users'[u].team \in past'[u] \cup {NoTeam}
  BY <1>0, <1>1, PlaceKeeps
<1>3. Grown
  BY <1>2 DEF Grown
<1>4. Rows'
  BY <1>0, <1>1, <1>2 DEF Rows, MembershipTypeOK, Roles
<1>5. ApprovedWereIn'
  BY <1>2 DEF PeopleInv, ApprovedWereIn, Rows, MembershipTypeOK
<1>6. LineupsWereMembers'
  <2>1. ASSUME NEW d \in DOMAIN divisions, NEW u \in divisions[d].members
        PROVE  divisions[d].team \in past'[u]
    BY <1>0, <1>2, RowFacts DEF PeopleInv, LineupsWereMembers
  <2> QED BY <2>1 DEF LineupsWereMembers
<1> QED BY <1>0, <1>3, <1>4, <1>5, <1>6, ReturnOther, WriteKeeps

LEMMA InsertTeamKeeps ==
  ASSUME PeopleInv, NEW p \in Requests, InsertTeam(p)
  PROVE  PeopleInv'
<1> DEFINE by == local[p].by
           row == [by |-> by, gone |-> FALSE]
           new == Len(teams) + 1
<1>0. Slots /\ Rows /\ Held(p) /\ pc[p] = "insertTeam"
  BY DEF PeopleInv, InsertTeam, At
<1>1. by \in People
  BY <1>0 DEF Held
<1>2. /\ teams' = Append(teams, row) /\ UNCHANGED <<applications, divisions>>
      /\ Return(p)
  BY DEF InsertTeam
<1>3. /\ teams' \in Seq(Team)
      /\ DOMAIN teams' = DOMAIN teams \cup {new} /\ new \in Nat \ {NoTeam}
      /\ teams'[new] = row /\ \A t \in DOMAIN teams : teams'[t] = teams[t]
  BY <1>0, <1>1, <1>2 DEF Rows, NoTeam, Team
<1>4. LiveTeams' = LiveTeams \cup {new}
  <2>1. new \notin DOMAIN teams
    BY <1>0 DEF Rows
  <2> QED BY <1>3, <2>1 DEF LiveTeams
<1>5. /\ users' \in [People -> [role : Roles, team : {NoTeam} \cup LiveTeams', gone : BOOLEAN]]
      /\ past' \in [People -> SUBSET DOMAIN teams']
      /\ \A u \in People : /\ past[u] \subseteq past'[u]
                           /\ users'[u].team \in past'[u] \cup {NoTeam}
  <2>1. users \in [People -> [role : Roles, team : {NoTeam} \cup LiveTeams', gone : BOOLEAN]]
    BY <1>0, <1>4 DEF Rows, MembershipTypeOK, Roles
  <2>2. CASE local[p].role = "user"
    <3> DEFINE rows == [users EXCEPT ![by].role = "supervisor", ![by].team = Len(teams) + 1]
    <3>1. Place(rows)
      BY <2>2 DEF InsertTeam
    <3>2. rows \in [People -> [role : Roles, team : {NoTeam} \cup LiveTeams', gone : BOOLEAN]]
      BY <1>1, <1>4, <2>1 DEF Roles
    <3> HIDE DEF rows
    <3> QED BY <1>0, <1>3, <3>1, <3>2, PlaceKeeps
  <2>3. CASE UNCHANGED <<users, past>>
    BY <1>0, <1>3, <2>1, <2>3 DEF Rows, MembershipTypeOK
  <2> QED BY <2>2, <2>3 DEF InsertTeam
<1>6. Grown
  BY <1>2, <1>3, <1>5 DEF Grown
<1>7. Rows'
  BY <1>0, <1>2, <1>3, <1>4, <1>5 DEF Rows, MembershipTypeOK, Roles
<1>8. ApprovedWereIn'
  BY <1>0, <1>2, <1>5, RowFacts DEF PeopleInv, ApprovedWereIn
<1>9. LineupsWereMembers'
  <2>1. ASSUME NEW d \in DOMAIN divisions, NEW u \in divisions[d].members
        PROVE  divisions[d].team \in past'[u]
    BY <1>0, <1>5, RowFacts DEF PeopleInv, LineupsWereMembers
  <2> QED BY <1>2, <2>1 DEF LineupsWereMembers
<1> QED BY <1>0, <1>2, <1>6, <1>7, <1>8, <1>9, ReturnOther, WriteKeeps

LEMMA SaveTeamKeeps ==
  ASSUME PeopleInv, NEW p \in Requests, SaveTeam(p)
  PROVE  PeopleInv'
<1> DEFINE t == local[p].team
           rows == [u \in People |->
                     [users[u] EXCEPT !.team = IF u \in local[p].members THEN t
                                               ELSE IF @ = t THEN NoTeam ELSE @]]
<1>0. Slots /\ Rows /\ t \in DOMAIN teams
  BY DEF PeopleInv, SaveTeam, At, Held, TeamCalls
<1>1. Return(p) /\ UNCHANGED <<teams, applications, divisions>>
  BY DEF SaveTeam
<1>2. CASE teams[t].gone
  <2>1. UNCHANGED membership
    BY <1>1, <1>2 DEF SaveTeam, membership
  <2> QED BY <1>0, <1>1, <2>1, ReturnOther, ReadKeeps
<1>3. CASE ~teams[t].gone
  <2>1. Place(rows)
    BY <1>3 DEF SaveTeam
  <2>2. t \in LiveTeams
    BY <1>0, <1>3 DEF LiveTeams
  <2>3. rows \in [People -> [role : Roles, team : {NoTeam} \cup LiveTeams, gone : BOOLEAN]]
    BY <1>0, <2>2, RowFacts
  <2> HIDE DEF rows
  <2> QED BY <1>1, <2>1, <2>3, PlacingKeeps
<1> QED BY <1>2, <1>3

\* A team is only deleted when no account and no application points to it.
LEMMA DeleteTeamKeeps ==
  ASSUME PeopleInv, NEW p \in Requests, DeleteTeam(p)
  PROVE  PeopleInv'
<1> DEFINE t == local[p].team
           held == (\E u \in People : users[u].team = t)
                     \/ (\E i \in DOMAIN applications : applications[i].team = t)
<1>0. Slots /\ Rows /\ t \in DOMAIN teams
  BY DEF PeopleInv, DeleteTeam, At, Held, TeamCalls
<1>1. Return(p) /\ UNCHANGED <<users, applications, past>>
  BY DEF DeleteTeam
<1>2. CASE held
  <2>1. UNCHANGED membership
    BY <1>1, <1>2 DEF DeleteTeam, membership
  <2> QED BY <1>0, <1>1, <2>1, ReturnOther, ReadKeeps
<1>3. CASE ~held
  <2>1. /\ teams' = [teams EXCEPT ![t].gone = TRUE]
        /\ divisions' = [d \in DOMAIN divisions |->
                          [divisions[d] EXCEPT !.gone = @ \/ divisions[d].team = t]]
    BY <1>3 DEF DeleteTeam
  <2>2. teams' \in Seq(Team) /\ DOMAIN teams' = DOMAIN teams
    <3>1. [teams[t] EXCEPT !.gone = TRUE] \in Team
      BY <1>0, RowFacts DEF Team
    <3> QED BY <1>0, <2>1, <3>1 DEF Rows
  <2>3. LiveTeams' = LiveTeams \ {t}
    BY <1>0, <2>1 DEF LiveTeams, Rows
  <2>4. /\ DOMAIN divisions' = DOMAIN divisions
        /\ \A d \in DOMAIN divisions : /\ divisions'[d].team = divisions[d].team
                                       /\ divisions'[d].members = divisions[d].members
    BY <1>0, <2>1, RowFacts DEF Division
  <2>5. divisions' \in Seq(Division)
    <3>1. \A d \in DOMAIN divisions :
            divisions'[d] \in Division
      BY <1>0, <2>1, RowFacts DEF Division
    <3>2. DOMAIN divisions = 1..Len(divisions) /\ Len(divisions) \in Nat
      BY <1>0 DEF Rows
    <3> QED BY <2>1, <2>4, <3>1, <3>2
  <2>6. Grown
    BY <1>1, <2>2, <2>4 DEF Grown
  <2>7. MembershipTypeOK'
    <3>1. users' \in [People -> [role : Roles, team : {NoTeam} \cup LiveTeams', gone : BOOLEAN]]
      BY <1>0, <1>1, <1>3, <2>3 DEF Rows, MembershipTypeOK, Roles
    <3>2. \A i \in DOMAIN applications : applications[i].team \in LiveTeams'
      BY <1>0, <1>3, <2>3 DEF Rows, MembershipTypeOK
    <3> QED BY <1>0, <1>1, <2>2, <3>1, <3>2 DEF Rows, MembershipTypeOK, Roles
  <2>8. Rows'
    BY <1>0, <1>1, <2>2, <2>5, <2>7 DEF Rows
  <2>9. ApprovedWereIn' /\ LineupsWereMembers'
    BY <1>1, <2>4 DEF PeopleInv, ApprovedWereIn, LineupsWereMembers
  <2> QED BY <1>0, <1>1, <2>6, <2>8, <2>9, ReturnOther, WriteKeeps
<1> QED BY <1>2, <1>3

LEMMA SaveProfileKeeps ==
  ASSUME PeopleInv, NEW p \in Requests, SaveProfile(p)
  PROVE  PeopleInv'
<1> DEFINE rows == [users EXCEPT ![local[p].by].team = local[p].team]
<1>0. Slots /\ Rows /\ local[p].by \in People
  BY DEF PeopleInv, SaveProfile, At, Held
<1>1. Return(p) /\ UNCHANGED <<teams, applications, divisions>>
  BY DEF SaveProfile
<1>2. CASE UNCHANGED <<users, past>>
  <2>1. UNCHANGED membership
    BY <1>1, <1>2 DEF membership
  <2> QED BY <1>0, <1>1, <2>1, ReturnOther, ReadKeeps
<1>3. CASE local[p].team \in LiveTeams \cup {NoTeam} /\ Place(rows)
  <2>1. rows \in [People -> [role : Roles, team : {NoTeam} \cup LiveTeams, gone : BOOLEAN]]
    BY <1>0, <1>3, RowFacts
  <2> HIDE DEF rows
  <2> QED BY <1>1, <1>3, <2>1, PlacingKeeps
<1> QED BY <1>2, <1>3 DEF SaveProfile

LEMMA RemoveAccountKeeps ==
  ASSUME PeopleInv, NEW p \in Requests, RemoveAccount(p)
  PROVE  PeopleInv'
<1>0. Slots /\ Rows /\ Held(p)
  BY DEF PeopleInv
<1>1. /\ UNCHANGED <<teams, applications, divisions, past>> /\ UNCHANGED <<pc, local>>
      /\ \E u \in Active : users' = [users EXCEPT ![u].gone = TRUE]
  BY DEF RemoveAccount, AtOnce
<1>2. /\ users' \in [People -> [role : Roles, team : {NoTeam} \cup LiveTeams, gone : BOOLEAN]]
      /\ \A u \in People : users'[u].team = users[u].team
  <2>1. PICK u \in People : users' = [users EXCEPT ![u].gone = TRUE]
    BY <1>1 DEF Active
  <2> QED BY <1>0, <2>1, RowFacts
<1>3. LiveTeams' = LiveTeams
  BY <1>1 DEF LiveTeams
<1>4. Grown
  BY <1>1 DEF Grown
<1>5. Moved(p)
  BY <1>0, <1>1 DEF Moved, Slots
<1>6. Held(p)'
  BY <1>0, <1>1, <1>4, HeldStays
<1>7. Rows'
  BY <1>0, <1>1, <1>2, <1>3 DEF Rows, MembershipTypeOK, Roles
<1>8. ApprovedWereIn' /\ LineupsWereMembers'
  BY <1>1 DEF PeopleInv, ApprovedWereIn, LineupsWereMembers
<1> QED BY <1>4, <1>5, <1>6, <1>7, <1>8, WriteKeeps

\* Steps that write a request row and nothing else.
LEMMA InsertApplicationKeeps ==
  ASSUME PeopleInv, NEW p \in Requests, InsertApplication(p)
  PROVE  PeopleInv'
<1> DEFINE row == [user |-> local[p].user, team |-> local[p].team, status |-> "inProgress"]
           new == Len(applications) + 1
<1>0. /\ Slots /\ Rows
      /\ local[p].user \in People /\ local[p].team \in DOMAIN teams
  BY DEF PeopleInv, InsertApplication, At, Held
<1>1. Return(p) /\ UNCHANGED <<users, teams, divisions, past>>
  BY DEF InsertApplication
<1>2. CASE teams[local[p].team].gone
  <2>1. UNCHANGED membership
    BY <1>1, <1>2 DEF InsertApplication, membership
  <2> QED BY <1>0, <1>1, <2>1, ReturnOther, ReadKeeps
<1>3. CASE ~teams[local[p].team].gone
  <2>1. applications' = Append(applications, row)
    BY <1>3 DEF InsertApplication
  <2>2. row.team \in LiveTeams /\ row.team \in Nat
    BY <1>0, <1>3 DEF LiveTeams, Rows
  <2>3. /\ applications' \in Seq(Application)
        /\ DOMAIN applications' = DOMAIN applications \cup {new}
        /\ applications'[new] = row
        /\ \A i \in DOMAIN applications : applications'[i] = applications[i]
    <3>1. row \in Application
      BY <1>0, <2>2 DEF Application, Statuses
    <3> HIDE DEF row
    <3> QED BY <1>0, <2>1, <3>1 DEF Rows
  <2>4. LiveTeams' = LiveTeams
    BY <1>1 DEF LiveTeams
  <2>5. MembershipTypeOK'
    BY <1>0, <1>1, <2>2, <2>3, <2>4 DEF Rows, MembershipTypeOK
  <2>6. Rows'
    BY <1>0, <1>1, <2>3, <2>5 DEF Rows
  <2>7. Grown
    BY <1>1, <2>3 DEF Grown
  <2>8. ApprovedWereIn' /\ LineupsWereMembers'
    BY <1>1, <2>3 DEF PeopleInv, ApprovedWereIn, LineupsWereMembers
  <2> QED BY <1>0, <1>1, <2>6, <2>7, <2>8, ReturnOther, WriteKeeps
<1> QED BY <1>2, <1>3

\* Setting the status of an application.
LEMMA StatusFacts ==
  ASSUME Rows, NEW i \in DOMAIN applications, NEW status \in Statuses,
         applications' = [applications EXCEPT ![i].status = status]
  PROVE  /\ applications' \in Seq(Application)
         /\ DOMAIN applications' = DOMAIN applications
         /\ \A j \in DOMAIN applications :
              /\ applications'[j].user = applications[j].user
              /\ applications'[j].team = applications[j].team
              /\ applications'[j].status = IF j = i THEN status ELSE applications[j].status
<1>1. \A j \in DOMAIN applications : applications[j] \in Application
  BY DEF Rows
<1>2. [applications[i] EXCEPT !.status = status] \in Application
  BY <1>1 DEF Application
<1>3. applications' \in Seq(Application)
  BY <1>2 DEF Rows
<1> QED BY <1>1, <1>3 DEF Application

LEMMA StatusTypes ==
  ASSUME Rows, NEW i \in DOMAIN applications, NEW status \in Statuses,
         applications' = [applications EXCEPT ![i].status = status],
         UNCHANGED teams
  PROVE  \A j \in DOMAIN applications' :
           applications'[j] \in [user : People, team : LiveTeams',
                                 status : {"inProgress", "approved", "rejected", "archived"}]
<1>1. ASSUME NEW j \in DOMAIN applications
      PROVE  applications'[j] \in Application /\ applications'[j].team \in LiveTeams'
  <2>1. /\ applications' \in Seq(Application)
        /\ DOMAIN applications' = DOMAIN applications
        /\ applications'[j].team = applications[j].team
    BY StatusFacts
  <2>2. applications[j].team \in LiveTeams
    BY DEF Rows, MembershipTypeOK
  <2>3. LiveTeams' = LiveTeams
    BY DEF LiveTeams
  <2>4. applications'[j] \in Application
    BY <2>1
  <2> QED BY <2>1, <2>2, <2>3, <2>4
<1>2. DOMAIN applications' = DOMAIN applications
  BY StatusFacts
<1> QED BY <1>1, <1>2 DEF Application, Statuses

\* An approval writes the place, which `past` remembers, with the status.
LEMMA ApproveKeeps ==
  ASSUME PeopleInv, NEW p \in Requests, Approve(p)
  PROVE  PeopleInv'
<1> DEFINE i == local[p].row
           rows == [users EXCEPT ![applications[i].user].team = applications[i].team]
<1>0. Slots /\ Rows /\ i \in DOMAIN applications
  BY DEF PeopleInv, Approve, At, Held, RowCalls
<1>1. /\ Return(p) /\ UNCHANGED <<teams, divisions>>
      /\ Place(rows) /\ applications' = [applications EXCEPT ![i].status = "approved"]
  BY DEF Approve
<1>2. applications[i].user \in People /\ applications[i].team \in LiveTeams
  BY <1>0 DEF Rows, MembershipTypeOK
<1>3. rows \in [People -> [role : Roles, team : {NoTeam} \cup LiveTeams, gone : BOOLEAN]]
  BY <1>0, <1>2, RowFacts
<1>4. rows[applications[i].user].team = applications[i].team
  BY <1>0, <1>2, RowFacts
<1>5. LiveTeams' = LiveTeams
  BY <1>1 DEF LiveTeams
<1>6. "approved" \in Statuses
  BY DEF Statuses
<1> HIDE DEF rows
<1>7. /\ users' \in [People -> [role : Roles, team : {NoTeam} \cup LiveTeams', gone : BOOLEAN]]
      /\ past' \in [People -> SUBSET DOMAIN teams']
      /\ \A u \in People : /\ past[u] \subseteq past'[u]
                           /\ users'[u].team \in past'[u] \cup {NoTeam}
  BY <1>0, <1>1, <1>3, <1>5, PlaceKeeps
<1>8. /\ applications' \in Seq(Application)
      /\ DOMAIN applications' = DOMAIN applications
      /\ \A j \in DOMAIN applications :
           /\ applications'[j].user = applications[j].user
           /\ applications'[j].team = applications[j].team
           /\ applications'[j].status = IF j = i THEN "approved" ELSE applications[j].status
  BY <1>0, <1>1, <1>6, StatusFacts
<1>9. MembershipTypeOK'
  <2>1. \A j \in DOMAIN applications' :
          applications'[j] \in [user : People, team : LiveTeams',
                                status : {"inProgress", "approved", "rejected", "archived"}]
    BY <1>0, <1>1, <1>6, StatusTypes
  <2> QED BY <1>7, <2>1 DEF MembershipTypeOK, Roles
<1>10. Rows'
  BY <1>0, <1>1, <1>7, <1>8, <1>9 DEF Rows
<1>11. Grown
  BY <1>1, <1>7, <1>8 DEF Grown
<1>12. ApprovedWereIn'
  <2>1. applications[i].team \in past'[applications[i].user]
    <3>1. users'[applications[i].user].team = applications[i].team
      BY <1>1, <1>4 DEF Place
    <3>2. applications[i].team # NoTeam
      BY <1>2 DEF PeopleInv, Rows, LiveTeams, NoTeam
    <3> QED BY <1>2, <1>7, <3>1, <3>2
  <2>2. ASSUME NEW j \in DOMAIN applications, applications'[j].status = "approved"
        PROVE  applications'[j].team \in past'[applications'[j].user]
    <3>1. CASE j = i
      BY <1>8, <2>1, <3>1
    <3>2. CASE j # i
      <4>1. applications[j].team \in past[applications[j].user] /\ applications[j].user \in People
        BY <1>0, <1>8, <2>2, <3>2, RowFacts DEF PeopleInv, ApprovedWereIn
      <4> QED BY <1>7, <1>8, <4>1
    <3> QED BY <3>1, <3>2
  <2> QED BY <1>8, <2>2 DEF ApprovedWereIn
<1>13. LineupsWereMembers'
  <2>1. ASSUME NEW d \in DOMAIN divisions, NEW u \in divisions[d].members
        PROVE  divisions[d].team \in past'[u]
    BY <1>0, <1>7, RowFacts DEF PeopleInv, LineupsWereMembers
  <2> QED BY <1>1, <2>1 DEF LineupsWereMembers
<1> QED BY <1>0, <1>1, <1>10, <1>11, <1>12, <1>13, ReturnOther, WriteKeeps

LEMMA DecidedKeeps ==
  ASSUME PeopleInv, NEW p \in Requests, Reject(p) \/ Archive(p)
  PROVE  PeopleInv'
<1> DEFINE i == local[p].row
<1>0. Slots /\ Rows /\ i \in DOMAIN applications
  BY DEF PeopleInv, Reject, Archive, At, Held, RowCalls
<1>1. PICK status \in Statuses \ {"approved"} :
        applications' = [applications EXCEPT ![i].status = status]
  BY DEF Reject, Archive, Statuses
<1>2. Return(p) /\ UNCHANGED <<users, teams, divisions, past>>
  BY DEF Reject, Archive
<1>3. /\ applications' \in Seq(Application)
      /\ DOMAIN applications' = DOMAIN applications
      /\ \A j \in DOMAIN applications :
           /\ applications'[j].user = applications[j].user
           /\ applications'[j].team = applications[j].team
           /\ applications'[j].status = IF j = i THEN status ELSE applications[j].status
  BY <1>0, <1>1, StatusFacts
<1>4. MembershipTypeOK'
  <2>1. \A j \in DOMAIN applications' :
          applications'[j] \in [user : People, team : LiveTeams',
                                status : {"inProgress", "approved", "rejected", "archived"}]
    BY <1>0, <1>1, <1>2, StatusTypes
  <2>2. LiveTeams' = LiveTeams
    BY <1>2 DEF LiveTeams
  <2> QED BY <1>0, <1>2, <2>1, <2>2 DEF Rows, MembershipTypeOK
<1>5. Rows'
  BY <1>0, <1>2, <1>3, <1>4 DEF Rows
<1>6. Grown
  BY <1>2, <1>3 DEF Grown
<1>7. ApprovedWereIn' /\ LineupsWereMembers'
  BY <1>1, <1>2, <1>3 DEF PeopleInv, ApprovedWereIn, LineupsWereMembers
<1> QED BY <1>0, <1>2, <1>5, <1>6, <1>7, ReturnOther, WriteKeeps

\* A line-up is saved with the members that were checked at its last await.
LEMMA SaveDivisionKeeps ==
  ASSUME PeopleInv, NEW p \in Requests, SaveDivision(p)
  PROVE  PeopleInv'
<1> DEFINE call == local[p]
           row == [team |-> call.team, type |-> call.type, members |-> call.members,
                   gone |-> FALSE]
<1>0. /\ Slots /\ Rows /\ call.team \in DOMAIN teams /\ call.type \in Sizes
      /\ call.members \subseteq People /\ \A u \in call.members : call.team \in past[u]
      /\ \/ call.row = NewDivision
         \/ call.row \in DOMAIN divisions /\ divisions[call.row].team = call.team
  BY DEF PeopleInv, SaveDivision, At, Held, LineupCalls, Checked
<1>1. Return(p) /\ UNCHANGED <<users, teams, applications, past>>
  BY DEF SaveDivision
<1>2. CASE UNCHANGED divisions
  <2>1. UNCHANGED membership
    BY <1>1, <1>2 DEF membership
  <2> QED BY <1>0, <1>1, <2>1, ReturnOther, ReadKeeps
<1>3. ASSUME NEW n, \A d \in DOMAIN divisions \ {n} : divisions'[d] = divisions[d],
             divisions' \in Seq(Division), DOMAIN divisions' = DOMAIN divisions \cup {n},
             divisions'[n] = row, n \in DOMAIN divisions => divisions[n].team = call.team
      PROVE  PeopleInv'
  <2>1. LiveTeams' = LiveTeams
    BY <1>1 DEF LiveTeams
  <2>2. Rows'
    BY <1>0, <1>1, <1>3, <2>1 DEF Rows, MembershipTypeOK
  <2>3. Grown
    BY <1>1, <1>3 DEF Grown
  <2>4. ApprovedWereIn'
    BY <1>1 DEF PeopleInv, ApprovedWereIn
  <2>5. LineupsWereMembers'
    <3>1. ASSUME NEW d \in DOMAIN divisions', NEW u \in divisions'[d].members
          PROVE  divisions'[d].team \in past[u]
      BY <1>0, <1>3, <3>1 DEF PeopleInv, LineupsWereMembers
    <3> QED BY <1>1, <3>1 DEF LineupsWereMembers
  <2> QED BY <1>0, <1>1, <2>2, <2>3, <2>4, <2>5, ReturnOther, WriteKeeps
<1>4. row \in Division
  BY <1>0 DEF Division, Rows
<1>5. CASE call.row = NewDivision /\ divisions' = Append(divisions, row)
  <2> DEFINE n == Len(divisions) + 1
  <2> HIDE DEF row
  <2>1. /\ divisions' \in Seq(Division) /\ DOMAIN divisions' = DOMAIN divisions \cup {n}
        /\ divisions'[n] = row /\ n \notin DOMAIN divisions
        /\ \A d \in DOMAIN divisions : divisions'[d] = divisions[d]
    BY <1>0, <1>4, <1>5 DEF Rows
  <2> QED BY <1>3, <2>1
<1>6. CASE call.row # NewDivision /\ divisions' = [divisions EXCEPT ![call.row] = row]
  <2> HIDE DEF row
  <2>1. call.row \in DOMAIN divisions /\ divisions[call.row].team = call.team
    BY <1>0, <1>6
  <2>2. divisions' \in Seq(Division)
    BY <1>0, <1>4, <1>6, <2>1 DEF Rows
  <2>3. /\ DOMAIN divisions' = DOMAIN divisions \cup {call.row}
        /\ divisions'[call.row] = row
        /\ \A d \in DOMAIN divisions \ {call.row} : divisions'[d] = divisions[d]
    BY <1>6, <2>1
  <2> QED BY <1>3, <2>1, <2>2, <2>3
<1> QED BY <1>2, <1>5, <1>6 DEF SaveDivision

LEMMA DeleteDivisionKeeps ==
  ASSUME PeopleInv, NEW p \in Requests, DeleteDivision(p)
  PROVE  PeopleInv'
<1> DEFINE n == local[p].row
<1>0. Slots /\ Rows /\ n \in DOMAIN divisions
  BY DEF PeopleInv, DeleteDivision, At, Held
<1>1. /\ Return(p) /\ UNCHANGED <<users, teams, applications, past>>
      /\ divisions' = [divisions EXCEPT ![n].gone = TRUE]
  BY DEF DeleteDivision
<1>2. [divisions[n] EXCEPT !.gone = TRUE] \in Division
  BY <1>0, RowFacts DEF Division
<1>3. /\ divisions' \in Seq(Division) /\ DOMAIN divisions' = DOMAIN divisions
      /\ \A d \in DOMAIN divisions : /\ divisions'[d].team = divisions[d].team
                                     /\ divisions'[d].members = divisions[d].members
  <2>1. divisions' \in Seq(Division)
    BY <1>0, <1>1, <1>2 DEF Rows
  <2> QED BY <1>0, <1>1, <2>1, RowFacts DEF Division
<1>4. LiveTeams' = LiveTeams
  BY <1>1 DEF LiveTeams
<1>5. Rows'
  BY <1>0, <1>1, <1>3, <1>4 DEF Rows, MembershipTypeOK
<1>6. Grown
  BY <1>1, <1>3 DEF Grown
<1>7. ApprovedWereIn' /\ LineupsWereMembers'
  BY <1>1, <1>3 DEF PeopleInv, ApprovedWereIn, LineupsWereMembers
<1> QED BY <1>0, <1>1, <1>5, <1>6, <1>7, ReturnOther, WriteKeeps

(***************************************************************************)
(* The theorems.                                                           *)
(***************************************************************************)

LEMMA MembershipKeeps ==
  ASSUME PeopleInv, NEW p \in Requests, MembershipNext(p)
  PROVE  PeopleInv'
<1>1. CASE \/ CreateTeam(p) \/ UpdateTeam(p) \/ RemoveTeam(p) \/ UpdateProfile(p)
           \/ CreateApplication(p) \/ DecideApplication(p) \/ RemoveApplication(p)
  BY <1>1, AskingKeeps
<1>2. CASE InsertTeam(p) \/ SaveTeam(p) \/ DeleteTeam(p) \/ SaveProfile(p)
  BY <1>2, InsertTeamKeeps, SaveTeamKeeps, DeleteTeamKeeps, SaveProfileKeeps
<1>3. CASE RemoveAccount(p) \/ InsertApplication(p) \/ Approve(p) \/ Reject(p) \/ Archive(p)
  BY <1>3, RemoveAccountKeeps, InsertApplicationKeeps, ApproveKeeps, DecidedKeeps
<1>4. CASE Broken(p) /\ UNCHANGED membership
  BY <1>4, ReturnOther, ReadKeeps DEF Broken, PeopleInv
<1> QED BY <1>1, <1>2, <1>3, <1>4 DEF MembershipNext

LEMMA DivisionsKeep ==
  ASSUME PeopleInv, NEW p \in Requests, DivisionsNext(p)
  PROVE  PeopleInv'
BY CheckingKeeps, SaveDivisionKeeps, DeleteDivisionKeeps, AskingKeeps DEF DivisionsNext

LEMMA PeopleStep ==
  ASSUME PeopleInv, [PeopleNext]_peopleVars
  PROVE  PeopleInv'
<1>1. CASE UNCHANGED peopleVars
  <2>1. UNCHANGED <<pc, local>> /\ UNCHANGED membership
    BY <1>1 DEF peopleVars, control
  <2>2. UNCHANGED <<users, teams, applications, divisions, past>>
    BY <2>1 DEF membership
  <2>3. Grown
    BY <2>2 DEF Grown
  <2>4. \A q \in Requests : Held(q)'
    BY <2>1, <2>3, HeldStays DEF PeopleInv
  <2> QED BY <2>1, <2>2, <2>4
          DEF PeopleInv, Slots, Rows, MembershipTypeOK, LiveTeams, ApprovedWereIn,
              LineupsWereMembers
<1>2. ASSUME NEW p \in Requests, MembershipNext(p) \/ DivisionsNext(p) \/ FriendsNext(p)
      PROVE  PeopleInv'
  BY <1>2, MembershipKeeps, DivisionsKeep, FriendsKeep
<1> QED BY <1>1, <1>2 DEF PeopleNext

LEMMA PeopleStart == PeopleInit => PeopleInv
<1> SUFFICES ASSUME PeopleInit PROVE PeopleInv
  OBVIOUS
<1>1. PICK listed \in SUBSET (People \ {Founder}) :
        users = [u \in People |->
                   [role |-> IF u = Founder THEN "supervisor"
                             ELSE IF u \in AdminPeople THEN "admin" ELSE "user",
                    team |-> IF u \in listed \cup {Founder} THEN 1 ELSE NoTeam,
                    gone |-> FALSE]]
  BY DEF PeopleInit, MembershipInit
<1>2. /\ teams = <<[by |-> Founder, gone |-> FALSE]>> /\ applications = <<>> /\ divisions = <<>>
      /\ past = [u \in People |-> {users[u].team} \ {NoTeam}]
  BY DEF PeopleInit, MembershipInit
<1>3. teams \in Seq(Team) /\ DOMAIN teams = {1} /\ LiveTeams = {1}
  <2>1. Founder \in People
    BY MembershipAssumption
  <2> QED BY <1>2, <2>1 DEF Team, LiveTeams
<1>4. users \in [People -> [role : Roles, team : {NoTeam} \cup LiveTeams, gone : BOOLEAN]]
  BY <1>1, <1>3 DEF Roles
<1>5. past \in [People -> SUBSET DOMAIN teams]
  BY <1>2, <1>3, <1>4
<1>6. Rows
  <2>1. \A u \in People : users[u].team \in past[u] \cup {NoTeam}
    BY <1>2
  <2>2. applications \in Seq(Application) /\ divisions \in Seq(Division)
    BY <1>2
  <2>3. MembershipTypeOK
    BY <1>2, <1>4, <1>5 DEF MembershipTypeOK, Roles
  <2> QED BY <1>3, <2>1, <2>2, <2>3 DEF Rows
<1>7. Slots /\ \A p \in Requests : Held(p)
  BY DEF PeopleInit, HandlersInit, Slots, Held, Checked, TeamCalls, RowCalls, LineupCalls
<1>8. ApprovedWereIn /\ LineupsWereMembers
  BY <1>2 DEF ApprovedWereIn, LineupsWereMembers
<1> QED BY <1>6, <1>7, <1>8 DEF PeopleInv

\* No account, not even a deleted one, and no application ever points to a team
\* that is gone: the rows of MembershipService's tables keep their types.
THEOREM MembershipTyped == PeopleSpec => []MembershipTypeOK
<1>1. PeopleInv => MembershipTypeOK
  BY DEF PeopleInv, Rows
<1> QED BY <1>1, PeopleStart, PeopleStep, PTL DEF PeopleSpec

\* Whoever's application TeamRequestsService approved has been in that team.
THEOREM ApprovedHaveBeenIn == PeopleSpec => []ApprovedWereIn
<1>1. PeopleInv => ApprovedWereIn
  BY DEF PeopleInv
<1> QED BY <1>1, PeopleStart, PeopleStep, PTL DEF PeopleSpec

\* Nobody stands in a line-up of DivisionsService whose team they never were in.
THEOREM LineupsHaveBeenMembers == PeopleSpec => []LineupsWereMembers
<1>1. PeopleInv => LineupsWereMembers
  BY DEF PeopleInv
<1> QED BY <1>1, PeopleStart, PeopleStep, PTL DEF PeopleSpec
=============================================================================
