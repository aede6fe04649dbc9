----------------------------- MODULE Membership -----------------------------
(***************************************************************************)
(* Accounts, teams, applications to join a team (team requests) and the    *)
(* divisions of a team: TeamsService, TeamRequestsService, DivisionsService *)
(* and the parts of UsersService that move a user or delete an account.    *)
(*                                                                         *)
(* JwtStrategy loads the caller when a request comes in: the role and the  *)
(* team that the guards and the services look at are those of that moment. *)
(* A deleted account keeps its row; relations load without it.             *)
(***************************************************************************)
EXTENDS Handlers, FiniteSetsExt, Sequences

CONSTANTS
  People,           \* accounts
  AdminPeople,      \* those with an admin role
  Founder,          \* the founder of the first team
  Sizes,            \* the game types a division may have
  MaxTeams, MaxApplications, MaxDivisions  \* bounds on the rows ever created

NoTeam == 0

ASSUME MembershipAssumption ==
  /\ IsFiniteSet(People)
  /\ AdminPeople \subseteq People /\ Founder \in People \ AdminPeople
  /\ Sizes \subseteq {2, 3, 4, 6}

VARIABLES
  users,         \* role, team and deletion of each account
  teams,         \* the teams ever founded, by number
  applications,  \* the team requests ever made
  divisions,     \* the divisions ever created
  past           \* history: the teams each user has ever been in

membership == <<users, teams, applications, divisions, past>>

Active == {u \in People : ~users[u].gone}
IsAdmin(u) == users[u].role = "admin"
Manages(u) == users[u].role \in {"admin", "supervisor"}
LiveTeams == {t \in DOMAIN teams : ~teams[t].gone}
\* Relations load without deleted accounts.
Members(t) == {u \in Active : users[u].team = t}
Pending(u) == {i \in DOMAIN applications :
                 applications[i].user = u /\ applications[i].status = "inProgress"}
LiveDivisions(t) == {d \in DOMAIN divisions : divisions[d].team = t /\ ~divisions[d].gone}
Loaded(d) == divisions[d].members \cap Active

\* The founder has founded the first team and, as its supervisor, listed some
\* of the other users as members.
MembershipInit ==
  /\ \E listed \in SUBSET (People \ {Founder}) :
       users = [u \in People |->
                  [role |-> IF u = Founder THEN "supervisor"
                            ELSE IF u \in AdminPeople THEN "admin" ELSE "user",
                   team |-> IF u \in listed \cup {Founder} THEN 1 ELSE NoTeam,
                   gone |-> FALSE]]
  /\ teams = <<[by |-> Founder, gone |-> FALSE]>>
  /\ applications = <<>>
  /\ divisions = <<>>
  /\ past = [u \in People |-> {users[u].team} \ {NoTeam}]

\* Write the `team` column of some users.
Place(rows) ==
  /\ users' = rows
  /\ past' = [u \in People |-> past[u] \cup ({rows[u].team} \ {NoTeam})]

-----------------------------------------------------------------------------
(* Teams and accounts.                                                     *)

CreateTeam(p) ==
  /\ Arrive(p, "createTeam") /\ Len(teams) + Underway("createTeam") < MaxTeams
  /\ \E u \in Active :
       /\ users[u].team = NoTeam
       /\ Suspend(p, "insertTeam", [op |-> "createTeam", by |-> u, role |-> users[u].role])
  /\ UNCHANGED membership

\* One transaction: the team, and for a plain user the role and the place in it.
InsertTeam(p) ==
  /\ At(p, "insertTeam")
  /\ LET by == local[p].by IN
       /\ teams' = Append(teams, [by |-> by, gone |-> FALSE])
       /\ IF local[p].role = "user"
          THEN Place([users EXCEPT ![by].role = "supervisor", ![by].team = Len(teams) + 1])
          ELSE UNCHANGED <<users, past>>
  /\ Return(p)
  /\ UNCHANGED <<applications, divisions>>

\* A manager passes the guard: an admin, a member or the creator of the team.
UpdateTeam(p) ==
  /\ Arrive(p, "updateTeam")
  /\ \E u \in Active, t \in LiveTeams, members \in SUBSET People :
       /\ Manages(u)
       /\ IsAdmin(u) \/ users[u].team = t \/ teams[t].by = u
       /\ Suspend(p, "saveTeam", [op |-> "updateTeam", team |-> t, members |-> members])
  /\ UNCHANGED membership

\* The users listed move to the team from wherever they are, the others leave it.
SaveTeam(p) ==
  /\ At(p, "saveTeam")
  /\ LET t == local[p].team IN
       IF teams[t].gone THEN UNCHANGED <<users, past>>
       ELSE Place([u \in People |->
              [users[u] EXCEPT !.team = IF u \in local[p].members THEN t
                                        ELSE IF @ = t THEN NoTeam ELSE @]])
  /\ Return(p)
  /\ UNCHANGED <<teams, applications, divisions>>

RemoveTeam(p) ==
  /\ Arrive(p, "removeTeam")
  /\ \E u \in Active, t \in LiveTeams :
       /\ Manages(u) /\ teams[t].by \in Active
       /\ IsAdmin(u) \/ teams[t].by = u
       /\ Suspend(p, "deleteTeam", [op |-> "removeTeam", team |-> t])
  /\ UNCHANGED membership

\* Mutant: the users' foreign key sets nothing and stops nothing.
DeleteTeamOfMembers(p) ==
  /\ At(p, "deleteTeam")
  /\ teams' = [teams EXCEPT ![local[p].team].gone =
                 ~\E i \in DOMAIN applications : applications[i].team = local[p].team]
  /\ Return(p)
  /\ UNCHANGED <<users, applications, divisions, past>>

\* Accounts, even deleted ones, and applications hold the team by a foreign
\* key without a cascade; its divisions go with it.
DeleteTeam(p) ==
  /\ At(p, "deleteTeam")
  /\ LET t == local[p].team
         held == (\E u \in People : users[u].team = t)
                   \/ (\E i \in DOMAIN applications : applications[i].team = t)
     IN /\ teams' = IF held THEN teams ELSE [teams EXCEPT ![t].gone = TRUE]
        /\ divisions' = IF held THEN divisions
                        ELSE [d \in DOMAIN divisions |->
                               [divisions[d] EXCEPT !.gone = @ \/ divisions[d].team = t]]
  /\ Return(p)
  /\ UNCHANGED <<users, applications, past>>

\* UsersService.update looks the dto's team up: with an id, that team or none;
\* without one, whichever team the query returns first.
UpdateProfile(p) ==
  /\ Arrive(p, "updateProfile")
  /\ \E u \in Active, t \in LiveTeams \cup {NoTeam} :
       Suspend(p, "saveProfile", [op |-> "updateProfile", by |-> u, team |-> t])
  /\ UNCHANGED membership

SaveProfile(p) ==
  /\ At(p, "saveProfile")
  /\ IF local[p].team \in LiveTeams \cup {NoTeam}
     THEN Place([users EXCEPT ![local[p].by].team = local[p].team])
     ELSE UNCHANGED <<users, past>>
  /\ Return(p)
  /\ UNCHANGED <<teams, applications, divisions>>

RemoveAccount(p) ==
  /\ Arrive(p, "removeAccount") /\ AtOnce
  /\ \E u \in Active : users' = [users EXCEPT ![u].gone = TRUE]
  /\ UNCHANGED <<teams, applications, divisions, past>>

-----------------------------------------------------------------------------
(* Applications.                                                           *)

\* Mutant: only a pending request to the same team counts.
CreateApplicationPerTeam(p) ==
  /\ Arrive(p, "apply") /\ Len(applications) + Underway("apply") < MaxApplications
  /\ \E u \in Active, t \in LiveTeams :
       /\ users[u].team = NoTeam \/ (\E admin \in Active : IsAdmin(admin))
       /\ \A i \in Pending(u) : applications[i].team # t
       /\ Suspend(p, "insertApplication", [op |-> "apply", user |-> u, team |-> t])
  /\ UNCHANGED membership

\* An admin applies for anybody, others for themselves while in no team.
CreateApplication(p) ==
  /\ Arrive(p, "apply") /\ Len(applications) + Underway("apply") < MaxApplications
  /\ \E u \in Active, t \in LiveTeams :
       /\ users[u].team = NoTeam \/ (\E admin \in Active : IsAdmin(admin))
       /\ Pending(u) = {}
       /\ Suspend(p, "insertApplication", [op |-> "apply", user |-> u, team |-> t])
  /\ UNCHANGED membership

InsertApplication(p) ==
  /\ At(p, "insertApplication")
  /\ applications' =
       IF teams[local[p].team].gone THEN applications
       ELSE Append(applications,
              [user |-> local[p].user, team |-> local[p].team, status |-> "inProgress"])
  /\ Return(p)
  /\ UNCHANGED <<users, teams, divisions, past>>

\* Mutant: requests that are decided already are decided again.
MayDecideAgain(u, i) ==
  /\ Manages(u) /\ applications[i].status # "archived"
  /\ IsAdmin(u) \/ users[u].team = applications[i].team

\* isFromSameTeam
MayDecide(u, i) ==
  /\ Manages(u) /\ applications[i].status = "inProgress"
  /\ IsAdmin(u) \/ users[u].team = applications[i].team

DecideApplication(p) ==
  /\ Arrive(p, "decide")
  /\ \E u \in Active, i \in DOMAIN applications, label \in {"approve", "reject"} :
       /\ MayDecide(u, i)
       /\ label = "approve" => applications[i].user \in Active
       /\ Suspend(p, label, [op |-> "decide", row |-> i])
  /\ UNCHANGED membership

\* Mutant: the transaction saves the status of the request only.
ApproveStatusOnly(p) ==
  /\ At(p, "approve")
  /\ applications' = [applications EXCEPT ![local[p].row].status = "approved"]
  /\ Return(p)
  /\ UNCHANGED <<users, teams, divisions, past>>

\* One transaction: the applicant's team and the status.
Approve(p) ==
  /\ At(p, "approve")
  /\ LET i == local[p].row IN
       /\ Place([users EXCEPT ![applications[i].user].team = applications[i].team])
       /\ applications' = [applications EXCEPT ![i].status = "approved"]
  /\ Return(p)
  /\ UNCHANGED <<teams, divisions>>

Reject(p) ==
  /\ At(p, "reject")
  /\ applications' = [applications EXCEPT ![local[p].row].status = "rejected"]
  /\ Return(p)
  /\ UNCHANGED <<users, teams, divisions, past>>

\* Admins archive any request, applicants their own while it is pending.
RemoveApplication(p) ==
  /\ Arrive(p, "withdraw")
  /\ \E u \in Active, i \in DOMAIN applications :
       /\ applications[i].user \in Active
       /\ IsAdmin(u) \/ (applications[i].user = u /\ applications[i].status = "inProgress")
       /\ Suspend(p, "archive", [op |-> "withdraw", row |-> i])
  /\ UNCHANGED membership

Archive(p) ==
  /\ At(p, "archive")
  /\ applications' = [applications EXCEPT ![local[p].row].status = "archived"]
  /\ Return(p)
  /\ UNCHANGED <<users, teams, divisions, past>>

MembershipNext(p) ==
  \/ CreateTeam(p) \/ InsertTeam(p) \/ UpdateTeam(p) \/ SaveTeam(p)
  \/ RemoveTeam(p) \/ DeleteTeam(p) \/ UpdateProfile(p) \/ SaveProfile(p)
  \/ RemoveAccount(p)
  \/ CreateApplication(p) \/ InsertApplication(p) \/ DecideApplication(p)
  \/ Approve(p) \/ Reject(p) \/ RemoveApplication(p) \/ Archive(p)
  \/ (Broken(p) /\ UNCHANGED membership)

-----------------------------------------------------------------------------
(* Properties.                                                             *)

MembershipTypeOK ==
  /\ users \in [People -> [role : {"user", "supervisor", "admin"},
                           team : {NoTeam} \cup LiveTeams, gone : BOOLEAN]]
  /\ \A i \in DOMAIN applications :
       applications[i] \in [user : People, team : LiveTeams,
                            status : {"inProgress", "approved", "rejected", "archived"}]
  /\ past \in [People -> SUBSET DOMAIN teams]

\* The check for a pending request and the insert are apart: applying twice at
\* the same time gives two pending requests, but never more than there are
\* requests racing, and none while calls come one at a time.
OnePendingApplication == \A u \in People : Cardinality(Pending(u)) <= AtMostOnce

\* Whoever's application was approved has been in that team, whatever else
\* was going on: the place and the status are written together.
ApprovedWereIn ==
  \A i \in DOMAIN applications :
    applications[i].status = "approved" => applications[i].team \in past[applications[i].user]

\* An application that has been approved is not rejected any more, and a
\* rejected or archived one is not approved, unless decisions overlap.
DecidedForGood ==
  [][calm' => \A i \in DOMAIN applications :
       LET before == applications[i].status  after == applications'[i].status IN
       before = "inProgress" \/ after \in {before, "archived"}]_<<applications, calm>>
=============================================================================
