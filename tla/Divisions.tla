----------------------------- MODULE Divisions -----------------------------
(***************************************************************************)
(* DivisionsService: the fixed line-ups of a team. A call checks who may   *)
(* manage them, whether the members belong to the team and whether another *)
(* division has the same members, each with a query of its own, and then   *)
(* saves. An update saves the entity it loaded at the start: what the dto  *)
(* leaves out is written back as it was then.                              *)
(***************************************************************************)
EXTENDS Membership

\* ensureCanManageDivisions
CanManageDivisions(u, t) ==
  /\ t \in LiveTeams
  /\ IsAdmin(u) \/ (u \in Members(t) /\ users[u].role = "supervisor")

\* findDivisionWithSameMembers
SameMembers(t, members, but) ==
  \E d \in LiveDivisions(t) \ {but} : Loaded(d) = members

NewDivision == 0
Kept == {}  \* the dto of an update lists no members

\* Mutant: the number of members is checked only when the dto lists them.
DivisionFitsListed(type, members, listed) == listed => Cardinality(members) = type

DivisionFits(type, members, listed) == Cardinality(members) = type

CreateDivision(p) ==
  /\ Arrive(p, "createDivision")
  /\ Len(divisions) + Underway("createDivision") < MaxDivisions
  /\ \E u \in Active, t \in LiveTeams, type \in Sizes, members \in SUBSET People :
       /\ CanManageDivisions(u, t)
       /\ DivisionFits(type, members, TRUE)
       /\ Suspend(p, "divisionMembers",
            [op |-> "createDivision", row |-> NewDivision, team |-> t, type |-> type,
             members |-> members])
  /\ UNCHANGED membership

\* The dto gives a type, members, both or only a name.
UpdateDivision(p) ==
  /\ Arrive(p, "updateDivision")
  /\ \E u \in Active, d \in DOMAIN divisions, type \in Sizes, dto \in SUBSET People :
       LET t == divisions[d].team
           members == IF dto = Kept THEN Loaded(d) ELSE dto
       IN /\ ~divisions[d].gone
          /\ CanManageDivisions(u, t)
          /\ DivisionFits(type, members, dto # Kept)
          /\ Suspend(p, IF dto = Kept THEN "saveDivision" ELSE "divisionTwins",
               [op |-> "updateDivision", row |-> d, team |-> t, type |-> type, members |-> members])
  /\ UNCHANGED membership

\* Mutant: the members are looked up among all users.
CheckMembersAnywhere(p) ==
  /\ At(p, "divisionMembers")
  /\ IF local[p].members \subseteq Active
     THEN Suspend(p, IF local[p].row = NewDivision THEN "divisionTwins" ELSE "saveDivision",
                  local[p])
     ELSE Return(p)
  /\ UNCHANGED membership

\* assertMembersBelongToTeam; a new division looks for twins after it, an
\* update has looked before.
CheckMembers(p) ==
  /\ At(p, "divisionMembers")
  /\ IF local[p].team \in LiveTeams /\ local[p].members \subseteq Members(local[p].team)
     THEN Suspend(p, IF local[p].row = NewDivision THEN "divisionTwins" ELSE "saveDivision",
                  local[p])
     ELSE Return(p)
  /\ UNCHANGED membership

\* Mutant: an update does not look for twins.
CheckTwinsOfNew(p) ==
  /\ At(p, "divisionTwins")
  /\ IF local[p].row = NewDivision /\ SameMembers(local[p].team, local[p].members, NewDivision)
     THEN Return(p)
     ELSE Suspend(p, IF local[p].row = NewDivision THEN "saveDivision" ELSE "divisionMembers",
                  local[p])
  /\ UNCHANGED membership

CheckTwins(p) ==
  /\ At(p, "divisionTwins")
  /\ IF SameMembers(local[p].team, local[p].members, local[p].row)
     THEN Return(p)
     ELSE Suspend(p, IF local[p].row = NewDivision THEN "saveDivision" ELSE "divisionMembers",
                  local[p])
  /\ UNCHANGED membership

\* A division deleted meanwhile is inserted again, unless its team is gone too.
SaveDivision(p) ==
  /\ At(p, "saveDivision")
  /\ LET call == local[p]
         row == [team |-> call.team, type |-> call.type, members |-> call.members,
                 gone |-> FALSE]
     IN divisions' = IF teams[call.team].gone THEN divisions
                     ELSE IF call.row = NewDivision THEN Append(divisions, row)
                     ELSE [divisions EXCEPT ![call.row] = row]
  /\ Return(p)
  /\ UNCHANGED <<users, teams, applications, past>>

RemoveDivision(p) ==
  /\ Arrive(p, "removeDivision")
  /\ \E u \in Active, d \in DOMAIN divisions :
       /\ ~divisions[d].gone /\ CanManageDivisions(u, divisions[d].team)
       /\ Suspend(p, "deleteDivision", [op |-> "removeDivision", row |-> d])
  /\ UNCHANGED membership

DeleteDivision(p) ==
  /\ At(p, "deleteDivision")
  /\ divisions' = [divisions EXCEPT ![local[p].row].gone = TRUE]
  /\ Return(p)
  /\ UNCHANGED <<users, teams, applications, past>>

\* getDivisionMemberIdsForGameType, getDivisionMemberIdsByType: the players
\* that a game or an event gets for a division of its type.
LineUp(d, type) ==
  IF divisions[d].type = type /\ ~divisions[d].gone THEN Loaded(d) ELSE {}

DivisionsNext(p) ==
  \/ CreateDivision(p) \/ UpdateDivision(p) \/ CheckMembers(p) \/ CheckTwins(p)
  \/ SaveDivision(p) \/ RemoveDivision(p) \/ DeleteDivision(p)

-----------------------------------------------------------------------------
(* Properties.                                                             *)

\* Nobody stands in a line-up of a team they have never been a member of,
\* however creating, editing, removing and the moves between teams overlap.
LineupsWereMembers ==
  \A d \in DOMAIN divisions : \A u \in divisions[d].members : divisions[d].team \in past[u]

\* Two divisions of a team never have the same members while calls come one
\* at a time, and otherwise no more of them than requests that race: as long as
\* no account is deleted. An edit that lists no members writes back those that
\* load, without the deleted accounts, and does not look for twins.
LineupsDiffer ==
  Active = People =>
    \A t \in LiveTeams, members \in SUBSET People :
      Cardinality({d \in LiveDivisions(t) : divisions[d].members = members}) <= AtMostOnce

\* A division that nobody left by deleting the account fields as many players
\* as its type says, and never more, however its edits overlap: what an edit
\* reads of the type and of the members it writes back together.
LineupsFit ==
  \A d \in DOMAIN divisions :
    LET players == LineUp(d, divisions[d].type) IN
    /\ Cardinality(players) <= divisions[d].type
    /\ ~divisions[d].gone /\ divisions[d].members \subseteq Active
         => Cardinality(players) = divisions[d].type
=============================================================================
