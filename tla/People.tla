------------------------------- MODULE People -------------------------------
(***************************************************************************)
(* The users of the application together: accounts, teams, applications,   *)
(* divisions, friends and invitations, over the same rows and at the same  *)
(* time.                                                                   *)
(***************************************************************************)
EXTENDS Divisions, Friends

peopleVars == <<control, membership, social>>

PeopleInit == HandlersInit /\ MembershipInit /\ FriendsInit

PeopleNext ==
  \E p \in Requests :
    \/ MembershipNext(p) /\ UNCHANGED social
    \/ DivisionsNext(p) /\ UNCHANGED social
    \/ FriendsNext(p)

PeopleSpec == PeopleInit /\ [][PeopleNext]_peopleVars
=============================================================================
