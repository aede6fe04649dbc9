------------------------------ MODULE Friends ------------------------------
(***************************************************************************)
(* Friend requests and who may look at whose games (UsersService), and the *)
(* invitations to a private event (EventsService).                         *)
(*                                                                         *)
(* A related user whose account is deleted loads as null: code that takes  *)
(* its id throws.                                                          *)
(***************************************************************************)
EXTENDS Membership

CONSTANTS
  Host,               \* the creator of the private event
  MaxFriendRequests   \* bound on the friend requests ever created

VARIABLES
  links,   \* the friend requests ever made, by number
  invited  \* the users invited to the event

social == <<links, invited>>

Open(i) == ~links[i].gone /\ links[i].status \in {"inProgress", "accepted"}
Between(i, u, v) == {links[i].from, links[i].to} = {u, v}
LinksOf(u, v) == {i \in DOMAIN links : Open(i) /\ Between(i, u, v)}
Friendships(u) == {i \in DOMAIN links :
                     /\ ~links[i].gone /\ links[i].status = "accepted"
                     /\ u \in {links[i].from, links[i].to}}
AreFriends(u, v) == \E i \in Friendships(u) : Between(i, u, v)

FriendsInit == links = <<>> /\ invited = {}

-----------------------------------------------------------------------------
(* Friend requests.                                                        *)

\* Mutant: only requests in the same direction are looked up.
CreateFriendRequestOneWay(p) ==
  /\ Arrive(p, "befriend") /\ Len(links) + Underway("befriend") < MaxFriendRequests
  /\ \E u \in Active : \E v \in Active \ {u} :
       /\ ~\E i \in LinksOf(u, v) : links[i].from = u
       /\ Suspend(p, "insertLink", [op |-> "befriend", from |-> u, to |-> v])
  /\ UNCHANGED <<membership, social>>

CreateFriendRequest(p) ==
  /\ Arrive(p, "befriend") /\ Len(links) + Underway("befriend") < MaxFriendRequests
  /\ \E u \in Active : \E v \in Active \ {u} :
       /\ LinksOf(u, v) = {}
       /\ Suspend(p, "insertLink", [op |-> "befriend", from |-> u, to |-> v])
  /\ UNCHANGED <<membership, social>>

InsertLink(p) ==
  /\ At(p, "insertLink")
  /\ links' = Append(links, [from |-> local[p].from, to |-> local[p].to,
                             status |-> "inProgress", gone |-> FALSE])
  /\ Return(p)
  /\ UNCHANGED <<membership, invited>>

Undecided(i) == ~links[i].gone /\ links[i].status = "inProgress"

\* acceptFriendRequest, rejectFriendRequest: the recipient only.
AnswerFriendRequest(p) ==
  /\ Arrive(p, "answer")
  /\ \E i \in DOMAIN links, status \in {"accepted", "rejected"} :
       /\ Undecided(i) /\ links[i].to \in Active
       /\ Suspend(p, "saveLink", [op |-> "answer", row |-> i, status |-> status])
  /\ UNCHANGED <<membership, social>>

\* Saving the status of a row deleted meanwhile inserts one without users,
\* which the database refuses.
SaveLink(p) ==
  /\ At(p, "saveLink")
  /\ links' = IF links[local[p].row].gone THEN links
              ELSE [links EXCEPT ![local[p].row].status = local[p].status]
  /\ Return(p)
  /\ UNCHANGED <<membership, invited>>

\* Mutant: a friend request may be deleted whatever became of it.
DeleteFriendRequestDecided(p) ==
  /\ Arrive(p, "unlink")
  /\ \E i \in DOMAIN links :
       /\ ~links[i].gone /\ links[i].from \in Active
       /\ Suspend(p, "deleteLink", [op |-> "unlink", row |-> i])
  /\ UNCHANGED <<membership, social>>

\* Either side takes it back, the recipient only as long as the id of the
\* requester can be compared.
DeleteFriendRequest(p) ==
  /\ Arrive(p, "unlink")
  /\ \E i \in DOMAIN links :
       /\ Undecided(i) /\ links[i].from \in Active
       /\ Suspend(p, "deleteLink", [op |-> "unlink", row |-> i])
  /\ UNCHANGED <<membership, social>>

DeleteLink(p) ==
  /\ At(p, "deleteLink")
  /\ links' = [links EXCEPT ![local[p].row].gone = TRUE]
  /\ Return(p)
  /\ UNCHANGED <<membership, invited>>

-----------------------------------------------------------------------------
(* Looking at another user's games.                                        *)

\* findOne of the target, then the checks of canViewUserGameHistory that need
\* no query.
ViewHistory(p) ==
  /\ Arrive(p, "view")
  /\ \E u \in Active, v \in Active :
       Suspend(p, IF u = v \/ IsAdmin(u) THEN "granted" ELSE "viewFriends",
               [op |-> "view", by |-> u, of |-> v, team |-> users[u].team])
  /\ UNCHANGED <<membership, social>>

\* getFriends takes the id of the requester of every friendship, and that of
\* the recipient where the viewer is the requester.
ViewFriends(p) ==
  /\ At(p, "viewFriends")
  /\ LET u == local[p].by
         mine == Friendships(u)
     IN Suspend(p,
          IF \E i \in mine : links[i].from \notin Active
                               \/ (links[i].from = u /\ links[i].to \notin Active)
          THEN "failed"
          ELSE IF AreFriends(u, local[p].of) THEN "granted"
          ELSE IF local[p].team # NoTeam THEN "viewTeam" ELSE "refused",
          local[p])
  /\ UNCHANGED <<membership, social>>

\* Mutant: both without a team counts as the same team.
ViewTeamAny(p) ==
  /\ At(p, "viewTeam")
  /\ Suspend(p, IF users[local[p].of].team \in {local[p].team, NoTeam}
                THEN "granted" ELSE "refused", local[p])
  /\ UNCHANGED <<membership, social>>

\* The team the viewer had when the call came in, the target's of now.
ViewTeam(p) ==
  /\ At(p, "viewTeam")
  /\ Suspend(p, IF local[p].of \in Members(local[p].team) THEN "granted" ELSE "refused",
             local[p])
  /\ UNCHANGED <<membership, social>>

-----------------------------------------------------------------------------
(* A private event.                                                        *)

\* The host or an admin invites; the host is looked at first.
SendInvitation(p) ==
  /\ Arrive(p, "invite")
  /\ Host \in Active
  /\ \E u \in Active \ invited :
       Suspend(p, "insertInvitation", [op |-> "invite", user |-> u])
  /\ UNCHANGED <<membership, social>>

\* The unique index refuses a second row for the same user.
InsertInvitation(p) ==
  /\ At(p, "insertInvitation")
  /\ invited' = invited \cup {local[p].user}
  /\ Return(p)
  /\ UNCHANGED <<membership, links>>

\* The host, an admin or the invited user.
DeleteInvitation(p) ==
  /\ Arrive(p, "uninvite")
  /\ Host \in Active
  /\ \E u \in invited : Suspend(p, "removeInvitation", [op |-> "uninvite", user |-> u])
  /\ UNCHANGED <<membership, social>>

RemoveInvitation(p) ==
  /\ At(p, "removeInvitation")
  /\ invited' = invited \ {local[p].user}
  /\ Return(p)
  /\ UNCHANGED <<membership, links>>

\* canViewEvent: an admin first, then the id of the creator, then invitations.
ViewEvent(p) ==
  /\ Arrive(p, "viewEvent")
  /\ \E u \in Active :
       Suspend(p, IF IsAdmin(u) THEN "granted"
                  ELSE IF Host \notin Active THEN "failed"
                  ELSE IF u = Host THEN "granted" ELSE "viewInvitation",
               [op |-> "viewEvent", by |-> u])
  /\ UNCHANGED <<membership, social>>

HasInvitation(p) ==
  /\ At(p, "viewInvitation")
  /\ Suspend(p, IF local[p].by \in invited THEN "granted" ELSE "refused", local[p])
  /\ UNCHANGED <<membership, social>>

\* The games or the event are answered, or the error is.
Answered(p) ==
  /\ \E label \in {"granted", "refused", "failed"} : At(p, label)
  /\ Return(p)
  /\ UNCHANGED <<membership, social>>

FriendsNext(p) ==
  \/ CreateFriendRequest(p) \/ InsertLink(p) \/ AnswerFriendRequest(p) \/ SaveLink(p)
  \/ DeleteFriendRequest(p) \/ DeleteLink(p)
  \/ ViewHistory(p) \/ ViewFriends(p) \/ ViewTeam(p)
  \/ SendInvitation(p) \/ InsertInvitation(p) \/ DeleteInvitation(p) \/ RemoveInvitation(p)
  \/ ViewEvent(p) \/ HasInvitation(p) \/ Answered(p)

-----------------------------------------------------------------------------
(* Properties.                                                             *)

\* Two users are linked by one friend request, open or accepted, whoever sent
\* it; by more only if requests for one raced.
OneLink ==
  \A u, v \in People : u # v => Cardinality(LinksOf(u, v)) <= AtMostOnce

\* There is no way to end a friendship: an accepted request stays accepted,
\* except for an answer or a withdrawal that was checked before it was accepted.
FriendsForGood ==
  [][calm' => \A i \in DOMAIN links :
       ~links[i].gone /\ links[i].status = "accepted" => links'[i] = links[i]]_<<links, calm>>

\* self, admin, accepted friend, or same team
MayViewHistory(u, v) ==
  \/ u = v \/ IsAdmin(u) \/ AreFriends(u, v)
  \/ users[u].team # NoTeam /\ users[u].team = users[v].team

\* creator, admin or invited
MayViewEvent(u) == u = Host \/ IsAdmin(u) \/ u \in invited

MayView(call) ==
  IF call.op = "view" THEN MayViewHistory(call.by, call.of) ELSE MayViewEvent(call.by)

\* Nobody is shown the games or the private event of others without a right
\* to see them: rights are checked one query at a time, and only a change in
\* between can make the answer outdated.
NoPeeking == calm => \A p \in Requests : pc[p] = "granted" => MayView(local[p])

\* canViewUserGameHistory: "Whether the viewer may access another user's game
\* history (self, admin, accepted friend, or same team)". Who may is not turned
\* away while both accounts exist.
HistoryAccess ==
  calm => \A p \in Requests :
            pc[p] \in {"refused", "failed"} /\ local[p].op = "view"
              /\ {local[p].by, local[p].of} \subseteq Active
            => ~MayViewHistory(local[p].by, local[p].of)
=============================================================================
