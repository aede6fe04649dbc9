-------------------------- MODULE PeopleCalmProofs --------------------------
(***************************************************************************)
(* What checking first and writing later is worth for the users'           *)
(* operations: everything while calls come one at a time, since a call     *)
(* then finds things as it checked them (Fresh), and otherwise a bound.    *)
(* Two calls that look for a row before they insert it both find none, so  *)
(* nothing is unique; but every row beyond the first is owed to a call     *)
(* that was under way when another one looked, so there are never more of  *)
(* them than there are requests in flight at once (Within). That needs     *)
(* more than the rows to be counted: the calls about to insert one, and    *)
(* the rows that a call checked earlier is about to bring back.            *)
(***************************************************************************)
EXTENDS PeopleProofs, FiniteSetTheorems

\* A step of the request p.
Step(p) ==
  \/ MembershipNext(p) /\ UNCHANGED social
  \/ DivisionsNext(p) /\ UNCHANGED social
  \/ FriendsNext(p)

\* As long as calls come one at a time, only one of them is being handled.
Sole == calm => \A p, q \in Requests : pc[p] # "idle" /\ pc[q] # "idle" => p = q

\* A call comes in, or the one under way goes on.
Turn(p) ==
  \/ pc[p] = "idle" /\ calm' = (calm /\ \A q \in Requests : pc[q] = "idle")
  \/ pc[p] # "idle" /\ calm' = calm

\* The first step of a call.
Asking(p) ==
  \/ CreateTeam(p) \/ UpdateTeam(p) \/ RemoveTeam(p) \/ UpdateProfile(p) \/ RemoveAccount(p)
  \/ CreateApplication(p) \/ DecideApplication(p) \/ RemoveApplication(p)
  \/ CreateDivision(p) \/ UpdateDivision(p) \/ RemoveDivision(p)
  \/ CreateFriendRequest(p) \/ AnswerFriendRequest(p) \/ DeleteFriendRequest(p)
  \/ ViewHistory(p) \/ SendInvitation(p) \/ DeleteInvitation(p) \/ ViewEvent(p)

\* Its later steps.
Going(p) ==
  \/ InsertTeam(p) \/ SaveTeam(p) \/ DeleteTeam(p) \/ SaveProfile(p)
  \/ InsertApplication(p) \/ Approve(p) \/ Reject(p) \/ Archive(p)
  \/ CheckMembers(p) \/ CheckTwins(p) \/ SaveDivision(p) \/ DeleteDivision(p)
  \/ InsertLink(p) \/ SaveLink(p) \/ DeleteLink(p)
  \/ ViewFriends(p) \/ ViewTeam(p) \/ InsertInvitation(p) \/ RemoveInvitation(p)
  \/ HasInvitation(p) \/ Answered(p)

\* Every step is the first or a later one of a call, or an error.
LEMMA StepIs ==
  ASSUME NEW p, Step(p)
  PROVE  Asking(p) \/ Going(p) \/ Broken(p)
BY DEF Step, Asking, Going, MembershipNext, DivisionsNext, FriendsNext

\* A call that comes in ends the calm if another one is under way.
LEMMA AskingTurns ==
  ASSUME NEW p, Asking(p)
  PROVE  pc[p] = "idle" /\ calm' = (calm /\ \A q \in Requests : pc[q] = "idle")
<1>1. \E op : Arrive(p, op)
  BY DEF Asking, CreateTeam, UpdateTeam, RemoveTeam, UpdateProfile, RemoveAccount,
         CreateApplication, DecideApplication, RemoveApplication,
         CreateDivision, UpdateDivision, RemoveDivision,
         CreateFriendRequest, AnswerFriendRequest, DeleteFriendRequest,
         ViewHistory, SendInvitation, DeleteInvitation, ViewEvent
<1> QED BY <1>1 DEF Arrive

\* Going on does not.
LEMMA GoingTurns ==
  ASSUME NEW p, Going(p)
  PROVE  pc[p] # "idle" /\ calm' = calm
<1>1. PICK label : label # "idle" /\ At(p, label)
  BY DEF Going, InsertTeam, SaveTeam, DeleteTeam, SaveProfile,
         InsertApplication, Approve, Reject, Archive,
         CheckMembers, CheckTwins, SaveDivision, DeleteDivision,
         InsertLink, SaveLink, DeleteLink,
         ViewFriends, ViewTeam, InsertInvitation, RemoveInvitation,
         HasInvitation, Answered
<1> QED BY <1>1 DEF At

\* Nor do errors: every step is somebody's turn.
LEMMA StepTurns ==
  ASSUME NEW p, Step(p)
  PROVE  Turn(p)
BY StepIs, AskingTurns, GoingTurns DEF Turn, Broken

\* A step of p moves nobody else.
LEMMA StepMoves ==
  ASSUME Slots, NEW p \in Requests, Step(p)
  PROVE  Moved(p)
<1>1. ASSUME NEW label, NEW held, Suspend(p, label, held) PROVE Moved(p)
  BY <1>1, SuspendMoves
<1>2. Return(p) => Moved(p)
  BY <1>1 DEF Return
<1>3. AtOnce => Moved(p)
  BY DEF AtOnce, Moved, Slots
<1>4. CASE Broken(p)
  BY <1>2, <1>4 DEF Broken
<1>5. CASE Asking(p)
  BY <1>1, <1>3, <1>5
     DEF Asking, CreateTeam, UpdateTeam, RemoveTeam, UpdateProfile, RemoveAccount,
         CreateApplication, DecideApplication, RemoveApplication,
         CreateDivision, UpdateDivision, RemoveDivision,
         CreateFriendRequest, AnswerFriendRequest, DeleteFriendRequest,
         ViewHistory, SendInvitation, DeleteInvitation, ViewEvent
<1>6. CASE Going(p)
  BY <1>1, <1>2, <1>6
     DEF Going, InsertTeam, SaveTeam, DeleteTeam, SaveProfile,
         InsertApplication, Approve, Reject, Archive,
         CheckMembers, CheckTwins, SaveDivision, DeleteDivision,
         InsertLink, SaveLink, DeleteLink,
         ViewFriends, ViewTeam, InsertInvitation, RemoveInvitation,
         HasInvitation, Answered
<1> QED BY <1>4, <1>5, <1>6, StepIs

\* In a calm behaviour nobody else is under way while p moves.
LEMMA Alone ==
  ASSUME Sole, NEW p \in Requests, Turn(p), calm'
  PROVE  calm /\ \A q \in Requests \ {p} : pc[q] = "idle"
BY DEF Sole, Turn

\* One call at a time stays one call at a time.
LEMMA SoleStays ==
  ASSUME Sole, NEW p \in Requests, Turn(p), Moved(p)
  PROVE  Sole'
<1>1. SUFFICES ASSUME calm' PROVE \A q \in Requests \ {p} : pc'[q] = "idle"
  BY DEF Sole
<1> QED BY <1>1, Alone DEF Moved

(***************************************************************************)
(* Where the awaits of a call come from.                                   *)
(***************************************************************************)

\* Calls that answer, or an account that is deleted: nothing is held then.
Answering(p) ==
  \/ RemoveAccount(p)
  \/ InsertTeam(p) \/ SaveTeam(p) \/ DeleteTeam(p) \/ SaveProfile(p)
  \/ InsertApplication(p) \/ Approve(p) \/ Reject(p) \/ Archive(p)
  \/ SaveDivision(p) \/ DeleteDivision(p)
  \/ InsertLink(p) \/ SaveLink(p) \/ DeleteLink(p)
  \/ InsertInvitation(p) \/ RemoveInvitation(p) \/ Answered(p) \/ Broken(p)

\* After these steps p stands nowhere.
LEMMA AnsweringEnds ==
  ASSUME Slots, NEW p \in Requests, Answering(p)
  PROVE  pc'[p] = "idle"
<1>1. Return(p) => pc'[p] = "idle"
  BY SuspendMoves DEF Return
<1>2. CASE RemoveAccount(p)
  BY <1>2 DEF RemoveAccount, Arrive, AtOnce
<1>3. CASE ~RemoveAccount(p)
  BY <1>1, <1>3
     DEF Answering, InsertTeam, SaveTeam, DeleteTeam, SaveProfile,
         InsertApplication, Approve, Reject, Archive, SaveDivision, DeleteDivision,
         InsertLink, SaveLink, DeleteLink, InsertInvitation, RemoveInvitation, Answered, Broken
<1> QED BY <1>2, <1>3

\* The steps after which a call waits, and at what.
LEMMA Labels ==
  ASSUME Slots, NEW p \in Requests
  PROVE  /\ CreateTeam(p) => pc'[p] = "insertTeam"
         /\ UpdateTeam(p) => pc'[p] = "saveTeam"
         /\ RemoveTeam(p) => pc'[p] = "deleteTeam"
         /\ UpdateProfile(p) => pc'[p] = "saveProfile"
         /\ CreateApplication(p) => pc'[p] = "insertApplication"
         /\ DecideApplication(p) => pc'[p] \in {"approve", "reject"}
         /\ RemoveApplication(p) => pc'[p] = "archive"
         /\ CreateDivision(p) => pc'[p] = "divisionMembers"
         /\ UpdateDivision(p) => pc'[p] \in {"saveDivision", "divisionTwins"}
         /\ RemoveDivision(p) => pc'[p] = "deleteDivision"
         /\ CheckMembers(p) => pc'[p] \in {"idle", "divisionTwins", "saveDivision"}
         /\ CheckTwins(p) => pc'[p] \in {"idle", "divisionMembers", "saveDivision"}
         /\ CreateFriendRequest(p) => pc'[p] = "insertLink"
         /\ AnswerFriendRequest(p) => pc'[p] = "saveLink"
         /\ DeleteFriendRequest(p) => pc'[p] = "deleteLink"
         /\ ViewHistory(p) => pc'[p] \in {"granted", "viewFriends"}
         /\ ViewFriends(p) => pc'[p] \in {"failed", "granted", "viewTeam", "refused"}
         /\ ViewTeam(p) => pc'[p] \in {"granted", "refused"}
         /\ SendInvitation(p) => pc'[p] = "insertInvitation"
         /\ DeleteInvitation(p) => pc'[p] = "removeInvitation"
         /\ ViewEvent(p) => pc'[p] \in {"granted", "failed", "viewInvitation"}
         /\ HasInvitation(p) => pc'[p] \in {"granted", "refused"}
<1> USE SuspendMoves
<1>1. /\ CreateTeam(p) => pc'[p] = "insertTeam"
      /\ UpdateTeam(p) => pc'[p] = "saveTeam"
      /\ RemoveTeam(p) => pc'[p] = "deleteTeam"
      /\ UpdateProfile(p) => pc'[p] = "saveProfile"
  <2>1. CreateTeam(p) => pc'[p] = "insertTeam"
    BY DEF CreateTeam
  <2>2. UpdateTeam(p) => pc'[p] = "saveTeam"
    BY DEF UpdateTeam
  <2>3. RemoveTeam(p) => pc'[p] = "deleteTeam"
    BY DEF RemoveTeam
  <2>4. UpdateProfile(p) => pc'[p] = "saveProfile"
    BY DEF UpdateProfile
  <2> QED BY <2>1, <2>2, <2>3, <2>4
<1>2. /\ CreateApplication(p) => pc'[p] = "insertApplication"
      /\ DecideApplication(p) => pc'[p] \in {"approve", "reject"}
      /\ RemoveApplication(p) => pc'[p] = "archive"
  BY DEF CreateApplication, DecideApplication, RemoveApplication
<1>3. /\ CreateDivision(p) => pc'[p] = "divisionMembers"
      /\ RemoveDivision(p) => pc'[p] = "deleteDivision"
  BY DEF CreateDivision, RemoveDivision
<1>4. UpdateDivision(p) => pc'[p] \in {"saveDivision", "divisionTwins"}
  BY DEF UpdateDivision
<1>5. /\ CheckMembers(p) => pc'[p] \in {"idle", "divisionTwins", "saveDivision"}
      /\ CheckTwins(p) => pc'[p] \in {"idle", "divisionMembers", "saveDivision"}
  BY DEF CheckMembers, CheckTwins, Return
<1>6. /\ CreateFriendRequest(p) => pc'[p] = "insertLink"
      /\ AnswerFriendRequest(p) => pc'[p] = "saveLink"
      /\ DeleteFriendRequest(p) => pc'[p] = "deleteLink"
  BY DEF CreateFriendRequest, AnswerFriendRequest, DeleteFriendRequest
<1>7. /\ ViewHistory(p) => pc'[p] \in {"granted", "viewFriends"}
      /\ ViewTeam(p) => pc'[p] \in {"granted", "refused"}
      /\ HasInvitation(p) => pc'[p] \in {"granted", "refused"}
  <2>1. ViewHistory(p) => pc'[p] \in {"granted", "viewFriends"}
    BY DEF ViewHistory
  <2>2. /\ ViewTeam(p) => pc'[p] \in {"granted", "refused"}
        /\ HasInvitation(p) => pc'[p] \in {"granted", "refused"}
    BY DEF ViewTeam, HasInvitation
  <2> QED BY <2>1, <2>2
<1>8. ViewFriends(p) => pc'[p] \in {"failed", "granted", "viewTeam", "refused"}
  BY DEF ViewFriends
<1>9. /\ SendInvitation(p) => pc'[p] = "insertInvitation"
      /\ DeleteInvitation(p) => pc'[p] = "removeInvitation"
      /\ ViewEvent(p) => pc'[p] \in {"granted", "failed", "viewInvitation"}
  BY DEF SendInvitation, DeleteInvitation, ViewEvent
<1> QED BY <1>1, <1>2, <1>3, <1>4, <1>5, <1>6, <1>7, <1>8, <1>9

\* The steps after which p waits for an answer.
Waiting(p) ==
  \/ CreateTeam(p) \/ UpdateTeam(p) \/ RemoveTeam(p) \/ UpdateProfile(p)
  \/ CreateApplication(p) \/ DecideApplication(p) \/ RemoveApplication(p)
  \/ CreateDivision(p) \/ UpdateDivision(p) \/ RemoveDivision(p)
  \/ CheckMembers(p) \/ CheckTwins(p)
  \/ CreateFriendRequest(p) \/ AnswerFriendRequest(p) \/ DeleteFriendRequest(p)
  \/ ViewHistory(p) \/ ViewFriends(p) \/ ViewTeam(p)
  \/ SendInvitation(p) \/ DeleteInvitation(p) \/ ViewEvent(p) \/ HasInvitation(p)

\* A call that goes on waiting has only read.
LEMMA StepWaits ==
  ASSUME NEW p, Step(p)
  PROVE  \/ Waiting(p) /\ UNCHANGED <<membership, social>>
         \/ Answering(p)
<1>1. CASE MembershipNext(p) /\ UNCHANGED social
  <2>1. \/ Answering(p)
        \/ CreateTeam(p) \/ UpdateTeam(p) \/ RemoveTeam(p) \/ UpdateProfile(p)
        \/ CreateApplication(p) \/ DecideApplication(p) \/ RemoveApplication(p)
    BY <1>1 DEF MembershipNext, Answering
  <2> QED BY <1>1, <2>1
          DEF Waiting, CreateTeam, UpdateTeam, RemoveTeam, UpdateProfile,
              CreateApplication, DecideApplication, RemoveApplication
<1>2. CASE DivisionsNext(p) /\ UNCHANGED social
  <2>1. \/ Answering(p)
        \/ CreateDivision(p) \/ UpdateDivision(p) \/ RemoveDivision(p)
        \/ CheckMembers(p) \/ CheckTwins(p)
    BY <1>2 DEF DivisionsNext, Answering
  <2> QED BY <1>2, <2>1
          DEF Waiting, CreateDivision, UpdateDivision, RemoveDivision, CheckMembers, CheckTwins
<1>3. CASE FriendsNext(p)
  <2>1. \/ Answering(p)
        \/ CreateFriendRequest(p) \/ AnswerFriendRequest(p) \/ DeleteFriendRequest(p)
        \/ ViewHistory(p) \/ ViewFriends(p) \/ ViewTeam(p)
        \/ SendInvitation(p) \/ DeleteInvitation(p) \/ ViewEvent(p) \/ HasInvitation(p)
    BY <1>3 DEF FriendsNext, Answering
  <2> QED BY <2>1
          DEF Waiting, CreateFriendRequest, AnswerFriendRequest, DeleteFriendRequest,
              ViewHistory, ViewFriends, ViewTeam, SendInvitation, DeleteInvitation,
              ViewEvent, HasInvitation
<1> QED BY <1>1, <1>2, <1>3 DEF Step

(***************************************************************************)
(* One call at a time. What a call checked is still so when it writes or   *)
(* answers: nobody else has moved.                                         *)
(***************************************************************************)

\* What the call checked still is as it was then.
Fresh(p) ==
  /\ pc[p] \in {"approve", "reject"} => applications[local[p].row].status = "inProgress"
  /\ pc[p] \in {"saveLink", "deleteLink"} => Undecided(local[p].row)
  /\ pc[p] \in {"viewFriends", "viewTeam"} =>
       local[p].op = "view" /\ local[p].team = users[local[p].by].team
  /\ pc[p] = "viewTeam" => local[p].team # NoTeam
  /\ pc[p] = "viewInvitation" => local[p].op = "viewEvent"
  /\ pc[p] = "granted" => MayView(local[p])

\* The awaits at which that matters.
FreshLabels ==
  {"approve", "reject", "saveLink", "deleteLink", "viewFriends", "viewTeam",
   "viewInvitation", "granted"}

\* Elsewhere there is nothing to check.
LEMMA NothingToCheck ==
  ASSUME NEW p, pc'[p] \notin FreshLabels
  PROVE  Fresh(p)'
BY DEF Fresh, FreshLabels

\* A step that reads leaves the call with what it has just read.
LEMMA WaitingFresh ==
  ASSUME Slots, NEW p \in Requests, Fresh(p), Waiting(p), UNCHANGED <<membership, social>>
  PROVE  Fresh(p)'
<1> USE DEF FreshLabels
<1>0. UNCHANGED <<users, teams, applications, divisions, past>> /\ UNCHANGED <<links, invited>>
  BY DEF membership, social
<1>1. CASE DecideApplication(p)
  <2>1. PICK i \in DOMAIN applications, label \in {"approve", "reject"} :
          /\ applications[i].status = "inProgress"
          /\ Suspend(p, label, [op |-> "decide", row |-> i])
    BY <1>1 DEF DecideApplication, MayDecide
  <2>2. pc'[p] = label /\ local'[p].row = i
    BY <2>1, SuspendMoves
  <2> QED BY <1>0, <2>1, <2>2 DEF Fresh
<1>2. CASE AnswerFriendRequest(p) \/ DeleteFriendRequest(p)
  <2>1. ASSUME NEW i \in DOMAIN links, NEW label \in {"saveLink", "deleteLink"}, NEW held,
               Undecided(i), Suspend(p, label, held), held.row = i
        PROVE  Fresh(p)'
    <3>1. pc'[p] = label /\ local'[p].row = i
      BY <2>1, SuspendMoves
    <3>2. Undecided(i)'
      BY <1>0, <2>1 DEF Undecided
    <3> QED BY <2>1, <3>1, <3>2 DEF Fresh
  <2>2. CASE AnswerFriendRequest(p)
    <3>1. PICK i \in DOMAIN links, status \in {"accepted", "rejected"} :
            /\ Undecided(i)
            /\ Suspend(p, "saveLink", [op |-> "answer", row |-> i, status |-> status])
      BY <2>2 DEF AnswerFriendRequest
    <3> QED BY <2>1, <3>1
  <2>3. CASE DeleteFriendRequest(p)
    <3>1. PICK i \in DOMAIN links :
            Undecided(i) /\ Suspend(p, "deleteLink", [op |-> "unlink", row |-> i])
      BY <2>3 DEF DeleteFriendRequest
    <3> QED BY <2>1, <3>1
  <2> QED BY <1>2, <2>2, <2>3
<1>3. CASE ViewHistory(p)
  <2>1. PICK u \in Active, v \in Active :
          Suspend(p, IF u = v \/ IsAdmin(u) THEN "granted" ELSE "viewFriends",
                  [op |-> "view", by |-> u, of |-> v, team |-> users[u].team])
    BY <1>3 DEF ViewHistory
  <2>2. /\ pc'[p] = IF u = v \/ IsAdmin(u) THEN "granted" ELSE "viewFriends"
        /\ local'[p] = [op |-> "view", by |-> u, of |-> v, team |-> users[u].team]
    BY <2>1, SuspendMoves
  <2>3. u = v \/ IsAdmin(u) => MayView(local[p])'
    BY <1>0, <2>2 DEF MayView, MayViewHistory, IsAdmin
  <2> QED BY <1>0, <2>2, <2>3 DEF Fresh
<1>4. CASE ViewFriends(p)
  <2>1. local'[p] = local[p] /\ pc[p] = "viewFriends"
    BY <1>4, SuspendMoves DEF ViewFriends, At
  <2>2. /\ pc'[p] = "granted" => AreFriends(local[p].by, local[p].of)
        /\ pc'[p] = "viewTeam" => local[p].team # NoTeam
        /\ pc'[p] \in {"failed", "granted", "viewTeam", "refused"}
    <3>1. PICK label : /\ Suspend(p, label, local[p])
                       /\ label = "granted" => AreFriends(local[p].by, local[p].of)
                       /\ label = "viewTeam" => local[p].team # NoTeam
                       /\ label \in {"failed", "granted", "viewTeam", "refused"}
      BY <1>4 DEF ViewFriends
    <3> QED BY <3>1, SuspendMoves
  <2>4. local[p].op = "view" /\ local[p].team = users[local[p].by].team
    BY <2>1 DEF Fresh
  <2>5. pc'[p] = "granted" => MayView(local[p])
    BY <2>2, <2>4 DEF MayView, MayViewHistory
  <2>6. MayView(local[p]) => MayView(local[p])'
    BY <1>0, <2>1
       DEF MayView, MayViewHistory, MayViewEvent, IsAdmin, AreFriends, Friendships, Between
  <2> QED BY <1>0, <2>1, <2>2, <2>4, <2>5, <2>6 DEF Fresh
<1>5. CASE ViewTeam(p) \/ HasInvitation(p)
  <2>1. /\ local'[p] = local[p] /\ pc[p] \in {"viewTeam", "viewInvitation"}
        /\ pc'[p] \in {"granted", "refused"}
        /\ pc'[p] = "granted" => \/ /\ pc[p] = "viewTeam"
                                    /\ local[p].of \in Members(local[p].team)
                                 \/ pc[p] = "viewInvitation" /\ local[p].by \in invited
    <3>1. PICK label \in {"granted", "refused"} :
            /\ Suspend(p, label, local[p]) /\ pc[p] \in {"viewTeam", "viewInvitation"}
            /\ label = "granted" => \/ /\ pc[p] = "viewTeam"
                                       /\ local[p].of \in Members(local[p].team)
                                    \/ pc[p] = "viewInvitation" /\ local[p].by \in invited
      BY <1>5 DEF ViewTeam, HasInvitation, At
    <3> QED BY <3>1, SuspendMoves
  <2>2. pc'[p] = "granted" => MayView(local[p])
    BY <2>1 DEF Fresh, MayView, MayViewHistory, MayViewEvent, Members
  <2>3. MayView(local[p]) => MayView(local[p])'
    BY <1>0, <2>1
       DEF MayView, MayViewHistory, MayViewEvent, IsAdmin, AreFriends, Friendships, Between
  <2> QED BY <2>1, <2>2, <2>3 DEF Fresh
<1>6. CASE ViewEvent(p)
  <2>1. PICK u \in Active, label \in {"granted", "failed", "viewInvitation"} :
          /\ Suspend(p, label, [op |-> "viewEvent", by |-> u])
          /\ label = "granted" => IsAdmin(u) \/ u = Host
    BY <1>6 DEF ViewEvent
  <2>2. pc'[p] = label /\ local'[p] = [op |-> "viewEvent", by |-> u]
    BY <2>1, SuspendMoves
  <2>3. label = "granted" => MayView(local[p])'
    BY <1>0, <2>1, <2>2 DEF MayView, MayViewEvent, IsAdmin
  <2> QED BY <2>2, <2>3 DEF Fresh
<1>7. CASE ~ \/ DecideApplication(p) \/ AnswerFriendRequest(p) \/ DeleteFriendRequest(p)
             \/ ViewHistory(p) \/ ViewFriends(p) \/ ViewTeam(p) \/ ViewEvent(p)
             \/ HasInvitation(p)
  <2>1. pc'[p] \notin FreshLabels
    BY <1>7, Labels DEF Waiting
  <2> QED BY <2>1, NothingToCheck
<1> QED BY <1>1, <1>2, <1>3, <1>4, <1>5, <1>6, <1>7

(***************************************************************************)
(* Friend requests keep their numbers and their users.                     *)
(***************************************************************************)

\* A row of the friend requests.
Link == [from : People, to : People, status : {"inProgress", "accepted", "rejected"},
         gone : BOOLEAN]

\* What a request holds of a friend request.
LinkHeld(p) ==
  /\ pc[p] = "insertLink" => local[p].from \in People /\ local[p].to \in People
  /\ pc[p] \in {"saveLink", "deleteLink"} => local[p].row \in DOMAIN links
  /\ pc[p] = "saveLink" => local[p].status \in {"accepted", "rejected"}

\* The friend requests and what is held of them.
LinksTyped == links \in Seq(Link) /\ \A p \in Requests : LinkHeld(p)

\* The steps that write friend requests.
LEMMA LinkWrites ==
  ASSUME NEW p, Step(p)
  PROVE  UNCHANGED links \/ InsertLink(p) \/ SaveLink(p) \/ DeleteLink(p)
<1>1. CASE FriendsNext(p)
  BY <1>1 DEF FriendsNext, CreateFriendRequest, AnswerFriendRequest, DeleteFriendRequest,
              ViewHistory, ViewFriends, ViewTeam, SendInvitation, InsertInvitation,
              DeleteInvitation, RemoveInvitation, ViewEvent, HasInvitation, Answered, social
<1> QED BY <1>1 DEF Step, social

\* A new friend request takes the next number.
LEMMA InsertLinkRow ==
  ASSUME LinksTyped, NEW p \in Requests, InsertLink(p)
  PROVE  LET row == [from |-> local[p].from, to |-> local[p].to,
                     status |-> "inProgress", gone |-> FALSE]
         IN /\ links' \in Seq(Link)
            /\ DOMAIN links' = DOMAIN links \cup {Len(links) + 1}
            /\ Len(links) + 1 \notin DOMAIN links
            /\ links'[Len(links) + 1] = row
            /\ \A i \in DOMAIN links : links'[i] = links[i]
<1> DEFINE row == [from |-> local[p].from, to |-> local[p].to,
                   status |-> "inProgress", gone |-> FALSE]
<1>1. row \in Link
  BY DEF LinksTyped, LinkHeld, InsertLink, At, Link
<1>2. links \in Seq(Link) /\ links' = Append(links, row)
  BY DEF LinksTyped, InsertLink
<1> HIDE DEF row
<1>3. /\ links' \in Seq(Link)
      /\ DOMAIN links' = DOMAIN links \cup {Len(links) + 1}
      /\ Len(links) + 1 \notin DOMAIN links
      /\ links'[Len(links) + 1] = row
      /\ \A i \in DOMAIN links : links'[i] = links[i]
  BY <1>1, <1>2
<1> QED BY <1>3 DEF row

\* Saving a status and deleting touch one row, and only if it is there.
LEMMA SaveLinkRow ==
  ASSUME LinksTyped, NEW p \in Requests, SaveLink(p)
  PROVE  /\ local[p].row \in DOMAIN links /\ local[p].status \in {"accepted", "rejected"}
         /\ links' \in Seq(Link) /\ DOMAIN links' = DOMAIN links
         /\ \A i \in DOMAIN links :
              /\ links'[i].from = links[i].from /\ links'[i].to = links[i].to
              /\ links'[i].gone = links[i].gone
              /\ i # local[p].row \/ links[i].gone => links'[i] = links[i]
              /\ i = local[p].row /\ ~links[i].gone => links'[i].status = local[p].status
<1> DEFINE r == local[p].row
           status == local[p].status
<1>1. r \in DOMAIN links /\ status \in {"accepted", "rejected"} /\ links \in Seq(Link)
  BY DEF LinksTyped, LinkHeld, SaveLink, At
<1>2. links' = IF links[r].gone THEN links ELSE [links EXCEPT ![r].status = status]
  BY DEF SaveLink
<1>3. links[r] \in Link
  BY <1>1
<1> HIDE DEF r, status
<1>4. [links[r] EXCEPT !.status = status] \in Link
  BY <1>1, <1>3 DEF Link
<1>5. /\ [links[r] EXCEPT !.status = status].status = status
      /\ [links[r] EXCEPT !.status = status].from = links[r].from
      /\ [links[r] EXCEPT !.status = status].to = links[r].to
      /\ [links[r] EXCEPT !.status = status].gone = links[r].gone
  BY <1>3 DEF Link
<1>6. CASE links[r].gone
  BY <1>1, <1>2, <1>6 DEF r, status
<1>7. CASE ~links[r].gone
  <2>1. links' = [links EXCEPT ![r] = [links[r] EXCEPT !.status = status]]
    BY <1>2, <1>7
  <2>2. links' \in Seq(Link) /\ DOMAIN links' = DOMAIN links
    BY <1>1, <1>4, <2>1
  <2>3. links'[r] = [links[r] EXCEPT !.status = status]
    BY <1>1, <2>1
  <2>4. \A i \in DOMAIN links : i # r => links'[i] = links[i]
    BY <1>1, <2>1
  <2> QED BY <1>1, <1>5, <1>7, <2>2, <2>3, <2>4 DEF r, status
<1> QED BY <1>6, <1>7

\* Deleting marks the row and keeps it.
LEMMA DeleteLinkRow ==
  ASSUME LinksTyped, NEW p \in Requests, DeleteLink(p)
  PROVE  /\ local[p].row \in DOMAIN links
         /\ links' \in Seq(Link) /\ DOMAIN links' = DOMAIN links
         /\ links'[local[p].row].gone
         /\ \A i \in DOMAIN links : i # local[p].row => links'[i] = links[i]
         /\ links'[local[p].row].from = links[local[p].row].from
         /\ links'[local[p].row].to = links[local[p].row].to
         /\ links'[local[p].row].status = links[local[p].row].status
<1> DEFINE r == local[p].row
<1>1. r \in DOMAIN links /\ links \in Seq(Link)
  BY DEF LinksTyped, LinkHeld, DeleteLink, At
<1>2. links' = [links EXCEPT ![r].gone = TRUE]
  BY DEF DeleteLink
<1>3. links[r] \in Link
  BY <1>1
<1> HIDE DEF r
<1>4. links' = [links EXCEPT ![r] = [links[r] EXCEPT !.gone = TRUE]]
  BY <1>2
<1>5. [links[r] EXCEPT !.gone = TRUE] \in Link
  BY <1>3 DEF Link
<1>6. /\ [links[r] EXCEPT !.gone = TRUE].gone
      /\ [links[r] EXCEPT !.gone = TRUE].from = links[r].from
      /\ [links[r] EXCEPT !.gone = TRUE].to = links[r].to
      /\ [links[r] EXCEPT !.gone = TRUE].status = links[r].status
  BY <1>3 DEF Link
<1>7. links' \in Seq(Link) /\ DOMAIN links' = DOMAIN links
  BY <1>1, <1>4, <1>5
<1>8. /\ links'[r] = [links[r] EXCEPT !.gone = TRUE]
      /\ \A i \in DOMAIN links : i # r => links'[i] = links[i]
  BY <1>1, <1>4
<1> QED BY <1>1, <1>6, <1>7, <1>8 DEF r

\* What a call takes along of a friend request exists.
LEMMA LinkHeldComes ==
  ASSUME Slots, NEW p \in Requests, Waiting(p), UNCHANGED <<membership, social>>
  PROVE  LinkHeld(p)'
<1>0. UNCHANGED links
  BY DEF social
<1>1. CASE CreateFriendRequest(p)
  <2>1. PICK u \in Active, v \in Active :
          Suspend(p, "insertLink", [op |-> "befriend", from |-> u, to |-> v])
    BY <1>1 DEF CreateFriendRequest
  <2>2. pc'[p] = "insertLink" /\ local'[p].from = u /\ local'[p].to = v
    BY <2>1, SuspendMoves
  <2> QED BY <2>2 DEF LinkHeld, Active
<1>2. CASE AnswerFriendRequest(p)
  <2>1. PICK i \in DOMAIN links, status \in {"accepted", "rejected"} :
          Suspend(p, "saveLink", [op |-> "answer", row |-> i, status |-> status])
    BY <1>2 DEF AnswerFriendRequest
  <2>2. pc'[p] = "saveLink" /\ local'[p].row = i /\ local'[p].status = status
    BY <2>1, SuspendMoves
  <2> QED BY <1>0, <2>2 DEF LinkHeld
<1>3. CASE DeleteFriendRequest(p)
  <2>1. PICK i \in DOMAIN links : Suspend(p, "deleteLink", [op |-> "unlink", row |-> i])
    BY <1>3 DEF DeleteFriendRequest
  <2>2. pc'[p] = "deleteLink" /\ local'[p].row = i
    BY <2>1, SuspendMoves
  <2> QED BY <1>0, <2>2 DEF LinkHeld
<1>4. CASE ~(CreateFriendRequest(p) \/ AnswerFriendRequest(p) \/ DeleteFriendRequest(p))
  <2>1. pc'[p] \notin {"insertLink", "saveLink", "deleteLink"}
    BY <1>4, Labels DEF Waiting
  <2> QED BY <2>1 DEF LinkHeld
<1> QED BY <1>1, <1>2, <1>3, <1>4

\* Friend requests keep their numbers, and calls what they hold of them.
LEMMA LinksStay ==
  ASSUME Slots, LinksTyped, NEW p \in Requests, Step(p)
  PROVE  LinksTyped' /\ DOMAIN links \subseteq DOMAIN links'
<1>1. links' \in Seq(Link) /\ DOMAIN links \subseteq DOMAIN links'
  BY LinkWrites, InsertLinkRow, SaveLinkRow, DeleteLinkRow DEF LinksTyped
<1>2. LinkHeld(p)'
  <2>1. CASE Waiting(p) /\ UNCHANGED <<membership, social>>
    BY <2>1, LinkHeldComes
  <2>2. CASE Answering(p)
    BY <2>2, AnsweringEnds DEF LinkHeld
  <2> QED BY <2>1, <2>2, StepWaits
<1>3. ASSUME NEW q \in Requests, q # p PROVE LinkHeld(q)'
  <2>1. pc'[q] = pc[q] /\ local'[q] = local[q]
    BY <1>3, StepMoves DEF Moved
  <2> QED BY <1>1, <2>1 DEF LinksTyped, LinkHeld
<1> QED BY <1>1, <1>2, <1>3 DEF LinksTyped

\* The inductive invariant of one call at a time.
AloneInv ==
  /\ PeopleInv /\ LinksTyped /\ Sole
  /\ calm => \A p \in Requests : Fresh(p)

\* In a calm behaviour only the call of this step holds anything.
LEMMA FreshStays ==
  ASSUME AloneInv, NEW p \in Requests, Step(p), calm'
  PROVE  \A q \in Requests : Fresh(q)'
<1>0. Slots
  BY DEF AloneInv, PeopleInv
<1>1. calm /\ Moved(p) /\ \A q \in Requests \ {p} : pc[q] = "idle"
  BY <1>0, StepTurns, StepMoves, Alone DEF AloneInv
<1>2. ASSUME NEW q \in Requests \ {p} PROVE Fresh(q)'
  <2>1. pc'[q] = "idle"
    BY <1>1 DEF Moved
  <2> QED BY <2>1, NothingToCheck DEF FreshLabels
<1>3. Fresh(p)'
  <2>1. CASE Waiting(p) /\ UNCHANGED <<membership, social>>
    BY <1>0, <1>1, <2>1, WaitingFresh DEF AloneInv
  <2>2. CASE Answering(p)
    BY <1>0, <2>2, AnsweringEnds, NothingToCheck DEF FreshLabels
  <2> QED BY <2>1, <2>2, StepWaits
<1> QED BY <1>2, <1>3

\* The invariant holds after every step.
LEMMA AloneStep ==
  ASSUME AloneInv, [PeopleNext]_peopleVars
  PROVE  AloneInv'
<1>1. PeopleInv'
  BY PeopleStep DEF AloneInv
<1>2. CASE UNCHANGED peopleVars
  <2>1. UNCHANGED <<ops, pc, local, calm>> /\ UNCHANGED <<links, invited>>
        /\ UNCHANGED <<users, teams, applications, divisions, past>>
    BY <1>2 DEF peopleVars, control, social, membership
  <2>2. LinksTyped' /\ Sole'
    BY <2>1 DEF AloneInv, LinksTyped, LinkHeld, Sole
  <2>3. ASSUME NEW p \in Requests, Fresh(p) PROVE Fresh(p)'
    BY <2>1, <2>3
       DEF Fresh, Undecided, MayView, MayViewHistory, MayViewEvent, IsAdmin,
           AreFriends, Friendships, Between
  <2> QED BY <1>1, <2>1, <2>2, <2>3 DEF AloneInv
<1>3. ASSUME NEW p \in Requests, Step(p) PROVE AloneInv'
  <2>1. Slots
    BY DEF AloneInv, PeopleInv
  <2>2. LinksTyped' /\ Sole'
    BY <1>3, <2>1, LinksStay, StepTurns, StepMoves, SoleStays DEF AloneInv
  <2>3. calm' => \A q \in Requests : Fresh(q)'
    BY <1>3, FreshStays
  <2> QED BY <1>1, <2>2, <2>3 DEF AloneInv
<1> QED BY <1>2, <1>3 DEF PeopleNext, Step

\* And at the start.
LEMMA AloneStart == PeopleInit => AloneInv
<1> SUFFICES ASSUME PeopleInit PROVE AloneInv
  OBVIOUS
<1>1. pc = [p \in Requests |-> "idle"] /\ links = <<>>
  BY DEF PeopleInit, HandlersInit, FriendsInit
<1>2. LinksTyped /\ Sole /\ \A p \in Requests : Fresh(p)
  BY <1>1 DEF LinksTyped, LinkHeld, Sole, Fresh
<1> QED BY <1>2, PeopleStart DEF AloneInv

\* While calls come one at a time nobody is shown the games of a user or the
\* private event whom UsersService.canViewUserGameHistory and
\* EventsService.canViewEvent would turn away at that moment.
THEOREM NobodyPeeks == PeopleSpec => []NoPeeking
<1>1. AloneInv => NoPeeking
  BY DEF AloneInv, NoPeeking, Fresh
<1> QED BY <1>1, AloneStart, AloneStep, PTL DEF PeopleSpec

\* The steps that write the status of an application.
LEMMA ApplicationWrites ==
  ASSUME NEW p, Step(p)
  PROVE  UNCHANGED applications \/ InsertApplication(p) \/ Approve(p) \/ Reject(p) \/ Archive(p)
<1>1. CASE MembershipNext(p)
  BY <1>1 DEF MembershipNext, CreateTeam, InsertTeam, UpdateTeam, SaveTeam, RemoveTeam, DeleteTeam,
              UpdateProfile, SaveProfile, RemoveAccount, CreateApplication, DecideApplication,
              RemoveApplication, membership
<1>2. CASE DivisionsNext(p)
  BY <1>2 DEF DivisionsNext, CreateDivision, UpdateDivision, CheckMembers, CheckTwins,
              SaveDivision, RemoveDivision, DeleteDivision, membership
<1>3. CASE FriendsNext(p)
  BY <1>3 DEF FriendsNext, CreateFriendRequest, InsertLink, AnswerFriendRequest, SaveLink,
              DeleteFriendRequest, DeleteLink, ViewHistory, ViewFriends, ViewTeam,
              SendInvitation, InsertInvitation, DeleteInvitation, RemoveInvitation, ViewEvent,
              HasInvitation, Answered, membership
<1> QED BY <1>1, <1>2, <1>3 DEF Step

\* While calls come one at a time TeamRequestsService decides an application
\* once; afterwards it can only be archived.
THEOREM DecisionsAreForGood == PeopleSpec => DecidedForGood
<1> DEFINE Kept1 == \A i \in DOMAIN applications :
             LET before == applications[i].status  after == applications'[i].status IN
             before = "inProgress" \/ after \in {before, "archived"}
<1>1. ASSUME AloneInv, [PeopleNext]_peopleVars
      PROVE  [calm' => Kept1]_<<applications, calm>>
  <2> SUFFICES ASSUME NEW p \in Requests, Step(p), calm' PROVE Kept1
    <3>1. UNCHANGED peopleVars => UNCHANGED <<applications, calm>>
      BY DEF peopleVars, membership, control
    <3> QED BY <1>1, <3>1 DEF PeopleNext, Step
  <2>1. Rows /\ Held(p) /\ Fresh(p)
    <3>1. calm
      BY <1>1, StepTurns, StepMoves, Alone DEF AloneInv, PeopleInv
    <3> QED BY <1>1, <3>1 DEF AloneInv, PeopleInv
  <2>2. CASE UNCHANGED applications
    BY <2>2
  <2>3. CASE InsertApplication(p)
    <3>1. applications \in Seq(Application)
      BY <2>1 DEF Rows
    <3>2. \A i \in DOMAIN applications : applications'[i] = applications[i]
      BY <2>3, <3>1 DEF InsertApplication
    <3> QED BY <3>2
  <2>4. ASSUME NEW status \in Statuses, local[p].row \in DOMAIN applications,
               applications' = [applications EXCEPT ![local[p].row].status = status],
               applications[local[p].row].status = "inProgress" \/ status = "archived"
        PROVE  Kept1
    BY <2>1, <2>4, StatusFacts
  <2>5. CASE Approve(p)
    BY <2>1, <2>4, <2>5 DEF Approve, At, Held, RowCalls, Fresh, Statuses
  <2>6. CASE Reject(p)
    BY <2>1, <2>4, <2>6 DEF Reject, At, Held, RowCalls, Fresh, Statuses
  <2>7. CASE Archive(p)
    BY <2>1, <2>4, <2>7 DEF Archive, At, Held, RowCalls, Fresh, Statuses
  <2> QED BY <2>2, <2>3, <2>5, <2>6, <2>7, ApplicationWrites
<1> QED BY <1>1, AloneStart, AloneStep, PTL DEF PeopleSpec, DecidedForGood

\* While calls come one at a time an accepted friend request of UsersService
\* is never changed or deleted.
THEOREM FriendsStayFriends == PeopleSpec => FriendsForGood
<1> DEFINE Kept2 == \A i \in DOMAIN links :
             ~links[i].gone /\ links[i].status = "accepted" => links'[i] = links[i]
<1>1. ASSUME AloneInv, [PeopleNext]_peopleVars
      PROVE  [calm' => Kept2]_<<links, calm>>
  <2> SUFFICES ASSUME NEW p \in Requests, Step(p), calm' PROVE Kept2
    <3>1. UNCHANGED peopleVars => UNCHANGED <<links, calm>>
      BY DEF peopleVars, social, control
    <3> QED BY <1>1, <3>1 DEF PeopleNext, Step
  <2>1. LinksTyped /\ Fresh(p)
    <3>1. calm
      BY <1>1, StepTurns, StepMoves, Alone DEF AloneInv, PeopleInv
    <3> QED BY <1>1, <3>1 DEF AloneInv
  <2>2. CASE UNCHANGED links
    BY <2>2
  <2>3. CASE InsertLink(p)
    BY <2>1, <2>3, InsertLinkRow
  <2>4. CASE SaveLink(p)
    <3>1. Undecided(local[p].row)
      BY <2>1, <2>4 DEF SaveLink, At, Fresh
    <3> QED BY <2>1, <2>4, <3>1, SaveLinkRow DEF Undecided
  <2>5. CASE DeleteLink(p)
    <3>1. Undecided(local[p].row)
      BY <2>1, <2>5 DEF DeleteLink, At, Fresh
    <3> QED BY <2>1, <2>5, <3>1, DeleteLinkRow DEF Undecided
  <2> QED BY <2>2, <2>3, <2>4, <2>5, LinkWrites
<1> QED BY <1>1, AloneStart, AloneStep, PTL DEF PeopleSpec, FriendsForGood

(***************************************************************************)
(* Line-ups.                                                               *)
(***************************************************************************)

\* Divisions are deleted, and otherwise as they were.
Dropped ==
  /\ DOMAIN divisions' = DOMAIN divisions
  /\ \A d \in DOMAIN divisions :
       /\ divisions'[d].team = divisions[d].team
       /\ divisions'[d].type = divisions[d].type
       /\ divisions'[d].members = divisions[d].members
       /\ divisions[d].gone => divisions'[d].gone

\* Marking divisions as deleted, a team's or one.
LEMMA DroppedRows ==
  ASSUME Rows, NEW f \in [DOMAIN divisions -> BOOLEAN],
         \A d \in DOMAIN divisions : divisions[d].gone => f[d],
         divisions' = [d \in DOMAIN divisions |-> [divisions[d] EXCEPT !.gone = f[d]]]
  PROVE  Dropped
<1>1. ASSUME NEW d \in DOMAIN divisions
      PROVE  /\ divisions'[d].team = divisions[d].team
             /\ divisions'[d].type = divisions[d].type
             /\ divisions'[d].members = divisions[d].members
             /\ divisions'[d].gone = f[d]
  <2>1. divisions[d] \in Division /\ divisions'[d] = [divisions[d] EXCEPT !.gone = f[d]]
    BY RowFacts
  <2> QED BY <2>1 DEF Division
<1> QED BY <1>1 DEF Dropped

\* Only saving a division does more.
LEMMA DivisionWrites ==
  ASSUME PeopleInv, NEW p \in Requests, Step(p)
  PROVE  Dropped \/ SaveDivision(p)
<1>0. Rows
  BY DEF PeopleInv
<1>1. CASE UNCHANGED divisions
  BY <1>1 DEF Dropped
<1>2. CASE DeleteTeam(p)
  <2> DEFINE t == local[p].team
             f == [d \in DOMAIN divisions |-> divisions[d].gone \/ divisions[d].team = t]
  <2>1. CASE divisions' = [d \in DOMAIN divisions |->
                             [divisions[d] EXCEPT !.gone = @ \/ divisions[d].team = t]]
    <3>1. \A d \in DOMAIN divisions : divisions[d].gone \in BOOLEAN
      BY <1>0, RowFacts DEF Division
    <3>2. /\ f \in [DOMAIN divisions -> BOOLEAN]
          /\ \A d \in DOMAIN divisions : divisions[d].gone => f[d]
      BY <3>1
    <3>3. divisions' = [d \in DOMAIN divisions |-> [divisions[d] EXCEPT !.gone = f[d]]]
      BY <2>1
    <3> HIDE DEF f
    <3> QED BY <1>0, <3>2, <3>3, DroppedRows
  <2> QED BY <1>1, <1>2, <2>1 DEF DeleteTeam
<1>3. CASE DeleteDivision(p)
  <2> DEFINE n == local[p].row
             f == [d \in DOMAIN divisions |-> divisions[d].gone \/ d = n]
  <2>0. n \in DOMAIN divisions
    BY <1>3 DEF DeleteDivision, At, PeopleInv, Held
  <2>1. divisions' = [divisions EXCEPT ![n].gone = TRUE]
    BY <1>3 DEF DeleteDivision
  <2>2. \A d \in DOMAIN divisions : divisions[d].gone \in BOOLEAN /\ divisions[d] \in Division
    BY <1>0, RowFacts DEF Division
  <2>3. f \in [DOMAIN divisions -> BOOLEAN] /\ \A d \in DOMAIN divisions : divisions[d].gone => f[d]
    BY <2>2
  <2>4. DOMAIN divisions' = DOMAIN divisions
    BY <2>1
  <2>5. ASSUME NEW d \in DOMAIN divisions
        PROVE  /\ divisions'[d].team = divisions[d].team
               /\ divisions'[d].type = divisions[d].type
               /\ divisions'[d].members = divisions[d].members
               /\ divisions[d].gone => divisions'[d].gone
    <3>1. CASE d = n
      <4>1. divisions'[n] = [divisions[n] EXCEPT !.gone = TRUE]
        BY <2>0, <2>1
      <4> QED BY <2>0, <2>2, <3>1, <4>1 DEF Division
    <3>2. CASE d # n
      BY <2>1, <3>2
    <3> QED BY <3>1, <3>2
  <2> QED BY <2>4, <2>5 DEF Dropped
<1>4. \/ UNCHANGED divisions \/ DeleteTeam(p) \/ DeleteDivision(p) \/ SaveDivision(p)
  <2>1. CASE MembershipNext(p)
    BY <2>1 DEF MembershipNext, CreateTeam, InsertTeam, UpdateTeam, SaveTeam, RemoveTeam,
                UpdateProfile, SaveProfile, RemoveAccount, CreateApplication, InsertApplication,
                DecideApplication, Approve, Reject, RemoveApplication, Archive, membership
  <2>2. CASE DivisionsNext(p)
    BY <2>2 DEF DivisionsNext, CreateDivision, UpdateDivision, CheckMembers, CheckTwins,
                RemoveDivision, membership
  <2>3. CASE FriendsNext(p)
    BY <2>3 DEF FriendsNext, CreateFriendRequest, InsertLink, AnswerFriendRequest, SaveLink,
                DeleteFriendRequest, DeleteLink, ViewHistory, ViewFriends, ViewTeam,
                SendInvitation, InsertInvitation, DeleteInvitation, RemoveInvitation, ViewEvent,
                HasInvitation, Answered, membership
  <2> QED BY <2>1, <2>2, <2>3 DEF Step
<1> QED BY <1>1, <1>2, <1>3, <1>4

\* What SaveDivision writes: the new row, or the one the call is about.
Saved(p, n) ==
  /\ DOMAIN divisions' = DOMAIN divisions \cup {n}
  /\ divisions'[n] = [team |-> local[p].team, type |-> local[p].type,
                      members |-> local[p].members, gone |-> FALSE]
  /\ \A d \in DOMAIN divisions \ {n} : divisions'[d] = divisions[d]
  /\ IF local[p].row = NewDivision THEN n \notin DOMAIN divisions
     ELSE n \in DOMAIN divisions /\ n = local[p].row

\* It writes one row, unless the team is gone.
LEMMA SavedRow ==
  ASSUME PeopleInv, NEW p \in Requests, SaveDivision(p)
  PROVE  UNCHANGED divisions \/ \E n : Saved(p, n)
<1> DEFINE call == local[p]
           row == [team |-> call.team, type |-> call.type, members |-> call.members,
                   gone |-> FALSE]
<1>0. /\ Rows /\ call.team \in DOMAIN teams /\ call.type \in Sizes
      /\ call.members \subseteq People
      /\ \/ call.row = NewDivision
         \/ call.row \in DOMAIN divisions /\ divisions[call.row].team = call.team
  BY DEF PeopleInv, SaveDivision, At, Held, LineupCalls
<1>1. row \in Division
  BY <1>0 DEF Division, Rows
<1>2. CASE call.row = NewDivision /\ divisions' = Append(divisions, row)
  <2> DEFINE n == Len(divisions) + 1
  <2> HIDE DEF row
  <2>1. /\ DOMAIN divisions' = DOMAIN divisions \cup {n}
        /\ divisions'[n] = row /\ n \notin DOMAIN divisions
        /\ \A d \in DOMAIN divisions : divisions'[d] = divisions[d]
    BY <1>0, <1>1, <1>2 DEF Rows
  <2>2. Saved(p, n)
    BY <1>2, <2>1 DEF Saved, row
  <2> QED BY <2>2
<1>3. CASE call.row # NewDivision /\ divisions' = [divisions EXCEPT ![call.row] = row]
  <2> HIDE DEF row
  <2>1. call.row \in DOMAIN divisions
    BY <1>0, <1>3
  <2>2. /\ DOMAIN divisions' = DOMAIN divisions \cup {call.row}
        /\ divisions'[call.row] = row
        /\ \A d \in DOMAIN divisions \ {call.row} : divisions'[d] = divisions[d]
    BY <1>3, <2>1
  <2>3. Saved(p, call.row)
    BY <1>3, <2>1, <2>2 DEF Saved, row
  <2> QED BY <2>3
<1> QED BY <1>2, <1>3 DEF SaveDivision

\* Rows and calls have as many members as their type says.
FitInv ==
  /\ PeopleInv
  /\ \A d \in DOMAIN divisions : Cardinality(divisions[d].members) = divisions[d].type
  /\ \A p \in Requests :
       pc[p] \in LineupCalls => Cardinality(local[p].members) = local[p].type

\* A call gets the members and the type it saves from one look.
LEMMA FitComes ==
  ASSUME FitInv, NEW p \in Requests, Step(p), pc'[p] \in LineupCalls
  PROVE  Cardinality(local'[p].members) = local'[p].type
<1> USE DEF LineupCalls
<1>0. Slots
  BY DEF FitInv, PeopleInv
<1>1. CreateDivision(p) \/ UpdateDivision(p) \/ CheckMembers(p) \/ CheckTwins(p)
  BY <1>0, StepWaits, AnsweringEnds, Labels DEF Waiting
<1>2. CASE CreateDivision(p)
  <2>1. PICK t \in LiveTeams, type \in Sizes, members \in SUBSET People :
          /\ DivisionFits(type, members, TRUE)
          /\ Suspend(p, "divisionMembers",
               [op |-> "createDivision", row |-> NewDivision, team |-> t, type |-> type,
                members |-> members])
    BY <1>2 DEF CreateDivision
  <2>2. local'[p].members = members /\ local'[p].type = type
    BY <1>0, <2>1, SuspendMoves
  <2> QED BY <2>1, <2>2 DEF DivisionFits
<1>3. CASE UpdateDivision(p)
  <2>1. PICK d \in DOMAIN divisions, type \in Sizes, dto \in SUBSET People :
          LET t == divisions[d].team
              members == IF dto = Kept THEN Loaded(d) ELSE dto
          IN /\ DivisionFits(type, members, dto # Kept)
             /\ Suspend(p, IF dto = Kept THEN "saveDivision" ELSE "divisionTwins",
                  [op |-> "updateDivision", row |-> d, team |-> t, type |-> type,
                   members |-> members])
    BY <1>3 DEF UpdateDivision
  <2> DEFINE members == IF dto = Kept THEN Loaded(d) ELSE dto
  <2>2. local'[p].members = members /\ local'[p].type = type
    BY <1>0, <2>1, SuspendMoves
  <2> QED BY <2>1, <2>2 DEF DivisionFits
<1>4. CASE CheckMembers(p) \/ CheckTwins(p)
  <2>1. pc[p] \in LineupCalls
    BY <1>4 DEF CheckMembers, CheckTwins, At
  <2>2. Suspend(p, "idle", Nothing) \/ \E label : Suspend(p, label, local[p])
    BY <1>4 DEF CheckMembers, CheckTwins, Return
  <2>3. local'[p] = local[p]
    BY <1>0, <2>2, SuspendMoves
  <2> QED BY <2>1, <2>3 DEF FitInv
<1> QED BY <1>1, <1>2, <1>3, <1>4

\* Both stay so.
LEMMA FitStep ==
  ASSUME FitInv, [PeopleNext]_peopleVars
  PROVE  FitInv'
<1>1. PeopleInv'
  BY PeopleStep DEF FitInv
<1>2. CASE UNCHANGED peopleVars
  BY <1>1, <1>2 DEF FitInv, peopleVars, membership, control
<1>3. ASSUME NEW p \in Requests, Step(p) PROVE FitInv'
  <2>1. ASSUME NEW q \in Requests, pc'[q] \in LineupCalls
        PROVE  Cardinality(local'[q].members) = local'[q].type
    <3>1. CASE q = p
      BY <1>3, <2>1, <3>1, FitComes
    <3>2. CASE q # p
      BY <1>3, <2>1, <3>2, StepMoves DEF Moved, FitInv, PeopleInv
    <3> QED BY <3>1, <3>2
  <2>2. ASSUME NEW d \in DOMAIN divisions'
        PROVE  Cardinality(divisions'[d].members) = divisions'[d].type
    <3>1. CASE Dropped
      BY <2>2, <3>1 DEF Dropped, FitInv
    <3>2. CASE SaveDivision(p)
      <4>1. CASE UNCHANGED divisions
        BY <2>2, <4>1 DEF FitInv
      <4>2. CASE \E n : Saved(p, n)
        <5>1. PICK n : Saved(p, n)
          BY <4>2
        <5>2. Cardinality(local[p].members) = local[p].type
          BY <3>2 DEF FitInv, SaveDivision, At, LineupCalls
        <5> QED BY <2>2, <5>1, <5>2 DEF Saved, FitInv
      <4> QED BY <3>2, <4>1, <4>2, SavedRow DEF FitInv
    <3> QED BY <1>3, <3>1, <3>2, DivisionWrites DEF FitInv
  <2> QED BY <1>1, <2>1, <2>2 DEF FitInv
<1> QED BY <1>2, <1>3 DEF PeopleNext, Step

\* There are none at the start.
LEMMA FitStart == PeopleInit => FitInv
<1> SUFFICES ASSUME PeopleInit PROVE FitInv
  OBVIOUS
<1>1. divisions = <<>> /\ pc = [p \in Requests |-> "idle"]
  BY DEF PeopleInit, HandlersInit, MembershipInit
<1> QED BY <1>1, PeopleStart DEF FitInv, LineupCalls

\* Then a line-up without deleted accounts is full.
LEMMA FitMeans ==
  ASSUME FitInv
  PROVE  LineupsFit
<1> SUFFICES ASSUME NEW d \in DOMAIN divisions
             PROVE  LET players == LineUp(d, divisions[d].type) IN
                    /\ Cardinality(players) <= divisions[d].type
                    /\ ~divisions[d].gone /\ divisions[d].members \subseteq Active
                         => Cardinality(players) = divisions[d].type
  BY DEF LineupsFit
<1> DEFINE members == divisions[d].members
           type == divisions[d].type
<1>1. members \subseteq People /\ type \in Sizes /\ Cardinality(members) = type
  BY RowFacts DEF FitInv, PeopleInv, Division
<1>2. IsFiniteSet(members) /\ type \in Nat
  <2>1. IsFiniteSet(People) /\ Sizes \subseteq Nat
    BY MembershipAssumption
  <2> QED BY <1>1, <2>1, FS_Subset
<1>3. CASE divisions[d].gone
  <2>1. LineUp(d, type) = {}
    BY <1>3 DEF LineUp
  <2> QED BY <1>2, <1>3, <2>1, FS_EmptySet
<1>4. CASE ~divisions[d].gone
  <2>1. LineUp(d, type) = members \cap Active
    BY <1>4 DEF LineUp, Loaded
  <2>2. Cardinality(members \cap Active) <= type
    BY <1>1, <1>2, FS_Subset
  <2>3. members \subseteq Active => members \cap Active = members
    OBVIOUS
  <2> QED BY <1>1, <2>1, <2>2, <2>3
<1> QED BY <1>3, <1>4

\* The line-ups that DivisionsService gives to games and events have as many
\* players as their type says, except for those whose account is deleted,
\* however creating and editing divisions overlap.
THEOREM LineupsAreFull == PeopleSpec => []LineupsFit
<1> QED BY FitStart, FitStep, FitMeans, PTL DEF PeopleSpec

(***************************************************************************)
(* Counting. A row comes about in two steps: a call finds no row of its    *)
(* kind, and later inserts one. Rows and calls that have looked and not    *)
(* inserted yet are counted together.                                      *)
(***************************************************************************)

\* Rows and calls together keep to the bound.
Within(rows, calls, bound) ==
  IsFiniteSet(rows) /\ IsFiniteSet(calls) /\ Cardinality(rows) + Cardinality(calls) <= bound

\* The requests that may be under way after a step of p.
Rivals(p) == IF calm' THEN {p} ELSE Requests

\* The bound grows when the calm ends and is the number of rivals.
LEMMA BoundFacts ==
  ASSUME NEW p \in Requests, Turn(p)
  PROVE  /\ AtMostOnce \in Nat /\ AtMostOnce' \in Nat /\ AtMostOnce <= AtMostOnce'
         /\ IsFiniteSet(Rivals(p)) /\ Cardinality(Rivals(p)) = AtMostOnce'
<1>1. IsFiniteSet(Requests) /\ Cardinality(Requests) \in Nat
  BY HandlersAssumption, FS_CardinalityType
<1>2. Cardinality(Requests) >= 1
  BY <1>1, FS_EmptySet
<1>3. IsFiniteSet({p}) /\ Cardinality({p}) = 1
  BY FS_Singleton
<1>4. calm' => calm
  BY DEF Turn
<1> QED BY <1>1, <1>2, <1>3, <1>4 DEF AtMostOnce, Rivals

\* Taking rows or calls away keeps to the bound.
LEMMA FewerFit ==
  ASSUME NEW rows, NEW calls, NEW n \in Nat, Within(rows, calls, n),
         NEW rows2 \in SUBSET rows, NEW calls2 \in SUBSET calls, NEW m \in Nat, n <= m
  PROVE  Within(rows2, calls2, m)
<1>1. /\ IsFiniteSet(rows) /\ IsFiniteSet(calls)
      /\ Cardinality(rows) + Cardinality(calls) <= n
  BY DEF Within
<1>2. /\ IsFiniteSet(rows2) /\ Cardinality(rows2) <= Cardinality(rows)
      /\ IsFiniteSet(calls2) /\ Cardinality(calls2) <= Cardinality(calls)
  BY <1>1, FS_Subset
<1>3. /\ Cardinality(rows2) \in Nat /\ Cardinality(rows) \in Nat
      /\ Cardinality(calls2) \in Nat /\ Cardinality(calls) \in Nat
  BY <1>1, <1>2, FS_CardinalityType
<1>4. Cardinality(rows2) + Cardinality(calls2) <= m
  BY <1>1, <1>2, <1>3
<1> QED BY <1>2, <1>4 DEF Within

\* A call that inserts its row is not counted any more.
LEMMA LandedFits ==
  ASSUME NEW rows, NEW calls, NEW n \in Nat, Within(rows, calls, n),
         NEW row, NEW p \in calls, NEW m \in Nat, n <= m
  PROVE  Within(rows \cup {row}, calls \ {p}, m)
<1>1. /\ IsFiniteSet(rows) /\ IsFiniteSet(calls)
      /\ Cardinality(rows) + Cardinality(calls) <= n
  BY DEF Within
<1>2. Cardinality(rows) \in Nat /\ Cardinality(calls) \in Nat
  BY <1>1, FS_CardinalityType
<1>3. IsFiniteSet(rows \cup {row}) /\ Cardinality(rows \cup {row}) <= Cardinality(rows) + 1
  <2>1. /\ IsFiniteSet(rows \cup {row})
        /\ Cardinality(rows \cup {row}) =
             IF row \in rows THEN Cardinality(rows) ELSE Cardinality(rows) + 1
    BY <1>1, FS_AddElement
  <2> QED BY <1>2, <2>1
<1>4. IsFiniteSet(calls \ {p}) /\ Cardinality(calls \ {p}) = Cardinality(calls) - 1
  BY <1>1, FS_RemoveElement
<1>5. Cardinality(rows \cup {row}) \in Nat
  BY <1>3, FS_CardinalityType
<1>6. Cardinality(rows \cup {row}) + Cardinality(calls \ {p}) <= m
  BY <1>1, <1>2, <1>3, <1>4, <1>5
<1> QED BY <1>3, <1>4, <1>6 DEF Within

\* A call that finds no row, those that others hold aside, joins the race: each
\* row and each call is somebody's who takes part in it.
LEMMA RaceFits ==
  ASSUME NEW R, IsFiniteSet(R), NEW holders \in SUBSET R, NEW calls \in SUBSET R,
         holders \cap calls = {}, NEW f, NEW rows \in SUBSET {f[q] : q \in holders}
  PROVE  Within(rows, calls, Cardinality(R))
<1> DEFINE all == {f[q] : q \in holders}
           g == [q \in holders |-> f[q]]
<1>1. IsFiniteSet(holders) /\ IsFiniteSet(calls)
  BY FS_Subset
<1>2. g \in Surjection(holders, all)
  BY DEF Surjection
<1> HIDE DEF g, all
<1>3. IsFiniteSet(all) /\ Cardinality(all) <= Cardinality(holders)
  BY <1>1, <1>2, FS_Surjection
<1>4. IsFiniteSet(rows) /\ Cardinality(rows) <= Cardinality(all)
  BY <1>3, FS_Subset DEF all
<1>5. /\ IsFiniteSet(holders \cup calls)
      /\ Cardinality(holders \cup calls) = Cardinality(holders) + Cardinality(calls) - 0
  BY <1>1, FS_Union, FS_EmptySet
<1>6. Cardinality(holders \cup calls) <= Cardinality(R)
  BY FS_Subset
<1>7. /\ Cardinality(rows) \in Nat /\ Cardinality(all) \in Nat /\ Cardinality(holders) \in Nat
      /\ Cardinality(calls) \in Nat /\ Cardinality(R) \in Nat
      /\ Cardinality(holders \cup calls) \in Nat
  BY <1>1, <1>3, <1>4, <1>5, FS_CardinalityType
<1>8. Cardinality(rows) + Cardinality(calls) <= Cardinality(R)
  BY <1>3, <1>4, <1>5, <1>6, <1>7
<1> QED BY <1>1, <1>4, <1>8 DEF Within

\* Who is not idle after a step is a rival.
LEMMA Racing ==
  ASSUME Sole, NEW p \in Requests, Turn(p), Moved(p), NEW q \in Requests, pc'[q] # "idle"
  PROVE  q \in Rivals(p)
BY Alone DEF Moved, Rivals

(***************************************************************************)
(* Applications.                                                           *)
(***************************************************************************)

\* Calls that found no pending application of u and will insert one.
Applicants(u) == {q \in Requests : pc[q] = "insertApplication" /\ local[q].user = u}

\* The inductive invariant of pending applications.
PendingInv ==
  /\ PeopleInv /\ Sole
  /\ \A u \in People : Within(Pending(u), Applicants(u), AtMostOnce)

\* A step keeps pending applications and applicants within the bound.
LEMMA PendingStep ==
  ASSUME PendingInv, NEW p \in Requests, Step(p), NEW u \in People
  PROVE  Within(Pending(u)', Applicants(u)', AtMostOnce')
<1>0. /\ Slots /\ Rows /\ Held(p) /\ Moved(p) /\ Turn(p) /\ Sole
      /\ Within(Pending(u), Applicants(u), AtMostOnce)
  BY StepMoves, StepTurns DEF PendingInv, PeopleInv
<1>1. AtMostOnce \in Nat /\ AtMostOnce' \in Nat /\ AtMostOnce <= AtMostOnce'
  BY <1>0, BoundFacts
<1>2. \A q \in Requests \ {p} : q \in Applicants(u)' <=> q \in Applicants(u)
  BY <1>0 DEF Moved, Applicants
<1>3. CASE Pending(u)' \subseteq Pending(u) /\ ~(pc'[p] = "insertApplication" /\ local'[p].user = u)
  <2>1. Applicants(u)' \subseteq Applicants(u)
    BY <1>2, <1>3 DEF Applicants
  <2> QED BY <1>0, <1>1, <1>3, <2>1, FewerFit
<1>4. CASE CreateApplication(p)
  <2>1. PICK v \in Active, t \in LiveTeams :
          /\ Pending(v) = {}
          /\ Suspend(p, "insertApplication", [op |-> "apply", user |-> v, team |-> t])
    BY <1>4 DEF CreateApplication
  <2>2. pc'[p] = "insertApplication" /\ local'[p].user = v
    BY <1>0, <2>1, SuspendMoves
  <2>3. Pending(u)' = Pending(u)
    BY <1>4 DEF CreateApplication, membership, Pending
  <2>4. CASE u = v
    <3>1. Applicants(u)' \subseteq Rivals(p)
      BY <1>0, Racing DEF Applicants
    <3>2. Pending(u)' = {}
      BY <2>1, <2>3, <2>4
    <3>3. IsFiniteSet(Rivals(p)) /\ Cardinality(Rivals(p)) = AtMostOnce'
      BY <1>0, BoundFacts
    <3>4. Within({}, Applicants(u)', Cardinality(Rivals(p)))
      BY <3>1, <3>3, RaceFits
    <3> QED BY <3>2, <3>3, <3>4
  <2>5. CASE u # v
    BY <1>3, <2>2, <2>3, <2>5
  <2> QED BY <2>4, <2>5
<1>5. CASE InsertApplication(p)
  <2> DEFINE new == Len(applications) + 1
             row == [user |-> local[p].user, team |-> local[p].team, status |-> "inProgress"]
  <2>1. pc'[p] = "idle" /\ pc[p] = "insertApplication"
    BY <1>0, <1>5, AnsweringEnds DEF Answering, InsertApplication, At
  <2>2. CASE applications' = applications
    BY <1>3, <2>1, <2>2 DEF Pending
  <2>3. CASE applications' = Append(applications, row)
    <3> HIDE DEF row
    <3>1. applications \in Seq(Application)
      BY <1>0 DEF Rows
    <3>2. /\ DOMAIN applications' = DOMAIN applications \cup {new}
          /\ applications'[new] = row
          /\ \A i \in DOMAIN applications : applications'[i] = applications[i]
      BY <2>3, <3>1
    <3>3. CASE local[p].user = u
      <4>1. Pending(u)' \subseteq Pending(u) \cup {new}
        BY <3>2 DEF Pending
      <4>2. p \in Applicants(u) /\ Applicants(u)' \subseteq Applicants(u) \ {p}
        BY <1>2, <2>1, <3>3 DEF Applicants
      <4>3. Within(Pending(u) \cup {new}, Applicants(u) \ {p}, AtMostOnce')
        BY <1>0, <1>1, <4>2, LandedFits
      <4> QED BY <1>1, <4>1, <4>2, <4>3, FewerFit
    <3>4. CASE local[p].user # u
      <4>1. Pending(u)' \subseteq Pending(u)
        BY <3>2, <3>4 DEF Pending, row
      <4> QED BY <1>3, <2>1, <4>1
    <3> QED BY <3>3, <3>4
  <2> QED BY <1>5, <2>2, <2>3 DEF InsertApplication
<1>6. CASE ~CreateApplication(p) /\ ~InsertApplication(p)
  <2>1. pc'[p] # "insertApplication"
    BY <1>0, <1>6, StepWaits, AnsweringEnds, Labels DEF Waiting
  <2>2. Pending(u)' \subseteq Pending(u)
    <3>1. CASE UNCHANGED applications
      BY <3>1 DEF Pending
    <3>2. ASSUME NEW status \in Statuses, status # "inProgress",
                 local[p].row \in DOMAIN applications,
                 applications' = [applications EXCEPT ![local[p].row].status = status]
          PROVE  Pending(u)' \subseteq Pending(u)
      BY <1>0, <3>2, StatusFacts DEF Pending
    <3>3. CASE Approve(p)
      BY <1>0, <3>2, <3>3 DEF Approve, At, Held, RowCalls, Statuses
    <3>4. CASE Reject(p)
      BY <1>0, <3>2, <3>4 DEF Reject, At, Held, RowCalls, Statuses
    <3>5. CASE Archive(p)
      BY <1>0, <3>2, <3>5 DEF Archive, At, Held, RowCalls, Statuses
    <3> QED BY <1>6, <3>1, <3>3, <3>4, <3>5, ApplicationWrites
  <2> QED BY <1>3, <2>1, <2>2
<1> QED BY <1>4, <1>5, <1>6

\* The invariant holds after every step.
LEMMA PendingKept ==
  ASSUME PendingInv, [PeopleNext]_peopleVars
  PROVE  PendingInv'
<1>1. PeopleInv'
  BY PeopleStep DEF PendingInv
<1>2. CASE UNCHANGED peopleVars
  <2>1. UNCHANGED <<pc, local, calm, applications>>
    BY <1>2 DEF peopleVars, control, membership
  <2>2. Sole' /\ AtMostOnce' = AtMostOnce
    BY <2>1 DEF PendingInv, Sole, AtMostOnce
  <2>3. \A u \in People : Pending(u)' = Pending(u) /\ Applicants(u)' = Applicants(u)
    BY <2>1 DEF Pending, Applicants
  <2> QED BY <1>1, <2>2, <2>3 DEF PendingInv, Within
<1>3. ASSUME NEW p \in Requests, Step(p) PROVE PendingInv'
  <2>1. Sole'
    BY <1>3, StepTurns, StepMoves, SoleStays DEF PendingInv, PeopleInv
  <2> QED BY <1>1, <1>3, <2>1, PendingStep DEF PendingInv, Within
<1> QED BY <1>2, <1>3 DEF PeopleNext, Step

\* Nothing is within the bound of one.
LEMMA NoneFit == Within({}, {}, 1)
BY FS_EmptySet DEF Within

\* The invariant holds at the start.
LEMMA PendingStart == PeopleInit => PendingInv
<1> SUFFICES ASSUME PeopleInit PROVE PendingInv
  OBVIOUS
<1>1. pc = [p \in Requests |-> "idle"] /\ applications = <<>> /\ calm = TRUE
  BY DEF PeopleInit, HandlersInit, MembershipInit
<1>2. \A u \in People : Pending(u) = {} /\ Applicants(u) = {}
  BY <1>1 DEF Pending, Applicants
<1>3. Sole /\ AtMostOnce = 1
  BY <1>1 DEF Sole, AtMostOnce
<1> QED BY <1>2, <1>3, PeopleStart, NoneFit DEF PendingInv

\* Rows within the bound are no more than it.
LEMMA RowsFit ==
  ASSUME NEW rows, NEW calls, NEW n \in Nat, Within(rows, calls, n)
  PROVE  Cardinality(rows) <= n
<1>1. /\ IsFiniteSet(rows) /\ IsFiniteSet(calls)
      /\ Cardinality(rows) + Cardinality(calls) <= n
  BY DEF Within
<1>2. Cardinality(rows) \in Nat /\ Cardinality(calls) \in Nat
  BY <1>1, FS_CardinalityType
<1> QED BY <1>1, <1>2

\* The bound is a number.
LEMMA BoundIsNat == AtMostOnce \in Nat
BY HandlersAssumption, FS_CardinalityType DEF AtMostOnce

\* TeamRequestsService lets one application of a user be pending, and in a race
\* no more than there are requests in it.
THEOREM ApplicationsDoNotPileUp == PeopleSpec => []OnePendingApplication
<1>1. PendingInv => OnePendingApplication
  BY RowsFit, BoundIsNat DEF PendingInv, OnePendingApplication
<1> QED BY <1>1, PendingStart, PendingKept, PTL DEF PeopleSpec

(***************************************************************************)
(* Friend requests.                                                        *)
(***************************************************************************)

\* A call that will save the request i as accepted.
Accepting(q, i) ==
  pc[q] = "saveLink" /\ local[q].row = i /\ local[q].status = "accepted"

\* The friend requests between two users that are open, or that an answer which
\* was checked before they were rejected is about to open again.
Ties(u, v) ==
  {i \in DOMAIN links : /\ Between(i, u, v) /\ ~links[i].gone
                        /\ Open(i) \/ \E q \in Requests : Accepting(q, i)}

\* Calls that found u and v not linked and will link them.
Befriending(u, v) ==
  {q \in Requests : pc[q] = "insertLink" /\ {local[q].from, local[q].to} = {u, v}}

\* The inductive invariant of friend requests.
TiesInv ==
  /\ PeopleInv /\ LinksTyped /\ Sole
  /\ \A u, v \in People : Within(Ties(u, v), Befriending(u, v), AtMostOnce)

\* A step keeps the ties of two users within the bound.
LEMMA TiesStep ==
  ASSUME TiesInv, NEW p \in Requests, Step(p), NEW u \in People, NEW v \in People
  PROVE  Within(Ties(u, v)', Befriending(u, v)', AtMostOnce')
<1>0. /\ Slots /\ LinksTyped /\ Moved(p) /\ Turn(p) /\ Sole
      /\ Within(Ties(u, v), Befriending(u, v), AtMostOnce)
  BY StepMoves, StepTurns DEF TiesInv, PeopleInv
<1>1. AtMostOnce \in Nat /\ AtMostOnce' \in Nat /\ AtMostOnce <= AtMostOnce'
  BY <1>0, BoundFacts
<1>2. \A q \in Requests \ {p} : /\ q \in Befriending(u, v)' <=> q \in Befriending(u, v)
                                /\ \A i : Accepting(q, i)' <=> Accepting(q, i)
  BY <1>0 DEF Moved, Befriending, Accepting
<1>3. CASE /\ Ties(u, v)' \subseteq Ties(u, v)
           /\ ~(pc'[p] = "insertLink" /\ {local'[p].from, local'[p].to} = {u, v})
  <2>1. Befriending(u, v)' \subseteq Befriending(u, v)
    BY <1>2, <1>3 DEF Befriending
  <2> QED BY <1>0, <1>1, <1>3, <2>1, FewerFit
<1>4. CASE CreateFriendRequest(p)
  <2>1. PICK a \in Active, b \in Active :
          /\ LinksOf(a, b) = {}
          /\ Suspend(p, "insertLink", [op |-> "befriend", from |-> a, to |-> b])
    BY <1>4 DEF CreateFriendRequest
  <2>2. pc'[p] = "insertLink" /\ local'[p].from = a /\ local'[p].to = b
    BY <1>0, <2>1, SuspendMoves
  <2>3. UNCHANGED links /\ ~\E i : Accepting(p, i)'
    BY <1>4, <2>2 DEF CreateFriendRequest, social, Accepting
  <2>4. CASE {a, b} = {u, v}
    <3> DEFINE holders == {q \in Requests : pc'[q] = "saveLink"}
               f == [q \in Requests |-> local'[q].row]
    <3>1. /\ Befriending(u, v)' \subseteq Rivals(p) /\ holders \subseteq Rivals(p)
          /\ holders \cap Befriending(u, v)' = {}
      BY <1>0, Racing DEF Befriending
    <3>2. Ties(u, v)' \subseteq {f[q] : q \in holders}
      <4>1. ASSUME NEW i \in Ties(u, v)' PROVE \E q \in Requests : Accepting(q, i)'
        <5>1. i \in DOMAIN links /\ Between(i, a, b)
          BY <2>3, <2>4 DEF Ties, Between
        <5>2. ~Open(i)
          BY <2>1, <5>1 DEF LinksOf
        <5>3. ~Open(i)'
          BY <2>3, <5>2 DEF Open
        <5> QED BY <5>3 DEF Ties
      <4> QED BY <4>1 DEF Accepting
    <3>3. IsFiniteSet(Rivals(p)) /\ Cardinality(Rivals(p)) = AtMostOnce'
      BY <1>0, BoundFacts
    <3> HIDE DEF holders, f
    <3>4. Within(Ties(u, v)', Befriending(u, v)', Cardinality(Rivals(p)))
      BY <3>1, <3>2, <3>3, RaceFits
    <3> QED BY <3>3, <3>4
  <2>5. CASE {a, b} # {u, v}
    <3>1. Ties(u, v)' \subseteq Ties(u, v)
      BY <1>2, <2>3 DEF Ties, Between, Open
    <3> QED BY <1>3, <2>2, <2>5, <3>1
  <2> QED BY <2>4, <2>5
<1>5. CASE InsertLink(p)
  <2> DEFINE new == Len(links) + 1
  <2>1. pc'[p] = "idle" /\ pc[p] = "insertLink"
    BY <1>0, <1>5, AnsweringEnds DEF Answering, InsertLink, At
  <2>2. /\ DOMAIN links' = DOMAIN links \cup {new}
        /\ links'[new].from = local[p].from /\ links'[new].to = local[p].to
        /\ \A i \in DOMAIN links : links'[i] = links[i]
    <3>1. /\ DOMAIN links' = DOMAIN links \cup {new}
          /\ links'[new] = [from |-> local[p].from, to |-> local[p].to,
                            status |-> "inProgress", gone |-> FALSE]
          /\ \A i \in DOMAIN links : links'[i] = links[i]
      BY <1>0, <1>5, InsertLinkRow
    <3> QED BY <3>1
  <2>3. ~\E i : Accepting(p, i)'
    BY <2>1 DEF Accepting
  <2>4. Ties(u, v)' \ {new} \subseteq Ties(u, v)
    BY <1>2, <2>2, <2>3 DEF Ties, Between, Open
  <2>5. CASE {local[p].from, local[p].to} = {u, v}
    <3>1. p \in Befriending(u, v) /\ Befriending(u, v)' \subseteq Befriending(u, v) \ {p}
      BY <1>2, <2>1, <2>5 DEF Befriending
    <3>2. Within(Ties(u, v) \cup {new}, Befriending(u, v) \ {p}, AtMostOnce')
      BY <1>0, <1>1, <3>1, LandedFits
    <3>3. Ties(u, v)' \subseteq Ties(u, v) \cup {new}
      BY <2>4
    <3> QED BY <1>1, <3>1, <3>2, <3>3, FewerFit
  <2>6. CASE {local[p].from, local[p].to} # {u, v}
    <3>1. new \notin Ties(u, v)'
      BY <2>2, <2>6 DEF Ties, Between
    <3> QED BY <1>3, <2>1, <2>4, <3>1
  <2> QED BY <2>5, <2>6
<1>6. CASE AnswerFriendRequest(p)
  <2>1. PICK i \in DOMAIN links, status \in {"accepted", "rejected"} :
          /\ Undecided(i)
          /\ Suspend(p, "saveLink", [op |-> "answer", row |-> i, status |-> status])
    BY <1>6 DEF AnswerFriendRequest
  <2>2. pc'[p] = "saveLink" /\ local'[p].row = i
    BY <1>0, <2>1, SuspendMoves
  <2>3. UNCHANGED links
    BY <1>6 DEF AnswerFriendRequest, social
  <2>4. Open(i) /\ \A j : Accepting(p, j)' => j = i
    BY <2>1, <2>2 DEF Undecided, Open, Accepting
  <2>5. Ties(u, v)' \subseteq Ties(u, v)
    BY <1>2, <2>3, <2>4 DEF Ties, Between, Open
  <2> QED BY <1>3, <2>2, <2>5
<1>7. CASE SaveLink(p)
  <2>1. pc'[p] = "idle" /\ pc[p] = "saveLink"
    BY <1>0, <1>7, AnsweringEnds DEF Answering, SaveLink, At
  <2>2. ~\E j : Accepting(p, j)'
    BY <2>1 DEF Accepting
  <2>3. /\ local[p].row \in DOMAIN links /\ local[p].status \in {"accepted", "rejected"}
        /\ DOMAIN links' = DOMAIN links
        /\ \A i \in DOMAIN links :
             /\ links'[i].from = links[i].from /\ links'[i].to = links[i].to
             /\ links'[i].gone = links[i].gone
             /\ i # local[p].row \/ links[i].gone => links'[i] = links[i]
             /\ i = local[p].row /\ ~links[i].gone => links'[i].status = local[p].status
    BY <1>0, <1>7, SaveLinkRow
  <2>4. ASSUME NEW i \in Ties(u, v)' PROVE i \in Ties(u, v)
    <3>1. /\ i \in DOMAIN links /\ Between(i, u, v) /\ ~links[i].gone
          /\ Open(i)' \/ \E q \in Requests \ {p} : Accepting(q, i)
      BY <1>2, <2>2, <2>3 DEF Ties, Between
    <3>2. Open(i)' => Open(i) \/ Accepting(p, i)
      BY <2>1, <2>3, <3>1 DEF Open, Accepting
    <3> QED BY <3>1, <3>2 DEF Ties
  <2> QED BY <1>3, <2>1, <2>4
<1>8. CASE DeleteLink(p)
  <2>1. pc'[p] = "idle"
    BY <1>0, <1>8, AnsweringEnds DEF Answering
  <2>2. ~\E j : Accepting(p, j)'
    BY <2>1 DEF Accepting
  <2>3. /\ DOMAIN links' = DOMAIN links /\ links'[local[p].row].gone
        /\ \A i \in DOMAIN links : i # local[p].row => links'[i] = links[i]
    BY <1>0, <1>8, DeleteLinkRow
  <2>4. Ties(u, v)' \subseteq Ties(u, v)
    BY <1>2, <2>2, <2>3 DEF Ties, Between, Open
  <2> QED BY <1>3, <2>1, <2>4
<1>9. CASE ~ \/ CreateFriendRequest(p) \/ InsertLink(p) \/ AnswerFriendRequest(p)
             \/ SaveLink(p) \/ DeleteLink(p)
  <2>1. UNCHANGED links
    BY <1>9, LinkWrites
  <2>2. pc'[p] \notin {"insertLink", "saveLink"}
    BY <1>0, <1>9, StepWaits, AnsweringEnds, Labels DEF Waiting
  <2>3. ~\E j : Accepting(p, j)'
    BY <2>2 DEF Accepting
  <2>4. Ties(u, v)' \subseteq Ties(u, v)
    BY <1>2, <2>1, <2>3 DEF Ties, Between, Open
  <2> QED BY <1>3, <2>2, <2>4
<1> QED BY <1>4, <1>5, <1>6, <1>7, <1>8, <1>9

\* The invariant holds after every step.
LEMMA TiesKept ==
  ASSUME TiesInv, [PeopleNext]_peopleVars
  PROVE  TiesInv'
<1>1. PeopleInv'
  BY PeopleStep DEF TiesInv
<1>2. CASE UNCHANGED peopleVars
  <2>1. UNCHANGED <<pc, local, calm, links>>
    BY <1>2 DEF peopleVars, control, social
  <2>2. LinksTyped' /\ Sole' /\ AtMostOnce' = AtMostOnce
    BY <2>1 DEF TiesInv, LinksTyped, LinkHeld, Sole, AtMostOnce
  <2>3. \A u, v \in People : Ties(u, v)' = Ties(u, v) /\ Befriending(u, v)' = Befriending(u, v)
    BY <2>1 DEF Ties, Befriending, Accepting, Between, Open
  <2> QED BY <1>1, <2>2, <2>3 DEF TiesInv, Within
<1>3. ASSUME NEW p \in Requests, Step(p) PROVE TiesInv'
  <2>1. LinksTyped' /\ Sole'
    BY <1>3, LinksStay, StepTurns, StepMoves, SoleStays DEF TiesInv, PeopleInv
  <2> QED BY <1>1, <1>3, <2>1, TiesStep DEF TiesInv, Within
<1> QED BY <1>2, <1>3 DEF PeopleNext, Step

\* And at the start.
LEMMA TiesStart == PeopleInit => TiesInv
<1> SUFFICES ASSUME PeopleInit PROVE TiesInv
  OBVIOUS
<1>1. pc = [p \in Requests |-> "idle"] /\ links = <<>> /\ calm = TRUE
  BY DEF PeopleInit, HandlersInit, FriendsInit
<1>2. \A u, v \in People : Ties(u, v) = {} /\ Befriending(u, v) = {}
  BY <1>1 DEF Ties, Befriending
<1>3. Sole /\ AtMostOnce = 1 /\ LinksTyped
  BY <1>1 DEF Sole, AtMostOnce, LinksTyped, LinkHeld
<1> QED BY <1>2, <1>3, PeopleStart, NoneFit DEF TiesInv

\* UsersService links two users by one friend request that is open or
\* accepted, and in a race by no more than there are requests in it.
THEOREM LinksDoNotPileUp == PeopleSpec => []OneLink
<1>1. ASSUME TiesInv, NEW u \in People, NEW v \in People
      PROVE  Cardinality(LinksOf(u, v)) <= AtMostOnce
  <2>1. LinksOf(u, v) \subseteq Ties(u, v)
    BY DEF LinksOf, Ties, Open
  <2>2. Within(Ties(u, v), Befriending(u, v), AtMostOnce)
    BY <1>1 DEF TiesInv
  <2>3. Within(LinksOf(u, v), Befriending(u, v), AtMostOnce)
    BY <2>1, <2>2, BoundIsNat, FewerFit
  <2> QED BY <2>3, BoundIsNat, RowsFit
<1>2. TiesInv => OneLink
  BY <1>1 DEF OneLink
<1> QED BY <1>2, TiesStart, TiesKept, PTL DEF PeopleSpec

(***************************************************************************)
(* Divisions with the same members.                                        *)
(***************************************************************************)

\* A deleted account does not come back.
LEMMA AccountsStayGone ==
  ASSUME PeopleInv, NEW p \in Requests, Step(p)
  PROVE  Active' \subseteq Active
<1>0. Rows /\ Held(p)
  BY DEF PeopleInv
<1> SUFFICES ASSUME NEW u \in People, users[u].gone PROVE users'[u].gone
  BY DEF Active
<1>1. CASE UNCHANGED users
  BY <1>1
<1>2. ASSUME NEW rows, Place(rows), rows[u].gone = users[u].gone
      PROVE  users'[u].gone
  BY <1>2 DEF Place
<1>3. /\ users[u] \in [role : Roles, team : {NoTeam} \cup LiveTeams, gone : BOOLEAN]
      /\ DOMAIN users = People
  BY <1>0, RowFacts
<1>4. CASE InsertTeam(p)
  <2>1. [users EXCEPT ![local[p].by].role = "supervisor",
                      ![local[p].by].team = Len(teams) + 1][u].gone = users[u].gone
    BY <1>3
  <2> QED BY <1>1, <1>2, <1>4, <2>1 DEF InsertTeam
<1>5. CASE SaveTeam(p)
  <2> DEFINE rows == [w \in People |->
               [users[w] EXCEPT !.team = IF w \in local[p].members THEN local[p].team
                                         ELSE IF @ = local[p].team THEN NoTeam ELSE @]]
  <2>1. rows[u].gone = users[u].gone
    BY <1>3
  <2>2. UNCHANGED users \/ Place(rows)
    BY <1>5 DEF SaveTeam
  <2> HIDE DEF rows
  <2> QED BY <1>1, <1>2, <2>1, <2>2
<1>6. CASE SaveProfile(p)
  <2>1. [users EXCEPT ![local[p].by].team = local[p].team][u].gone = users[u].gone
    BY <1>3
  <2> QED BY <1>1, <1>2, <1>6, <2>1 DEF SaveProfile
<1>7. CASE RemoveAccount(p)
  <2>1. PICK w \in Active : users' = [users EXCEPT ![w].gone = TRUE]
    BY <1>7 DEF RemoveAccount
  <2>2. u # w
    BY <2>1 DEF Active
  <2> QED BY <1>3, <2>1, <2>2
<1>8. CASE Approve(p)
  <2> DEFINE i == local[p].row
  <2>1. [users EXCEPT ![applications[i].user].team = applications[i].team][u].gone = users[u].gone
    BY <1>3
  <2> QED BY <1>2, <1>8, <2>1 DEF Approve
<1>9. CASE ~(InsertTeam(p) \/ SaveTeam(p) \/ SaveProfile(p) \/ RemoveAccount(p) \/ Approve(p))
  <2>1. UNCHANGED users
    <3>1. CASE MembershipNext(p)
      BY <1>9, <3>1 DEF MembershipNext, CreateTeam, UpdateTeam, RemoveTeam, DeleteTeam,
              UpdateProfile, CreateApplication, InsertApplication, DecideApplication,
              Reject, RemoveApplication, Archive, membership
    <3>2. CASE DivisionsNext(p)
      BY <3>2 DEF DivisionsNext, CreateDivision, UpdateDivision, CheckMembers, CheckTwins,
                  SaveDivision, RemoveDivision, DeleteDivision, membership
    <3>3. CASE FriendsNext(p)
      BY <3>3 DEF FriendsNext, CreateFriendRequest, InsertLink, AnswerFriendRequest, SaveLink,
                  DeleteFriendRequest, DeleteLink, ViewHistory, ViewFriends, ViewTeam,
                  SendInvitation, InsertInvitation, DeleteInvitation, RemoveInvitation,
                  ViewEvent, HasInvitation, Answered, membership
    <3> QED BY <3>1, <3>2, <3>3 DEF Step
  <2> QED BY <1>1, <2>1
<1> QED BY <1>4, <1>5, <1>6, <1>7, <1>8, <1>9

\* An update that looks for twins no more, and will write these members.
Rewriting(q, d, members) ==
  /\ pc[q] \in {"divisionMembers", "saveDivision"}
  /\ local[q].row = d /\ local[q].members = members

\* Calls that found no twin and will add a division with these members.
Adding(t, members) ==
  {q \in Requests : /\ pc[q] = "saveDivision" /\ local[q].row = NewDivision
                    /\ local[q].team = t /\ local[q].members = members}

\* The divisions of a team that have, or are about to be given, these members.
Twins(t, members) ==
  {d \in DOMAIN divisions :
     /\ divisions[d].team = t
     /\ \/ ~divisions[d].gone /\ divisions[d].members = members
        \/ \E q \in Requests : Rewriting(q, d, members)}

\* The inductive invariant of twins, as long as no account is deleted.
TwinsInv ==
  /\ PeopleInv /\ Sole
  /\ Active = People =>
       \A t \in Nat, members \in SUBSET People :
         Within(Twins(t, members), Adding(t, members), AtMostOnce)

\* A step keeps twins within the bound.
LEMMA TwinsStep ==
  ASSUME TwinsInv, NEW p \in Requests, Step(p), Active' = People,
         NEW t \in Nat, NEW members \in SUBSET People
  PROVE  Within(Twins(t, members)', Adding(t, members)', AtMostOnce')
<1>0. Slots /\ Rows /\ Held(p) /\ Moved(p) /\ Turn(p) /\ Sole
  BY StepMoves, StepTurns DEF TwinsInv, PeopleInv
<1>1. AtMostOnce \in Nat /\ AtMostOnce' \in Nat /\ AtMostOnce <= AtMostOnce'
  BY <1>0, BoundFacts
<1>2. \A q \in Requests \ {p} :
        /\ q \in Adding(t, members)' <=> q \in Adding(t, members)
        /\ \A d : Rewriting(q, d, members)' <=> Rewriting(q, d, members)
  BY <1>0 DEF Moved, Adding, Rewriting
<1>3. Active = People
  <2>1. Active' \subseteq Active /\ Active \subseteq People
    BY AccountsStayGone DEF TwinsInv, Active
  <2> QED BY <2>1
<1>4. Within(Twins(t, members), Adding(t, members), AtMostOnce)
  BY <1>3 DEF TwinsInv
<1>5. NewDivision \notin DOMAIN divisions
  BY <1>0 DEF Rows, NewDivision
<1>6. \A d \in DOMAIN divisions : Loaded(d) = divisions[d].members
  BY <1>0, <1>3, RowFacts DEF Loaded
<1>7. CASE /\ Twins(t, members)' \subseteq Twins(t, members)
           /\ p \notin Adding(t, members)'
  <2>1. Adding(t, members)' \subseteq Adding(t, members)
    BY <1>2, <1>7 DEF Adding
  <2> QED BY <1>1, <1>4, <1>7, <2>1, FewerFit
<1>8. CASE /\ UNCHANGED divisions
           /\ \A d \in DOMAIN divisions :
                Rewriting(p, d, members)' /\ divisions[d].team = t => d \in Twins(t, members)
           /\ p \notin Adding(t, members)'
  <2>1. Twins(t, members)' \subseteq Twins(t, members)
    BY <1>2, <1>8 DEF Twins
  <2> QED BY <1>7, <1>8, <2>1
<1>9. CASE CreateDivision(p)
  <2>1. PICK s \in LiveTeams, type \in Sizes, listed \in SUBSET People :
          Suspend(p, "divisionMembers",
            [op |-> "createDivision", row |-> NewDivision, team |-> s, type |-> type,
             members |-> listed])
    BY <1>9 DEF CreateDivision
  <2>2. pc'[p] = "divisionMembers" /\ local'[p].row = NewDivision
    BY <1>0, <2>1, SuspendMoves
  <2>3. UNCHANGED divisions
    BY <1>9 DEF CreateDivision, membership
  <2> QED BY <1>5, <1>8, <2>2, <2>3 DEF Rewriting, Adding
<1>10. CASE UpdateDivision(p)
  <2>1. PICK d \in DOMAIN divisions, type \in Sizes, dto \in SUBSET People :
          /\ ~divisions[d].gone
          /\ Suspend(p, IF dto = Kept THEN "saveDivision" ELSE "divisionTwins",
               [op |-> "updateDivision", row |-> d, team |-> divisions[d].team, type |-> type,
                members |-> IF dto = Kept THEN Loaded(d) ELSE dto])
    BY <1>10 DEF UpdateDivision
  <2>2. /\ pc'[p] = IF dto = Kept THEN "saveDivision" ELSE "divisionTwins"
        /\ local'[p].row = d
        /\ local'[p].members = IF dto = Kept THEN Loaded(d) ELSE dto
    BY <1>0, <2>1, SuspendMoves
  <2>3. UNCHANGED divisions
    BY <1>10 DEF UpdateDivision, membership
  <2>4. p \notin Adding(t, members)'
    BY <1>5, <2>2 DEF Adding
  <2>5. ASSUME NEW e \in DOMAIN divisions, Rewriting(p, e, members)', divisions[e].team = t
        PROVE  e \in Twins(t, members)
    <3>1. dto = Kept /\ e = d /\ members = Loaded(d)
      BY <2>2, <2>5 DEF Rewriting
    <3> QED BY <1>6, <2>1, <2>5, <3>1 DEF Twins
  <2> QED BY <1>8, <2>3, <2>4, <2>5
<1>11. CASE CheckMembers(p)
  <2>1. \/ Suspend(p, "idle", Nothing)
        \/ Suspend(p, IF local[p].row = NewDivision THEN "divisionTwins" ELSE "saveDivision",
                   local[p])
    BY <1>11 DEF CheckMembers, Return
  <2>2. \/ pc'[p] = "idle"
        \/ /\ local'[p] = local[p]
           /\ pc'[p] = IF local[p].row = NewDivision THEN "divisionTwins" ELSE "saveDivision"
    BY <1>0, <2>1, SuspendMoves
  <2>3. UNCHANGED divisions /\ pc[p] = "divisionMembers"
    BY <1>11 DEF CheckMembers, At, membership
  <2>4. p \notin Adding(t, members)'
    BY <2>2 DEF Adding
  <2>5. \A d : Rewriting(p, d, members)' => Rewriting(p, d, members)
    BY <2>2, <2>3 DEF Rewriting
  <2> QED BY <1>8, <2>3, <2>4, <2>5 DEF Twins
<1>12. CASE CheckTwins(p)
  <2>1. UNCHANGED divisions /\ pc[p] = "divisionTwins"
    BY <1>12 DEF CheckTwins, At, membership
  <2>2. CASE pc'[p] = "idle"
    BY <1>8, <2>1, <2>2 DEF Rewriting, Adding
  <2>3. CASE pc'[p] # "idle"
    <3>1. /\ ~SameMembers(local[p].team, local[p].members, local[p].row)
          /\ local'[p] = local[p]
          /\ pc'[p] = IF local[p].row = NewDivision THEN "saveDivision" ELSE "divisionMembers"
      <4>1. \/ Suspend(p, "idle", Nothing)
            \/ /\ ~SameMembers(local[p].team, local[p].members, local[p].row)
               /\ Suspend(p, IF local[p].row = NewDivision THEN "saveDivision"
                             ELSE "divisionMembers", local[p])
        BY <1>12 DEF CheckTwins, Return
      <4> QED BY <1>0, <2>3, <4>1, SuspendMoves
    <3>2. \A d \in DOMAIN divisions : local[p].row = d => divisions[d].team = local[p].team
      BY <1>0, <1>5, <2>1 DEF Held, LineupCalls
    <3>3. CASE local[p].team = t /\ local[p].members = members
      <4> DEFINE holders == {q \in Requests : /\ pc'[q] \in {"divisionMembers", "saveDivision"}
                                              /\ local'[q].row # NewDivision}
                 f == [q \in Requests |-> local'[q].row]
      <4>1. /\ Adding(t, members)' \subseteq Rivals(p) /\ holders \subseteq Rivals(p)
            /\ holders \cap Adding(t, members)' = {}
        BY <1>0, Racing DEF Adding
      <4>2. Twins(t, members)' \subseteq {f[q] : q \in holders}
        <5>1. ASSUME NEW d \in Twins(t, members)'
              PROVE  \E q \in Requests : Rewriting(q, d, members)'
          <6>1. d \in DOMAIN divisions /\ divisions[d].team = t
            BY <2>1 DEF Twins
          <6>2. CASE ~divisions[d].gone /\ divisions[d].members = members
            <7>1. d = local[p].row
              BY <1>6, <3>1, <3>3, <6>1, <6>2 DEF SameMembers, LiveDivisions
            <7> QED BY <1>5, <3>1, <3>3, <6>1, <7>1 DEF Rewriting
          <6>3. CASE ~(~divisions[d].gone /\ divisions[d].members = members)
            BY <2>1, <6>3 DEF Twins
          <6> QED BY <6>2, <6>3
        <5>2. Twins(t, members)' \subseteq DOMAIN divisions
          BY <2>1 DEF Twins
        <5>3. ASSUME NEW d \in Twins(t, members)' PROVE \E q \in holders : d = f[q]
          <6>1. PICK q \in Requests : Rewriting(q, d, members)'
            BY <5>1
          <6>2. q \in holders /\ f[q] = d
            BY <1>5, <5>2, <6>1 DEF Rewriting
          <6> QED BY <6>2
        <5> QED BY <5>3
      <4>3. IsFiniteSet(Rivals(p)) /\ Cardinality(Rivals(p)) = AtMostOnce'
        BY <1>0, BoundFacts
      <4> HIDE DEF holders, f
      <4>4. Within(Twins(t, members)', Adding(t, members)', Cardinality(Rivals(p)))
        BY <4>1, <4>2, <4>3, RaceFits
      <4> QED BY <4>3, <4>4
    <3>4. CASE ~(local[p].team = t /\ local[p].members = members)
      <4>1. p \notin Adding(t, members)'
        BY <3>1, <3>4 DEF Adding
      <4>2. \A d \in DOMAIN divisions : ~(Rewriting(p, d, members)' /\ divisions[d].team = t)
        BY <3>1, <3>2, <3>4 DEF Rewriting
      <4> QED BY <1>8, <2>1, <4>1, <4>2
    <3> QED BY <3>3, <3>4
  <2> QED BY <2>2, <2>3
<1>13. CASE SaveDivision(p)
  <2>1. pc'[p] = "idle" /\ pc[p] = "saveDivision"
    BY <1>0, <1>13, AnsweringEnds DEF Answering, SaveDivision, At
  <2>2. p \notin Adding(t, members)' /\ \A d : ~Rewriting(p, d, members)'
    BY <2>1 DEF Adding, Rewriting
  <2>3. CASE UNCHANGED divisions
    BY <1>8, <2>2, <2>3
  <2>4. CASE \E n : Saved(p, n)
    <3>1. PICK n : Saved(p, n)
      BY <2>4
    <3>2. /\ divisions'[n].team = local[p].team /\ divisions'[n].members = local[p].members
          /\ DOMAIN divisions' = DOMAIN divisions \cup {n}
          /\ \A d \in DOMAIN divisions \ {n} : divisions'[d] = divisions[d]
      BY <3>1 DEF Saved
    <3>3. Twins(t, members)' \ {n} \subseteq Twins(t, members)
      BY <1>2, <2>2, <3>2 DEF Twins
    <3>4. CASE local[p].row = NewDivision /\ local[p].team = t /\ local[p].members = members
      <4>1. p \in Adding(t, members) /\ Adding(t, members)' \subseteq Adding(t, members) \ {p}
        BY <1>2, <2>1, <2>2, <3>4 DEF Adding
      <4>2. Within(Twins(t, members) \cup {n}, Adding(t, members) \ {p}, AtMostOnce')
        BY <1>1, <1>4, <4>1, LandedFits
      <4>3. Twins(t, members)' \subseteq Twins(t, members) \cup {n}
        BY <3>3
      <4> QED BY <1>1, <4>1, <4>2, <4>3, FewerFit
    <3>5. CASE local[p].row = NewDivision /\ ~(local[p].team = t /\ local[p].members = members)
      <4>1. n \notin Twins(t, members)'
        <5>1. ASSUME NEW q \in Requests, Rewriting(q, n, members)' PROVE divisions'[n].team # t
          <6>1. q # p /\ Rewriting(q, n, members)
            BY <1>2, <2>2, <5>1
          <6>2. Held(q) /\ n \notin DOMAIN divisions
            BY <3>1, <3>5 DEF TwinsInv, PeopleInv, Saved
          <6>3. n = NewDivision
            BY <6>1, <6>2 DEF Held, LineupCalls, Rewriting
          <6>4. n \in DOMAIN divisions' /\ Rows'
            BY <3>2, PeopleStep DEF TwinsInv, PeopleInv, PeopleNext, Step
          <6> QED BY <6>3, <6>4 DEF Rows, NewDivision
        <5> QED BY <3>2, <3>5, <5>1 DEF Twins
      <4> QED BY <1>7, <2>2, <3>3, <4>1
    <3>6. CASE local[p].row # NewDivision
      <4>1. n \in DOMAIN divisions /\ n = local[p].row /\ divisions[n].team = local[p].team
        BY <1>0, <2>1, <3>1, <3>6 DEF Saved, Held, LineupCalls
      <4>2. n \in Twins(t, members)' => n \in Twins(t, members)
        <5>1. CASE local[p].members = members
          <6>1. Rewriting(p, n, members)
            BY <2>1, <4>1, <5>1 DEF Rewriting
          <6> QED BY <3>2, <4>1, <6>1 DEF Twins
        <5>2. CASE local[p].members # members
          BY <1>2, <2>2, <3>2, <4>1, <5>2 DEF Twins
        <5> QED BY <5>1, <5>2
      <4> QED BY <1>7, <2>2, <3>3, <4>2
    <3> QED BY <3>4, <3>5, <3>6
  <2> QED BY <1>13, <2>3, <2>4, SavedRow DEF TwinsInv
<1>14. CASE ~ \/ CreateDivision(p) \/ UpdateDivision(p) \/ CheckMembers(p) \/ CheckTwins(p)
              \/ SaveDivision(p)
  <2>1. Dropped
    BY <1>14, DivisionWrites DEF TwinsInv
  <2>2. pc'[p] \notin {"divisionMembers", "saveDivision"}
    BY <1>0, <1>14, StepWaits, AnsweringEnds, Labels DEF Waiting
  <2>3. p \notin Adding(t, members)' /\ \A d : ~Rewriting(p, d, members)'
    BY <2>2 DEF Adding, Rewriting
  <2>4. Twins(t, members)' \subseteq Twins(t, members)
    BY <1>2, <2>1, <2>3 DEF Twins, Dropped
  <2> QED BY <1>7, <2>3, <2>4
<1> QED BY <1>9, <1>10, <1>11, <1>12, <1>13, <1>14

\* The invariant holds after every step.
LEMMA TwinsKept ==
  ASSUME TwinsInv, [PeopleNext]_peopleVars
  PROVE  TwinsInv'
<1>1. PeopleInv'
  BY PeopleStep DEF TwinsInv
<1>2. CASE UNCHANGED peopleVars
  <2>1. UNCHANGED <<pc, local, calm, divisions, users>>
    BY <1>2 DEF peopleVars, control, membership
  <2>2. Sole' /\ AtMostOnce' = AtMostOnce /\ Active' = Active
    BY <2>1 DEF TwinsInv, Sole, AtMostOnce, Active
  <2>3. \A t \in Nat, members \in SUBSET People :
          Twins(t, members)' = Twins(t, members) /\ Adding(t, members)' = Adding(t, members)
    BY <2>1 DEF Twins, Adding, Rewriting
  <2> QED BY <1>1, <2>2, <2>3 DEF TwinsInv, Within
<1>3. ASSUME NEW p \in Requests, Step(p) PROVE TwinsInv'
  <2>1. Sole'
    BY <1>3, StepTurns, StepMoves, SoleStays DEF TwinsInv, PeopleInv
  <2> QED BY <1>1, <1>3, <2>1, TwinsStep DEF TwinsInv, Within
<1> QED BY <1>2, <1>3 DEF PeopleNext, Step

\* And at the start.
LEMMA TwinsStart == PeopleInit => TwinsInv
<1> SUFFICES ASSUME PeopleInit PROVE TwinsInv
  OBVIOUS
<1>1. pc = [p \in Requests |-> "idle"] /\ divisions = <<>> /\ calm = TRUE
  BY DEF PeopleInit, HandlersInit, MembershipInit
<1>2. \A t \in Nat, members \in SUBSET People : Twins(t, members) = {} /\ Adding(t, members) = {}
  BY <1>1 DEF Twins, Adding
<1>3. Sole /\ AtMostOnce = 1
  BY <1>1 DEF Sole, AtMostOnce
<1> QED BY <1>2, <1>3, PeopleStart, NoneFit DEF TwinsInv

\* As long as no account is deleted DivisionsService keeps one division of a
\* team with the same members, and in a race no more than there are requests.
THEOREM LineupsDoNotPileUp == PeopleSpec => []LineupsDiffer
<1>1. ASSUME TwinsInv, Active = People, NEW t \in LiveTeams, NEW members \in SUBSET People
      PROVE  Cardinality({d \in LiveDivisions(t) : divisions[d].members = members}) <= AtMostOnce
  <2> DEFINE same == {d \in LiveDivisions(t) : divisions[d].members = members}
  <2>1. t \in Nat
    BY <1>1, Existing DEF TwinsInv
  <2>2. same \subseteq Twins(t, members)
    BY DEF LiveDivisions, Twins
  <2>3. Within(Twins(t, members), Adding(t, members), AtMostOnce)
    BY <1>1, <2>1 DEF TwinsInv
  <2> HIDE DEF same
  <2>4. Within(same, Adding(t, members), AtMostOnce)
    BY <2>2, <2>3, BoundIsNat, FewerFit
  <2>5. Cardinality(same) <= AtMostOnce
    BY <2>4, BoundIsNat, RowsFit
  <2> QED BY <2>5 DEF same
<1>2. TwinsInv => LineupsDiffer
  BY <1>1 DEF LineupsDiffer
<1> QED BY <1>2, TwinsStart, TwinsKept, PTL DEF PeopleSpec
=============================================================================
