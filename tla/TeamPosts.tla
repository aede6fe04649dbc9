----------------------------- MODULE TeamPosts ------------------------------
(***************************************************************************)
(* One post on a team's board, its reactions and the sockets it is pushed  *)
(* to: PostsService and TeamPostsGateway, whose handling of connections is *)
(* that of GamesGateway too. A gateway keeps one socket per user. Nobody   *)
(* waits for a push: a request still counts as in flight until its push    *)
(* has loaded the team and is emitted.                                     *)
(***************************************************************************)
EXTENDS Handlers, Functions

CONSTANTS
  Board,      \* the members of the team
  Sockets,    \* the sockets of a user, numbered
  Texts,      \* what a post may say
  Reactions   \* reaction types

NoPost == 0
Gone == -1

ASSUME TeamPostsAssumption == Texts \subseteq Nat \ {NoPost} /\ Sockets \subseteq Nat

VARIABLES
  post,              \* the text of the post, NoPost before it is made, Gone after
  overdue,           \* its due date is over
  reactions,         \* the reaction of each user who has reacted
  open,              \* the sockets connected, as <<user, socket>>
  connectedClients,  \* the socket the gateway has for a user
  seen,              \* history: the post last pushed to each socket
  doubled            \* history: the users who have had two sockets at once

wall == <<post, overdue, reactions>>
wires == <<open, connectedClients, doubled, seen>>
board == <<wall, wires>>

\* A post as clients get to see it.
Counts == [r \in Reactions |-> Cardinality({u \in DOMAIN reactions : reactions[u] = r})]
View(text, counts) == IF text = Gone THEN [text |-> Gone] ELSE [text |-> text, counts |-> counts]
Unseen == [text |-> NoPost]

TeamPostsInit ==
  /\ post = NoPost
  /\ overdue = FALSE
  /\ reactions = [u \in {} |-> 0]
  /\ open = {}
  /\ connectedClients = [u \in {} |-> 0]
  /\ seen = [link \in Board \X Sockets |-> Unseen]
  /\ doubled = {}

-----------------------------------------------------------------------------
(* Sockets.                                                                *)

SocketsOf(u) == {link \in open : link[1] = u}

HandleConnection ==
  /\ "connect" \in ops
  /\ \E u \in Board, s \in Sockets :
       /\ <<u, s>> \notin open /\ \A t \in Sockets : t < s => <<u, t>> \in open
       /\ SocketsOf(u) = {} \/ "connectTwice" \in ops
       /\ open' = open \cup {<<u, s>>}
       /\ connectedClients' = [v \in DOMAIN connectedClients \cup {u} |->
                                 IF v = u THEN s ELSE connectedClients[v]]
       /\ doubled' = IF SocketsOf(u) = {} THEN doubled ELSE doubled \cup {u}
  /\ UNCHANGED <<control, wall, seen>>

\* Mutant: the gateway keeps a socket that has disconnected.
HandleDisconnectKeeping ==
  /\ \E link \in open :
       /\ open' = open \ {link}
       /\ seen' = [seen EXCEPT ![link] = Unseen]
  /\ UNCHANGED <<control, wall, connectedClients, doubled>>

\* The user's entry goes, whichever socket it was.
HandleDisconnect ==
  /\ \E link \in open :
       /\ open' = open \ {link}
       /\ connectedClients' = Restrict(connectedClients, DOMAIN connectedClients \ {link[1]})
       /\ seen' = [seen EXCEPT ![link] = Unseen]
  /\ UNCHANGED <<control, wall, doubled>>

\* sendPostToTeamMembers, once the team is loaded.
Push(p) ==
  /\ At(p, "push")
  /\ seen' = [link \in Board \X Sockets |->
                IF link[1] \in DOMAIN connectedClients /\ connectedClients[link[1]] = link[2]
                THEN View(local[p].text, local[p].counts) ELSE seen[link]]
  /\ Return(p)
  /\ UNCHANGED <<wall, open, connectedClients, doubled>>

-----------------------------------------------------------------------------
(* The post.                                                               *)

Payload(op) == [op |-> op, text |-> post, counts |-> Counts, by |-> "nobody", found |-> FALSE]

CreatePost(p) ==
  /\ Arrive(p, "createPost") /\ post = NoPost /\ Underway("createPost") = 0
  /\ \E text \in Texts : Suspend(p, "savePost", [Payload("createPost") EXCEPT !.text = text])
  /\ UNCHANGED board

UpdatePost(p) ==
  /\ Arrive(p, "updatePost") /\ post \notin {NoPost, Gone}
  /\ \E text \in Texts : Suspend(p, "savePost", [Payload("updatePost") EXCEPT !.text = text])
  /\ UNCHANGED board

\* A post deleted since it was read is inserted again. A new due date may be
\* over already.
SavePost(p) ==
  /\ At(p, "savePost")
  /\ post' = local[p].text
  /\ overdue' \in IF local[p].op = "updatePost" THEN BOOLEAN ELSE {FALSE}
  /\ Suspend(p, "counts", local[p])
  /\ UNCHANGED <<reactions, wires>>

RemovePost(p) ==
  /\ Arrive(p, "removePost") /\ post \notin {NoPost, Gone}
  /\ Suspend(p, "deletePost", [Payload("removePost") EXCEPT !.text = Gone])
  /\ UNCHANGED board

\* Its reactions go with it.
DeletePost(p) ==
  /\ At(p, "deletePost")
  /\ post' = Gone
  /\ reactions' = [u \in {} |-> 0]
  /\ Suspend(p, "push", local[p])
  /\ UNCHANGED <<overdue, wires>>

DueDatePasses ==
  /\ "react" \in ops /\ ~overdue
  /\ overdue' = TRUE
  /\ UNCHANGED <<control, post, reactions, wires>>

\* getReactionCountsForPostIds
CountReactions(p) ==
  /\ At(p, "counts")
  /\ Suspend(p, IF local[p].op = "unreact" THEN "rereadPost" ELSE "push",
             [local[p] EXCEPT !.counts = Counts])
  /\ UNCHANGED board

-----------------------------------------------------------------------------
(* Reactions.                                                              *)

SetReaction(p) ==
  /\ Arrive(p, "react") /\ post \notin {NoPost, Gone}
  /\ \E u \in Board : Suspend(p, "findReaction", [Payload("react") EXCEPT !.by = u])
  /\ UNCHANGED board

FindReaction(p) ==
  /\ At(p, "findReaction")
  /\ Suspend(p, "saveReaction", [local[p] EXCEPT !.found = local[p].by \in DOMAIN reactions])
  /\ UNCHANGED board

\* One found is updated, or inserted again; a new one that another request
\* inserted first is refused, and so is any for a post that is gone.
SaveReaction(p) ==
  /\ At(p, "saveReaction")
  /\ LET u == local[p].by IN
       \/ /\ post # Gone
          /\ local[p].found \/ u \notin DOMAIN reactions
          /\ \E r \in Reactions :
               reactions' = [v \in DOMAIN reactions \cup {u} |-> IF v = u THEN r ELSE reactions[v]]
          /\ Suspend(p, "findPost", local[p])
       \/ /\ post = Gone \/ (~local[p].found /\ u \in DOMAIN reactions)
          /\ Return(p)
          /\ UNCHANGED reactions
  /\ UNCHANGED <<post, overdue, wires>>

\* findOne answers 404 for an overdue post, though the reaction is saved.
FindPost(p) ==
  /\ At(p, "findPost")
  /\ IF post = Gone \/ overdue THEN Return(p)
     ELSE Suspend(p, "counts", [local[p] EXCEPT !.text = post])
  /\ UNCHANGED board

RemoveReaction(p) ==
  /\ Arrive(p, "unreact") /\ post \notin {NoPost, Gone}
  /\ \E u \in Board : Suspend(p, "deleteReaction", [Payload("unreact") EXCEPT !.by = u])
  /\ UNCHANGED board

\* Mutant: what is pushed was counted before the reaction is deleted.
DeleteReactionUncounted(p) ==
  /\ At(p, "deleteReaction")
  /\ reactions' = Restrict(reactions, DOMAIN reactions \ {local[p].by})
  /\ Suspend(p, "rereadPost", local[p])
  /\ UNCHANGED <<post, overdue, wires>>

DeleteReaction(p) ==
  /\ At(p, "deleteReaction")
  /\ reactions' = Restrict(reactions, DOMAIN reactions \ {local[p].by})
  /\ Suspend(p, "counts", local[p])
  /\ UNCHANGED <<post, overdue, wires>>

\* Counted first, the post read after.
RereadPost(p) ==
  /\ At(p, "rereadPost")
  /\ IF post = Gone THEN Return(p) ELSE Suspend(p, "push", [local[p] EXCEPT !.text = post])
  /\ UNCHANGED board

TeamPostsNext(p) ==
  \/ Push(p) \/ CreatePost(p) \/ UpdatePost(p) \/ SavePost(p) \/ RemovePost(p) \/ DeletePost(p)
  \/ CountReactions(p) \/ SetReaction(p) \/ FindReaction(p) \/ SaveReaction(p) \/ FindPost(p)
  \/ RemoveReaction(p) \/ DeleteReaction(p) \/ RereadPost(p)

-----------------------------------------------------------------------------
(* Properties.                                                             *)

\* The gateway never pushes to a socket that is closed, and reaches every user
\* who is connected and has never had two sockets at once. (Of two sockets the
\* older one is not reached, nor the newer once the older closes.)
Reachable ==
  /\ \A u \in DOMAIN connectedClients : <<u, connectedClients[u]>> \in open
  /\ \A link \in open : link[1] \notin doubled =>
       link[1] \in DOMAIN connectedClients /\ connectedClients[link[1]] = link[2]

\* While requests, pushes included, come one at a time, the post last pushed to
\* a user the gateway reaches is the post as it is, unless it is overdue.
BoardCurrent ==
  calm /\ ~overdue /\ (\A p \in Requests : pc[p] = "idle")
    => \A u \in DOMAIN connectedClients :
         seen[<<u, connectedClients[u]>>] \in {Unseen, View(post, Counts)}
=============================================================================
