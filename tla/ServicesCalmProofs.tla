------------------------- MODULE ServicesCalmProofs -------------------------
(***************************************************************************)
(* What the services keep up as long as requests come one at a time: a     *)
(* refresh token is exchanged once, no page is older than what is owed to  *)
(* its user, the bucket holds the row's picture and no other, and the      *)
(* sockets show the post as it is. Nobody promises this in one step: every *)
(* invariant follows a request from await to await, and says what the      *)
(* steps behind it have done and what those before it still owe. The       *)
(* requests of one service leave those of another alone, though tokens and *)
(* pages share Redis; time, the expiry of pages and the sockets are        *)
(* nobody's request and may come in between. Of the pages there is a       *)
(* theorem for requests that overlap, too: no page survives the drop of    *)
(* what was in Redis before the write.                                     *)
(***************************************************************************)
EXTENDS ServicesProofs

\* A step of the request p.
Step(p) ==
  \/ RefreshTokensNext(p) /\ UNCHANGED <<pages, filing, board>>
  \/ PageCacheNext(p) /\ UNCHANGED <<tokens, filing, board>>
  \/ FilesNext(p) /\ UNCHANGED <<redis, tokens, pages, board>>
  \/ TeamPostsNext(p) /\ UNCHANGED <<redis, tokens, pages, filing>>

\* A step of nobody's request: time, Redis and the sockets.
Outside ==
  \/ Tick /\ UNCHANGED <<pages, filing, board>>
  \/ (\E key \in PageKeys : Expire(key)) /\ UNCHANGED <<tokens, filing, board>>
  \/ (HandleConnection \/ HandleDisconnect \/ DueDatePasses)
       /\ UNCHANGED <<redis, tokens, pages, filing>>

\* As long as requests come one at a time, only one of them is being handled.
Sole == calm => \A p, q \in Requests : pc[p] # "idle" /\ pc[q] # "idle" => p = q

\* A request comes in, or the one under way goes on.
Turn(p) ==
  \/ pc[p] = "idle" /\ calm' = (calm /\ \A q \in Requests : pc[q] = "idle")
  \/ pc[p] # "idle" /\ calm' = calm

\* Only the request p moves.
Moved(p) ==
  Slots' /\ \A q \in Requests \ {p} : pc'[q] = pc[q] /\ local'[q] = local[q]

\* The awaits of each service.
TokenLabels == {"register", "sign", "storeToken", "verifyToken", "revokeToken", "revokeAll",
                "revoking", "deleteUser"}
PageLabels == {"query", "setPage", "writeEnd", "reread", "writeClose", "writeCancel", "removeSave",
               "removeDelete", "joinEvent", "updateEvent", "leaveEvent", "deleteEvent", "drop",
               "dropping"}
FileLabels == {"put", "readRow", "deleteOld", "write"}
PostLabels == {"savePost", "counts", "push", "deletePost", "findReaction", "saveReaction",
               "findPost", "deleteReaction", "rereadPost"}

\* A step of p within one service.
Between(p, labels) ==
  Moved(p) /\ Turn(p) /\ pc[p] \in labels \cup {"idle"} /\ pc'[p] \in labels \cup {"idle"}

\* Waiting moves the request that waits and no other.
LEMMA SuspendMoves ==
  ASSUME Slots, NEW p \in Requests, NEW label, NEW held, Suspend(p, label, held)
  PROVE  Moved(p) /\ pc'[p] = label /\ local'[p] = held
BY DEF Slots, Moved, Suspend

\* So does answering.
LEMMA ReturnMoves ==
  ASSUME Slots, NEW p \in Requests, Return(p)
  PROVE  Moved(p) /\ pc'[p] = "idle"
BY SuspendMoves DEF Return

\* A call that never waits moves nobody.
LEMMA AtOnceMoves ==
  ASSUME Slots, NEW p \in Requests, AtOnce
  PROVE  Moved(p) /\ pc'[p] = pc[p] /\ local'[p] = local[p]
BY DEF Slots, Moved, AtOnce

\* A call comes in at an idle slot, and goes on from the await it stands at.
LEMMA TurnOf ==
  ASSUME NEW p
  PROVE  /\ \A op : Arrive(p, op) => Turn(p) /\ pc[p] = "idle"
         /\ \A label : label # "idle" /\ At(p, label) => Turn(p) /\ pc[p] = label
BY DEF Arrive, At, Turn

\* Steps of the account and its tokens stay among the awaits of tokens.
LEMMA TokenSteps ==
  ASSUME Slots, NEW p \in Requests, RefreshTokensNext(p)
  PROVE  Between(p, TokenLabels)
<1> USE SuspendMoves, ReturnMoves, AtOnceMoves, TurnOf DEF Between, TokenLabels
<1>1. CASE Login(p)
  BY <1>1 DEF Login
<1>2. CASE RegisterUser(p)
  BY <1>2 DEF RegisterUser
<1>3. CASE GenerateTokens(p)
  BY <1>3 DEF GenerateTokens
<1>4. CASE StoreRefreshToken(p)
  BY <1>4 DEF StoreRefreshToken
<1>5. CASE RefreshTokens(p)
  BY <1>5 DEF RefreshTokens
<1>6. CASE VerifyRefreshToken(p)
  BY <1>6 DEF VerifyRefreshToken
<1>7. CASE RevokeRefreshToken(p)
  BY <1>7 DEF RevokeRefreshToken
<1>8. CASE Logout(p)
  BY <1>8 DEF Logout
<1>9. CASE RemoveUser(p)
  BY <1>9 DEF RemoveUser
<1>10. CASE RevokeAll(p)
  BY <1>10 DEF RevokeAll
<1>11. CASE Revoking(p)
  BY <1>11 DEF Revoking
<1>12. CASE Revoked(p)
  BY <1>12 DEF Revoked
<1>13. CASE DeleteUser(p)
  BY <1>13 DEF DeleteUser
<1> QED BY <1>1, <1>2, <1>3, <1>4, <1>5, <1>6, <1>7, <1>8, <1>9, <1>10, <1>11, <1>12, <1>13
        DEF RefreshTokensNext

\* Steps of the page cache stay among those of pages.
LEMMA PageSteps ==
  ASSUME Slots, NEW p \in Requests, PageCacheNext(p)
  PROVE  Between(p, PageLabels)
<1> USE SuspendMoves, ReturnMoves, AtOnceMoves, TurnOf DEF Between, PageLabels
<1>1. CASE ReadPage(p)
  BY <1>1 DEF ReadPage
<1>2. CASE QueryPage(p)
  BY <1>2 DEF QueryPage
<1>3. CASE SetPage(p)
  BY <1>3 DEF SetPage
<1>4. CASE EndGame(p)
  BY <1>4 DEF EndGame
<1>5. CASE WriteEnd(p)
  BY <1>5 DEF WriteEnd
<1>6. CASE CancelGame(p)
  BY <1>6 DEF CancelGame
<1>7. CASE WriteCancel(p)
  BY <1>7 DEF WriteCancel
<1>8. CASE UpdateGame(p)
  BY <1>8 DEF UpdateGame
<1>9. CASE CreateEvent(p)
  BY <1>9 DEF CreateEvent
<1>10. CASE ReadEvent(p)
  BY <1>10 DEF ReadEvent
<1>11. CASE JoinEvent(p)
  BY <1>11 DEF JoinEvent, SaveEvent
<1>12. CASE UpdateEvent(p)
  BY <1>12 DEF UpdateEvent, SaveEvent
<1>13. CASE LeaveEvent(p)
  BY <1>13 DEF LeaveEvent, SaveEvent
<1>14. CASE DeleteEvent(p)
  BY <1>14 DEF DeleteEvent
<1>15. CASE DropPages(p)
  BY <1>15 DEF DropPages
<1>16. CASE DroppingPages(p)
  BY <1>16 DEF DroppingPages
<1>17. CASE PagesDropped(p)
  BY <1>17 DEF PagesDropped
<1>18. CASE CreateGame(p)
  BY <1>18 DEF CreateGame
<1>19. CASE Reread(p)
  BY <1>19 DEF Reread
<1>20. CASE FindStaleGame(p)
  BY <1>20 DEF FindStaleGame
<1>21. CASE WriteClose(p)
  BY <1>21 DEF WriteClose
<1>22. CASE MovePlayer(p)
  BY <1>22 DEF MovePlayer
<1>23. CASE RemoveGame(p)
  BY <1>23 DEF RemoveGame
<1>24. CASE RemoveSave(p)
  BY <1>24 DEF RemoveSave
<1>25. CASE RemoveDelete(p)
  BY <1>25 DEF RemoveDelete
<1> QED BY <1>1, <1>2, <1>3, <1>4, <1>5, <1>6, <1>7, <1>8, <1>9, <1>10, <1>11, <1>12, <1>13,
           <1>14, <1>15, <1>16, <1>17, <1>18, <1>19, <1>20, <1>21, <1>22, <1>23, <1>24, <1>25
        DEF PageCacheNext

\* Uploads stay among those of files.
LEMMA FileSteps ==
  ASSUME Slots, NEW p \in Requests, FilesNext(p)
  PROVE  Between(p, FileLabels)
<1> USE SuspendMoves, ReturnMoves, TurnOf DEF Between, FileLabels
<1>1. CASE FirstPicture(p)
  BY <1>1 DEF FirstPicture
<1>2. CASE UploadAvatar(p)
  BY <1>2 DEF UploadAvatar
<1>3. CASE UploadSocialPhoto(p)
  BY <1>3 DEF UploadSocialPhoto
<1>4. CASE UploadEventImage(p)
  BY <1>4 DEF UploadEventImage
<1>5. CASE DeleteEventImage(p)
  BY <1>5 DEF DeleteEventImage
<1>6. CASE SaveWholeEvent(p)
  BY <1>6 DEF SaveWholeEvent
<1>7. CASE PutFile(p)
  BY <1>7 DEF PutFile
<1>8. CASE ReadRow(p)
  BY <1>8 DEF ReadRow
<1>9. CASE DeleteFile(p)
  BY <1>9 DEF DeleteFile
<1>10. CASE WriteRow(p)
  BY <1>10 DEF WriteRow
<1>11. CASE UploadFails(p)
  BY <1>11 DEF UploadFails, Broken, Turn
<1> QED BY <1>1, <1>2, <1>3, <1>4, <1>5, <1>6, <1>7, <1>8, <1>9, <1>10, <1>11 DEF FilesNext

\* And requests about the post among those of posts.
LEMMA PostSteps ==
  ASSUME Slots, NEW p \in Requests, TeamPostsNext(p)
  PROVE  Between(p, PostLabels)
<1> USE SuspendMoves, ReturnMoves, TurnOf DEF Between, PostLabels
<1>1. CASE Push(p)
  BY <1>1 DEF Push
<1>2. CASE CreatePost(p)
  BY <1>2 DEF CreatePost
<1>3. CASE UpdatePost(p)
  BY <1>3 DEF UpdatePost
<1>4. CASE SavePost(p)
  BY <1>4 DEF SavePost
<1>5. CASE RemovePost(p)
  BY <1>5 DEF RemovePost
<1>6. CASE DeletePost(p)
  BY <1>6 DEF DeletePost
<1>7. CASE CountReactions(p)
  BY <1>7 DEF CountReactions
<1>8. CASE SetReaction(p)
  BY <1>8 DEF SetReaction
<1>9. CASE FindReaction(p)
  BY <1>9 DEF FindReaction
<1>10. CASE SaveReaction(p)
  BY <1>10 DEF SaveReaction
<1>11. CASE FindPost(p)
  BY <1>11 DEF FindPost
<1>12. CASE RemoveReaction(p)
  BY <1>12 DEF RemoveReaction
<1>13. CASE DeleteReaction(p)
  BY <1>13 DEF DeleteReaction
<1>14. CASE RereadPost(p)
  BY <1>14 DEF RereadPost
<1> QED BY <1>1, <1>2, <1>3, <1>4, <1>5, <1>6, <1>7, <1>8, <1>9, <1>10, <1>11, <1>12, <1>13,
           <1>14 DEF TeamPostsNext

\* Whatever the service, a step of p is p's turn and moves nobody else.
LEMMA StepMoves ==
  ASSUME Slots, NEW p \in Requests, Step(p)
  PROVE  Moved(p) /\ Turn(p)
BY TokenSteps, PageSteps, FileSteps, PostSteps DEF Step, Between

\* In a calm behaviour nobody else is under way while p moves.
Only(p) == calm /\ \A q \in Requests \ {p} : pc[q] = "idle" /\ pc'[q] = "idle"

\* When it is p's turn and the calm lasts, p is the only one under way.
LEMMA Alone ==
  ASSUME Sole, NEW p \in Requests, Turn(p), Moved(p), calm'
  PROVE  Only(p)
BY DEF Sole, Turn, Moved, Only

\* One request at a time stays one request at a time.
LEMMA SoleStays ==
  ASSUME Sole, NEW p \in Requests, Turn(p), Moved(p)
  PROVE  Sole'
<1>1. SUFFICES ASSUME calm' PROVE \A q \in Requests \ {p} : pc'[q] = "idle"
  BY DEF Sole
<1> QED BY <1>1, Alone DEF Only

\* Whoever stands at an await of one service is not in another.
LEMMA LabelsApart ==
  /\ "idle" \notin TokenLabels \cup PageLabels \cup FileLabels \cup PostLabels
  /\ TokenLabels \cap (PageLabels \cup FileLabels \cup PostLabels) = {}
  /\ PageLabels \cap (FileLabels \cup PostLabels) = {}
  /\ FileLabels \cap PostLabels = {}
BY DEF TokenLabels, PageLabels, FileLabels, PostLabels

\* Requests at these awaits are as they were.
Away(labels) ==
  \A q \in Requests :
    pc[q] \in labels \/ pc'[q] \in labels => pc'[q] = pc[q] /\ local'[q] = local[q]

\* A step within one service is away from the awaits of the others.
LEMMA ElsewhereAway ==
  ASSUME NEW p \in Requests, NEW here, NEW labels, Between(p, here),
         "idle" \notin labels, here \cap labels = {}
  PROVE  Away(labels)
BY DEF Between, Moved, Away

\* So is a step that leaves all requests as they are.
LEMMA ControlAway ==
  ASSUME UNCHANGED control, NEW labels
  PROVE  Away(labels) /\ calm' = calm
BY DEF control, Away

(***************************************************************************)
(* Tokens. In a calm behaviour a token that was exchanged in a later       *)
(* second is not in Redis any more, and no request is about to sign, store *)
(* or exchange it.                                                         *)
(***************************************************************************)

\* A token exchanged in a later second is not in Redis.
TokensFit ==
  /\ now \in Seconds /\ issued \subseteq 0..now
  /\ exchanged \in [Seconds -> {0, 1}]
  /\ \A token \in Seconds : exchanged[token] = 1 => token < now /\ token \notin Live

\* A token about to be stored is not exchanged yet; one about to be exchanged is
\* in Redis.
TokenHeld(p) ==
  LET token == local[p].token IN
  /\ pc[p] = "storeToken" => token \in 0..now /\ exchanged[token] = 0
  /\ pc[p] = "verifyToken" => token \in 0..now
  /\ pc[p] = "revokeToken" => token \in 0..now /\ token \in Live

\* The inductive invariant of the tokens.
TokensCalm == calm => TokensFit /\ \A p \in Requests : TokenHeld(p)

\* Steps elsewhere leave the tokens in Redis alone, but for those that delete.
LEMMA TokensStay ==
  ASSUME TokensCalm, calm' => calm, Away(TokenLabels), UNCHANGED tokens, Live' = Live
  PROVE  TokensCalm'
<1> SUFFICES ASSUME calm'
             PROVE  TokensFit' /\ \A q \in Requests : TokenHeld(q)'
  BY DEF TokensCalm
<1>1. TokensFit'
  BY DEF TokensCalm, TokensFit, tokens, Seconds
<1>2. ASSUME NEW q \in Requests
      PROVE  TokenHeld(q)'
  <2>1. CASE pc'[q] \in TokenLabels
    <3>1. pc'[q] = pc[q] /\ local'[q] = local[q] /\ TokenHeld(q)
      BY <2>1 DEF Away, TokensCalm
    <3> QED BY <3>1 DEF TokenHeld, tokens
  <2>2. CASE pc'[q] \notin TokenLabels
    BY <2>2 DEF TokenHeld, TokenLabels
  <2> QED BY <2>1, <2>2
<1> QED BY <1>1, <1>2

\* The clock only moves away from the tokens that are held.
LEMMA TickKeepsTokens ==
  ASSUME TokensCalm, Tick
  PROVE  TokensCalm'
<1> SUFFICES ASSUME calm'
             PROVE  TokensFit' /\ \A q \in Requests : TokenHeld(q)'
  BY DEF TokensCalm
<1>1. calm /\ now < MaxSeconds /\ now' = now + 1 /\ UNCHANGED <<pc, local, issued, exchanged>>
      /\ Live' = Live
  BY DEF Tick, control, redis, Live, Cached
<1>2. now \in Seconds /\ now' \in Seconds /\ 0..now \subseteq 0..now'
  BY <1>1, RefreshTokensAssumption DEF TokensCalm, TokensFit, Seconds
<1>3. TokensFit'
  BY <1>1, <1>2 DEF TokensCalm, TokensFit, Seconds
<1>4. ASSUME NEW q \in Requests PROVE TokenHeld(q)'
  BY <1>1, <1>2 DEF TokensCalm, TokenHeld
<1> QED BY <1>3, <1>4

\* What a step of p gives when nobody else is under way.
LEMMA TokensKept ==
  ASSUME NEW p \in Requests, Slots, Sole, Moved(p), Turn(p),
         calm' => TokensFit' /\ TokenHeld(p)'
  PROVE  TokensCalm'
<1> SUFFICES ASSUME calm', NEW q \in Requests, q # p
             PROVE  TokenHeld(q)'
  BY DEF TokensCalm
<1>1. pc'[q] = "idle"
  BY Alone DEF Only
<1> QED BY <1>1 DEF TokenHeld

\* Steps that write neither tokens nor Redis: what p holds is the question.
LEMMA TokensFitStay ==
  ASSUME TokensCalm, calm, UNCHANGED <<redis, now, issued, exchanged>>
  PROVE  TokensFit' /\ Live' = Live
<1>1. Live' = Live
  BY DEF redis, Live, Cached
<1> QED BY <1>1 DEF TokensCalm, TokensFit, Seconds

\* A token is taken from Redis in the step that exchanges it.
LEMMA ExchangeKeeps ==
  ASSUME TokensCalm, Slots, NEW p \in Requests, RevokeRefreshToken(p), calm
  PROVE  TokensFit' /\ TokenHeld(p)'
<1> DEFINE token == local[p].token
<1>1. /\ pc[p] = "revokeToken" /\ pc'[p] = "sign" /\ now' = now /\ issued' = issued
      /\ Forget({Key(token)})
      /\ exchanged' = IF token = now THEN exchanged ELSE [exchanged EXCEPT ![token] = @ + 1]
  BY DEF RevokeRefreshToken, At, Suspend, Slots
<1>2. TokenHeld(p) /\ TokensFit
  BY DEF TokensCalm
<1>3. token \in 0..now /\ token \in Live /\ now \in Seconds
  BY <1>1, <1>2 DEF TokenHeld, TokensFit
<1>4. exchanged \in [Seconds -> {0, 1}] /\ token \in Seconds /\ exchanged[token] = 0
  BY <1>2, <1>3, RefreshTokensAssumption DEF TokensFit, Seconds
<1>5. Live' = Live \ {token}
  BY <1>1, <1>3, LiveForget, KeysDiffer
<1>6. CASE token = now
  <2>1. exchanged' = exchanged
    BY <1>1, <1>6
  <2>2. TokensFit'
    BY <1>1, <1>2, <1>5, <2>1 DEF TokensFit, Seconds
  <2> QED BY <1>1, <2>2 DEF TokenHeld
<1>7. CASE token # now
  <2>1. exchanged' = [exchanged EXCEPT ![token] = 1]
    BY <1>1, <1>4, <1>7
  <2>2. exchanged' \in [Seconds -> {0, 1}]
    BY <1>4, <2>1
  <2>3. token < now
    BY <1>3, <1>7, RefreshTokensAssumption DEF Seconds
  <2>4. \A t \in Seconds : exchanged'[t] = 1 => t < now' /\ t \notin Live'
    BY <1>1, <1>2, <1>4, <1>5, <2>1, <2>3 DEF TokensFit
  <2>5. TokensFit'
    BY <1>1, <1>2, <2>2, <2>4 DEF TokensFit, Seconds
  <2> QED BY <1>1, <2>5 DEF TokenHeld
<1> QED BY <1>6, <1>7

\* What is stored has not been exchanged.
LEMMA StoringKeeps ==
  ASSUME TokensCalm, Slots, NEW p \in Requests, StoreRefreshToken(p), calm
  PROVE  TokensFit' /\ TokenHeld(p)'
<1> DEFINE token == local[p].token
<1>1. /\ pc[p] = "storeToken" /\ pc'[p] = "idle" /\ now' = now /\ issued' = issued \cup {token}
      /\ Store(Key(token), account) /\ exchanged' = exchanged
  BY DEF StoreRefreshToken, At, Suspend, Return, Slots
<1>2. TokenHeld(p) /\ TokensFit
  BY DEF TokensCalm
<1>3. token \in 0..now /\ exchanged[token] = 0
  BY <1>1, <1>2 DEF TokenHeld
<1>4. \A t \in Live' : t \in Live \/ t = token
  BY <1>1, LiveStore, KeysDiffer
<1>5. \A t \in Seconds : exchanged'[t] = 1 => t < now' /\ t \notin Live'
  BY <1>1, <1>2, <1>3, <1>4 DEF TokensFit
<1>6. TokensFit'
  BY <1>1, <1>2, <1>3, <1>5 DEF TokensFit, Seconds
<1> QED BY <1>1, <1>6 DEF TokenHeld

\* Every step of the account and its tokens keeps the invariant.
LEMMA TokensStep ==
  ASSUME TokensCalm, Slots, Sole, NEW p \in Requests, RefreshTokensNext(p)
  PROVE  TokensCalm'
<1>1. Moved(p) /\ Turn(p)
  BY TokenSteps DEF Between
<1>2. SUFFICES ASSUME calm' PROVE TokensFit' /\ TokenHeld(p)'
  BY <1>1, TokensKept
<1>3. calm
  BY <1>1, <1>2 DEF Turn
<1>4. TokensFit /\ TokenHeld(p)
  BY <1>3 DEF TokensCalm
<1>5. CASE Login(p)
  <2>1. pc'[p] \in {"sign", "register"} /\ UNCHANGED <<redis, tokens>>
    BY <1>5 DEF Login, Suspend, Slots
  <2> QED BY <1>3, <2>1, TokensFitStay DEF TokenHeld, tokens
<1>6. CASE RegisterUser(p)
  <2>1. pc'[p] \in {"sign", "idle"} /\ UNCHANGED <<redis, now, issued, exchanged>>
    BY <1>6 DEF RegisterUser, Suspend, Return, Slots
  <2> QED BY <1>3, <2>1, TokensFitStay DEF TokenHeld
<1>7. CASE GenerateTokens(p)
  <2>1. /\ pc'[p] = "storeToken" /\ UNCHANGED <<redis, tokens>>
        /\ local'[p] = [op |-> local[p].op, token |-> now]
    BY <1>7 DEF GenerateTokens, Suspend, Slots
  <2>2. local'[p].token = now
    BY <2>1
  <2>3. now \in Seconds /\ exchanged[now] = 0
    BY <1>4, RefreshTokensAssumption DEF TokensFit, Seconds
  <2>4. TokenHeld(p)'
    BY <2>1, <2>2, <2>3, RefreshTokensAssumption DEF TokenHeld, tokens, Seconds
  <2> QED BY <1>3, <2>1, <2>4, TokensFitStay DEF tokens
<1>8. CASE StoreRefreshToken(p)
  BY <1>3, <1>8, StoringKeeps
<1>9. CASE RefreshTokens(p)
  <2>1. PICK token \in issued : Suspend(p, "verifyToken", [op |-> "refresh", token |-> token])
    BY <1>9 DEF RefreshTokens
  <2>2. /\ pc'[p] = "verifyToken" /\ UNCHANGED <<redis, tokens>>
        /\ local'[p] = [op |-> "refresh", token |-> token]
    BY <1>9, <2>1 DEF RefreshTokens, Suspend, Slots
  <2>3. local'[p].token \in 0..now
    BY <1>4, <2>2 DEF TokensFit
  <2>4. TokenHeld(p)'
    BY <2>2, <2>3 DEF TokenHeld, tokens
  <2> QED BY <1>3, <2>2, <2>4, TokensFitStay DEF tokens
<1>10. CASE VerifyRefreshToken(p)
  <2>1. /\ pc[p] = "verifyToken" /\ local'[p] = local[p] /\ UNCHANGED <<redis, tokens>>
        /\ pc'[p] = IF local[p].token \in Live THEN "revokeToken" ELSE "revokeAll"
    BY <1>10 DEF VerifyRefreshToken, At, Suspend, Slots
  <2>2. TokensFit' /\ Live' = Live
    BY <1>3, <2>1, TokensFitStay DEF tokens
  <2>3. TokenHeld(p)'
    BY <1>4, <2>1, <2>2 DEF TokenHeld, tokens
  <2> QED BY <2>2, <2>3
<1>11. CASE RevokeRefreshToken(p)
  BY <1>3, <1>11, ExchangeKeeps
<1>12. CASE Logout(p) \/ RemoveUser(p)
  <2>1. pc'[p] = "revokeAll" /\ UNCHANGED <<redis, tokens>>
    BY <1>12 DEF Logout, RemoveUser, Suspend, Slots
  <2> QED BY <1>3, <2>1, TokensFitStay DEF TokenHeld, tokens
<1>13. CASE RevokeAll(p)
  <2>1. pc'[p] = "revoking" /\ cache' = cache /\ UNCHANGED <<now, issued, exchanged>>
    BY <1>13 DEF RevokeAll, BeginScan, Suspend, Slots
  <2>2. Live' = Live
    BY <2>1 DEF Live, Cached
  <2>3. TokensFit'
    BY <1>4, <2>1, <2>2 DEF TokensFit, Seconds
  <2> QED BY <2>1, <2>3 DEF TokenHeld
<1>14. CASE Revoking(p)
  <2>1. PICK key : Forget({key})
    BY <1>14 DEF Revoking, ScanDeletes
  <2>2. pc[p] = "revoking" /\ pc'[p] = pc[p] /\ UNCHANGED tokens
    BY <1>14 DEF Revoking, At, AtOnce
  <2>3. Live' \subseteq Live
    BY <2>1, LiveForget
  <2>4. TokensFit'
    BY <1>4, <2>2, <2>3 DEF TokensFit, tokens, Seconds
  <2> QED BY <2>2, <2>4 DEF TokenHeld
<1>15. CASE Revoked(p)
  <2>1. pc'[p] \in {"deleteUser", "idle"} /\ UNCHANGED <<redis, now, issued, exchanged>>
    BY <1>15 DEF Revoked, ScanDone, Suspend, Return, Slots
  <2> QED BY <1>3, <2>1, TokensFitStay DEF TokenHeld
<1>16. CASE DeleteUser(p)
  <2>1. pc'[p] = "idle" /\ UNCHANGED <<redis, now, issued, exchanged>>
    BY <1>16 DEF DeleteUser, Suspend, Return, Slots
  <2> QED BY <1>3, <2>1, TokensFitStay DEF TokenHeld
<1> QED BY <1>5, <1>6, <1>7, <1>8, <1>9, <1>10, <1>11, <1>12, <1>13, <1>14, <1>15, <1>16
        DEF RefreshTokensNext

\* The page cache never writes the key of a token.
LEMMA PagesLeaveTokens ==
  ASSUME NEW p \in Requests, PageCacheNext(p), pc[p] = "setPage" => local[p].key \in PageKeys
  PROVE  Live' \subseteq Live
<1>1. CASE SetPage(p)
  BY <1>1, LiveStore, KeysApart DEF SetPage, At
<1>2. CASE DropPages(p)
  BY <1>2 DEF DropPages, BeginScan, Live, Cached
<1>3. CASE DroppingPages(p)
  BY <1>3, LiveForget DEF DroppingPages, ScanDeletes
<1>4. CASE \/ ReadPage(p) \/ QueryPage(p) \/ CreateGame(p) \/ EndGame(p) \/ WriteEnd(p) \/ Reread(p)
           \/ FindStaleGame(p) \/ WriteClose(p) \/ CancelGame(p) \/ WriteCancel(p)
           \/ UpdateGame(p) \/ MovePlayer(p) \/ RemoveGame(p) \/ RemoveSave(p)
           \/ RemoveDelete(p) \/ CreateEvent(p) \/ ReadEvent(p) \/ JoinEvent(p)
           \/ UpdateEvent(p) \/ LeaveEvent(p) \/ DeleteEvent(p) \/ PagesDropped(p)
  <2>1. UNCHANGED redis
    BY <1>4 DEF ReadPage, QueryPage, CreateGame, EndGame, WriteEnd, Reread, FindStaleGame, WriteClose,
                CancelGame, WriteCancel, UpdateGame, MovePlayer, RemoveGame, RemoveSave,
                RemoveDelete, CreateEvent, ReadEvent, JoinEvent, UpdateEvent, LeaveEvent,
                SaveEvent, DeleteEvent, PagesDropped, ScanDone
  <2> QED BY <2>1 DEF redis, Live, Cached
<1> QED BY <1>1, <1>2, <1>3, <1>4 DEF PageCacheNext

\* Every step of the page cache does.
LEMMA PagesKeepTokens ==
  ASSUME TokensCalm, RevokingInv, Sole, NEW p \in Requests, PageCacheNext(p), UNCHANGED tokens
  PROVE  TokensCalm'
<1>1. Slots /\ (pc[p] = "setPage" => local[p].key \in PageKeys)
  BY DEF RevokingInv
<1>2. Between(p, PageLabels)
  BY <1>1, PageSteps
<1>3. SUFFICES ASSUME calm' PROVE TokensFit' /\ TokenHeld(p)'
  BY <1>1, <1>2, TokensKept DEF Between
<1>4. calm /\ TokensFit
  BY <1>2, <1>3 DEF Between, Turn, TokensCalm
<1>5. Live' \subseteq Live
  BY <1>1, PagesLeaveTokens
<1>6. TokensFit'
  BY <1>4, <1>5 DEF TokensFit, tokens, Seconds
<1>7. pc'[p] \notin TokenLabels
  BY <1>2, LabelsApart DEF Between
<1> QED BY <1>6, <1>7 DEF TokenHeld, TokenLabels

\* What everybody relies on: one request at a time stays one, and readers of
\* pages hold the keys of pages.
CalmInv == RevokingInv /\ Sole

\* It holds after every step.
LEMMA CalmStep ==
  ASSUME CalmInv, [ServicesNext]_servicesVars
  PROVE  CalmInv'
<1>1. RevokingInv'
  BY RevokingStep DEF CalmInv
<1>2. Slots
  BY DEF CalmInv, RevokingInv
<1>3. ASSUME NEW p \in Requests, Step(p)
      PROVE  Sole'
  BY <1>2, <1>3, StepMoves, SoleStays DEF CalmInv
<1>4. ASSUME UNCHANGED control
      PROVE  Sole'
  BY <1>4 DEF CalmInv, Sole, control
<1>5. Outside \/ UNCHANGED servicesVars => UNCHANGED control
  BY DEF Outside, Tick, Expire, HandleConnection, HandleDisconnect, DueDatePasses, servicesVars
<1>6. (\E p \in Requests : Step(p)) \/ Outside \/ UNCHANGED servicesVars
  BY DEF ServicesNext, Step, Outside
<1> QED BY <1>1, <1>3, <1>4, <1>5, <1>6 DEF CalmInv

\* And at the start.
LEMMA CalmStart ==
  ASSUME ServicesInit
  PROVE  CalmInv
BY DEF ServicesInit, HandlersInit, RedisInit, RefreshTokensInit, CalmInv, RevokingInv, Sole, Slots,
       RevokedForGood

\* Every step keeps the invariant of the tokens.
LEMMA TokensCalmStep ==
  ASSUME CalmInv, TokensCalm, [ServicesNext]_servicesVars
  PROVE  TokensCalm'
<1>1. Slots /\ Sole /\ RevokingInv
  BY DEF CalmInv, RevokingInv
<1>2. ASSUME NEW p \in Requests, RefreshTokensNext(p)
      PROVE  TokensCalm'
  BY <1>1, <1>2, TokensStep
<1>3. ASSUME NEW p \in Requests, PageCacheNext(p), UNCHANGED tokens
      PROVE  TokensCalm'
  BY <1>1, <1>3, PagesKeepTokens
<1>4. ASSUME NEW p \in Requests, FilesNext(p) \/ TeamPostsNext(p), UNCHANGED <<redis, tokens>>
      PROVE  TokensCalm'
  <2>1. PICK here \in {FileLabels, PostLabels} : Between(p, here)
    BY <1>1, <1>4, FileSteps, PostSteps
  <2>2. Away(TokenLabels)
    BY <2>1, LabelsApart, ElsewhereAway
  <2>3. calm' => calm
    BY <2>1 DEF Between, Turn
  <2> QED BY <1>4, <2>2, <2>3, TokensStay DEF redis, Live, Cached
<1>5. CASE Tick
  BY <1>5, TickKeepsTokens
<1>6. ASSUME NEW key \in PageKeys, Expire(key), UNCHANGED tokens
      PROVE  TokensCalm'
  <2>1. Live' = Live
    BY <1>6, LiveForget, KeysApart DEF Expire
  <2> QED BY <1>6, <2>1, ControlAway, TokensStay DEF Expire
<1>7. ASSUME UNCHANGED control, UNCHANGED <<redis, tokens>>
      PROVE  TokensCalm'
  BY <1>7, ControlAway, TokensStay DEF redis, Live, Cached
<1>8. HandleConnection \/ HandleDisconnect \/ DueDatePasses \/ UNCHANGED servicesVars
        => UNCHANGED control
  BY DEF HandleConnection, HandleDisconnect, DueDatePasses, servicesVars
<1> QED BY <1>2, <1>3, <1>4, <1>5, <1>6, <1>7, <1>8 DEF ServicesNext, servicesVars

\* RefreshTokens: as long as requests come one at a time, a token is exchanged
\* for a new pair once, refreshes of its own second aside.
THEOREM TokensUsedOnce == ServicesSpec => []UsedOnce
<1>1. ServicesInit => CalmInv /\ TokensCalm
  <2> SUFFICES ASSUME ServicesInit PROVE TokensCalm
    BY CalmStart
  <2>1. Live = {}
    BY DEF ServicesInit, RedisInit, Live, Cached
  <2>2. now = 0 /\ issued = {} /\ exchanged = [token \in Seconds |-> 0]
    BY DEF ServicesInit, RefreshTokensInit
  <2>3. TokensFit
    BY <2>1, <2>2, RefreshTokensAssumption DEF TokensFit, Seconds
  <2>4. \A p \in Requests : TokenHeld(p)
    BY DEF ServicesInit, HandlersInit, TokenHeld
  <2> QED BY <2>3, <2>4 DEF TokensCalm
<1>2. CalmInv /\ TokensCalm /\ [ServicesNext]_servicesVars => CalmInv' /\ TokensCalm'
  BY CalmStep, TokensCalmStep
<1>3. TokensCalm => UsedOnce
  BY DEF TokensCalm, TokensFit, UsedOnce
<1> QED BY <1>1, <1>2, <1>3, PTL DEF ServicesSpec

(***************************************************************************)
(* Pictures. Between uploads the bucket holds the picture the row names    *)
(* and no other; an upload, await by await, leaves what its next step      *)
(* relies on.                                                              *)
(***************************************************************************)

\* The bucket holds the picture the row names, and no other.
InOrder == files \subseteq FileOf(row) /\ (~repeated => FileOf(row) \subseteq files)

\* Uploads that put the new picture before they look at the old one.
Replacing(held) == held.op \in {"uploadAvatar", "uploadPhoto"}

\* What an upload relies on, await by await.
FileHeld(p) ==
  LET held == local[p] IN
  /\ pc[p] = "put" =>
       /\ held.op \in {"firstPicture", "uploadAvatar", "uploadPhoto", "uploadEventImage"}
       /\ held.new \in Pictures
       /\ IF Replacing(held) THEN files \subseteq FileOf(row) ELSE files = {}
       /\ held.op = "uploadPhoto" => held.old = row
  /\ pc[p] = "readRow" =>
       /\ held.op = "uploadAvatar" /\ held.new \in Pictures
       /\ files \subseteq FileOf(row) \cup {held.new} /\ held.new \in files
  /\ pc[p] = "deleteOld" =>
       /\ held.op \in {"uploadAvatar", "uploadPhoto", "uploadEventImage", "deleteEventImage"}
       /\ held.old = row
       /\ IF Replacing(held) THEN files \subseteq FileOf(row) \cup {held.new} /\ held.new \in files
                             ELSE files \subseteq FileOf(row)
       /\ IF held.op = "deleteEventImage" THEN held.new = "none" ELSE held.new \in Pictures
  /\ pc[p] = "write" =>
       /\ files \subseteq FileOf(held.new)
       /\ ~repeated /\ ~(Replacing(held) /\ held.new = held.old) => FileOf(held.new) \subseteq files

\* The inductive invariant of the files.
FilesCalm ==
  calm /\ ~failed =>
    /\ (\A p \in Requests : pc[p] \notin FileLabels) => InOrder
    /\ \A p \in Requests : FileHeld(p)

\* Steps that touch no file and no upload keep it.
LEMMA FilesStay ==
  ASSUME FilesCalm, calm' => calm, Away(FileLabels), UNCHANGED filing
  PROVE  FilesCalm'
<1> SUFFICES ASSUME calm', ~failed'
             PROVE  /\ (\A p \in Requests : pc'[p] \notin FileLabels) => InOrder'
                    /\ \A p \in Requests : FileHeld(p)'
  BY DEF FilesCalm
<1>1. calm /\ ~failed /\ UNCHANGED <<row, files, repeated>>
  BY DEF filing
<1>2. ASSUME \A p \in Requests : pc'[p] \notin FileLabels
      PROVE  InOrder'
  <2>1. \A p \in Requests : pc[p] \notin FileLabels
    BY <1>2 DEF Away
  <2> QED BY <1>1, <2>1 DEF FilesCalm, InOrder, FileOf
<1>3. ASSUME NEW q \in Requests
      PROVE  FileHeld(q)'
  <2>1. CASE pc'[q] \in FileLabels
    <3>1. pc'[q] = pc[q] /\ local'[q] = local[q] /\ FileHeld(q)
      BY <1>1, <2>1 DEF Away, FilesCalm
    <3> QED BY <1>1, <3>1 DEF FileHeld, Replacing, FileOf
  <2>2. CASE pc'[q] \notin FileLabels
    BY <2>2 DEF FileHeld, FileLabels
  <2> QED BY <2>1, <2>2
<1> QED BY <1>2, <1>3

\* What a step of p gives when nobody else is under way.
LEMMA FilesKept ==
  ASSUME NEW p \in Requests, Slots, Sole, Between(p, FileLabels),
         calm' /\ ~failed' => (pc'[p] = "idle" => InOrder') /\ FileHeld(p)'
  PROVE  FilesCalm'
<1> SUFFICES ASSUME calm', ~failed'
             PROVE  /\ (\A q \in Requests : pc'[q] \notin FileLabels) => InOrder'
                    /\ \A q \in Requests : FileHeld(q)'
  BY DEF FilesCalm
<1>1. \A q \in Requests \ {p} : pc'[q] = "idle"
  BY Alone DEF Only, Between
<1>2. pc'[p] \in FileLabels \cup {"idle"}
  BY DEF Between
<1>3. \A q \in Requests \ {p} : FileHeld(q)'
  BY <1>1 DEF FileHeld
<1> QED BY <1>2, <1>3

\* What a step of p may rely on, nobody else being under way.
LEMMA FilesFound ==
  ASSUME NEW p \in Requests, Slots, Sole, Between(p, FileLabels), FilesCalm, calm', ~failed
  PROVE  calm /\ (pc[p] = "idle" => InOrder) /\ FileHeld(p)
<1>1. Only(p)
  BY Alone DEF Between
<1>2. pc[p] = "idle" => \A q \in Requests : pc[q] \notin FileLabels
  BY <1>1, LabelsApart DEF Only
<1> QED BY <1>1, <1>2 DEF FilesCalm, Only

\* An upload comes in: the bucket is in order.
LEMMA UploadsBegin ==
  ASSUME NEW p \in Requests, InOrder, Slots,
         \/ FirstPicture(p) \/ UploadAvatar(p) \/ UploadSocialPhoto(p)
         \/ UploadEventImage(p) \/ DeleteEventImage(p) \/ SaveWholeEvent(p)
  PROVE  pc'[p] # "idle" /\ FileHeld(p)'
<1>1. CASE FirstPicture(p)
  <2>1. PICK picture \in Pictures, value \in {"none", "elsewhere"} :
          /\ row' = value
          /\ Suspend(p, "put", [op |-> "firstPicture", old |-> "none", new |-> picture])
    BY <1>1 DEF FirstPicture
  <2>2. /\ pc'[p] = "put" /\ files' = {}
        /\ local'[p] = [op |-> "firstPicture", old |-> "none", new |-> picture]
    BY <1>1, <2>1 DEF FirstPicture, Suspend, Slots
  <2>3. local'[p].op = "firstPicture" /\ local'[p].new \in Pictures
    BY <2>2
  <2> QED BY <2>2, <2>3 DEF FileHeld, Replacing
<1>2. CASE UploadAvatar(p)
  <2>1. PICK picture \in Pictures :
          Suspend(p, "put", [op |-> "uploadAvatar", old |-> "none", new |-> picture])
    BY <1>2 DEF UploadAvatar
  <2>2. /\ pc'[p] = "put" /\ UNCHANGED filing
        /\ local'[p] = [op |-> "uploadAvatar", old |-> "none", new |-> picture]
    BY <1>2, <2>1 DEF UploadAvatar, Suspend, Slots
  <2>3. local'[p].op = "uploadAvatar" /\ local'[p].new \in Pictures
    BY <2>2
  <2> QED BY <2>2, <2>3 DEF FileHeld, Replacing, InOrder, filing, FileOf
<1>3. CASE UploadSocialPhoto(p)
  <2>1. PICK picture \in Pictures :
          Suspend(p, "put", [op |-> "uploadPhoto", old |-> row, new |-> picture])
    BY <1>3 DEF UploadSocialPhoto
  <2>2. /\ pc'[p] = "put" /\ UNCHANGED filing
        /\ local'[p] = [op |-> "uploadPhoto", old |-> row, new |-> picture]
    BY <1>3, <2>1 DEF UploadSocialPhoto, Suspend, Slots
  <2>3. local'[p].op = "uploadPhoto" /\ local'[p].new \in Pictures /\ local'[p].old = row
    BY <2>2
  <2> QED BY <2>2, <2>3 DEF FileHeld, Replacing, InOrder, filing, FileOf
<1>4. CASE UploadEventImage(p)
  <2>1. PICK picture \in Pictures :
          Suspend(p, IF row = "none" THEN "put" ELSE "deleteOld",
                  [op |-> "uploadEventImage", old |-> row, new |-> picture])
    BY <1>4 DEF UploadEventImage
  <2>2. /\ pc'[p] = IF row = "none" THEN "put" ELSE "deleteOld"
        /\ UNCHANGED <<row, files>>
        /\ local'[p] = [op |-> "uploadEventImage", old |-> row, new |-> picture]
    BY <1>4, <2>1 DEF UploadEventImage, Suspend, Slots, filing
  <2>3. local'[p].op = "uploadEventImage" /\ local'[p].new \in Pictures /\ local'[p].old = row
    BY <2>2
  <2>4. row = "none" => files = {}
    BY FilesAssumption DEF InOrder, FileOf
  <2> QED BY <2>2, <2>3, <2>4 DEF FileHeld, Replacing, InOrder, FileOf
<1>5. CASE DeleteEventImage(p)
  <2>1. /\ pc'[p] = "deleteOld" /\ UNCHANGED filing
        /\ local'[p] = [op |-> "deleteEventImage", old |-> row, new |-> "none"]
    BY <1>5 DEF DeleteEventImage, Suspend, Slots
  <2>2. local'[p].op = "deleteEventImage" /\ local'[p].new = "none" /\ local'[p].old = row
    BY <2>1
  <2> QED BY <2>1, <2>2 DEF FileHeld, Replacing, InOrder, filing, FileOf
<1>6. CASE SaveWholeEvent(p)
  <2>1. /\ pc'[p] = "write" /\ UNCHANGED filing
        /\ local'[p] = [op |-> "saveEvent", old |-> row, new |-> row]
    BY <1>6 DEF SaveWholeEvent, Suspend, Slots
  <2>2. local'[p].op = "saveEvent" /\ local'[p].new = row
    BY <2>1
  <2> QED BY <2>1, <2>2 DEF FileHeld, Replacing, InOrder, filing, FileOf
<1> QED BY <1>1, <1>2, <1>3, <1>4, <1>5, <1>6

\* It goes on: the next picture, the old one, the row.
LEMMA UploadsGoOn ==
  ASSUME NEW p \in Requests, FileHeld(p), Slots,
         PutFile(p) \/ ReadRow(p) \/ DeleteFile(p), ~failed'
  PROVE  pc'[p] # "idle" /\ FileHeld(p)'
<1> DEFINE held == local[p]
<1>1. CASE PutFile(p)
  <2>1. /\ pc[p] = "put" /\ files' = files \cup {held.new} /\ row' = row
        /\ local'[p] = held
        /\ pc'[p] = CASE held.op = "uploadAvatar" -> "readRow"
                      [] held.op = "uploadPhoto" /\ held.old # "none" -> "deleteOld"
                      [] OTHER -> "write"
    BY <1>1 DEF PutFile, At, Suspend, Slots
  <2>2. /\ held.op \in {"firstPicture", "uploadAvatar", "uploadPhoto", "uploadEventImage"}
        /\ held.new \in Pictures /\ FileOf(held.new) = {held.new}
        /\ IF Replacing(held) THEN files \subseteq FileOf(row) ELSE files = {}
        /\ held.op = "uploadPhoto" => held.old = row
    BY <2>1 DEF FileHeld, FileOf
  <2>3. CASE held.op = "uploadAvatar"
    BY <2>1, <2>2, <2>3 DEF FileHeld, Replacing, FileOf
  <2>4. CASE held.op = "uploadPhoto" /\ held.old # "none"
    BY <2>1, <2>2, <2>4 DEF FileHeld, Replacing, FileOf
  <2>5. CASE held.op = "uploadPhoto" /\ held.old = "none"
    <3>1. files = {} /\ pc'[p] = "write"
      BY <2>1, <2>2, <2>5, FilesAssumption DEF Replacing, FileOf
    <3> QED BY <2>1, <2>2, <3>1 DEF FileHeld, FileOf
  <2>6. CASE held.op \in {"firstPicture", "uploadEventImage"}
    <3>1. files = {} /\ pc'[p] = "write"
      BY <2>1, <2>2, <2>6 DEF Replacing
    <3> QED BY <2>1, <2>2, <3>1 DEF FileHeld, FileOf
  <2> QED BY <2>2, <2>3, <2>4, <2>5, <2>6
<1>2. CASE ReadRow(p)
  <2>1. /\ pc[p] = "readRow" /\ UNCHANGED filing
        /\ local'[p] = [held EXCEPT !.old = row]
        /\ pc'[p] = IF row = "none" THEN "write" ELSE "deleteOld"
    BY <1>2 DEF ReadRow, At, Suspend, Slots
  <2>2. /\ held.op = "uploadAvatar" /\ held.new \in Pictures
        /\ files \subseteq FileOf(row) \cup {held.new} /\ held.new \in files
    BY <2>1 DEF FileHeld
  <2>3. local'[p].op = "uploadAvatar" /\ local'[p].new = held.new
    BY <2>1, <2>2
  <2>4. CASE row = "none"
    <3>1. pc'[p] = "write" /\ files' = {held.new} /\ FileOf(held.new) = {held.new}
      BY <2>1, <2>2, <2>4, FilesAssumption DEF FileOf, filing
    <3>2. local'[p].new \in Pictures
      BY <2>2, <2>3
    <3> QED BY <3>1, <3>2, <2>3 DEF FileHeld, FileOf
  <2>5. CASE row # "none"
    <3>1. pc'[p] = "deleteOld" /\ files' = files /\ row' = row
      BY <2>1, <2>5 DEF filing
    <3>2. local'[p].old = row
      BY <2>1, <2>2
    <3> QED BY <2>2, <2>3, <3>1, <3>2 DEF FileHeld, Replacing, FileOf
  <2> QED BY <2>4, <2>5
<1>3. CASE DeleteFile(p)
  <2>1. /\ pc[p] = "deleteOld" /\ files' = files \ FileOf(held.old) /\ row' = row
        /\ local'[p] = held
        /\ pc'[p] = IF held.op = "uploadEventImage" THEN "put" ELSE "write"
    BY <1>3 DEF DeleteFile, At, Suspend, Slots
  <2>2. /\ held.op \in {"uploadAvatar", "uploadPhoto", "uploadEventImage", "deleteEventImage"}
        /\ held.old = row
        /\ IF Replacing(held) THEN files \subseteq FileOf(row) \cup {held.new} /\ held.new \in files
                              ELSE files \subseteq FileOf(row)
        /\ IF held.op = "deleteEventImage" THEN held.new = "none" ELSE held.new \in Pictures
    BY <2>1 DEF FileHeld
  <2>3. CASE Replacing(held)
    <3>1. pc'[p] = "write" /\ held.new \in Pictures
      BY <2>1, <2>2, <2>3 DEF Replacing
    <3>2. FileOf(held.new) = {held.new} /\ files' \subseteq {held.new}
      BY <2>1, <2>2, <2>3, <3>1 DEF FileOf
    <3>3. held.new # held.old => held.new \in files'
      BY <2>1, <2>2, <2>3 DEF FileOf
    <3> QED BY <2>1, <2>3, <3>1, <3>2, <3>3 DEF FileHeld, Replacing, FileOf
  <2>4. CASE held.op = "uploadEventImage"
    <3>1. pc'[p] = "put" /\ files' = {} /\ held.new \in Pictures
      BY <2>1, <2>2, <2>4 DEF Replacing
    <3> QED BY <2>1, <2>4, <3>1 DEF FileHeld, Replacing
  <2>5. CASE held.op = "deleteEventImage"
    <3>1. pc'[p] = "write" /\ files' = {} /\ FileOf(held.new) = {}
      BY <2>1, <2>2, <2>5, FilesAssumption DEF Replacing, FileOf
    <3> QED BY <2>1, <3>1 DEF FileHeld, FileOf
  <2> QED BY <2>2, <2>3, <2>4, <2>5 DEF Replacing
<1> QED BY <1>1, <1>2, <1>3

\* The row is written: the bucket is in order again.
LEMMA UploadsEnd ==
  ASSUME NEW p \in Requests, FileHeld(p), Slots, WriteRow(p)
  PROVE  InOrder' /\ FileHeld(p)'
<1> DEFINE held == local[p]
<1>1. /\ pc[p] = "write" /\ pc'[p] = "idle" /\ row' = held.new /\ files' = files
      /\ repeated' = (repeated \/ (held.new = held.old
                                     /\ held.op \in {"uploadAvatar", "uploadPhoto"}))
  BY DEF WriteRow, At, Return, Suspend, Slots
<1>2. /\ files \subseteq FileOf(held.new)
      /\ ~repeated /\ ~(Replacing(held) /\ held.new = held.old) => FileOf(held.new) \subseteq files
  BY <1>1 DEF FileHeld
<1>3. InOrder'
  BY <1>1, <1>2 DEF InOrder, FileOf, Replacing
<1> QED BY <1>1, <1>3 DEF FileHeld

\* Every step of an upload keeps the invariant.
LEMMA FilesStep ==
  ASSUME FilesCalm, Slots, Sole, NEW p \in Requests, FilesNext(p)
  PROVE  FilesCalm'
<1>1. Between(p, FileLabels)
  BY FileSteps
<1>2. SUFFICES ASSUME calm', ~failed'
               PROVE  (pc'[p] = "idle" => InOrder') /\ FileHeld(p)'
  BY <1>1, FilesKept
<1>3. CASE \/ FirstPicture(p) \/ UploadAvatar(p) \/ UploadSocialPhoto(p)
           \/ UploadEventImage(p) \/ DeleteEventImage(p) \/ SaveWholeEvent(p)
  <2>1. pc[p] = "idle"
    BY <1>3, TurnOf DEF FirstPicture, UploadAvatar, UploadSocialPhoto, UploadEventImage,
                        DeleteEventImage, SaveWholeEvent
  <2>2. failed' = failed
    <3>1. CASE FirstPicture(p)
      BY <3>1 DEF FirstPicture
    <3>2. CASE UploadAvatar(p) \/ UploadSocialPhoto(p) \/ UploadEventImage(p)
      BY <3>2 DEF UploadAvatar, UploadSocialPhoto, UploadEventImage, filing
    <3>3. CASE DeleteEventImage(p) \/ SaveWholeEvent(p)
      BY <3>3 DEF DeleteEventImage, SaveWholeEvent, filing
    <3> QED BY <1>3, <3>1, <3>2, <3>3
  <2> QED BY <1>1, <1>2, <1>3, <2>1, <2>2, FilesFound, UploadsBegin
<1>4. CASE PutFile(p) \/ ReadRow(p) \/ DeleteFile(p)
  <2>1. ~failed
    BY <1>2, <1>4 DEF PutFile, ReadRow, DeleteFile, filing
  <2> QED BY <1>1, <1>2, <1>4, <2>1, FilesFound, UploadsGoOn
<1>5. CASE WriteRow(p)
  <2>1. ~failed
    BY <1>2, <1>5 DEF WriteRow
  <2> QED BY <1>1, <1>2, <1>5, <2>1, FilesFound, UploadsEnd
<1>6. CASE UploadFails(p)
  BY <1>2, <1>6 DEF UploadFails
<1> QED BY <1>3, <1>4, <1>5, <1>6 DEF FilesNext

\* Every step does.
LEMMA FilesCalmStep ==
  ASSUME CalmInv, FilesCalm, [ServicesNext]_servicesVars
  PROVE  FilesCalm'
<1>1. Slots /\ Sole
  BY DEF CalmInv, RevokingInv
<1>2. ASSUME NEW p \in Requests, FilesNext(p)
      PROVE  FilesCalm'
  BY <1>1, <1>2, FilesStep
<1>3. ASSUME NEW p \in Requests, RefreshTokensNext(p) \/ PageCacheNext(p) \/ TeamPostsNext(p),
             UNCHANGED filing
      PROVE  FilesCalm'
  <2>1. PICK here \in {TokenLabels, PageLabels, PostLabels} : Between(p, here)
    BY <1>1, <1>3, TokenSteps, PageSteps, PostSteps
  <2>2. Away(FileLabels)
    BY <2>1, LabelsApart, ElsewhereAway
  <2>3. calm' => calm
    BY <2>1 DEF Between, Turn
  <2> QED BY <1>3, <2>2, <2>3, FilesStay
<1>4. ASSUME UNCHANGED control, UNCHANGED filing
      PROVE  FilesCalm'
  BY <1>4, ControlAway, FilesStay
<1>5. Outside \/ UNCHANGED servicesVars => UNCHANGED control /\ UNCHANGED filing
  BY DEF Outside, Tick, Expire, HandleConnection, HandleDisconnect, DueDatePasses, servicesVars
<1> QED BY <1>2, <1>3, <1>4, <1>5 DEF ServicesNext, Outside

\* So it always holds.
LEMMA FilesAlways == ServicesSpec => []FilesCalm
<1>1. ServicesInit => CalmInv /\ FilesCalm
  <2> SUFFICES ASSUME ServicesInit PROVE FilesCalm
    BY CalmStart
  <2>1. InOrder
    BY FilesAssumption DEF ServicesInit, FilesInit, InOrder, FileOf
  <2>2. \A p \in Requests : FileHeld(p)
    BY DEF ServicesInit, HandlersInit, FileHeld
  <2> QED BY <2>1, <2>2 DEF FilesCalm
<1>2. CalmInv /\ FilesCalm /\ [ServicesNext]_servicesVars => CalmInv' /\ FilesCalm'
  BY CalmStep, FilesCalmStep
<1> QED BY <1>1, <1>2, PTL DEF ServicesSpec

\* FileUploadService: when uploads come one at a time and none fails, the row
\* names a picture that is in the bucket, unless one took its own place.
THEOREM PicturesExist == ServicesSpec => []PictureExists
<1>1. FilesCalm => PictureExists
  BY LabelsApart DEF FilesCalm, PictureExists, Settled, InOrder
<1> QED BY <1>1, FilesAlways, PTL

\* And the files of the pictures that were replaced are gone.
THEOREM NoFilesLeftBehind == ServicesSpec => []NoOrphans
<1>1. FilesCalm => NoOrphans
  BY LabelsApart DEF FilesCalm, NoOrphans, Settled, InOrder
<1> QED BY <1>1, FilesAlways, PTL

(***************************************************************************)
(* The board. Between requests the sockets the gateway reaches show the    *)
(* post as it is. Those that are closed show nothing, so that one that     *)
(* connects has nothing old to show.                                       *)
(***************************************************************************)

\* Every socket a member may have.
Links == Board \X Sockets

\* A socket that is closed shows nothing.
SeenInv == DOMAIN seen = Links /\ \A link \in Links : link \notin open => seen[link] = Unseen

\* The sockets the gateway reaches show nothing or the post as it is.
Current == \A u \in DOMAIN connectedClients :
             seen[<<u, connectedClients[u]>>] \in {Unseen, View(post, Counts)}

\* What requests about the post hold.
IsPayload(h) ==
  h = [op |-> h.op, text |-> h.text, counts |-> h.counts, by |-> h.by, found |-> h.found]

\* What a request is about to push, or to refuse, at each of its awaits.
PostHeld(p) ==
  LET held == local[p] IN
  /\ pc[p] \in PostLabels => IsPayload(held)
  /\ pc[p] = "savePost" => held.op # "unreact"
  /\ pc[p] = "counts" => IF held.op = "unreact" THEN post # Gone ELSE held.text = post
  /\ pc[p] = "push" => View(held.text, held.counts) = View(post, Counts)
  /\ pc[p] = "deletePost" => held.text = Gone
  /\ pc[p] = "findReaction" => post # Gone /\ held.op = "react"
  /\ pc[p] = "saveReaction" => /\ post # Gone /\ held.op = "react"
                               /\ held.found = (held.by \in DOMAIN reactions)
  /\ pc[p] = "findPost" => post # Gone /\ held.op = "react"
  /\ pc[p] = "deleteReaction" => post # Gone /\ held.op = "unreact"
  /\ pc[p] = "rereadPost" => post # Gone /\ held.counts = Counts

\* One at a time, requests leave the sockets current.
BoardCalm ==
  calm =>
    /\ ~overdue /\ (\A p \in Requests : pc[p] \notin PostLabels) => Current
    /\ \A p \in Requests : PostHeld(p)

\* The inductive invariant of the board.
BoardInv == WiresInv /\ SeenInv /\ BoardCalm

\* A request starts with a payload,
LEMMA PayloadMade ==
  ASSUME NEW op
  PROVE  IsPayload(Payload(op)) /\ Payload(op).op = op
BY DEF IsPayload, Payload

\* and keeps one, field by field: its text,
LEMMA PayloadText ==
  ASSUME NEW h, IsPayload(h), NEW x, NEW g, g = [h EXCEPT !.text = x]
  PROVE  /\ IsPayload(g) /\ g.op = h.op /\ g.text = x
         /\ g.counts = h.counts /\ g.by = h.by /\ g.found = h.found
<1>1. g = [op |-> h.op, text |-> x, counts |-> h.counts, by |-> h.by, found |-> h.found]
  BY DEF IsPayload
<1> QED BY <1>1 DEF IsPayload

\* its counts,
LEMMA PayloadCounts ==
  ASSUME NEW h, IsPayload(h), NEW x, NEW g, g = [h EXCEPT !.counts = x]
  PROVE  /\ IsPayload(g) /\ g.op = h.op /\ g.counts = x
         /\ g.text = h.text /\ g.by = h.by /\ g.found = h.found
<1>1. g = [op |-> h.op, text |-> h.text, counts |-> x, by |-> h.by, found |-> h.found]
  BY DEF IsPayload
<1> QED BY <1>1 DEF IsPayload

\* its user,
LEMMA PayloadBy ==
  ASSUME NEW h, IsPayload(h), NEW x, NEW g, g = [h EXCEPT !.by = x]
  PROVE  /\ IsPayload(g) /\ g.op = h.op /\ g.by = x
<1>1. g = [op |-> h.op, text |-> h.text, counts |-> h.counts, by |-> x, found |-> h.found]
  BY DEF IsPayload
<1> QED BY <1>1 DEF IsPayload

\* and whether that user has reacted before.
LEMMA PayloadFound ==
  ASSUME NEW h, IsPayload(h), NEW x, NEW g, g = [h EXCEPT !.found = x]
  PROVE  /\ IsPayload(g) /\ g.op = h.op /\ g.found = x /\ g.by = h.by
<1>1. g = [op |-> h.op, text |-> h.text, counts |-> h.counts, by |-> h.by, found |-> x]
  BY DEF IsPayload
<1> QED BY <1>1 DEF IsPayload

\* Sockets come and go: what the others show stays.
LEMMA ConnectionShows ==
  ASSUME BoardInv, HandleConnection
  PROVE  SeenInv' /\ (Current => Current')
<1>1. PICK u \in Board, s \in Sockets :
        /\ <<u, s>> \notin open /\ open' = open \cup {<<u, s>>}
        /\ connectedClients' = [v \in DOMAIN connectedClients \cup {u} |->
                                  IF v = u THEN s ELSE connectedClients[v]]
  BY DEF HandleConnection
<1>2. seen' = seen /\ post' = post /\ Counts' = Counts
  BY DEF HandleConnection, wall, Counts
<1>3. seen[<<u, s>>] = Unseen
  BY <1>1 DEF BoardInv, SeenInv, Links
<1>4. SeenInv'
  BY <1>1, <1>2 DEF BoardInv, SeenInv, Links, Unseen
<1>5. ASSUME Current, NEW v \in DOMAIN connectedClients'
      PROVE  seen'[<<v, connectedClients'[v]>>] \in {Unseen, View(post, Counts)}
  BY <1>1, <1>2, <1>3, <1>5 DEF Current
<1> QED BY <1>2, <1>4, <1>5 DEF Current, View, Unseen

\* A socket that closes shows nothing any more.
LEMMA DisconnectionShows ==
  ASSUME BoardInv, HandleDisconnect
  PROVE  SeenInv' /\ (Current => Current')
<1>1. PICK link \in open :
        /\ open' = open \ {link}
        /\ connectedClients' = Restrict(connectedClients, DOMAIN connectedClients \ {link[1]})
        /\ seen' = [seen EXCEPT ![link] = Unseen]
  BY DEF HandleDisconnect
<1>2. post' = post /\ Counts' = Counts
  BY DEF HandleDisconnect, wall, Counts
<1>3. /\ DOMAIN connectedClients' = DOMAIN connectedClients \ {link[1]}
      /\ \A v \in DOMAIN connectedClients' : connectedClients'[v] = connectedClients[v]
  BY <1>1 DEF Restrict
<1>4. SeenInv'
  BY <1>1 DEF BoardInv, SeenInv, Links, Unseen
<1>5. ASSUME Current, NEW v \in DOMAIN connectedClients'
      PROVE  seen'[<<v, connectedClients'[v]>>] \in {Unseen, View(post, Counts)}
  <2>1. v \in DOMAIN connectedClients /\ v # link[1] /\ connectedClients'[v] = connectedClients[v]
    BY <1>3
  <2>2. <<v, connectedClients[v]>> \in Links /\ <<v, connectedClients[v]>> # link
    BY <2>1 DEF BoardInv, WiresInv, Reachable, Links
  <2>3. seen'[<<v, connectedClients[v]>>] = seen[<<v, connectedClients[v]>>]
    BY <1>1, <2>2 DEF BoardInv, SeenInv
  <2> QED BY <1>5, <2>1, <2>3 DEF Current
<1> QED BY <1>2, <1>4, <1>5 DEF Current, View, Unseen

\* Steps of others leave the post and who is working on it alone.
LEMMA BoardStays ==
  ASSUME BoardInv, calm' => calm, Away(PostLabels), UNCHANGED <<post, reactions>>,
         ~overdue' => ~overdue, WiresInv', SeenInv', Current => Current'
  PROVE  BoardInv'
<1> SUFFICES ASSUME calm'
             PROVE  /\ ~overdue' /\ (\A p \in Requests : pc'[p] \notin PostLabels) => Current'
                    /\ \A p \in Requests : PostHeld(p)'
  BY DEF BoardInv, BoardCalm
<1>1. ASSUME ~overdue', \A p \in Requests : pc'[p] \notin PostLabels
      PROVE  Current'
  <2>1. \A p \in Requests : pc[p] \notin PostLabels
    BY <1>1 DEF Away
  <2> QED BY <1>1, <2>1 DEF BoardInv, BoardCalm
<1>2. ASSUME NEW q \in Requests
      PROVE  PostHeld(q)'
  <2>1. CASE pc'[q] \in PostLabels
    <3>1. pc'[q] = pc[q] /\ local'[q] = local[q] /\ PostHeld(q)
      BY <2>1 DEF Away, BoardInv, BoardCalm
    <3> QED BY <3>1 DEF PostHeld, View, Counts, IsPayload
  <2>2. CASE pc'[q] \notin PostLabels
    BY <2>2 DEF PostHeld, PostLabels
  <2> QED BY <2>1, <2>2
<1> QED BY <1>1, <1>2

\* A step of p when nobody else is under way.
LEMMA PostsKept ==
  ASSUME BoardInv, NEW p \in Requests, Slots, Sole, Between(p, PostLabels), WiresInv', SeenInv',
         calm' => (pc'[p] = "idle" /\ ~overdue' => Current') /\ PostHeld(p)'
  PROVE  BoardInv'
<1> SUFFICES ASSUME calm'
             PROVE  /\ ~overdue' /\ (\A q \in Requests : pc'[q] \notin PostLabels) => Current'
                    /\ \A q \in Requests : PostHeld(q)'
  BY DEF BoardInv, BoardCalm
<1>1. \A q \in Requests \ {p} : pc'[q] = "idle"
  BY Alone DEF Only, Between
<1>2. pc'[p] \in PostLabels \cup {"idle"}
  BY DEF Between
<1>3. \A q \in Requests \ {p} : PostHeld(q)'
  BY <1>1, LabelsApart DEF PostHeld
<1> QED BY <1>2, <1>3

\* A push reaches open sockets only, and all that the gateway knows of.
LEMMA PushShows ==
  ASSUME BoardInv, Slots, NEW p \in Requests, Push(p)
  PROVE  SeenInv' /\ (PostHeld(p) => Current' /\ PostHeld(p)')
<1> DEFINE shown == View(local[p].text, local[p].counts)
<1>1. /\ pc[p] = "push" /\ pc'[p] = "idle" /\ UNCHANGED <<wall, open, connectedClients>>
      /\ seen' = [link \in Board \X Sockets |->
                    IF link[1] \in DOMAIN connectedClients /\ connectedClients[link[1]] = link[2]
                    THEN shown ELSE seen[link]]
  BY DEF Push, At, Return, Suspend, Slots
<1>2. \A u \in DOMAIN connectedClients :
        <<u, connectedClients[u]>> \in open /\ <<u, connectedClients[u]>> \in Links
  BY DEF BoardInv, WiresInv, Reachable, Links
<1>3. SeenInv'
  <2>1. SUFFICES ASSUME NEW link \in Links, link \notin open
                 PROVE  seen'[link] = Unseen
    BY <1>1 DEF SeenInv, Links, Unseen
  <2>2. ~(link[1] \in DOMAIN connectedClients /\ connectedClients[link[1]] = link[2])
    BY <1>2, <2>1 DEF Links
  <2> QED BY <1>1, <2>1, <2>2 DEF BoardInv, SeenInv, Links
<1>4. ASSUME PostHeld(p)
      PROVE  Current'
  <2>1. shown = View(post, Counts)
    BY <1>1, <1>4 DEF PostHeld
  <2>2. View(post, Counts)' = View(post, Counts)
    BY <1>1 DEF wall, View, Counts
  <2>3. ASSUME NEW u \in DOMAIN connectedClients
        PROVE  seen'[<<u, connectedClients[u]>>] = shown
    BY <1>1, <1>2 DEF Links
  <2> QED BY <1>1, <2>1, <2>2, <2>3 DEF Current
<1>5. PostHeld(p)'
  BY <1>1, LabelsApart DEF PostHeld
<1> QED BY <1>3, <1>4, <1>5

\* A request about the post comes in.
LEMMA PostsBegin ==
  ASSUME Slots, NEW p \in Requests,
         CreatePost(p) \/ UpdatePost(p) \/ RemovePost(p) \/ SetReaction(p) \/ RemoveReaction(p)
  PROVE  UNCHANGED board /\ pc'[p] # "idle" /\ PostHeld(p)'
<1>1. CASE CreatePost(p)
  <2>1. PICK text \in Texts : Suspend(p, "savePost", [Payload("createPost") EXCEPT !.text = text])
    BY <1>1 DEF CreatePost
  <2>2. /\ pc'[p] = "savePost" /\ local'[p] = [Payload("createPost") EXCEPT !.text = text]
        /\ UNCHANGED board
    BY <1>1, <2>1 DEF CreatePost, Suspend, Slots
  <2>3. IsPayload(local'[p]) /\ local'[p].op = "createPost"
    BY <2>2, PayloadMade, PayloadText
  <2> QED BY <2>2, <2>3 DEF PostHeld, IsPayload
<1>2. CASE UpdatePost(p)
  <2>1. PICK text \in Texts : Suspend(p, "savePost", [Payload("updatePost") EXCEPT !.text = text])
    BY <1>2 DEF UpdatePost
  <2>2. /\ pc'[p] = "savePost" /\ local'[p] = [Payload("updatePost") EXCEPT !.text = text]
        /\ UNCHANGED board
    BY <1>2, <2>1 DEF UpdatePost, Suspend, Slots
  <2>3. IsPayload(local'[p]) /\ local'[p].op = "updatePost"
    BY <2>2, PayloadMade, PayloadText
  <2> QED BY <2>2, <2>3 DEF PostHeld, IsPayload
<1>3. CASE RemovePost(p)
  <2>1. /\ pc'[p] = "deletePost" /\ local'[p] = [Payload("removePost") EXCEPT !.text = Gone]
        /\ UNCHANGED board
    BY <1>3 DEF RemovePost, Suspend, Slots
  <2>2. IsPayload(local'[p]) /\ local'[p].text = Gone
    BY <2>1, PayloadMade, PayloadText
  <2> QED BY <2>1, <2>2 DEF PostHeld, IsPayload, Gone
<1>4. CASE SetReaction(p)
  <2>1. PICK u \in Board : Suspend(p, "findReaction", [Payload("react") EXCEPT !.by = u])
    BY <1>4 DEF SetReaction
  <2>2. /\ pc'[p] = "findReaction" /\ local'[p] = [Payload("react") EXCEPT !.by = u]
        /\ UNCHANGED board /\ post # Gone
    BY <1>4, <2>1 DEF SetReaction, Suspend, Slots
  <2>3. IsPayload(local'[p]) /\ local'[p].op = "react"
    BY <2>2, PayloadMade, PayloadBy
  <2> QED BY <2>2, <2>3 DEF PostHeld, IsPayload, board, wall, Gone
<1>5. CASE RemoveReaction(p)
  <2>1. PICK u \in Board : Suspend(p, "deleteReaction", [Payload("unreact") EXCEPT !.by = u])
    BY <1>5 DEF RemoveReaction
  <2>2. /\ pc'[p] = "deleteReaction" /\ local'[p] = [Payload("unreact") EXCEPT !.by = u]
        /\ UNCHANGED board /\ post # Gone
    BY <1>5, <2>1 DEF RemoveReaction, Suspend, Slots
  <2>3. IsPayload(local'[p]) /\ local'[p].op = "unreact"
    BY <2>2, PayloadMade, PayloadBy
  <2> QED BY <2>2, <2>3 DEF PostHeld, IsPayload, board, wall, Gone
<1> QED BY <1>1, <1>2, <1>3, <1>4, <1>5

\* It writes, and holds on to what it wrote.
LEMMA PostsWrite ==
  ASSUME NEW p \in Requests, PostHeld(p), Slots,
         SavePost(p) \/ DeletePost(p) \/ SaveReaction(p) \/ DeleteReaction(p)
  PROVE  pc'[p] # "idle" /\ PostHeld(p)'
<1> DEFINE held == local[p]
<1>1. CASE SavePost(p)
  <2>1. /\ pc[p] = "savePost" /\ pc'[p] = "counts" /\ local'[p] = held /\ post' = held.text
    BY <1>1 DEF SavePost, At, Suspend, Slots
  <2>2. IsPayload(held) /\ held.op # "unreact"
    BY <2>1 DEF PostHeld, PostLabels
  <2> QED BY <2>1, <2>2 DEF PostHeld, IsPayload
<1>2. CASE DeletePost(p)
  <2>1. /\ pc[p] = "deletePost" /\ pc'[p] = "push" /\ local'[p] = held /\ post' = Gone
    BY <1>2 DEF DeletePost, At, Suspend, Slots
  <2>2. IsPayload(held) /\ held.text = Gone
    BY <2>1 DEF PostHeld, PostLabels
  <2>3. View(held.text, held.counts) = [text |-> Gone] /\ View(post, Counts)' = [text |-> Gone]
    BY <2>1, <2>2 DEF View, Gone
  <2> QED BY <2>1, <2>2, <2>3 DEF PostHeld, IsPayload, View, Gone
<1>3. CASE SaveReaction(p)
  <2>1. pc[p] = "saveReaction" /\ post' = post
    BY <1>3 DEF SaveReaction, At
  <2>2. /\ IsPayload(held) /\ post # Gone /\ held.op = "react"
        /\ held.found = (held.by \in DOMAIN reactions)
    BY <2>1 DEF PostHeld, PostLabels
  <2>3. Suspend(p, "findPost", held)
    BY <1>3, <2>2 DEF SaveReaction
  <2>4. pc'[p] = "findPost" /\ local'[p] = held
    BY <2>3 DEF Suspend, Slots
  <2> QED BY <2>1, <2>2, <2>4 DEF PostHeld, IsPayload, Gone
<1>4. CASE DeleteReaction(p)
  <2>1. /\ pc[p] = "deleteReaction" /\ pc'[p] = "counts" /\ local'[p] = held /\ post' = post
    BY <1>4 DEF DeleteReaction, At, Suspend, Slots
  <2>2. IsPayload(held) /\ post # Gone /\ held.op = "unreact"
    BY <2>1 DEF PostHeld, PostLabels
  <2> QED BY <2>1, <2>2 DEF PostHeld, IsPayload, Gone
<1> QED BY <1>1, <1>2, <1>3, <1>4

\* It reads back what it is going to push; a reaction to an overdue post is not
\* pushed.
LEMMA PostsReread ==
  ASSUME NEW p \in Requests, PostHeld(p), Slots,
         CountReactions(p) \/ FindReaction(p) \/ FindPost(p) \/ RereadPost(p)
  PROVE  UNCHANGED board /\ (pc'[p] = "idle" => overdue) /\ PostHeld(p)'
<1> DEFINE held == local[p]
<1>0. pc[p] \in PostLabels /\ UNCHANGED board
  BY DEF CountReactions, FindReaction, FindPost, RereadPost, At, PostLabels
<1>1. IsPayload(held) /\ post' = post /\ reactions' = reactions /\ Counts' = Counts
  BY <1>0 DEF PostHeld, board, wall, Counts
<1>2. CASE CountReactions(p)
  <2>1. /\ pc[p] = "counts" /\ local'[p] = [held EXCEPT !.counts = Counts]
        /\ pc'[p] = IF held.op = "unreact" THEN "rereadPost" ELSE "push"
    BY <1>2 DEF CountReactions, At, Suspend, Slots
  <2>2. /\ IsPayload(local'[p]) /\ local'[p].op = held.op /\ local'[p].counts = Counts
        /\ local'[p].text = held.text
    BY <1>1, <2>1, PayloadCounts
  <2>3. CASE held.op = "unreact"
    <3>1. pc'[p] = "rereadPost" /\ post # Gone
      BY <2>1, <2>3 DEF PostHeld
    <3> QED BY <1>0, <1>1, <2>2, <3>1 DEF PostHeld, IsPayload, Gone
  <2>4. CASE held.op # "unreact"
    <3>1. pc'[p] = "push" /\ local'[p].text = post
      BY <2>1, <2>2, <2>4 DEF PostHeld
    <3>2. View(local'[p].text, local'[p].counts) = View(post, Counts)
      BY <2>2, <3>1
    <3>3. /\ View(post, Counts)' = View(post, Counts)
          /\ View(local[p].text, local[p].counts)' = View(local'[p].text, local'[p].counts)
      BY <1>1 DEF View, Gone
    <3> QED BY <1>0, <2>2, <3>1, <3>2, <3>3 DEF PostHeld, IsPayload
  <2> QED BY <2>3, <2>4
<1>3. CASE FindReaction(p)
  <2>1. /\ pc[p] = "findReaction" /\ pc'[p] = "saveReaction"
        /\ local'[p] = [held EXCEPT !.found = held.by \in DOMAIN reactions]
    BY <1>3 DEF FindReaction, At, Suspend, Slots
  <2>2. /\ IsPayload(local'[p]) /\ local'[p].op = held.op /\ local'[p].by = held.by
        /\ local'[p].found = (held.by \in DOMAIN reactions)
    BY <1>1, <2>1, PayloadFound
  <2>3. post # Gone /\ held.op = "react"
    BY <2>1 DEF PostHeld
  <2> QED BY <1>0, <1>1, <2>1, <2>2, <2>3 DEF PostHeld, IsPayload, Gone
<1>4. CASE FindPost(p)
  <2>1. pc[p] = "findPost" /\ post # Gone /\ held.op = "react"
    BY <1>4 DEF FindPost, At, PostHeld
  <2>2. CASE overdue
    <3>1. pc'[p] = "idle"
      BY <1>4, <2>2 DEF FindPost, Return, Suspend, Slots
    <3> QED BY <1>0, <2>2, <3>1, LabelsApart DEF PostHeld
  <2>3. CASE ~overdue
    <3>1. pc'[p] = "counts" /\ local'[p] = [held EXCEPT !.text = post]
      BY <1>4, <2>1, <2>3 DEF FindPost, Suspend, Slots
    <3>2. IsPayload(local'[p]) /\ local'[p].op = "react" /\ local'[p].text = post
      BY <1>1, <2>1, <3>1, PayloadText
    <3> QED BY <1>0, <1>1, <3>1, <3>2 DEF PostHeld, IsPayload
  <2> QED BY <2>2, <2>3
<1>5. CASE RereadPost(p)
  <2>1. pc[p] = "rereadPost" /\ post # Gone /\ held.counts = Counts
    BY <1>5 DEF RereadPost, At, PostHeld
  <2>2. pc'[p] = "push" /\ local'[p] = [held EXCEPT !.text = post]
    BY <1>5, <2>1 DEF RereadPost, Suspend, Slots
  <2>3. IsPayload(local'[p]) /\ local'[p].text = post /\ local'[p].counts = Counts
    BY <1>1, <2>1, <2>2, PayloadText
  <2>4. View(local'[p].text, local'[p].counts) = View(post, Counts)
    BY <2>3
  <2>5. View(post, Counts)' = View(post, Counts)
    BY <1>1 DEF View, Gone
  <2>6. View(local[p].text, local[p].counts)' = View(local'[p].text, local'[p].counts)
    BY DEF View, Gone
  <2> QED BY <1>0, <2>2, <2>3, <2>4, <2>5, <2>6 DEF PostHeld, IsPayload
<1> QED BY <1>2, <1>3, <1>4, <1>5

\* Every step of a request about the post keeps the invariant.
LEMMA BoardStep ==
  ASSUME BoardInv, Slots, Sole, NEW p \in Requests, TeamPostsNext(p)
  PROVE  BoardInv'
<1>1. Between(p, PostLabels)
  BY PostSteps
<1>2. WiresInv'
  <2>1. UNCHANGED <<open, connectedClients, doubled>>
    BY RequestsLeaveWires
  <2> QED BY <2>1 DEF BoardInv, WiresInv, Reachable
<1>3. UNCHANGED <<open, seen>> => SeenInv'
  BY DEF BoardInv, SeenInv, Links, Unseen
<1>4. ASSUME SeenInv', calm' => (pc'[p] = "idle" /\ ~overdue' => Current') /\ PostHeld(p)'
      PROVE  BoardInv'
  BY <1>1, <1>2, <1>4, PostsKept
<1>5. calm' => calm /\ PostHeld(p)
  BY <1>1 DEF Between, Turn, BoardInv, BoardCalm
<1>6. CASE Push(p)
  BY <1>4, <1>5, <1>6, PushShows
<1>7. CASE CreatePost(p) \/ UpdatePost(p) \/ RemovePost(p) \/ SetReaction(p) \/ RemoveReaction(p)
  BY <1>3, <1>4, <1>7, PostsBegin DEF board, wires
<1>8. CASE SavePost(p) \/ DeletePost(p) \/ SaveReaction(p) \/ DeleteReaction(p)
  <2>1. UNCHANGED <<open, seen>>
    BY <1>8 DEF SavePost, DeletePost, SaveReaction, DeleteReaction, wires
  <2> QED BY <1>3, <1>4, <1>5, <1>8, <2>1, PostsWrite
<1>9. CASE CountReactions(p) \/ FindReaction(p) \/ FindPost(p) \/ RereadPost(p)
  <2>1. UNCHANGED board
    BY <1>9 DEF CountReactions, FindReaction, FindPost, RereadPost
  <2>2. SeenInv' /\ overdue' = overdue
    BY <1>3, <2>1 DEF board, wires, wall
  <2> QED BY <1>4, <1>5, <1>9, <2>2, PostsReread
<1> QED BY <1>6, <1>7, <1>8, <1>9 DEF TeamPostsNext

\* Every step does.
LEMMA BoardInvStep ==
  ASSUME CalmInv, BoardInv, [ServicesNext]_servicesVars
  PROVE  BoardInv'
<1>1. Slots /\ Sole /\ WiresInv'
  BY WiresStep DEF CalmInv, RevokingInv, BoardInv
<1>2. ASSUME NEW p \in Requests, TeamPostsNext(p)
      PROVE  BoardInv'
  BY <1>1, <1>2, BoardStep
<1>3. UNCHANGED board => SeenInv' /\ (Current => Current') /\ UNCHANGED <<post, reactions, overdue>>
  BY DEF board, wall, wires, BoardInv, SeenInv, Links, Unseen, Current, View, Counts
<1>4. ASSUME NEW p \in Requests, RefreshTokensNext(p) \/ PageCacheNext(p) \/ FilesNext(p),
             UNCHANGED board
      PROVE  BoardInv'
  <2>1. PICK here \in {TokenLabels, PageLabels, FileLabels} : Between(p, here)
    BY <1>1, <1>4, TokenSteps, PageSteps, FileSteps
  <2>2. Away(PostLabels)
    BY <2>1, LabelsApart, ElsewhereAway
  <2>3. calm' => calm
    BY <2>1 DEF Between, Turn
  <2> QED BY <1>1, <1>3, <1>4, <2>2, <2>3, BoardStays
<1>5. ASSUME UNCHANGED control, UNCHANGED board
      PROVE  BoardInv'
  BY <1>1, <1>3, <1>5, ControlAway, BoardStays
<1>6. CASE HandleConnection
  <2>1. UNCHANGED control /\ UNCHANGED wall /\ SeenInv' /\ (Current => Current')
    BY <1>6, ConnectionShows DEF HandleConnection
  <2> QED BY <1>1, <2>1, ControlAway, BoardStays DEF wall
<1>7. CASE HandleDisconnect
  <2>1. UNCHANGED control /\ UNCHANGED wall /\ SeenInv' /\ (Current => Current')
    BY <1>7, DisconnectionShows DEF HandleDisconnect
  <2> QED BY <1>1, <2>1, ControlAway, BoardStays DEF wall
<1>8. CASE DueDatePasses
  <2>1. UNCHANGED control /\ overdue' /\ UNCHANGED <<post, reactions, wires>>
    BY <1>8 DEF DueDatePasses
  <2>2. SeenInv' /\ (Current => Current')
    BY <2>1 DEF wires, BoardInv, SeenInv, Links, Unseen, Current, View, Counts
  <2> QED BY <1>1, <2>1, <2>2, ControlAway, BoardStays
<1>9. Tick \/ (\E key \in PageKeys : Expire(key)) \/ UNCHANGED servicesVars => UNCHANGED control
  BY DEF Tick, Expire, servicesVars
<1>10. UNCHANGED servicesVars => UNCHANGED board
  BY DEF servicesVars
<1> QED BY <1>2, <1>4, <1>5, <1>6, <1>7, <1>8, <1>9, <1>10 DEF ServicesNext

\* PostsService and TeamPostsGateway: when requests, their pushes included, come
\* one at a time, what a socket was last sent is the post as it is.
THEOREM BoardShowsPost == ServicesSpec => []BoardCurrent
<1>1. ServicesInit => CalmInv /\ BoardInv
  <2> SUFFICES ASSUME ServicesInit PROVE BoardInv
    BY CalmStart
  <2>1. WiresInv /\ SeenInv /\ Current
    BY DEF ServicesInit, TeamPostsInit, WiresInv, Reachable, SeenInv, Links, Current
  <2>2. \A p \in Requests : PostHeld(p)
    BY LabelsApart DEF ServicesInit, HandlersInit, PostHeld
  <2> QED BY <2>1, <2>2 DEF BoardInv, BoardCalm
<1>2. CalmInv /\ BoardInv /\ [ServicesNext]_servicesVars => CalmInv' /\ BoardInv'
  BY CalmStep, BoardInvStep
<1>3. BoardInv => BoardCurrent
  BY LabelsApart DEF BoardInv, BoardCalm, BoardCurrent, Current
<1> QED BY <1>1, <1>2, <1>3, PTL DEF ServicesSpec

(***************************************************************************)
(* Pages, however requests overlap. A demand that a write makes good by    *)
(* dropping pages is met by pages stored since, or a request is still      *)
(* going to drop what is older: it waits to read the game's players again, *)
(* it knows its pages, or its scan has them.                               *)
(***************************************************************************)

GameStates == [there : {"never", "yes", "no"}, over : BOOLEAN, cancelled : BOOLEAN]

\* Nothing is owed that has not been written.
DemandsFit ==
  /\ version \in [PageKeys -> Nat] /\ due \in [PageKeys -> Nat] /\ firm \in [PageKeys -> Nat]
  /\ \A key \in PageKeys : due[key] <= version[key] /\ firm[key] <= version[key]

\* A game that is not there has no players.
Typed == DemandsFit /\ game \in GameStates /\ (~Exists => players = {})

\* What the writers of games and events hold.
IsWriter(h) ==
  /\ h = [op |-> h.op, game |-> h.game, entries |-> h.entries, drop |-> h.drop]
  /\ h.game \in GameStates

WriterLabels == {"writeEnd", "reread", "writeClose", "writeCancel", "removeSave", "joinEvent",
                 "updateEvent", "leaveEvent"}

Holds(p) == pc[p] \in WriterLabels => IsWriter(local[p]) /\ local[p].op # "deleteEvent"

\* Pages were stored at some version.
StoredFit == \A key \in PageKeys \cap Cached : cache[key].stored \in Nat

\* The inductive invariant of the pages, with requests that overlap.
PagesInv == Typed /\ (\A p \in Requests : Holds(p)) /\ StoredFit /\ NoPageSurvives

\* A writer starts with such a record,
LEMMA WriterMade ==
  ASSUME Typed, NEW op
  PROVE  IsWriter(Writer(op)) /\ Writer(op).op = op /\ Writer(op).game = game
BY DEF IsWriter, Writer, Typed

\* and keeps one when it knows what to drop.
LEMMA WriterDrop ==
  ASSUME NEW h, IsWriter(h), NEW x, NEW g, g = [h EXCEPT !.drop = x]
  PROVE  IsWriter(g) /\ g.drop = x /\ g.op = h.op /\ g.game = h.game
<1>1. g = [op |-> h.op, game |-> h.game, entries |-> h.entries, drop |-> x]
  BY DEF IsWriter
<1> QED BY <1>1 DEF IsWriter

\* A write counts a version further, and owes nothing beyond it.
LEMMA DemandsKept ==
  ASSUME DemandsFit, NEW keys, NEW owed,
         Change(keys) \/ Promise(keys, owed) \/ PromiseFirmly(keys, owed) \/ Leaving(keys, owed)
  PROVE  DemandsFit'
<1>1. /\ version' = [key \in PageKeys |-> IF key \in keys THEN version[key] + 1 ELSE version[key]]
      /\ version' \in [PageKeys -> Nat]
      /\ \A key \in PageKeys : version[key] \in Nat /\ due[key] \in Nat /\ firm[key] \in Nat
  BY DEF DemandsFit, Change, Promise, PromiseFirmly, Leaving, Bump
<1>2. \A key \in PageKeys : version[key] <= version'[key]
  BY <1>1
<1>3. ASSUME NEW d \in [PageKeys -> Nat], \A key \in PageKeys : d[key] <= version[key],
             NEW raised, raised \subseteq keys, NEW e, e = Raised(d, raised)
      PROVE  e \in [PageKeys -> Nat] /\ \A key \in PageKeys : e[key] <= version'[key]
  BY <1>1, <1>2, <1>3 DEF Raised
<1>4. due' \in [PageKeys -> Nat] /\ \A key \in PageKeys : due'[key] <= version'[key]
  <2>1. CASE due' = due
    BY <1>1, <1>2, <2>1 DEF DemandsFit
  <2>2. CASE due' = Raised(due, keys \cap owed)
    BY <1>3, <2>2 DEF DemandsFit
  <2> QED BY <2>1, <2>2 DEF Change, Promise, PromiseFirmly, Leaving
<1>5. firm' \in [PageKeys -> Nat] /\ \A key \in PageKeys : firm'[key] <= version'[key]
  <2>1. CASE firm' = firm
    BY <1>1, <1>2, <2>1 DEF DemandsFit
  <2>2. CASE firm' = Raised(firm, keys \cap owed)
    BY <1>3, <2>2 DEF DemandsFit
  <2>3. CASE Leaving(keys, owed)
    BY <1>1, <1>2, <2>3 DEF DemandsFit, Leaving
  <2> QED BY <2>1, <2>2, <2>3 DEF Change, Promise, PromiseFirmly
<1> QED BY <1>1, <1>4, <1>5 DEF DemandsFit

\* Steps that write nothing the pages show keep the types.
LEMMA TypedStays ==
  ASSUME Typed, UNCHANGED pages
  PROVE  Typed'
BY DEF Typed, DemandsFit, pages, Exists

\* The reads of the game and the event: they hold what they read.
LEMMA ReadsTyped ==
  ASSUME Typed, NEW p \in Requests, Slots, Holds(p),
         \/ ReadPage(p) \/ QueryPage(p) \/ SetPage(p) \/ EndGame(p) \/ Reread(p) \/ FindStaleGame(p)
         \/ CancelGame(p) \/ RemoveGame(p) \/ ReadEvent(p) \/ DropPages(p) \/ DroppingPages(p)
         \/ PagesDropped(p)
  PROVE  Typed' /\ Holds(p)'
<1>1. UNCHANGED pages
  BY DEF ReadPage, QueryPage, SetPage, EndGame, Reread, FindStaleGame, CancelGame, RemoveGame,
         ReadEvent, DropPages, DroppingPages, PagesDropped
<1>2. SUFFICES Holds(p)'
  BY <1>1, TypedStays
<1>3. CASE \/ ReadPage(p) \/ QueryPage(p) \/ SetPage(p) \/ DropPages(p) \/ DroppingPages(p)
           \/ PagesDropped(p) \/ Reread(p)
  <2>1. pc'[p] \notin WriterLabels
    <3> USE DEF WriterLabels
    <3>1. CASE ReadPage(p)
      <4>1. PICK key \in PageKeys :
              /\ Arrive(p, IF key[1] = "history" THEN "readHistory" ELSE "readEvents")
              /\ UNCHANGED <<pc, local>> \/ Suspend(p, "query", [op |-> "read", key |-> key])
        BY <3>1 DEF ReadPage, AtOnce
      <4> QED BY <4>1, TurnOf DEF Suspend, Slots
    <3>2. CASE QueryPage(p) \/ SetPage(p) \/ DropPages(p)
      BY <3>2 DEF QueryPage, SetPage, DropPages, Suspend, Return, Slots
    <3>3. CASE DroppingPages(p)
      BY <3>3 DEF DroppingPages, At, AtOnce
    <3>4. CASE PagesDropped(p) \/ Reread(p)
      BY <3>4 DEF PagesDropped, Reread, Suspend, Return, Slots
    <3> QED BY <1>3, <3>1, <3>2, <3>3, <3>4
  <2> QED BY <2>1 DEF Holds
<1>4. CASE EndGame(p) \/ RemoveGame(p)
  <2>1. PICK op \in {"endGame", "removeGame"} : local'[p] = Writer(op)
    BY <1>4 DEF EndGame, RemoveGame, Suspend, Slots
  <2>2. IsWriter(local'[p]) /\ local'[p].op # "deleteEvent"
    BY <2>1, WriterMade
  <2> QED BY <2>2 DEF Holds, IsWriter, GameStates
<1>5. CASE FindStaleGame(p) \/ CancelGame(p)
  <2>1. PICK op \in {"closeStale", "cancelGame"}, x \in {Histories(players), {}} :
          local'[p] = [Writer(op) EXCEPT !.drop = x]
    BY <1>5 DEF FindStaleGame, CancelGame, Suspend, Slots
  <2>2. IsWriter(Writer(op)) /\ Writer(op).op = op
    BY WriterMade
  <2>3. IsWriter(local'[p]) /\ local'[p].op = op
    BY <2>1, <2>2, WriterDrop
  <2> QED BY <2>3 DEF Holds, IsWriter, GameStates
<1>6. CASE ReadEvent(p)
  <2>1. PICK op \in {"joinEvent", "updateEvent", "leaveEvent", "deleteEvent"} :
          IF op = "deleteEvent"
          THEN Suspend(p, "drop", [Writer(op) EXCEPT !.drop = EventLists(Entered(entries))])
          ELSE Suspend(p, op, Writer(op))
    BY <1>6 DEF ReadEvent
  <2>2. CASE op = "deleteEvent"
    BY <2>1, <2>2 DEF Suspend, Slots, Holds, WriterLabels
  <2>3. CASE op # "deleteEvent"
    <3>1. local'[p] = Writer(op)
      BY <2>1, <2>3 DEF Suspend, Slots
    <3>2. IsWriter(local'[p]) /\ local'[p].op # "deleteEvent"
      BY <2>3, <3>1, WriterMade
    <3> QED BY <3>2 DEF Holds, IsWriter, GameStates
  <2> QED BY <2>2, <2>3
<1> QED BY <1>3, <1>4, <1>5, <1>6

\* The writes of the game: they change its row and its players.
LEMMA GameTyped ==
  ASSUME Typed, NEW p \in Requests, Slots, Holds(p),
         \/ CreateGame(p) \/ WriteEnd(p) \/ WriteClose(p) \/ WriteCancel(p) \/ UpdateGame(p)
         \/ MovePlayer(p) \/ RemoveSave(p) \/ RemoveDelete(p)
  PROVE  Typed' /\ Holds(p)'
<1>1. DemandsFit /\ game \in GameStates /\ (~Exists => players = {})
  BY DEF Typed
<1>2. DemandsFit'
  <2>1. \E keys, owed :
          Change(keys) \/ Promise(keys, owed) \/ PromiseFirmly(keys, owed) \/ Leaving(keys, owed)
    <3>1. CASE CreateGame(p) \/ UpdateGame(p)
      BY <3>1 DEF CreateGame, UpdateGame
    <3>2. CASE WriteEnd(p) \/ WriteClose(p) \/ WriteCancel(p)
      BY <3>2 DEF WriteEnd, WriteClose, WriteCancel
    <3>3. CASE MovePlayer(p) \/ RemoveSave(p) \/ RemoveDelete(p)
      BY <3>3 DEF MovePlayer, RemoveSave, RemoveDelete
    <3> QED BY <3>1, <3>2, <3>3
  <2> QED BY <1>1, <2>1, DemandsKept
<1>3. game' \in GameStates /\ (~Exists' => players' = {})
  <2>1. CASE CreateGame(p)
    <3>1. game' = [there |-> "yes", over |-> FALSE, cancelled |-> FALSE]
      BY <2>1 DEF CreateGame, NewGame
    <3> QED BY <3>1 DEF GameStates, Exists
  <2>2. CASE WriteEnd(p) \/ WriteClose(p) \/ UpdateGame(p)
    <3>1. PICK over \in BOOLEAN : game' \in {game, [game EXCEPT !.over = over]}
      BY <1>1, <2>2 DEF WriteEnd, WriteClose, UpdateGame, GameStates
    <3>2. players' = players
      BY <2>2 DEF WriteEnd, WriteClose, UpdateGame
    <3> QED BY <1>1, <3>1, <3>2 DEF GameStates, Exists
  <2>3. CASE WriteCancel(p)
    BY <1>1, <2>3 DEF WriteCancel, GameStates, Exists
  <2>4. CASE MovePlayer(p)
    BY <1>1, <2>4 DEF MovePlayer, Exists
  <2>5. CASE RemoveSave(p)
    BY <2>5 DEF RemoveSave, Holds, WriterLabels, At, IsWriter
  <2>6. CASE RemoveDelete(p)
    <3>1. game' = [there |-> "no", over |-> FALSE, cancelled |-> FALSE] /\ players' = {}
      BY <2>6 DEF RemoveDelete, GoneGame
    <3> QED BY <3>1 DEF GameStates
  <2> QED BY <2>1, <2>2, <2>3, <2>4, <2>5, <2>6
<1>4. Holds(p)'
  <2>1. CASE CreateGame(p) \/ UpdateGame(p) \/ MovePlayer(p)
    BY <2>1, TurnOf DEF CreateGame, UpdateGame, MovePlayer, AtOnce, Holds, WriterLabels
  <2>2. CASE WriteEnd(p)
    <3>1. pc[p] = "writeEnd" /\ local'[p] = local[p]
      BY <2>2 DEF WriteEnd, At, Suspend, Slots
    <3> QED BY <3>1 DEF Holds, WriterLabels, IsWriter, GameStates
  <2>3. CASE WriteClose(p) \/ WriteCancel(p) \/ RemoveSave(p) \/ RemoveDelete(p)
    BY <2>3 DEF WriteClose, WriteCancel, RemoveSave, RemoveDelete, Suspend, Return, Slots, Holds,
                WriterLabels
  <2> QED BY <2>1, <2>2, <2>3
<1> QED BY <1>2, <1>3, <1>4 DEF Typed

\* The writes of the event.
LEMMA EventTyped ==
  ASSUME Typed, NEW p \in Requests, Slots, Holds(p),
         CreateEvent(p) \/ JoinEvent(p) \/ UpdateEvent(p) \/ LeaveEvent(p) \/ DeleteEvent(p)
  PROVE  Typed' /\ Holds(p)'
<1>1. CASE CreateEvent(p) \/ DeleteEvent(p)
  <2>1. PICK keys, owed : Change(keys) \/ Promise(keys, owed)
    BY <1>1 DEF CreateEvent, DeleteEvent
  <2>2. UNCHANGED <<game, players>> /\ pc'[p] = "idle"
    BY <1>1, TurnOf DEF CreateEvent, DeleteEvent, AtOnce, Return, Suspend, Slots
  <2> QED BY <2>1, <2>2, DemandsKept DEF Typed, Exists, Holds, WriterLabels
<1>2. CASE JoinEvent(p) \/ UpdateEvent(p) \/ LeaveEvent(p)
  <2>1. PICK teams, owed, users : SaveEvent(p, teams, owed, users)
    BY <1>2 DEF JoinEvent, UpdateEvent, LeaveEvent
  <2>2. UNCHANGED <<game, players>> /\ pc'[p] = "drop" /\ DemandsFit'
    BY <2>1, DemandsKept DEF SaveEvent, Suspend, Slots, Typed
  <2> QED BY <2>2 DEF Typed, Exists, Holds, WriterLabels
<1> QED BY <1>1, <1>2

\* Others' requests leave the page and their scans for it as they were.
Untouched(p, key) ==
  /\ key \in Cached /\ cache'[key] = cache[key]
  /\ \A q \in Requests \ {p} : key \in scans[q] => key \in scans'[q]

\* The page is of the version demanded,
Renewed(key) == cache'[key].stored \in Nat /\ firm'[key] <= cache'[key].stored

\* or as it was: then p is going to drop it, or nothing new is demanded.
Kept(p, key) ==
  /\ Untouched(p, key)
  /\ \/ firm'[key] = 0
     \/ Dropping(p, key)'
     \/ /\ firm'[key] = firm[key] /\ ~Dropping(p, key)
        /\ key \in Histories(players) => key \in Histories(players')

\* A step of p that does this to every page keeps what overlapping requests rely on.
LEMMA PromisesKept ==
  ASSUME PagesInv, NEW p \in Requests, Moved(p), Typed', Holds(p)',
         \A key \in PageKeys : key \in Cached' => Renewed(key) \/ Kept(p, key)
  PROVE  PagesInv'
<1>1. \A q \in Requests : Holds(q)'
  <2> SUFFICES ASSUME NEW q \in Requests, q # p PROVE Holds(q)'
    OBVIOUS
  <2>1. pc'[q] = pc[q] /\ local'[q] = local[q] /\ Holds(q)
    BY DEF Moved, PagesInv
  <2> QED BY <2>1 DEF Holds, IsWriter, GameStates
<1>2. ASSUME NEW key \in PageKeys, key \in Cached'
      PROVE  /\ cache'[key].stored \in Nat
             /\ cache'[key].stored >= firm'[key] \/ \E q \in Requests : Dropping(q, key)'
  <2>1. firm'[key] \in Nat
    BY DEF Typed, DemandsFit
  <2>2. CASE Renewed(key)
    BY <2>1, <2>2 DEF Renewed
  <2>3. CASE Kept(p, key)
    <3>1. /\ key \in Cached /\ cache'[key] = cache[key] /\ cache[key].stored \in Nat
          /\ cache[key].stored >= firm[key] \/ \E q \in Requests : Dropping(q, key)
      BY <2>3 DEF Kept, Untouched, PagesInv, StoredFit, NoPageSurvives
    <3>2. CASE firm'[key] = 0
      BY <3>1, <3>2
    <3>3. CASE Dropping(p, key)'
      BY <3>1, <3>3
    <3>4. CASE /\ firm'[key] = firm[key] /\ ~Dropping(p, key)
               /\ key \in Histories(players) => key \in Histories(players')
      <4>1. CASE cache[key].stored >= firm[key]
        BY <3>1, <3>4, <4>1
      <4>2. ASSUME NEW q \in Requests, Dropping(q, key)
            PROVE  Dropping(q, key)'
        <5>1. pc'[q] = pc[q] /\ local'[q] = local[q] /\ (key \in scans[q] => key \in scans'[q])
          BY <2>3, <3>4, <4>2 DEF Moved, Kept, Untouched
        <5> QED BY <3>4, <4>2, <5>1 DEF Dropping, Histories
      <4> QED BY <3>1, <4>1, <4>2
    <3> QED BY <2>3, <3>2, <3>3, <3>4 DEF Kept
  <2> QED BY <1>2, <2>2, <2>3
<1>3. StoredFit' /\ NoPageSurvives'
  BY <1>2 DEF StoredFit, NoPageSurvives, PageKeys, Kinds
<1> QED BY <1>1, <1>3 DEF PagesInv

\* Steps that leave Redis alone and demand nothing.
LEMMA QuietKeeps ==
  ASSUME NEW p \in Requests, UNCHANGED <<redis, firm>>, players \subseteq players',
         pc[p] \notin {"reread", "drop", "dropping"}, NEW key \in PageKeys, key \in Cached'
  PROVE  Kept(p, key)
BY DEF Kept, Untouched, redis, Cached, Dropping, Histories

\* Those who leave a game are owed nothing more.
LEMMA LeavingKeeps ==
  ASSUME NEW p \in Requests, UNCHANGED redis, NEW keys, Leaving(keys, players'),
         pc[p] \notin {"reread", "drop", "dropping"}, NEW key \in PageKeys, key \in Cached'
  PROVE  Kept(p, key)
<1>1. Untouched(p, key) /\ ~Dropping(p, key)
  BY DEF Untouched, redis, Cached, Dropping
<1>2. CASE key \in Histories(players \ players')
  BY <1>1, <1>2 DEF Kept, Leaving
<1>3. CASE key \notin Histories(players \ players')
  <2>1. firm'[key] = firm[key]
    BY <1>3 DEF Leaving
  <2>2. key \in Histories(players) => key \in Histories(players')
    BY <1>3 DEF Histories
  <2> QED BY <1>1, <2>1, <2>2 DEF Kept
<1> QED BY <1>2, <1>3

\* What is owed is what is going to be dropped.
LEMMA PromiseKeeps ==
  ASSUME NEW p \in Requests, UNCHANGED <<redis, players>>, NEW keys, NEW owed,
         PromiseFirmly(keys, owed), pc[p] \notin {"reread", "drop", "dropping"},
         \A key \in owed : Dropping(p, key)', NEW key \in PageKeys, key \in Cached'
  PROVE  Kept(p, key)
<1>1. Untouched(p, key) /\ ~Dropping(p, key)
  BY DEF Untouched, redis, Cached, Dropping
<1>2. CASE key \in owed
  BY <1>1, <1>2 DEF Kept
<1>3. CASE key \notin owed
  <2>1. firm'[key] = firm[key]
    BY <1>3 DEF PromiseFirmly, Raised
  <2> QED BY <1>1, <2>1 DEF Kept
<1> QED BY <1>2, <1>3

\* The reads and the writes that owe nothing, or nothing to overlapping requests.
LEMMA QuietStep ==
  ASSUME PagesInv, NEW p \in Requests, NEW key \in PageKeys, key \in Cached',
         \/ ReadPage(p) \/ QueryPage(p) \/ CreateGame(p) \/ EndGame(p) \/ FindStaleGame(p)
         \/ WriteClose(p) \/ CancelGame(p) \/ WriteCancel(p) \/ UpdateGame(p) \/ RemoveGame(p)
         \/ CreateEvent(p) \/ ReadEvent(p) \/ DeleteEvent(p)
  PROVE  Kept(p, key)
<1>1. CASE ReadPage(p) \/ QueryPage(p)
  <2>1. UNCHANGED <<redis, pages>> /\ pc[p] \in {"idle", "query"}
    BY <1>1, TurnOf DEF ReadPage, QueryPage
  <2> QED BY <2>1, QuietKeeps DEF pages
<1>2. CASE EndGame(p) \/ FindStaleGame(p) \/ CancelGame(p) \/ RemoveGame(p) \/ ReadEvent(p)
  <2>1. UNCHANGED <<redis, pages>> /\ pc[p] = "idle"
    BY <1>2, TurnOf DEF EndGame, FindStaleGame, CancelGame, RemoveGame, ReadEvent
  <2> QED BY <2>1, QuietKeeps DEF pages
<1>3. CASE CreateGame(p)
  <2>1. players = {} /\ UNCHANGED <<redis, firm>> /\ pc[p] = "idle"
    BY <1>3, TurnOf DEF CreateGame, Change, PagesInv, Typed, Exists, NoGame
  <2> QED BY <2>1, QuietKeeps
<1>4. CASE WriteClose(p) \/ WriteCancel(p) \/ UpdateGame(p)
  <2>1. UNCHANGED <<redis, firm, players>> /\ pc[p] \in {"writeClose", "writeCancel", "idle"}
    BY <1>4, TurnOf DEF WriteClose, WriteCancel, UpdateGame, Change, Promise
  <2> QED BY <2>1, QuietKeeps
<1>5. CASE CreateEvent(p) \/ DeleteEvent(p)
  <2>1. UNCHANGED <<redis, firm, players>> /\ pc[p] \in {"idle", "deleteEvent"}
    BY <1>5, TurnOf DEF CreateEvent, DeleteEvent, Change, Promise
  <2> QED BY <2>1, QuietKeeps
<1> QED BY <1>1, <1>2, <1>3, <1>4, <1>5

\* Players come and go; the game is removed.
LEMMA LeavingStep ==
  ASSUME NEW p \in Requests, NEW key \in PageKeys, key \in Cached',
         MovePlayer(p) \/ RemoveSave(p) \/ RemoveDelete(p)
  PROVE  Kept(p, key)
<1>1. UNCHANGED redis /\ pc[p] \in {"idle", "removeSave", "removeDelete"}
  BY TurnOf DEF MovePlayer, RemoveSave, RemoveDelete
<1>2. \E keys : Leaving(keys, players')
  BY DEF MovePlayer, RemoveSave, RemoveDelete
<1> QED BY <1>1, <1>2, LeavingKeeps

\* endGame owes the players their pages, and will read again who they are.
LEMMA WriteEndStep ==
  ASSUME NEW p \in Requests, Slots, NEW key \in PageKeys, key \in Cached', WriteEnd(p)
  PROVE  Kept(p, key)
<1>1. UNCHANGED <<redis, players>> /\ pc[p] = "writeEnd" /\ pc'[p] = "reread"
  BY DEF WriteEnd, At, Suspend, Slots
<1>2. CASE Exists
  <2>1. PromiseFirmly(Histories(players), Histories(players))
    BY <1>2 DEF WriteEnd
  <2>2. \A k \in Histories(players) : Dropping(p, k)'
    BY <1>1 DEF Dropping, Histories
  <2> QED BY <1>1, <2>1, <2>2, PromiseKeeps
<1>3. CASE ~Exists
  BY <1>1, <1>3, QuietKeeps DEF WriteEnd, Change
<1> QED BY <1>2, <1>3

\* Whoever saves the event drops the lists it owes.
LEMMA SaveEventStep ==
  ASSUME NEW p \in Requests, Slots, Holds(p), NEW key \in PageKeys, key \in Cached',
         JoinEvent(p) \/ UpdateEvent(p) \/ LeaveEvent(p)
  PROVE  Kept(p, key)
<1>1. PICK teams, owed, users : owed \subseteq users /\ SaveEvent(p, teams, owed, users)
  BY DEF JoinEvent, UpdateEvent, LeaveEvent
<1>2. pc[p] \in {"joinEvent", "updateEvent", "leaveEvent"} /\ UNCHANGED <<redis, players>>
  <2>1. pc[p] \in {"joinEvent", "updateEvent", "leaveEvent"}
    BY DEF JoinEvent, UpdateEvent, LeaveEvent, At
  <2> QED BY <1>1, <2>1 DEF SaveEvent
<1>3. pc'[p] = "drop" /\ local'[p] = [local[p] EXCEPT !.drop = EventLists(users)]
  BY <1>1 DEF SaveEvent, Suspend, Slots
<1>4. local'[p].drop = EventLists(users)
  BY <1>2, <1>3, WriterDrop DEF Holds, WriterLabels
<1>5. \A k \in EventLists(owed) : Dropping(p, k)'
  BY <1>1, <1>3, <1>4 DEF Dropping, EventLists
<1> QED BY <1>1, <1>2, <1>5, PromiseKeeps DEF SaveEvent

\* A page that is stored is of the present; the others stay.
LEMMA SetPageStep ==
  ASSUME Typed, NEW p \in Requests, NEW key \in PageKeys, key \in Cached', SetPage(p),
         local[p].key \in PageKeys
  PROVE  Renewed(key) \/ Kept(p, key)
<1>1. /\ pc[p] = "setPage" /\ UNCHANGED pages
      /\ Store(local[p].key, [shows |-> local[p].page, stored |-> version[local[p].key]])
  BY DEF SetPage, At
<1>2. CASE key = local[p].key
  <2>1. cache'[key] = [shows |-> local[p].page, stored |-> version[key]]
    BY <1>1, <1>2 DEF Store
  <2>2. cache'[key].stored = version[key]
    BY <2>1
  <2>3. version[key] \in Nat /\ firm'[key] = firm[key] /\ firm[key] <= version[key]
    BY <1>1 DEF Typed, DemandsFit, pages
  <2> QED BY <2>2, <2>3 DEF Renewed
<1>3. CASE key # local[p].key
  <2>1. Untouched(p, key)
    BY <1>1, <1>3 DEF Store, Cached, Untouched
  <2>2. ~Dropping(p, key)
    BY <1>1 DEF Dropping
  <2>3. firm' = firm /\ players' = players
    BY <1>1 DEF pages
  <2> QED BY <2>1, <2>2, <2>3 DEF Kept
<1> QED BY <1>2, <1>3

\* Until the scan is through a page that was to be dropped and is there is in it.
LEMMA DropStep ==
  ASSUME PagesInv, RevokingInv, NEW p \in Requests, NEW key \in PageKeys, key \in Cached',
         Reread(p) \/ DropPages(p) \/ DroppingPages(p) \/ PagesDropped(p)
  PROVE  Untouched(p, key) /\ (Dropping(p, key) => Dropping(p, key)')
<1>0. Slots /\ DOMAIN scans = Requests
  BY DEF RevokingInv
<1>1. CASE Reread(p)
  <2>1. pc[p] = "reread" /\ UNCHANGED <<redis, players>>
    BY <1>1 DEF Reread, At, pages
  <2>2. Untouched(p, key)
    BY <2>1 DEF Untouched, redis, Cached
  <2>3. ASSUME Dropping(p, key)
        PROVE  Dropping(p, key)'
    <3>1. key \in Histories(players)
      BY <2>1, <2>3 DEF Dropping
    <3>2. Exists
      BY <3>1 DEF PagesInv, Typed, Histories
    <3>3. pc'[p] = "drop" /\ local'[p] = [local[p] EXCEPT !.drop = Histories(players)]
      BY <1>0, <1>1, <3>2 DEF Reread, Suspend, Slots
    <3>4. local'[p].drop = Histories(players)
      BY <2>1, <3>3, WriterDrop DEF PagesInv, Holds, WriterLabels
    <3> QED BY <3>1, <3>3, <3>4 DEF Dropping
  <2> QED BY <2>2, <2>3
<1>2. CASE DropPages(p)
  <2>1. /\ pc[p] = "drop" /\ pc'[p] = "dropping" /\ cache' = cache
        /\ scans' = [scans EXCEPT ![p] = local[p].drop \cap Cached]
    BY <1>0, <1>2 DEF DropPages, At, BeginScan, Suspend, Slots
  <2> QED BY <1>0, <2>1 DEF Untouched, Dropping, Cached
<1>3. CASE DroppingPages(p)
  <2>1. PICK k : Forget({k})
    BY <1>3 DEF DroppingPages, ScanDeletes
  <2>2. pc[p] = "dropping" /\ UNCHANGED <<pc, local>>
    BY <1>3 DEF DroppingPages, At, AtOnce
  <2>3. key # k /\ key \in Cached /\ cache'[key] = cache[key]
    BY <2>1 DEF Forget, Cached
  <2>4. \A q \in Requests : key \in scans[q] => key \in scans'[q]
    BY <2>1, <2>3 DEF Forget
  <2> QED BY <2>2, <2>3, <2>4 DEF Untouched, Dropping
<1>4. CASE PagesDropped(p)
  <2>1. pc[p] = "dropping" /\ scans[p] = {} /\ UNCHANGED redis
    BY <1>4 DEF PagesDropped, At, ScanDone
  <2> QED BY <2>1 DEF Untouched, Dropping, redis, Cached
<1> QED BY <1>1, <1>2, <1>3, <1>4

\* Every step of the page cache keeps the invariant.
LEMMA PagesInvStep ==
  ASSUME PagesInv, RevokingInv, NEW p \in Requests, PageCacheNext(p)
  PROVE  PagesInv'
<1>1. Slots /\ Typed /\ Holds(p) /\ (pc[p] = "setPage" => local[p].key \in PageKeys)
  BY DEF RevokingInv, PagesInv
<1>2. Moved(p)
  BY <1>1, PageSteps DEF Between
<1>3. Typed' /\ Holds(p)'
  BY <1>1, ReadsTyped, GameTyped, EventTyped DEF PageCacheNext
<1>4. SUFFICES ASSUME NEW key \in PageKeys, key \in Cached'
               PROVE  Renewed(key) \/ Kept(p, key)
  BY <1>2, <1>3, PromisesKept
<1>5. CASE SetPage(p)
  BY <1>1, <1>4, <1>5, SetPageStep DEF SetPage, At
<1>6. CASE Reread(p) \/ DropPages(p) \/ DroppingPages(p) \/ PagesDropped(p)
  <2>1. UNCHANGED <<firm, players>>
    BY <1>6 DEF Reread, DropPages, DroppingPages, PagesDropped, pages
  <2> QED BY <1>4, <1>6, <2>1, DropStep DEF Kept
<1>7. CASE MovePlayer(p) \/ RemoveSave(p) \/ RemoveDelete(p)
  BY <1>4, <1>7, LeavingStep
<1>8. CASE WriteEnd(p)
  BY <1>1, <1>4, <1>8, WriteEndStep
<1>9. CASE JoinEvent(p) \/ UpdateEvent(p) \/ LeaveEvent(p)
  BY <1>1, <1>4, <1>9, SaveEventStep
<1> QED BY <1>4, <1>5, <1>6, <1>7, <1>8, <1>9, QuietStep DEF PageCacheNext

\* The account and its tokens leave every page alone, and its scans.
LEMMA TokensUntouch ==
  ASSUME NEW p \in Requests, RevokingInv, RefreshTokensNext(p), NEW key \in PageKeys, key \in Cached'
  PROVE  Untouched(p, key)
<1>0. DOMAIN scans = Requests
  BY DEF RevokingInv
<1>1. CASE StoreRefreshToken(p)
  <2>1. key # Key(local[p].token) /\ Store(Key(local[p].token), account)
    BY <1>1, KeysApart DEF StoreRefreshToken
  <2> QED BY <2>1 DEF Store, Untouched, Cached
<1>2. ASSUME NEW k, Forget({k})
      PROVE  Untouched(p, key)
  <2>1. key \in Cached \ {k} /\ cache'[key] = cache[key]
    BY <1>2 DEF Forget, Cached
  <2> QED BY <1>2, <2>1 DEF Forget, Untouched
<1>3. CASE RevokeRefreshToken(p) \/ Revoking(p)
  BY <1>2, <1>3 DEF RevokeRefreshToken, Revoking, ScanDeletes
<1>4. CASE RevokeAll(p)
  BY <1>0, <1>4 DEF RevokeAll, BeginScan, Untouched, Cached
<1>5. CASE \/ Login(p) \/ RegisterUser(p) \/ GenerateTokens(p) \/ RefreshTokens(p)
           \/ VerifyRefreshToken(p) \/ Logout(p) \/ RemoveUser(p) \/ Revoked(p) \/ DeleteUser(p)
  <2>1. UNCHANGED redis
    BY <1>5 DEF Login, RegisterUser, GenerateTokens, RefreshTokens, VerifyRefreshToken, Logout,
                RemoveUser, Revoked, DeleteUser, ScanDone
  <2> QED BY <2>1 DEF redis, Untouched, Cached
<1> QED BY <1>1, <1>3, <1>4, <1>5 DEF RefreshTokensNext

\* A step within another service keeps the invariant.
LEMMA OthersKeepPages ==
  ASSUME PagesInv, NEW p \in Requests, NEW here, Between(p, here), "idle" \notin PageLabels,
         here \cap PageLabels = {}, UNCHANGED pages,
         \A key \in PageKeys : key \in Cached' => Untouched(p, key)
  PROVE  PagesInv'
<1>1. Moved(p) /\ pc[p] \notin PageLabels /\ pc'[p] \notin PageLabels
  BY DEF Between
<1>2. Typed'
  BY TypedStays DEF PagesInv
<1>3. Holds(p)'
  BY <1>1 DEF Holds, WriterLabels, PageLabels
<1>4. \A key \in PageKeys : key \in Cached' => Kept(p, key)
  BY <1>1 DEF Kept, Dropping, PageLabels, pages
<1> QED BY <1>1, <1>2, <1>3, <1>4, PromisesKept

\* So does a step of nobody's request: a page at most expires.
LEMMA OutsideKeepsPages ==
  ASSUME PagesInv, UNCHANGED control, UNCHANGED pages, UNCHANGED redis \/ \E keys : Forget(keys)
  PROVE  PagesInv'
<1>1. Typed'
  BY TypedStays DEF PagesInv
<1>2. \A q \in Requests : Holds(q)'
  BY DEF PagesInv, Holds, control, IsWriter, GameStates
<1>3. ASSUME NEW key \in PageKeys, key \in Cached'
      PROVE  /\ key \in Cached /\ cache'[key] = cache[key]
             /\ \A q \in Requests : key \in scans[q] => key \in scans'[q]
  BY <1>3 DEF Forget, redis, Cached
<1>4. ASSUME NEW key \in PageKeys, key \in Cached'
      PROVE  /\ cache'[key].stored \in Nat
             /\ cache'[key].stored >= firm'[key] \/ \E q \in Requests : Dropping(q, key)'
  <2>1. cache[key].stored \in Nat
    BY <1>3, <1>4 DEF PagesInv, StoredFit
  <2>2. \A q \in Requests : Dropping(q, key) => Dropping(q, key)'
    BY <1>3, <1>4 DEF Dropping, control, pages
  <2>3. cache[key].stored >= firm[key] \/ \E q \in Requests : Dropping(q, key)
    BY <1>3, <1>4 DEF PagesInv, NoPageSurvives
  <2> QED BY <1>3, <1>4, <2>1, <2>2, <2>3 DEF pages
<1>5. StoredFit' /\ NoPageSurvives'
  BY <1>4 DEF StoredFit, NoPageSurvives, PageKeys, Kinds
<1> QED BY <1>1, <1>2, <1>5 DEF PagesInv

\* What the steps outside the requests are to the pages.
LEMMA OutsidePages ==
  /\ Tick \/ HandleConnection \/ HandleDisconnect \/ DueDatePasses \/ UNCHANGED servicesVars
       => UNCHANGED control
  /\ Tick \/ UNCHANGED servicesVars => UNCHANGED redis
  /\ (\E key \in PageKeys : Expire(key))
       => UNCHANGED control /\ UNCHANGED pages /\ \E keys : Forget(keys)
  /\ UNCHANGED servicesVars => UNCHANGED pages
BY DEF Tick, HandleConnection, HandleDisconnect, DueDatePasses, Expire, servicesVars

\* Every step does.
LEMMA PagesInvAlways ==
  ASSUME RevokingInv, PagesInv, [ServicesNext]_servicesVars
  PROVE  PagesInv'
<1>1. Slots
  BY DEF RevokingInv
<1>2. ASSUME NEW p \in Requests, PageCacheNext(p)
      PROVE  PagesInv'
  BY <1>2, PagesInvStep
<1>3. ASSUME NEW p \in Requests, RefreshTokensNext(p), UNCHANGED pages
      PROVE  PagesInv'
  <2>1. Between(p, TokenLabels)
    BY <1>1, <1>3, TokenSteps
  <2> QED BY <1>3, <2>1, TokensUntouch, OthersKeepPages, LabelsApart
<1>4. ASSUME NEW p \in Requests, FilesNext(p) \/ TeamPostsNext(p), UNCHANGED redis, UNCHANGED pages
      PROVE  PagesInv'
  <2>1. PICK here \in {FileLabels, PostLabels} : Between(p, here)
    BY <1>1, <1>4, FileSteps, PostSteps
  <2>2. \A key \in PageKeys : key \in Cached' => Untouched(p, key)
    BY <1>4 DEF redis, Cached, Untouched
  <2> QED BY <1>4, <2>1, <2>2, OthersKeepPages, LabelsApart
<1>5. ASSUME UNCHANGED control, UNCHANGED pages, UNCHANGED redis \/ \E keys : Forget(keys)
      PROVE  PagesInv'
  BY <1>5, OutsideKeepsPages
<1> QED BY <1>2, <1>3, <1>4, <1>5, OutsidePages DEF ServicesNext

\* At the start there is no page and no game.
LEMMA PagesStart ==
  ASSUME ServicesInit
  PROVE  PagesInv
<1>1. /\ version = [key \in PageKeys |-> 0] /\ due = [key \in PageKeys |-> 0]
      /\ firm = [key \in PageKeys |-> 0] /\ game = NoGame /\ players = {}
  BY DEF ServicesInit, PageCacheInit
<1>2. Typed
  BY <1>1 DEF Typed, DemandsFit, NoGame, GameStates
<1>3. Cached = {}
  BY DEF ServicesInit, RedisInit, Cached
<1>4. \A p \in Requests : Holds(p)
  BY DEF ServicesInit, HandlersInit, Holds, WriterLabels
<1> QED BY <1>2, <1>3, <1>4 DEF PagesInv, StoredFit, NoPageSurvives

\* GamesService and EventsService: however requests overlap, after endGame, a join, an
\* update or a leave no page they owe survives that was in Redis before their write,
\* once the handler has answered.
THEOREM OldPagesGo == ServicesSpec => []NoPageSurvives
<1>1. ServicesInit => RevokingInv /\ PagesInv
  BY CalmStart, PagesStart DEF CalmInv
<1>2. RevokingInv /\ PagesInv /\ [ServicesNext]_servicesVars => RevokingInv' /\ PagesInv'
  BY RevokingStep, PagesInvAlways
<1>3. PagesInv => NoPageSurvives
  BY DEF PagesInv
<1> QED BY <1>1, <1>2, <1>3, PTL DEF ServicesSpec

(***************************************************************************)
(* Pages, as long as requests come one at a time. Now a page shows what is *)
(* due, too: a reader's page is of the present when it is stored, and the  *)
(* writers whose drop does not follow their write know the right pages.    *)
(***************************************************************************)

\* Every page that is there shows what is due, or p is going to drop it.
Accounted(p) ==
  \A key \in PageKeys : key \in Cached => cache[key].shows >= due[key] \/ Dropping(p, key)

\* What requests about pages rely on, await by await.
PageHeld(p) ==
  LET held == local[p] IN
  /\ pc[p] = "setPage" => held.page = version[held.key]
  /\ pc[p] = "writeClose" => held.drop = Histories(players)
  /\ pc[p] = "writeCancel" =>
       /\ held.game.over = game.over
       /\ held.drop = IF game.over THEN Histories(players) ELSE {}
  /\ pc[p] \in {"drop", "dropping"} /\ held.op = "deleteEvent" =>
       held.drop = EventLists(Entered(entries))
  /\ pc[p] = "dropping" => held.drop \cap Cached \subseteq scans[p]
  /\ pc[p] = "deleteEvent" =>
       held.drop = EventLists(Entered(entries)) /\ held.drop \cap Cached = {}

\* The inductive invariant of the pages in a calm behaviour.
PagesCalm ==
  calm =>
    /\ \A key \in PageKeys :
         key \in Cached => cache[key].shows >= due[key] \/ \E q \in Requests : Dropping(q, key)
    /\ \A q \in Requests : PageHeld(q)

\* What everybody relies on who handles pages.
CalmPages == CalmInv /\ PagesInv

\* A step of another service: in a calm behaviour no request is about pages.
LEMMA OthersCalm ==
  ASSUME PagesCalm, Slots, Sole, NEW p \in Requests, NEW here, Between(p, here),
         "idle" \notin PageLabels, here \cap PageLabels = {}, UNCHANGED pages,
         \A key \in PageKeys : key \in Cached' => Untouched(p, key)
  PROVE  PagesCalm'
<1> SUFFICES ASSUME calm'
             PROVE  /\ \A key \in PageKeys : key \in Cached' =>
                         cache'[key].shows >= due'[key] \/ \E q \in Requests : Dropping(q, key)'
                    /\ \A q \in Requests : PageHeld(q)'
  BY DEF PagesCalm, PageKeys, Kinds
<1>1. calm /\ \A q \in Requests : pc[q] \notin PageLabels /\ pc'[q] \notin PageLabels
  BY Alone DEF Only, Between
<1>2. \A q \in Requests : PageHeld(q)'
  BY <1>1 DEF PageHeld, PageLabels
<1>3. \A q \in Requests, key \in PageKeys : ~Dropping(q, key)
  BY <1>1 DEF Dropping, PageLabels
<1> QED BY <1>1, <1>2, <1>3 DEF PagesCalm, Untouched, pages

\* Steps outside the requests: a page at most expires.
LEMMA OutsideCalm ==
  ASSUME PagesCalm, UNCHANGED control, UNCHANGED pages, UNCHANGED redis \/ \E keys : Forget(keys)
  PROVE  PagesCalm'
<1>1. ASSUME NEW key \in PageKeys, key \in Cached'
      PROVE  /\ key \in Cached /\ cache'[key] = cache[key]
             /\ \A q \in Requests : key \in scans[q] => key \in scans'[q]
  BY <1>1 DEF Forget, redis, Cached
<1>2. \A q \in Requests, key \in PageKeys : key \in Cached' => (Dropping(q, key) => Dropping(q, key)')
  BY <1>1 DEF control, pages, Dropping
<1>3. ASSUME NEW q \in Requests, PageHeld(q)
      PROVE  PageHeld(q)'
  <2>1. Cached' \subseteq Cached /\ scans[q] \cap Cached' \subseteq scans'[q]
    BY DEF redis, Forget, Cached
  <2> QED BY <1>3, <2>1 DEF PageHeld, control, pages, Histories, EventLists, Entered
<1>4. SUFFICES ASSUME calm'
               PROVE  \A key \in PageKeys : key \in Cached' =>
                        cache'[key].shows >= due'[key] \/ \E q \in Requests : Dropping(q, key)'
  BY <1>3 DEF PagesCalm, control, PageKeys, Kinds
<1> QED BY <1>1, <1>2, <1>4 DEF PagesCalm, control, pages

\* A step of p when nobody else is under way.
LEMMA PagesKept ==
  ASSUME NEW p \in Requests, Slots, Sole, Between(p, PageLabels),
         calm' => Accounted(p)' /\ PageHeld(p)'
  PROVE  PagesCalm'
<1> SUFFICES ASSUME calm'
             PROVE  /\ \A key \in PageKeys : key \in Cached' =>
                         cache'[key].shows >= due'[key] \/ \E q \in Requests : Dropping(q, key)'
                    /\ \A q \in Requests : PageHeld(q)'
  BY DEF PagesCalm, PageKeys, Kinds
<1>1. \A q \in Requests \ {p} : pc'[q] = "idle"
  BY Alone DEF Only, Between
<1>2. \A q \in Requests \ {p} : PageHeld(q)'
  BY <1>1 DEF PageHeld
<1> QED BY <1>2 DEF Accounted, PageKeys, Kinds

\* What a step of p may rely on, nobody else being under way.
LEMMA PagesFound ==
  ASSUME NEW p \in Requests, Slots, Sole, Between(p, PageLabels), PagesCalm, calm'
  PROVE  Accounted(p) /\ PageHeld(p)
<1>1. calm /\ \A q \in Requests \ {p} : pc[q] = "idle"
  BY Alone DEF Only, Between
<1>2. \A q \in Requests, key \in PageKeys : Dropping(q, key) => q = p
  BY <1>1 DEF Dropping
<1> QED BY <1>1, <1>2 DEF PagesCalm, Accounted

\* Nothing more is due than what is going to be dropped.
LEMMA DueAccounted ==
  ASSUME NEW p \in Requests, Accounted(p), pc[p] \notin {"reread", "drop", "dropping"},
         UNCHANGED redis,
         \A key \in PageKeys : key \in Cached => due'[key] = due[key] \/ Dropping(p, key)'
  PROVE  Accounted(p)'
<1> SUFFICES ASSUME NEW key \in PageKeys, key \in Cached'
             PROVE  cache'[key].shows >= due'[key] \/ Dropping(p, key)'
  BY DEF Accounted, PageKeys, Kinds
<1>1. key \in Cached /\ cache'[key] = cache[key] /\ ~Dropping(p, key)
  BY DEF redis, Cached, Dropping
<1> QED BY <1>1 DEF Accounted

\* The reads of the game and the event hold the pages to drop.
LEMMA ReadsAccounted ==
  ASSUME Typed, NEW p \in Requests, Slots, Accounted(p),
         \/ ReadPage(p) \/ QueryPage(p) \/ EndGame(p) \/ FindStaleGame(p) \/ CancelGame(p)
         \/ RemoveGame(p) \/ ReadEvent(p)
  PROVE  Accounted(p)' /\ PageHeld(p)'
<1>1. UNCHANGED <<redis, pages>> /\ pc[p] \in {"idle", "query"}
  BY TurnOf DEF ReadPage, QueryPage, EndGame, FindStaleGame, CancelGame, RemoveGame, ReadEvent
<1>2. Accounted(p)'
  BY <1>1, DueAccounted DEF pages
<1>3. SUFFICES PageHeld(p)'
  BY <1>2
<1>4. CASE ReadPage(p)
  <2>1. pc'[p] \in {"idle", "query"}
    <3>1. PICK key \in PageKeys :
            /\ Arrive(p, IF key[1] = "history" THEN "readHistory" ELSE "readEvents")
            /\ UNCHANGED <<pc, local>> \/ Suspend(p, "query", [op |-> "read", key |-> key])
      BY <1>4 DEF ReadPage, AtOnce
    <3> QED BY <3>1, TurnOf DEF Suspend, Slots
  <2> QED BY <2>1 DEF PageHeld
<1>5. CASE QueryPage(p)
  <2>1. /\ pc'[p] = "setPage"
        /\ local'[p] = [op |-> "read", key |-> local[p].key, page |-> version[local[p].key]]
    BY <1>5 DEF QueryPage, Suspend, Slots
  <2>2. local'[p].key = local[p].key /\ local'[p].page = version[local[p].key]
    BY <2>1
  <2>3. local'[p].page = version'[local'[p].key]
    BY <1>1, <2>2 DEF pages
  <2> QED BY <2>1, <2>3 DEF PageHeld
<1>6. CASE EndGame(p) \/ RemoveGame(p)
  <2>1. pc'[p] \in {"writeEnd", "removeSave"}
    BY <1>6 DEF EndGame, RemoveGame, Suspend, Slots
  <2> QED BY <2>1 DEF PageHeld
<1>7. CASE FindStaleGame(p)
  <2>1. /\ pc'[p] = "writeClose" /\ players' = players
        /\ local'[p] = [Writer("closeStale") EXCEPT !.drop = Histories(players)]
    BY <1>7 DEF FindStaleGame, Suspend, Slots, pages
  <2>2. local'[p].drop = Histories(players)
    BY <2>1, WriterMade, WriterDrop
  <2> QED BY <2>1, <2>2 DEF PageHeld, Histories
<1>8. CASE CancelGame(p)
  <2> DEFINE x == IF game.over THEN Histories(players) ELSE {}
  <2>1. /\ pc'[p] = "writeCancel" /\ UNCHANGED <<game, players>>
        /\ local'[p] = [Writer("cancelGame") EXCEPT !.drop = x]
    BY <1>8 DEF CancelGame, Suspend, Slots, pages
  <2>2. IsWriter(Writer("cancelGame")) /\ Writer("cancelGame").game = game
    BY WriterMade
  <2>3. local'[p].drop = x /\ local'[p].game = game
    BY <2>1, <2>2, WriterDrop
  <2> QED BY <2>1, <2>3 DEF PageHeld, Histories
<1>9. CASE ReadEvent(p)
  <2>1. PICK op \in {"joinEvent", "updateEvent", "leaveEvent", "deleteEvent"} :
          IF op = "deleteEvent"
          THEN Suspend(p, "drop", [Writer(op) EXCEPT !.drop = EventLists(Entered(entries))])
          ELSE Suspend(p, op, Writer(op))
    BY <1>9 DEF ReadEvent
  <2>2. CASE op = "deleteEvent"
    <3>1. /\ pc'[p] = "drop" /\ entries' = entries
          /\ local'[p] = [Writer(op) EXCEPT !.drop = EventLists(Entered(entries))]
      BY <1>1, <2>1, <2>2 DEF Suspend, Slots, pages
    <3>2. local'[p].drop = EventLists(Entered(entries))
      BY <3>1, WriterMade, WriterDrop
    <3> QED BY <3>1, <3>2 DEF PageHeld, EventLists, Entered
  <2>3. CASE op # "deleteEvent"
    <3>1. pc'[p] \in {"joinEvent", "updateEvent", "leaveEvent"}
      BY <2>1, <2>3 DEF Suspend, Slots
    <3> QED BY <3>1 DEF PageHeld
  <2> QED BY <2>2, <2>3
<1> QED BY <1>4, <1>5, <1>6, <1>7, <1>8, <1>9

\* A reader stores the page as it is: nobody has written since its query.
LEMMA SetPageAccounted ==
  ASSUME Typed, NEW p \in Requests, Slots, Accounted(p), PageHeld(p), SetPage(p),
         local[p].key \in PageKeys
  PROVE  Accounted(p)' /\ PageHeld(p)'
<1>1. /\ pc[p] = "setPage" /\ pc'[p] = "idle" /\ UNCHANGED pages
      /\ Store(local[p].key, [shows |-> local[p].page, stored |-> version[local[p].key]])
  BY DEF SetPage, At, Return, Suspend, Slots
<1>2. ASSUME NEW key \in PageKeys, key \in Cached'
      PROVE  cache'[key].shows >= due'[key]
  <2>1. CASE key = local[p].key
    <3>1. cache'[key] = [shows |-> version[key], stored |-> version[key]]
      BY <1>1, <2>1 DEF Store, PageHeld
    <3>2. due'[key] = due[key] /\ due[key] \in Nat /\ version[key] \in Nat
          /\ due[key] <= version[key]
      BY <1>1 DEF Typed, DemandsFit, pages
    <3> QED BY <3>1, <3>2
  <2>2. CASE key # local[p].key
    <3>1. key \in Cached /\ cache'[key] = cache[key] /\ ~Dropping(p, key) /\ due' = due
      BY <1>1, <1>2, <2>2 DEF Store, Cached, Dropping, pages
    <3> QED BY <3>1 DEF Accounted
  <2> QED BY <2>1, <2>2
<1> QED BY <1>1, <1>2 DEF Accounted, PageHeld, PageKeys, Kinds

\* The writes of the game make due what their handler is going to drop.
LEMMA GameAccounted ==
  ASSUME NEW p \in Requests, Slots, Accounted(p), PageHeld(p), Holds(p),
         \/ CreateGame(p) \/ WriteEnd(p) \/ WriteClose(p) \/ WriteCancel(p) \/ UpdateGame(p)
         \/ MovePlayer(p) \/ RemoveSave(p) \/ RemoveDelete(p)
  PROVE  Accounted(p)' /\ PageHeld(p)'
<1>1. CASE \/ CreateGame(p) \/ UpdateGame(p) \/ MovePlayer(p) \/ RemoveSave(p) \/ RemoveDelete(p)
  <2>1. /\ UNCHANGED <<redis, due>> /\ pc[p] \in {"idle", "removeSave", "removeDelete"}
        /\ pc'[p] \in {"idle", "removeDelete"}
    <3>1. CASE CreateGame(p) \/ UpdateGame(p) \/ MovePlayer(p)
      BY <3>1, TurnOf DEF CreateGame, UpdateGame, MovePlayer, AtOnce, Change, Leaving
    <3>2. CASE RemoveSave(p) \/ RemoveDelete(p)
      BY <3>2 DEF RemoveSave, RemoveDelete, At, Return, Suspend, Slots, Leaving
    <3> QED BY <1>1, <3>1, <3>2
  <2> QED BY <2>1, DueAccounted DEF PageHeld
<1>2. CASE WriteEnd(p)
  <2>1. /\ UNCHANGED <<redis, players>> /\ pc[p] = "writeEnd" /\ pc'[p] = "reread"
        /\ due' = due \/ due' = Raised(due, Histories(players))
    BY <1>2 DEF WriteEnd, At, Suspend, Slots, PromiseFirmly, Change
  <2>2. \A key \in PageKeys : due'[key] = due[key] \/ Dropping(p, key)'
    BY <2>1 DEF Raised, Dropping, Histories
  <2> QED BY <2>1, <2>2, DueAccounted DEF PageHeld
<1>3. CASE WriteClose(p)
  <2>1. /\ UNCHANGED <<redis, players>> /\ pc[p] = "writeClose" /\ pc'[p] = "drop"
        /\ local'[p] = local[p]
        /\ due' = due \/ due' = Raised(due, Histories(players))
    BY <1>3 DEF WriteClose, At, Suspend, Slots, Promise, Change
  <2>2. local'[p].drop = Histories(players) /\ local'[p].op # "deleteEvent"
    BY <2>1 DEF PageHeld, Holds, WriterLabels
  <2>3. \A key \in PageKeys : due'[key] = due[key] \/ Dropping(p, key)'
    BY <2>1, <2>2 DEF Raised, Dropping
  <2> QED BY <2>1, <2>2, <2>3, DueAccounted DEF PageHeld
<1>4. CASE WriteCancel(p)
  <2>1. /\ UNCHANGED redis /\ pc[p] = "writeCancel"
        /\ Promise(Histories(players), IF game.over THEN Histories(players) ELSE {})
        /\ IF local[p].game.over THEN pc'[p] = "drop" /\ local'[p] = local[p] ELSE pc'[p] = "idle"
    BY <1>4 DEF WriteCancel, At, Return, Suspend, Slots
  <2>2. /\ local[p].game.over = game.over /\ local[p].op # "deleteEvent"
        /\ local[p].drop = IF game.over THEN Histories(players) ELSE {}
    BY <2>1 DEF PageHeld, Holds, WriterLabels
  <2>3. CASE game.over
    <3>1. /\ pc'[p] = "drop" /\ local'[p] = local[p] /\ local[p].drop = Histories(players)
          /\ due' = Raised(due, Histories(players))
      BY <2>1, <2>2, <2>3 DEF Promise
    <3>2. \A key \in PageKeys : due'[key] = due[key] \/ Dropping(p, key)'
      BY <3>1 DEF Raised, Dropping
    <3> QED BY <2>1, <2>2, <3>1, <3>2, DueAccounted DEF PageHeld
  <2>4. CASE ~game.over
    <3>1. pc'[p] = "idle" /\ \A key \in PageKeys : due'[key] = due[key]
      BY <2>1, <2>2, <2>4 DEF Promise, Raised
    <3> QED BY <2>1, <3>1, DueAccounted DEF PageHeld
  <2> QED BY <2>3, <2>4
<1> QED BY <1>1, <1>2, <1>3, <1>4

\* So do those of the event; a deletion has dropped its lists before.
LEMMA EventAccounted ==
  ASSUME NEW p \in Requests, Slots, Accounted(p), PageHeld(p), Holds(p),
         CreateEvent(p) \/ JoinEvent(p) \/ UpdateEvent(p) \/ LeaveEvent(p) \/ DeleteEvent(p)
  PROVE  Accounted(p)' /\ PageHeld(p)'
<1>1. CASE CreateEvent(p)
  <2>1. UNCHANGED <<redis, due>> /\ pc[p] = "idle" /\ pc'[p] = "idle"
    BY <1>1, TurnOf DEF CreateEvent, AtOnce, Change
  <2> QED BY <2>1, DueAccounted DEF PageHeld
<1>2. CASE JoinEvent(p) \/ UpdateEvent(p) \/ LeaveEvent(p)
  <2>1. PICK teams, owed, users : owed \subseteq users /\ SaveEvent(p, teams, owed, users)
    BY <1>2 DEF JoinEvent, UpdateEvent, LeaveEvent
  <2>2. pc[p] \in {"joinEvent", "updateEvent", "leaveEvent"} /\ UNCHANGED redis
    <3>1. UNCHANGED redis
      BY <2>1 DEF SaveEvent
    <3> QED BY <1>2, <3>1 DEF JoinEvent, UpdateEvent, LeaveEvent, At
  <2>3. pc'[p] = "drop" /\ local'[p] = [local[p] EXCEPT !.drop = EventLists(users)]
    BY <2>1 DEF SaveEvent, Suspend, Slots
  <2>4. local'[p].drop = EventLists(users) /\ local'[p].op # "deleteEvent"
    BY <2>2, <2>3, WriterDrop DEF Holds, WriterLabels
  <2>5. \A key \in PageKeys : due'[key] = due[key] \/ Dropping(p, key)'
    <3>1. ASSUME NEW key \in PageKeys, due'[key] # due[key]
          PROVE  key \in EventLists(users)
      BY <2>1, <3>1 DEF SaveEvent, PromiseFirmly, Raised, EventLists
    <3> QED BY <2>3, <2>4, <3>1 DEF Dropping
  <2> QED BY <2>2, <2>3, <2>4, <2>5, DueAccounted DEF PageHeld
<1>3. CASE DeleteEvent(p)
  <2>1. /\ pc[p] = "deleteEvent" /\ pc'[p] = "idle" /\ UNCHANGED redis
        /\ Promise(Showing(entries) \cup Histories(players), EventLists(Entered(entries)))
    BY <1>3 DEF DeleteEvent, At, Return, Suspend, Slots
  <2>2. EventLists(Entered(entries)) \cap Cached = {}
    BY <2>1 DEF PageHeld
  <2>3. \A key \in PageKeys : key \in Cached => due'[key] = due[key]
    BY <2>1, <2>2 DEF Promise, Raised
  <2> QED BY <2>1, <2>3, DueAccounted DEF PageHeld
<1> QED BY <1>1, <1>2, <1>3

\* The pages are dropped: the scan has all that are there.
LEMMA DropsAccounted ==
  ASSUME NEW p \in Requests, PagesInv, RevokingInv, Accounted(p), PageHeld(p),
         Reread(p) \/ DropPages(p) \/ DroppingPages(p) \/ PagesDropped(p)
  PROVE  Accounted(p)' /\ PageHeld(p)'
<1>0. Slots /\ DOMAIN scans = Requests
  BY DEF RevokingInv
<1>1. UNCHANGED pages
  BY DEF Reread, DropPages, DroppingPages, PagesDropped
<1>2. Accounted(p)'
  <2> SUFFICES ASSUME NEW key \in PageKeys, key \in Cached'
               PROVE  cache'[key].shows >= due'[key] \/ Dropping(p, key)'
    BY DEF Accounted, PageKeys, Kinds
  <2>1. /\ key \in Cached /\ cache'[key] = cache[key] /\ due' = due
        /\ Dropping(p, key) => Dropping(p, key)'
    BY <1>1, DropStep DEF Untouched, pages
  <2> QED BY <2>1 DEF Accounted
<1>3. SUFFICES PageHeld(p)'
  BY <1>2
<1>4. CASE Reread(p)
  <2>1. /\ pc[p] = "reread"
        /\ \/ pc'[p] = "drop" /\ local'[p] = [local[p] EXCEPT !.drop = Histories(players)]
           \/ pc'[p] = "idle"
    BY <1>0, <1>4 DEF Reread, At, Return, Suspend, Slots
  <2>2. pc'[p] = "drop" => local'[p].op # "deleteEvent"
    BY <2>1, WriterDrop DEF PagesInv, Holds, WriterLabels
  <2> QED BY <2>1, <2>2 DEF PageHeld
<1>5. CASE DropPages(p)
  <2>1. /\ pc[p] = "drop" /\ pc'[p] = "dropping" /\ local'[p] = local[p]
        /\ cache' = cache /\ scans' = [scans EXCEPT ![p] = local[p].drop \cap Cached]
    BY <1>0, <1>5 DEF DropPages, At, BeginScan, Suspend, Slots
  <2>2. local'[p].drop \cap Cached' \subseteq scans'[p]
    BY <1>0, <2>1 DEF Cached
  <2> QED BY <1>1, <2>1, <2>2 DEF PageHeld, pages, EventLists, Entered
<1>6. CASE DroppingPages(p)
  <2>1. PICK k : Forget({k})
    BY <1>6 DEF DroppingPages, ScanDeletes
  <2>2. pc[p] = "dropping" /\ UNCHANGED <<pc, local>>
    BY <1>6 DEF DroppingPages, At, AtOnce
  <2>3. Cached' = Cached \ {k} /\ scans'[p] = scans[p] \ {k}
    BY <2>1 DEF Forget, Cached
  <2>4. local'[p].drop \cap Cached' \subseteq scans'[p]
    BY <2>2, <2>3 DEF PageHeld
  <2> QED BY <1>1, <2>2, <2>4 DEF PageHeld, pages, EventLists, Entered
<1>7. CASE PagesDropped(p)
  <2>1. /\ pc[p] = "dropping" /\ scans[p] = {} /\ UNCHANGED redis
        /\ IF local[p].op = "deleteEvent"
           THEN pc'[p] = "deleteEvent" /\ local'[p] = local[p] ELSE pc'[p] = "idle"
    BY <1>0, <1>7 DEF PagesDropped, At, ScanDone, Return, Suspend, Slots
  <2>2. local[p].drop \cap Cached = {} /\ Cached' = Cached
    BY <2>1 DEF PageHeld, redis, Cached
  <2> QED BY <1>1, <2>1, <2>2 DEF PageHeld, pages, EventLists, Entered
<1> QED BY <1>4, <1>5, <1>6, <1>7

\* Every step of the page cache keeps the invariant.
LEMMA PagesStep ==
  ASSUME PagesCalm, CalmPages, NEW p \in Requests, PageCacheNext(p)
  PROVE  PagesCalm'
<1>1. /\ Slots /\ Sole /\ RevokingInv /\ PagesInv /\ Typed /\ Holds(p)
      /\ pc[p] = "setPage" => local[p].key \in PageKeys
  BY DEF CalmPages, CalmInv, RevokingInv, PagesInv
<1>2. Between(p, PageLabels)
  BY <1>1, PageSteps
<1>3. SUFFICES ASSUME calm' PROVE Accounted(p)' /\ PageHeld(p)'
  BY <1>1, <1>2, PagesKept
<1>4. Accounted(p) /\ PageHeld(p)
  BY <1>1, <1>2, <1>3, PagesFound
<1>5. CASE SetPage(p)
  BY <1>1, <1>4, <1>5, SetPageAccounted DEF SetPage, At
<1>6. CASE Reread(p) \/ DropPages(p) \/ DroppingPages(p) \/ PagesDropped(p)
  BY <1>1, <1>4, <1>6, DropsAccounted
<1> QED BY <1>1, <1>4, <1>5, <1>6, ReadsAccounted, GameAccounted, EventAccounted DEF PageCacheNext

\* Every step does.
LEMMA PagesCalmStep ==
  ASSUME CalmPages, PagesCalm, [ServicesNext]_servicesVars
  PROVE  PagesCalm'
<1>1. Slots /\ Sole /\ RevokingInv
  BY DEF CalmPages, CalmInv, RevokingInv
<1>2. ASSUME NEW p \in Requests, PageCacheNext(p)
      PROVE  PagesCalm'
  BY <1>2, PagesStep
<1>3. ASSUME NEW p \in Requests, RefreshTokensNext(p), UNCHANGED pages
      PROVE  PagesCalm'
  <2>1. Between(p, TokenLabels)
    BY <1>1, <1>3, TokenSteps
  <2> QED BY <1>1, <1>3, <2>1, TokensUntouch, OthersCalm, LabelsApart
<1>4. ASSUME NEW p \in Requests, FilesNext(p) \/ TeamPostsNext(p), UNCHANGED redis, UNCHANGED pages
      PROVE  PagesCalm'
  <2>1. PICK here \in {FileLabels, PostLabels} : Between(p, here)
    BY <1>1, <1>4, FileSteps, PostSteps
  <2>2. \A key \in PageKeys : key \in Cached' => Untouched(p, key)
    BY <1>4 DEF redis, Cached, Untouched
  <2> QED BY <1>1, <1>4, <2>1, <2>2, OthersCalm, LabelsApart
<1>5. ASSUME UNCHANGED control, UNCHANGED pages, UNCHANGED redis \/ \E keys : Forget(keys)
      PROVE  PagesCalm'
  BY <1>5, OutsideCalm
<1> QED BY <1>2, <1>3, <1>4, <1>5, OutsidePages DEF ServicesNext

\* GamesService and EventsService: when requests come one at a time, between them no
\* page in Redis is older than what is owed to its user.
THEOREM PagesAreFresh == ServicesSpec => []PagesFresh
<1>1. ServicesInit => CalmPages /\ PagesCalm
  <2> SUFFICES ASSUME ServicesInit PROVE PagesCalm
    BY CalmStart, PagesStart DEF CalmPages
  <2>1. Cached = {}
    BY DEF ServicesInit, RedisInit, Cached
  <2>2. \A p \in Requests : PageHeld(p)
    BY DEF ServicesInit, HandlersInit, PageHeld
  <2> QED BY <2>1, <2>2 DEF PagesCalm
<1>2. CalmPages /\ PagesCalm /\ [ServicesNext]_servicesVars => CalmPages' /\ PagesCalm'
  BY CalmStep, RevokingStep, PagesInvAlways, PagesCalmStep DEF CalmPages, CalmInv
<1>3. CalmPages /\ PagesCalm => PagesFresh
  <2> SUFFICES ASSUME PagesCalm, calm, \A p \in Requests : pc[p] = "idle",
                      NEW key \in PageKeys \cap Cached
               PROVE  cache[key].shows >= due[key]
    BY DEF PagesFresh
  <2>1. \A q \in Requests : ~Dropping(q, key)
    BY DEF Dropping
  <2> QED BY <2>1 DEF PagesCalm
<1> QED BY <1>1, <1>2, <1>3, PTL DEF ServicesSpec
=============================================================================
