--------------------------- MODULE ServicesProofs ---------------------------
(***************************************************************************)
(* What holds of the services for every number of requests in flight, of   *)
(* seconds, of users, members and sockets: the gateway's map of sockets    *)
(* (Reachable), and that a revocation which is over leaves no token behind *)
(* (RevokedForGood), though it scans and deletes key by key while logins,  *)
(* refreshes, other revocations and the page cache use the same Redis.     *)
(***************************************************************************)
EXTENDS Services, TLAPS

(***************************************************************************)
(* Sockets.                                                                *)
(***************************************************************************)

WiresInv == open \subseteq Board \X Sockets /\ Reachable

\* What the gateway's map says stays true when a user connects: a user who had
\* a socket already counts as doubled from then on.
LEMMA ConnectionKeeps ==
  ASSUME WiresInv, HandleConnection
  PROVE  WiresInv'
<1>1. PICK u \in Board, s \in Sockets :
        /\ open' = open \cup {<<u, s>>}
        /\ connectedClients' = [v \in DOMAIN connectedClients \cup {u} |->
                                  IF v = u THEN s ELSE connectedClients[v]]
        /\ doubled' = IF SocketsOf(u) = {} THEN doubled ELSE doubled \cup {u}
  BY DEF HandleConnection
<1>2. open' \subseteq Board \X Sockets
  BY <1>1 DEF WiresInv
<1>3. \A v \in DOMAIN connectedClients' : <<v, connectedClients'[v]>> \in open'
  BY <1>1 DEF WiresInv, Reachable
<1>4. ASSUME NEW link \in open', link[1] \notin doubled'
      PROVE  link[1] \in DOMAIN connectedClients' /\ connectedClients'[link[1]] = link[2]
  <2>1. CASE link = <<u, s>>
    BY <1>1, <2>1
  <2>2. CASE link \in open /\ link[1] # u
    BY <1>1, <1>4, <2>2 DEF WiresInv, Reachable
  <2>3. CASE link \in open /\ link[1] = u
    \* Then the user had a socket, and is doubled now.
    <3>1. SocketsOf(u) # {}
      BY <2>3 DEF SocketsOf
    <3> QED BY <1>1, <1>4, <2>3, <3>1
  <2> QED BY <1>1, <2>1, <2>2, <2>3
<1> QED BY <1>2, <1>3, <1>4 DEF WiresInv, Reachable

\* And when a socket disconnects: the entry that goes is the user's, and the
\* only other sockets that could lose theirs are those of a doubled user.
LEMMA DisconnectionKeeps ==
  ASSUME WiresInv, HandleDisconnect
  PROVE  WiresInv'
<1>1. PICK gone \in open :
        /\ open' = open \ {gone}
        /\ connectedClients' = Restrict(connectedClients, DOMAIN connectedClients \ {gone[1]})
        /\ doubled' = doubled
  BY DEF HandleDisconnect
<1>2. /\ DOMAIN connectedClients' = DOMAIN connectedClients \ {gone[1]}
      /\ \A v \in DOMAIN connectedClients' : connectedClients'[v] = connectedClients[v]
  BY <1>1 DEF Restrict
<1>3. ASSUME NEW v \in DOMAIN connectedClients'
      PROVE  <<v, connectedClients'[v]>> \in open'
  <2>1. v # gone[1] /\ <<v, connectedClients[v]>> \in open
    BY <1>2 DEF WiresInv, Reachable
  <2>2. <<v, connectedClients[v]>> # gone
    BY <2>1
  <2> QED BY <1>1, <1>2, <2>1, <2>2
<1>4. ASSUME NEW link \in open', link[1] \notin doubled'
      PROVE  link[1] \in DOMAIN connectedClients' /\ connectedClients'[link[1]] = link[2]
  <2>1. link[1] \in DOMAIN connectedClients /\ connectedClients[link[1]] = link[2]
    BY <1>1, <1>4 DEF WiresInv, Reachable
  <2>2. link[1] # gone[1]
    <3> SUFFICES ASSUME link[1] = gone[1] PROVE FALSE
      OBVIOUS
    <3>1. connectedClients[gone[1]] = gone[2]
      BY <1>1, <1>4 DEF WiresInv, Reachable
    <3>2. link \in Board \X Sockets /\ gone \in Board \X Sockets /\ link # gone
      BY <1>1 DEF WiresInv
    <3> QED BY <2>1, <3>1, <3>2
  <2> QED BY <1>2, <2>1, <2>2
<1>5. open' \subseteq Board \X Sockets
  BY <1>1 DEF WiresInv
<1> QED BY <1>3, <1>4, <1>5 DEF WiresInv, Reachable

\* Requests never touch the connections: a push only reads them.
LEMMA RequestsLeaveWires ==
  ASSUME NEW p \in Requests, TeamPostsNext(p)
  PROVE  UNCHANGED <<open, connectedClients, doubled>>
<1>1. CASE Push(p)
  BY <1>1 DEF Push
<1>2. CASE CreatePost(p) \/ UpdatePost(p) \/ SavePost(p) \/ RemovePost(p) \/ DeletePost(p)
  BY <1>2 DEF CreatePost, UpdatePost, SavePost, RemovePost, DeletePost, board, wires
<1>3. CASE CountReactions(p) \/ SetReaction(p) \/ FindReaction(p) \/ SaveReaction(p)
  BY <1>3 DEF CountReactions, SetReaction, FindReaction, SaveReaction, board, wires
<1>4. CASE FindPost(p) \/ RemoveReaction(p) \/ DeleteReaction(p) \/ RereadPost(p)
  BY <1>4 DEF FindPost, RemoveReaction, DeleteReaction, RereadPost, board, wires
<1> QED BY <1>1, <1>2, <1>3, <1>4 DEF TeamPostsNext

LEMMA WiresStep ==
  ASSUME WiresInv, [ServicesNext]_servicesVars
  PROVE  WiresInv'
<1>1. ASSUME UNCHANGED <<open, connectedClients, doubled>>
      PROVE  WiresInv'
  BY <1>1 DEF WiresInv, Reachable
<1>2. CASE UNCHANGED servicesVars
  BY <1>1, <1>2 DEF servicesVars, board, wires
<1>3. ASSUME NEW p \in Requests, TeamPostsNext(p)
      PROVE  WiresInv'
  BY <1>1, <1>3, RequestsLeaveWires
<1>4. CASE UNCHANGED board
  BY <1>1, <1>4 DEF board, wires
<1>5. CASE HandleConnection
  BY <1>5, ConnectionKeeps
<1>6. CASE HandleDisconnect
  BY <1>6, DisconnectionKeeps
<1>7. CASE DueDatePasses
  BY <1>1, <1>7 DEF DueDatePasses, wires
<1> QED BY <1>2, <1>3, <1>4, <1>5, <1>6, <1>7 DEF ServicesNext

\* TeamPostsGateway never pushes to a closed socket, and reaches every user who
\* has never had two sockets at once.
THEOREM SocketsReachable == ServicesSpec => []Reachable
<1>1. ServicesInit => WiresInv
  BY DEF ServicesInit, TeamPostsInit, WiresInv, Reachable
<1>2. WiresInv /\ [ServicesNext]_servicesVars => WiresInv'
  BY WiresStep
<1>3. WiresInv => Reachable
  BY DEF WiresInv
<1> QED BY <1>1, <1>2, <1>3, PTL DEF ServicesSpec

(***************************************************************************)
(* Requests. A revocation under way, and the readers that carry a page     *)
(* from the database to Redis, must not be brought about or altered by the *)
(* steps of anyone else.                                                   *)
(***************************************************************************)

Watched == {"revoking", "query", "setPage"}

Slots == DOMAIN pc = Requests /\ DOMAIN local = Requests

\* A step that leaves every request at a watched await as it was.
Elsewhere ==
  /\ Slots'
  /\ \A q \in Requests : pc'[q] \in Watched => pc'[q] = pc[q] /\ local'[q] = local[q]

LEMMA SuspendElsewhere ==
  ASSUME Slots, NEW p \in Requests, NEW label, label \notin Watched, NEW held,
         Suspend(p, label, held)
  PROVE  Elsewhere
BY DEF Slots, Elsewhere, Suspend

LEMMA ReturnElsewhere ==
  ASSUME Slots, NEW p \in Requests, Return(p)
  PROVE  Elsewhere
BY SuspendElsewhere DEF Return, Watched

LEMMA AtOnceElsewhere ==
  ASSUME Slots, UNCHANGED <<pc, local>>
  PROVE  Elsewhere
BY DEF Slots, Elsewhere

LEMMA FilesElsewhere ==
  ASSUME Slots, NEW p \in Requests, FilesNext(p)
  PROVE  Elsewhere
<1> USE SuspendElsewhere, ReturnElsewhere DEF Watched
<1>1. CASE FirstPicture(p) \/ UploadAvatar(p) \/ UploadSocialPhoto(p)
  BY <1>1 DEF FirstPicture, UploadAvatar, UploadSocialPhoto
<1>2. CASE UploadEventImage(p) \/ DeleteEventImage(p) \/ SaveWholeEvent(p)
  BY <1>2 DEF UploadEventImage, DeleteEventImage, SaveWholeEvent
<1>3. CASE PutFile(p)
  BY <1>3 DEF PutFile
<1>4. CASE ReadRow(p) \/ WriteRow(p)
  BY <1>4 DEF ReadRow, WriteRow
<1>5. CASE DeleteFile(p)
  BY <1>5 DEF DeleteFile
<1>6. CASE UploadFails(p)
  BY <1>6 DEF UploadFails, Broken
<1> QED BY <1>1, <1>2, <1>3, <1>4, <1>5, <1>6 DEF FilesNext

LEMMA TeamPostsElsewhere ==
  ASSUME Slots, NEW p \in Requests, TeamPostsNext(p)
  PROVE  Elsewhere
<1> USE SuspendElsewhere, ReturnElsewhere DEF Watched
<1>1. CASE Push(p) \/ DeletePost(p) \/ SavePost(p)
  BY <1>1 DEF Push, DeletePost, SavePost
<1>2. CASE CreatePost(p) \/ UpdatePost(p) \/ RemovePost(p)
  BY <1>2 DEF CreatePost, UpdatePost, RemovePost
<1>3. CASE CountReactions(p)
  BY <1>3 DEF CountReactions
<1>4. CASE SetReaction(p) \/ RemoveReaction(p) \/ FindReaction(p)
  BY <1>4 DEF SetReaction, RemoveReaction, FindReaction
<1>5. CASE SaveReaction(p)
  BY <1>5 DEF SaveReaction
<1>6. CASE FindPost(p) \/ RereadPost(p)
  BY <1>6 DEF FindPost, RereadPost
<1>7. CASE DeleteReaction(p)
  BY <1>7 DEF DeleteReaction
<1> QED BY <1>1, <1>2, <1>3, <1>4, <1>5, <1>6, <1>7 DEF TeamPostsNext

(***************************************************************************)
(* Redis: what its steps do to the tokens that can be exchanged.           *)
(***************************************************************************)

\* A page never has the key of a token.
LEMMA KeysApart ==
  ASSUME NEW token, NEW key \in PageKeys
  PROVE  key # Key(token)
BY DEF PageKeys, Kinds, Key

LEMMA KeysDiffer ==
  ASSUME NEW s, NEW t, Key(s) = Key(t)
  PROVE  s = t
BY DEF Key

LEMMA LiveStore ==
  ASSUME NEW key, NEW value, Store(key, value)
  PROVE  Live' = Live \cup {token \in Seconds : Key(token) = key}
BY DEF Store, Live, Cached

LEMMA LiveForget ==
  ASSUME NEW keys, Forget(keys)
  PROVE  Live' = {token \in Live : Key(token) \notin keys}
BY DEF Forget, Live, Cached

(***************************************************************************)
(* Revocation. While it runs, its scan still has to return every token it  *)
(* is to delete that is there; a scan that is through has none left.       *)
(***************************************************************************)

Scanning(p) == \A token \in condemned[p] \cap Live : Key(token) \in scans[p]

RevokingInv ==
  /\ Slots
  /\ DOMAIN scans = Requests /\ DOMAIN condemned = Requests
  /\ \A p \in Requests : pc[p] \in {"query", "setPage"} => local[p].key \in PageKeys
  /\ \A p \in Requests : pc[p] = "revoking" => Scanning(p)
  /\ RevokedForGood

\* Deleting keys takes them from the scans that were to return them, too.
LEMMA ForgetKeeps ==
  ASSUME RevokingInv, Elsewhere, NEW keys, Forget(keys), UNCHANGED <<condemned, dead>>
  PROVE  RevokingInv'
<1>1. Live' = {token \in Live : Key(token) \notin keys}
  BY LiveForget
<1>2. DOMAIN scans' = Requests /\ \A q \in Requests : scans'[q] = scans[q] \ keys
  BY DEF Forget
<1>3. ASSUME NEW q \in Requests, pc'[q] = "revoking"
      PROVE  Scanning(q)'
  <2>1. Scanning(q)
    BY <1>3 DEF RevokingInv, Elsewhere, Watched
  <2> QED BY <1>1, <1>2, <2>1 DEF Scanning
<1>4. ASSUME NEW q \in Requests, pc'[q] \in {"query", "setPage"}
      PROVE  local'[q].key \in PageKeys
  BY <1>4 DEF RevokingInv, Elsewhere, Watched
<1> QED BY <1>1, <1>2, <1>3, <1>4 DEF RevokingInv, Elsewhere, RevokedForGood, PageKeys

LEMMA RedisUnchangedKeeps ==
  ASSUME RevokingInv, Elsewhere, UNCHANGED redis, UNCHANGED <<condemned, dead>>
  PROVE  RevokingInv'
<1>1. Live' = Live /\ scans' = scans
  BY DEF redis, Live, Cached
<1>2. ASSUME NEW q \in Requests, pc'[q] = "revoking"
      PROVE  Scanning(q)'
  <2>1. Scanning(q)
    BY <1>2 DEF RevokingInv, Elsewhere, Watched
  <2> QED BY <1>1, <2>1 DEF Scanning
<1>3. ASSUME NEW q \in Requests, pc'[q] \in {"query", "setPage"}
      PROVE  local'[q].key \in PageKeys
  BY <1>3 DEF RevokingInv, Elsewhere, Watched
<1> QED BY <1>1, <1>2, <1>3 DEF RevokingInv, Elsewhere, RevokedForGood, PageKeys

\* The steps of the account and its tokens that no revocation can be hurt by.
LEMMA TokenElsewhere ==
  ASSUME Slots, NEW p \in Requests,
         \/ Login(p) \/ RegisterUser(p) \/ GenerateTokens(p) \/ StoreRefreshToken(p)
         \/ RefreshTokens(p) \/ VerifyRefreshToken(p) \/ RevokeRefreshToken(p)
         \/ Logout(p) \/ RemoveUser(p) \/ Revoking(p) \/ Revoked(p) \/ DeleteUser(p)
  PROVE  Elsewhere
<1> USE SuspendElsewhere, ReturnElsewhere DEF Watched
<1>1. CASE Login(p)
  BY <1>1 DEF Login
<1>2. CASE RegisterUser(p) \/ GenerateTokens(p) \/ StoreRefreshToken(p)
  BY <1>2 DEF RegisterUser, GenerateTokens, StoreRefreshToken
<1>3. CASE RefreshTokens(p) \/ VerifyRefreshToken(p)
  BY <1>3 DEF RefreshTokens, VerifyRefreshToken
<1>4. CASE RevokeRefreshToken(p) \/ Logout(p) \/ RemoveUser(p) \/ DeleteUser(p)
  BY <1>4 DEF RevokeRefreshToken, Logout, RemoveUser, DeleteUser
<1>5. CASE Revoking(p)
  BY <1>5, AtOnceElsewhere DEF Revoking, AtOnce
<1>6. CASE Revoked(p)
  BY <1>6 DEF Revoked
<1> QED BY <1>1, <1>2, <1>3, <1>4, <1>5, <1>6

\* A token that is stored is signed again: no revocation is to delete it, and
\* it is not dead.
LEMMA StoreTokenKeeps ==
  ASSUME RevokingInv, NEW p \in Requests, StoreRefreshToken(p)
  PROVE  RevokingInv'
<1> DEFINE stored == local[p].token
<1>1. Elsewhere
  BY TokenElsewhere DEF RevokingInv
<1>2. /\ Store(Key(stored), account) /\ dead' = dead \ {stored}
      /\ condemned' = [q \in Requests |-> condemned[q] \ {stored}]
  BY DEF StoreRefreshToken
<1>3. scans' = scans
  BY <1>2 DEF Store
<1>4. Live' \subseteq Live \cup {stored}
  <2>1. Live' = Live \cup {token \in Seconds : Key(token) = Key(stored)}
    BY <1>2, LiveStore
  <2> QED BY <2>1, KeysDiffer
<1>5. ASSUME NEW q \in Requests, pc'[q] = "revoking"
      PROVE  Scanning(q)'
  <2>1. Scanning(q)
    BY <1>1, <1>5 DEF RevokingInv, Elsewhere, Watched
  <2> QED BY <1>2, <1>3, <1>4, <2>1 DEF Scanning
<1>6. ASSUME NEW q \in Requests, pc'[q] \in {"query", "setPage"}
      PROVE  local'[q].key \in PageKeys
  BY <1>1, <1>6 DEF RevokingInv, Elsewhere, Watched
<1>7. DOMAIN condemned' = Requests
  BY <1>2
<1>8. RevokedForGood'
  BY <1>2, <1>4 DEF RevokingInv, RevokedForGood
<1> QED BY <1>1, <1>3, <1>5, <1>6, <1>7, <1>8 DEF RevokingInv, Elsewhere, PageKeys

\* A revocation begins with a scan that is to return every token there is.
LEMMA RevokeAllKeeps ==
  ASSUME RevokingInv, NEW p \in Requests, RevokeAll(p)
  PROVE  RevokingInv'
<1>1. /\ scans' = [scans EXCEPT ![p] = RefreshTokenPattern \cap Cached]
      /\ cache' = cache /\ dead' = dead
      /\ condemned' = [condemned EXCEPT ![p] = Live]
      /\ pc' = [pc EXCEPT ![p] = "revoking"] /\ local' = [local EXCEPT ![p] = local[p]]
  BY DEF RevokeAll, BeginScan, Suspend
<1>2. Live' = Live
  BY <1>1 DEF Live, Cached
<1>3. /\ Slots' /\ DOMAIN scans' = Requests /\ DOMAIN condemned' = Requests
      /\ \A q \in Requests : pc'[q] \in {"query", "setPage"} => local'[q].key \in PageKeys
  BY <1>1 DEF RevokingInv, Slots
<1>4. ASSUME NEW q \in Requests, pc'[q] = "revoking"
      PROVE  Scanning(q)'
  <2>1. CASE q = p
    <3>1. scans'[p] = RefreshTokenPattern \cap Cached /\ condemned'[p] = Live
      BY <1>1 DEF RevokingInv
    <3>2. \A token \in Live : Key(token) \in RefreshTokenPattern \cap Cached
      BY DEF Live, RefreshTokenPattern
    <3> QED BY <1>2, <2>1, <3>1, <3>2 DEF Scanning
  <2>2. CASE q # p
    <3>1. scans'[q] = scans[q] /\ condemned'[q] = condemned[q] /\ pc[q] = "revoking"
      BY <1>1, <1>4, <2>2 DEF RevokingInv, Slots
    <3>2. Scanning(q)
      BY <3>1 DEF RevokingInv
    <3> QED BY <1>2, <3>1, <3>2 DEF Scanning
  <2> QED BY <2>1, <2>2
<1>5. RevokedForGood'
  BY <1>1, <1>2 DEF RevokingInv, RevokedForGood
<1> QED BY <1>3, <1>4, <1>5 DEF RevokingInv, PageKeys

\* When the cursor is back at 0 nothing that was to be deleted is there.
LEMMA RevokedKeeps ==
  ASSUME RevokingInv, NEW p \in Requests, Revoked(p)
  PROVE  RevokingInv'
<1>1. /\ pc[p] = "revoking" /\ scans[p] = {} /\ UNCHANGED redis
      /\ dead' = dead \cup condemned[p] /\ condemned' = [condemned EXCEPT ![p] = {}]
  BY DEF Revoked, ScanDone, At
<1>2. Elsewhere
  BY TokenElsewhere DEF RevokingInv
<1>3. Live' = Live /\ scans' = scans
  BY <1>1 DEF redis, Live, Cached
<1>4. condemned[p] \cap Live = {}
  BY <1>1 DEF RevokingInv, Scanning
<1>5. RevokedForGood'
  BY <1>1, <1>3, <1>4 DEF RevokingInv, RevokedForGood
<1>6. ASSUME NEW q \in Requests, pc'[q] = "revoking"
      PROVE  Scanning(q)'
  <2>1. Scanning(q) /\ condemned'[q] \subseteq condemned[q]
    BY <1>1, <1>2, <1>6 DEF RevokingInv, Elsewhere, Watched
  <2> QED BY <1>3, <2>1 DEF Scanning
<1>7. ASSUME NEW q \in Requests, pc'[q] \in {"query", "setPage"}
      PROVE  local'[q].key \in PageKeys
  BY <1>2, <1>7 DEF RevokingInv, Elsewhere, Watched
<1>8. Slots' /\ DOMAIN scans' = Requests /\ DOMAIN condemned' = Requests
  BY <1>1, <1>2, <1>3 DEF RevokingInv, Elsewhere
<1> QED BY <1>5, <1>6, <1>7, <1>8 DEF RevokingInv, PageKeys

LEMMA RefreshTokensKeep ==
  ASSUME RevokingInv, NEW p \in Requests, RefreshTokensNext(p)
  PROVE  RevokingInv'
<1>1. CASE StoreRefreshToken(p)
  BY <1>1, StoreTokenKeeps
<1>2. CASE RevokeAll(p)
  BY <1>2, RevokeAllKeeps
<1>3. CASE Revoked(p)
  BY <1>3, RevokedKeeps
<1>4. CASE RevokeRefreshToken(p)
  <2>1. Forget({Key(local[p].token)}) /\ UNCHANGED <<condemned, dead>>
    BY <1>4 DEF RevokeRefreshToken
  <2>2. Elsewhere
    BY <1>4, TokenElsewhere DEF RevokingInv
  <2> QED BY <2>1, <2>2, ForgetKeeps
<1>5. CASE Revoking(p)
  <2>1. PICK key : Forget({key})
    BY <1>5 DEF Revoking, ScanDeletes
  <2>2. Elsewhere /\ UNCHANGED <<condemned, dead>>
    BY <1>5, TokenElsewhere DEF RevokingInv, Revoking, tokens
  <2> QED BY <2>1, <2>2, ForgetKeeps
<1>6. CASE \/ Login(p) \/ RegisterUser(p) \/ GenerateTokens(p)
           \/ RefreshTokens(p) \/ VerifyRefreshToken(p)
           \/ Logout(p) \/ RemoveUser(p) \/ DeleteUser(p)
  <2>1. UNCHANGED redis /\ UNCHANGED <<condemned, dead>>
    BY <1>6 DEF Login, RegisterUser, GenerateTokens, RefreshTokens, VerifyRefreshToken,
                Logout, RemoveUser, DeleteUser, tokens
  <2>2. Elsewhere
    BY <1>6, TokenElsewhere DEF RevokingInv
  <2> QED BY <2>1, <2>2, RedisUnchangedKeeps
<1> QED BY <1>1, <1>2, <1>3, <1>4, <1>5, <1>6 DEF RefreshTokensNext

(***************************************************************************)
(* The page cache, which shares Redis with the tokens.                     *)
(***************************************************************************)

LEMMA WritersElsewhere ==
  ASSUME Slots, NEW p \in Requests,
         \/ CreateGame(p) \/ EndGame(p) \/ WriteEnd(p) \/ Reread(p) \/ FindStaleGame(p)
         \/ WriteClose(p) \/ CancelGame(p) \/ WriteCancel(p) \/ UpdateGame(p) \/ MovePlayer(p)
         \/ RemoveGame(p) \/ RemoveSave(p) \/ RemoveDelete(p)
         \/ CreateEvent(p) \/ ReadEvent(p) \/ JoinEvent(p) \/ UpdateEvent(p) \/ LeaveEvent(p)
         \/ DeleteEvent(p) \/ DropPages(p) \/ DroppingPages(p) \/ PagesDropped(p) \/ SetPage(p)
  PROVE  Elsewhere
<1> USE SuspendElsewhere, ReturnElsewhere DEF Watched
<1>1. CASE EndGame(p) \/ WriteEnd(p) \/ FindStaleGame(p) \/ WriteClose(p) \/ CancelGame(p)
  BY <1>1 DEF EndGame, WriteEnd, FindStaleGame, WriteClose, CancelGame
<1>2. CASE WriteCancel(p) \/ Reread(p)
  BY <1>2 DEF WriteCancel, Reread
<1>3. CASE \/ CreateGame(p) \/ UpdateGame(p) \/ MovePlayer(p) \/ CreateEvent(p)
           \/ DroppingPages(p)
  BY <1>3, AtOnceElsewhere DEF CreateGame, UpdateGame, MovePlayer, CreateEvent, DroppingPages, AtOnce
<1>4. CASE ReadEvent(p)
  BY <1>4 DEF ReadEvent
<1>5. CASE JoinEvent(p) \/ UpdateEvent(p) \/ LeaveEvent(p)
  BY <1>5 DEF JoinEvent, UpdateEvent, LeaveEvent, SaveEvent
<1>6. CASE DeleteEvent(p) \/ DropPages(p) \/ SetPage(p)
  BY <1>6 DEF DeleteEvent, DropPages, SetPage
<1>7. CASE PagesDropped(p)
  BY <1>7 DEF PagesDropped
<1>8. CASE RemoveGame(p) \/ RemoveSave(p) \/ RemoveDelete(p)
  BY <1>8 DEF RemoveGame, RemoveSave, RemoveDelete
<1> QED BY <1>1, <1>2, <1>3, <1>4, <1>5, <1>6, <1>7, <1>8

\* A page is not a token.
LEMMA SetPageKeeps ==
  ASSUME RevokingInv, NEW p \in Requests, SetPage(p), UNCHANGED tokens
  PROVE  RevokingInv'
<1>1. Elsewhere
  BY WritersElsewhere DEF RevokingInv
<1>2. /\ Store(local[p].key, [shows |-> local[p].page, stored |-> version[local[p].key]])
      /\ local[p].key \in PageKeys
  BY DEF SetPage, At, RevokingInv
<1>3. Live' = Live
  <2>1. Live' = Live \cup {token \in Seconds : Key(token) = local[p].key}
    BY <1>2, LiveStore
  <2> QED BY <1>2, <2>1, KeysApart
<1>4. scans' = scans /\ UNCHANGED <<condemned, dead>>
  BY <1>2 DEF Store, tokens
<1>5. ASSUME NEW q \in Requests, pc'[q] = "revoking"
      PROVE  Scanning(q)'
  <2>1. Scanning(q)
    BY <1>1, <1>5 DEF RevokingInv, Elsewhere, Watched
  <2> QED BY <1>3, <1>4, <2>1 DEF Scanning
<1>6. ASSUME NEW q \in Requests, pc'[q] \in {"query", "setPage"}
      PROVE  local'[q].key \in PageKeys
  BY <1>1, <1>6 DEF RevokingInv, Elsewhere, Watched
<1> QED BY <1>1, <1>3, <1>4, <1>5, <1>6 DEF RevokingInv, Elsewhere, RevokedForGood, PageKeys

\* A reader asks for a page and holds on to its key.
LEMMA ReadersKeep ==
  ASSUME RevokingInv, NEW p \in Requests, ReadPage(p) \/ QueryPage(p), UNCHANGED tokens
  PROVE  RevokingInv'
<1>1. UNCHANGED redis /\ UNCHANGED <<condemned, dead>>
  BY DEF ReadPage, QueryPage, tokens
<1>2. PICK key \in PageKeys, label \in {"query", "setPage"} :
        \E held : held.key = key /\ (Suspend(p, label, held) \/ UNCHANGED <<pc, local>>)
  <2>1. CASE ReadPage(p)
    <3>1. PICK key \in PageKeys :
            UNCHANGED <<pc, local>> \/ Suspend(p, "query", [op |-> "read", key |-> key])
      BY <2>1 DEF ReadPage, AtOnce
    <3>2. [op |-> "read", key |-> key].key = key
      OBVIOUS
    <3> QED BY <3>1, <3>2
  <2>2. CASE QueryPage(p)
    <3> DEFINE key == local[p].key
               held == [op |-> "read", key |-> key, page |-> version[key]]
    <3>1. Suspend(p, "setPage", held) /\ key \in PageKeys
      BY <2>2 DEF QueryPage, At, RevokingInv
    <3>2. held.key = key
      OBVIOUS
    <3> QED BY <3>1, <3>2
  <2> QED BY <2>1, <2>2
<1>3. /\ Slots'
      /\ \A q \in Requests : pc'[q] = "revoking" => pc[q] = "revoking"
      /\ \A q \in Requests : pc'[q] \in {"query", "setPage"} => local'[q].key \in PageKeys
  BY <1>2 DEF Suspend, RevokingInv, Slots
<1>4. Live' = Live /\ scans' = scans
  BY <1>1 DEF redis, Live, Cached
<1>5. ASSUME NEW q \in Requests, pc'[q] = "revoking"
      PROVE  Scanning(q)'
  <2>1. Scanning(q)
    BY <1>3, <1>5 DEF RevokingInv
  <2> QED BY <1>1, <1>4, <2>1 DEF Scanning
<1> QED BY <1>1, <1>3, <1>4, <1>5 DEF RevokingInv, RevokedForGood, PageKeys

\* A request that drops pages begins a scan of its own and is no revocation.
LEMMA DropPagesKeeps ==
  ASSUME RevokingInv, NEW p \in Requests, DropPages(p), UNCHANGED tokens
  PROVE  RevokingInv'
<1>1. Elsewhere
  BY WritersElsewhere DEF RevokingInv
<1>2. /\ pc' = [pc EXCEPT ![p] = "dropping"] /\ cache' = cache
      /\ scans' = [scans EXCEPT ![p] = local[p].drop \cap Cached]
      /\ UNCHANGED <<condemned, dead>>
  BY DEF DropPages, BeginScan, Suspend, tokens
<1>3. Live' = Live
  BY <1>2 DEF Live, Cached
<1>4. ASSUME NEW q \in Requests, pc'[q] = "revoking"
      PROVE  Scanning(q)'
  <2>1. q # p
    BY <1>2, <1>4 DEF RevokingInv, Slots
  <2>2. Scanning(q) /\ scans'[q] = scans[q]
    BY <1>1, <1>2, <1>4, <2>1 DEF RevokingInv, Elsewhere, Watched
  <2> QED BY <1>2, <1>3, <2>2 DEF Scanning
<1>5. ASSUME NEW q \in Requests, pc'[q] \in {"query", "setPage"}
      PROVE  local'[q].key \in PageKeys
  BY <1>1, <1>5 DEF RevokingInv, Elsewhere, Watched
<1> QED BY <1>1, <1>2, <1>3, <1>4, <1>5 DEF RevokingInv, Elsewhere, RevokedForGood, PageKeys

LEMMA PageCacheKeeps ==
  ASSUME RevokingInv, NEW p \in Requests, PageCacheNext(p), UNCHANGED tokens
  PROVE  RevokingInv'
<1>1. CASE ReadPage(p) \/ QueryPage(p)
  BY <1>1, ReadersKeep
<1>2. CASE SetPage(p)
  BY <1>2, SetPageKeeps
<1>3. CASE DropPages(p)
  BY <1>3, DropPagesKeeps
<1>4. CASE DroppingPages(p)
  <2>1. PICK key : Forget({key})
    BY <1>4 DEF DroppingPages, ScanDeletes
  <2>2. Elsewhere /\ UNCHANGED <<condemned, dead>>
    BY <1>4, WritersElsewhere DEF RevokingInv, tokens
  <2> QED BY <2>1, <2>2, ForgetKeeps
<1>5. CASE \/ CreateGame(p) \/ EndGame(p) \/ WriteEnd(p) \/ Reread(p) \/ FindStaleGame(p)
           \/ WriteClose(p) \/ CancelGame(p) \/ WriteCancel(p) \/ UpdateGame(p) \/ MovePlayer(p)
           \/ RemoveGame(p) \/ RemoveSave(p) \/ RemoveDelete(p)
           \/ CreateEvent(p) \/ ReadEvent(p) \/ JoinEvent(p) \/ UpdateEvent(p) \/ LeaveEvent(p)
           \/ DeleteEvent(p) \/ PagesDropped(p)
  <2>1. UNCHANGED redis
    BY <1>5 DEF CreateGame, EndGame, WriteEnd, Reread, FindStaleGame, WriteClose, CancelGame,
                WriteCancel, UpdateGame, MovePlayer, RemoveGame, RemoveSave, RemoveDelete,
                CreateEvent, ReadEvent, JoinEvent, UpdateEvent, LeaveEvent, SaveEvent, DeleteEvent,
                PagesDropped, ScanDone
  <2>2. Elsewhere
    BY <1>5, WritersElsewhere DEF RevokingInv
  <2> QED BY <2>1, <2>2, RedisUnchangedKeeps DEF tokens
<1> QED BY <1>1, <1>2, <1>3, <1>4, <1>5 DEF PageCacheNext

LEMMA RevokingStep ==
  ASSUME RevokingInv, [ServicesNext]_servicesVars
  PROVE  RevokingInv'
<1>1. CASE UNCHANGED servicesVars
  BY <1>1, AtOnceElsewhere, RedisUnchangedKeeps
     DEF servicesVars, control, tokens, RevokingInv
<1>2. ASSUME NEW p \in Requests, RefreshTokensNext(p)
      PROVE  RevokingInv'
  BY <1>2, RefreshTokensKeep
<1>3. ASSUME NEW p \in Requests, PageCacheNext(p), UNCHANGED tokens
      PROVE  RevokingInv'
  BY <1>3, PageCacheKeeps
<1>4. ASSUME NEW p \in Requests, FilesNext(p) \/ TeamPostsNext(p), UNCHANGED <<redis, tokens>>
      PROVE  RevokingInv'
  BY <1>4, FilesElsewhere, TeamPostsElsewhere, RedisUnchangedKeeps DEF tokens, RevokingInv
<1>5. CASE Tick
  BY <1>5, AtOnceElsewhere, RedisUnchangedKeeps DEF Tick, control, RevokingInv
<1>6. ASSUME NEW key \in PageKeys, Expire(key), UNCHANGED tokens
      PROVE  RevokingInv'
  BY <1>6, AtOnceElsewhere, ForgetKeeps DEF Expire, control, tokens, RevokingInv
<1>7. ASSUME HandleConnection \/ HandleDisconnect \/ DueDatePasses, UNCHANGED <<redis, tokens>>
      PROVE  RevokingInv'
  BY <1>7, AtOnceElsewhere, RedisUnchangedKeeps
     DEF HandleConnection, HandleDisconnect, DueDatePasses, control, tokens, RevokingInv
<1> QED BY <1>1, <1>2, <1>3, <1>4, <1>5, <1>6, <1>7 DEF ServicesNext

\* None of the tokens that could be exchanged when a revocation began can be
\* once it is over, whatever ran meanwhile, unless signed again.
THEOREM RevokedStaysRevoked == ServicesSpec => []RevokedForGood
<1>1. ServicesInit => RevokingInv
  BY DEF ServicesInit, HandlersInit, RedisInit, RefreshTokensInit, RevokingInv, Slots,
         RevokedForGood
<1>2. RevokingInv /\ [ServicesNext]_servicesVars => RevokingInv'
  BY RevokingStep
<1>3. RevokingInv => RevokedForGood
  BY DEF RevokingInv
<1> QED BY <1>1, <1>2, <1>3, PTL DEF ServicesSpec
=============================================================================
