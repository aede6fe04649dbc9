--------------------------- MODULE RefreshTokens ----------------------------
(***************************************************************************)
(* The refresh tokens of one account: AuthService over RedisService. A     *)
(* token is a JWT over the account and the second it is signed in, so two  *)
(* tokens of one second are the same token. Redis holds the tokens that    *)
(* may still be exchanged; one that is not there is taken for a replay and *)
(* revokes all. The seven days a token lasts are longer than a behaviour.  *)
(***************************************************************************)
EXTENDS Redis

CONSTANT MaxSeconds  \* bound on the clock

ASSUME RefreshTokensAssumption == MaxSeconds \in Nat

VARIABLES
  now,        \* the second
  account,    \* the row of the user: none, active, gone
  issued,     \* the tokens clients hold
  exchanged,  \* history: how often a token was exchanged in a later second
  condemned,  \* history: the tokens a revocation under way is to delete
  dead        \* history: the tokens revoked all at once, and not signed again

tokens == <<now, account, issued, exchanged, condemned, dead>>

Seconds == 0..MaxSeconds
Key(token) == <<"refresh_token", token>>
RefreshTokenPattern == {Key(token) : token \in Seconds}
Live == {token \in Seconds : Key(token) \in Cached}

RefreshTokensInit ==
  /\ now = 0
  /\ account = "none"
  /\ issued = {}
  /\ exchanged = [token \in Seconds |-> 0]
  /\ condemned = [p \in Requests |-> {}]
  /\ dead = {}

Tick ==
  /\ "login" \in ops
  /\ now < MaxSeconds
  /\ now' = now + 1
  /\ UNCHANGED <<control, redis, account, issued, exchanged, condemned, dead>>

\* googleTokenLogin looks the account up by its email, deleted accounts aside.
Login(p) ==
  /\ Arrive(p, "login")
  /\ Suspend(p, IF account = "active" THEN "sign" ELSE "register", [op |-> "login"])
  /\ UNCHANGED <<redis, tokens>>

\* The email is unique among all the rows, deleted ones too.
RegisterUser(p) ==
  /\ At(p, "register")
  /\ \/ /\ account = "none"
        /\ account' = "active"
        /\ Suspend(p, "sign", local[p])
     \/ account # "none" /\ Return(p) /\ UNCHANGED account
  /\ UNCHANGED <<redis, now, issued, exchanged, condemned, dead>>

\* generateTokens signs without waiting, then stores the token.
GenerateTokens(p) ==
  /\ At(p, "sign")
  /\ Suspend(p, "storeToken", [op |-> local[p].op, token |-> now])
  /\ UNCHANGED <<redis, tokens>>

StoreRefreshToken(p) ==
  /\ At(p, "storeToken")
  /\ LET token == local[p].token IN
       /\ Store(Key(token), account)
       /\ issued' = issued \cup {token}
       /\ condemned' = [q \in Requests |-> condemned[q] \ {token}]
       /\ dead' = dead \ {token}
  /\ Return(p)
  /\ UNCHANGED <<now, account, exchanged>>

\* refreshTokens: a deleted account is refused at once.
RefreshTokens(p) ==
  /\ Arrive(p, "refresh")
  /\ account = "active"
  /\ \E token \in issued : Suspend(p, "verifyToken", [op |-> "refresh", token |-> token])
  /\ UNCHANGED <<redis, tokens>>

VerifyRefreshToken(p) ==
  /\ At(p, "verifyToken")
  /\ Suspend(p, IF local[p].token \in Live THEN "revokeToken" ELSE "revokeAll", local[p])
  /\ UNCHANGED <<redis, tokens>>

\* Mutant: the exchanged token stays in Redis.
KeepRefreshToken(p) ==
  /\ At(p, "revokeToken")
  /\ LET token == local[p].token IN
       exchanged' = IF token = now THEN exchanged ELSE [exchanged EXCEPT ![token] = @ + 1]
  /\ Suspend(p, "sign", [op |-> "refresh"])
  /\ UNCHANGED <<redis, now, account, issued, condemned, dead>>

RevokeRefreshToken(p) ==
  /\ At(p, "revokeToken")
  /\ LET token == local[p].token IN
       /\ Forget({Key(token)})
       /\ exchanged' = IF token = now THEN exchanged ELSE [exchanged EXCEPT ![token] = @ + 1]
  /\ Suspend(p, "sign", [op |-> "refresh"])
  /\ UNCHANGED <<now, account, issued, condemned, dead>>

\* Both take a valid access token, so an account that was there when it came in.
Logout(p) ==
  /\ Arrive(p, "logout") /\ account = "active"
  /\ Suspend(p, "revokeAll", [op |-> "logout"])
  /\ UNCHANGED <<redis, tokens>>

RemoveUser(p) ==
  /\ Arrive(p, "removeUser") /\ account = "active"
  /\ Suspend(p, "revokeAll", [op |-> "removeUser"])
  /\ UNCHANGED <<redis, tokens>>

\* revokeAllUserRefreshTokens: a replay, a logout or the end of the account.
RevokeAll(p) ==
  /\ At(p, "revokeAll")
  /\ BeginScan(p, RefreshTokenPattern)
  /\ condemned' = [condemned EXCEPT ![p] = Live]
  /\ Suspend(p, "revoking", local[p])
  /\ UNCHANGED <<now, account, issued, exchanged, dead>>

Revoking(p) ==
  /\ At(p, "revoking") /\ AtOnce
  /\ ScanDeletes(RefreshTokenPattern)
  /\ UNCHANGED tokens

\* Mutant: the scan stops at the first batch.
RevokedFirstBatch(p) ==
  /\ At(p, "revoking")
  /\ UNCHANGED redis
  /\ dead' = dead \cup condemned[p]
  /\ condemned' = [condemned EXCEPT ![p] = {}]
  /\ IF local[p].op = "removeUser"
     THEN Suspend(p, "deleteUser", local[p]) ELSE Return(p)
  /\ UNCHANGED <<now, account, issued, exchanged>>

Revoked(p) ==
  /\ At(p, "revoking")
  /\ ScanDone(p)
  /\ dead' = dead \cup condemned[p]
  /\ condemned' = [condemned EXCEPT ![p] = {}]
  /\ IF local[p].op = "removeUser"
     THEN Suspend(p, "deleteUser", local[p]) ELSE Return(p)
  /\ UNCHANGED <<now, account, issued, exchanged>>

DeleteUser(p) ==
  /\ At(p, "deleteUser")
  /\ account' = "gone"
  /\ Return(p)
  /\ UNCHANGED <<redis, now, issued, exchanged, condemned, dead>>

RefreshTokensNext(p) ==
  \/ Login(p) \/ RegisterUser(p) \/ GenerateTokens(p) \/ StoreRefreshToken(p)
  \/ RefreshTokens(p) \/ VerifyRefreshToken(p) \/ RevokeRefreshToken(p)
  \/ Logout(p) \/ RemoveUser(p)
  \/ RevokeAll(p) \/ Revoking(p) \/ Revoked(p) \/ DeleteUser(p)

-----------------------------------------------------------------------------
(* Properties.                                                             *)

\* A token buys one new pair, refreshes of its own second aside: a second use
\* is a replay. (Two refreshes racing each other both find it.)
UsedOnce == calm => \A token \in Seconds : exchanged[token] <= 1

\* After a logout, a replay or the end of the account none of the tokens that
\* could be exchanged when it began can be any more, whatever overlapped it,
\* until a login or refresh signs the same token again.
RevokedForGood == dead \cap Live = {}
=============================================================================
