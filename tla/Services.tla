------------------------------ MODULE Services ------------------------------
(***************************************************************************)
(* The services around the database: refresh tokens and cached pages in    *)
(* Redis, pictures in the bucket, and a team's board with its sockets.     *)
(***************************************************************************)
EXTENDS RefreshTokens, PageCache, Files, TeamPosts

servicesVars == <<control, redis, tokens, pages, filing, board>>

ServicesInit ==
  /\ HandlersInit /\ RedisInit
  /\ RefreshTokensInit /\ PageCacheInit /\ FilesInit /\ TeamPostsInit

ServicesNext ==
  \/ \E p \in Requests :
       \/ RefreshTokensNext(p) /\ UNCHANGED <<pages, filing, board>>
       \/ PageCacheNext(p) /\ UNCHANGED <<tokens, filing, board>>
       \/ FilesNext(p) /\ UNCHANGED <<redis, tokens, pages, board>>
       \/ TeamPostsNext(p) /\ UNCHANGED <<redis, tokens, pages, filing>>
  \/ Tick /\ UNCHANGED <<pages, filing, board>>
  \/ (\E key \in PageKeys : Expire(key)) /\ UNCHANGED <<tokens, filing, board>>
  \/ (HandleConnection \/ HandleDisconnect \/ DueDatePasses)
       /\ UNCHANGED <<redis, tokens, pages, filing>>

ServicesSpec == ServicesInit /\ [][ServicesNext]_servicesVars
=============================================================================
