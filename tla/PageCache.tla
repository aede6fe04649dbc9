----------------------------- MODULE PageCache ------------------------------
(***************************************************************************)
(* The pages GamesService and EventsService keep in Redis for five         *)
(* minutes: each user's game history (the public one goes with it) and     *)
(* list of events. A reader who finds no page queries the database and     *)
(* stores the answer; writers drop the pages of some of the users whose    *)
(* pages they change, and of others they do not. One game, one event, one  *)
(* page of each kind per user; a page is the version of what it shows.     *)
(*                                                                         *)
(* Which pages a write drops is computed by the handlers as in the code;   *)
(* which pages it owes to whom is said apart, at the write: a page owed is *)
(* one that has to show this write, or be gone.                            *)
(***************************************************************************)
EXTENDS Redis

CONSTANTS
  Readers,     \* users
  Players,     \* those in the game when it is created
  Organizer,   \* the creator of the event
  MaxChanges   \* bound on the changes written

VARIABLES
  version,   \* how often what a page would show has changed
  game,      \* the game's row
  players,   \* the users in its teams
  entries,   \* the teams entered in the event
  listed,    \* the event exists
  due,       \* history: the version a page has to show, one request at a time
  firm       \* history: the version it has to show, however requests overlap

pages == <<version, game, players, entries, listed, due, firm>>

Kinds == {"history", "events"}
PageKeys == Kinds \X Readers
Histories(users) == {"history"} \X users
EventLists(users) == {"events"} \X users
Entered(teams) == UNION teams
\* The lists that show the event, with the number of its participants.
Showing(teams) == EventLists({Organizer} \cup Entered(teams))

NoGame == [there |-> "never", over |-> FALSE, cancelled |-> FALSE]
NewGame == [there |-> "yes", over |-> FALSE, cancelled |-> FALSE]
GoneGame == [there |-> "no", over |-> FALSE, cancelled |-> FALSE]
Exists == game.there = "yes"

PageCacheInit ==
  /\ version = [key \in PageKeys |-> 0]
  /\ game = NoGame
  /\ players = {}
  /\ entries = {}
  /\ listed = FALSE
  /\ due = [key \in PageKeys |-> 0]
  /\ firm = [key \in PageKeys |-> 0]

\* The pages of these keys would show something else now.
Bump(keys) ==
  version' = [key \in PageKeys |-> IF key \in keys THEN version[key] + 1 ELSE version[key]]

\* The demands `d`, raised to that for these keys.
Raised(d, keys) == [key \in PageKeys |-> IF key \in keys THEN version[key] + 1 ELSE d[key]]

\* A write of which nothing is owed to anybody ...
Change(keys) == Bump(keys) /\ UNCHANGED <<due, firm>>

\* ... one that owes these pages if no other request is under way ...
Promise(keys, owed) ==
  /\ Bump(keys)
  /\ due' = Raised(due, keys \cap owed)
  /\ UNCHANGED firm

\* ... and one that owes them whatever else is under way.
PromiseFirmly(keys, owed) ==
  /\ Bump(keys)
  /\ due' = Raised(due, keys \cap owed)
  /\ firm' = Raised(firm, keys \cap owed)

\* A write after which the game is in nobody's history but these users'.
Leaving(keys, left) ==
  /\ Bump(keys)
  /\ firm' = [key \in PageKeys |-> IF key \in Histories(players \ left) THEN 0 ELSE firm[key]]
  /\ UNCHANGED due

Writer(op) == [op |-> op, game |-> game, entries |-> entries, drop |-> {}]
MayWrite == \A key \in PageKeys : version[key] < MaxChanges

-----------------------------------------------------------------------------
(* Readers: findUserHistory, findUserPublicHistory, findMyEvents.          *)

ReadPage(p) ==
  /\ \E key \in PageKeys :
       /\ Arrive(p, IF key[1] = "history" THEN "readHistory" ELSE "readEvents")
       /\ IF key \in Cached THEN AtOnce ELSE Suspend(p, "query", [op |-> "read", key |-> key])
  /\ UNCHANGED <<redis, pages>>

QueryPage(p) ==
  /\ At(p, "query")
  /\ Suspend(p, "setPage", [op |-> "read", key |-> local[p].key, page |-> version[local[p].key]])
  /\ UNCHANGED <<redis, pages>>

\* The page shows the version it was queried at (`stored` is history: the version
\* there is when it is stored).
SetPage(p) ==
  /\ At(p, "setPage")
  /\ Store(local[p].key, [shows |-> local[p].page, stored |-> version[local[p].key]])
  /\ Return(p)
  /\ UNCHANGED pages

\* The time to live of a page is over.
Expire(key) ==
  /\ key \in Cached
  /\ Forget({key})
  /\ UNCHANGED <<pages, control>>

-----------------------------------------------------------------------------
(* The game.                                                               *)

\* create: its players' histories change and are not dropped. (It saves the bare game
\* first, which is in nobody's history.)
CreateGame(p) ==
  /\ Arrive(p, "createGame") /\ AtOnce
  /\ game = NoGame
  /\ game' = NewGame
  /\ players' = Players
  /\ Change(Histories(Players))
  /\ UNCHANGED <<redis, entries, listed>>

\* endGame has the scores (whether the teams are ready is left out, see Game) ...
EndGame(p) ==
  /\ Arrive(p, "endGame") /\ Exists /\ MayWrite
  /\ Suspend(p, "writeEnd", Writer("endGame"))
  /\ UNCHANGED <<redis, pages>>

\* ... writes the end, if the row is still there; the players are owed their pages ...
WriteEnd(p) ==
  /\ At(p, "writeEnd")
  /\ IF Exists
     THEN /\ game' = [game EXCEPT !.over = TRUE]
          /\ PromiseFirmly(Histories(players), Histories(players))
     ELSE UNCHANGED game /\ Change({})
  /\ Suspend(p, "reread", local[p])
  /\ UNCHANGED <<redis, players, entries, listed>>

\* ... and rereads the game, to drop the histories of those who are in it then.
Reread(p) ==
  /\ At(p, "reread")
  /\ IF Exists THEN Suspend(p, "drop", [local[p] EXCEPT !.drop = Histories(players)])
     ELSE Return(p)
  /\ UNCHANGED <<redis, pages>>

\* The hourly cron finds a game that is still on, with its players ...
FindStaleGame(p) ==
  /\ Arrive(p, "closeStale") /\ MayWrite
  /\ Exists /\ ~game.over /\ ~game.cancelled
  /\ Suspend(p, "writeClose", [Writer("closeStale") EXCEPT !.drop = Histories(players)])
  /\ UNCHANGED <<redis, pages>>

\* ... and ends it; it drops the histories of the players it found, whoever is in the
\* game by then.
WriteClose(p) ==
  /\ At(p, "writeClose")
  /\ IF Exists
     THEN /\ game' = [game EXCEPT !.over = TRUE]
          /\ Promise(Histories(players), Histories(players))
     ELSE UNCHANGED game /\ Change({})
  /\ Suspend(p, "drop", local[p])
  /\ UNCHANGED <<redis, players, entries, listed>>

\* cancelGame reads the game first ...
CancelGame(p) ==
  /\ Arrive(p, "cancelGame") /\ Exists /\ MayWrite
  /\ Suspend(p, "writeCancel",
       [Writer("cancelGame") EXCEPT !.drop = IF game.over THEN Histories(players) ELSE {}])
  /\ UNCHANGED <<redis, pages>>

\* Mutant: nothing is dropped.
WriteCancelOnly(p) ==
  /\ At(p, "writeCancel")
  /\ game' = [there |-> "yes", over |-> game.over, cancelled |-> TRUE]
  /\ Promise(Histories(players), IF game.over THEN Histories(players) ELSE {})
  /\ Return(p)
  /\ UNCHANGED <<redis, players, entries, listed>>

\* ... cancels it, which inserts a row where there is none, and drops the histories if
\* the game it read was over; they are owed if the one that is cancelled is.
WriteCancel(p) ==
  /\ At(p, "writeCancel")
  /\ game' = [there |-> "yes", over |-> game.over, cancelled |-> TRUE]
  /\ Promise(Histories(players), IF game.over THEN Histories(players) ELSE {})
  /\ IF local[p].game.over THEN Suspend(p, "drop", local[p]) ELSE Return(p)
  /\ UNCHANGED <<redis, players, entries, listed>>

\* update, setTeamReady, updateTeamScore short of the end, and endRound, which ends the
\* games of a round: nothing is dropped.
UpdateGame(p) ==
  /\ Arrive(p, "updateGame") /\ AtOnce /\ Exists /\ MayWrite
  /\ \E over \in {game.over, TRUE} : game' = [game EXCEPT !.over = over]
  /\ Change(Histories(players))
  /\ UNCHANGED <<redis, players, entries, listed>>

\* joinTeam and leaveTeam: nothing is dropped; whoever has left is owed nothing more.
MovePlayer(p) ==
  /\ Arrive(p, "movePlayer") /\ AtOnce /\ Exists /\ MayWrite
  /\ \E u \in Readers :
       players' = IF u \in players THEN players \ {u} ELSE players \cup {u}
  /\ Leaving(Histories(players \cup players'), players')
  /\ UNCHANGED <<redis, game, entries, listed>>

\* remove loads the game, saves it without players, as it was when loaded, and deletes
\* the row; nothing is dropped.
RemoveGame(p) ==
  /\ Arrive(p, "removeGame") /\ Exists /\ MayWrite
  /\ Suspend(p, "removeSave", Writer("removeGame"))
  /\ UNCHANGED <<redis, pages>>

RemoveSave(p) ==
  /\ At(p, "removeSave")
  /\ game' = local[p].game
  /\ players' = {}
  /\ Leaving(Histories(players), {})
  /\ Suspend(p, "removeDelete", local[p])
  /\ UNCHANGED <<redis, entries, listed>>

RemoveDelete(p) ==
  /\ At(p, "removeDelete")
  /\ game' = GoneGame
  /\ players' = {}
  /\ Leaving(Histories(players), {})
  /\ Return(p)
  /\ UNCHANGED <<redis, entries, listed>>

-----------------------------------------------------------------------------
(* The event. The game may be one of its games: then the histories change  *)
(* with the event's visibility, which its saves write and which a deletion *)
(* lifts; they are not dropped.                                            *)

CreateEvent(p) ==
  /\ Arrive(p, "createEvent") /\ AtOnce /\ ~listed /\ MayWrite
  /\ listed' = TRUE
  /\ Change(Showing({}))
  /\ UNCHANGED <<redis, game, players, entries>>

\* join, update, leave and delete read the whole event first.
ReadEvent(p) ==
  /\ \E op \in {"joinEvent", "updateEvent", "leaveEvent", "deleteEvent"} :
       /\ Arrive(p, op) /\ listed /\ MayWrite
       /\ IF op = "deleteEvent"
          THEN Suspend(p, "drop", [Writer(op) EXCEPT !.drop = EventLists(Entered(entries))])
          ELSE Suspend(p, op, Writer(op))
  /\ UNCHANGED <<redis, pages>>

\* Save the event with these entries, which takes a deletion back. The users in `owed`
\* are owed their lists; the lists of those in `users` are dropped next.
SaveEvent(p, teams, owed, users) ==
  /\ entries' = teams
  /\ listed' = TRUE
  /\ PromiseFirmly(Showing(entries) \cup Showing(teams) \cup Histories(players), EventLists(owed))
  /\ Suspend(p, "drop", [local[p] EXCEPT !.drop = EventLists(users)])
  /\ UNCHANGED <<redis, game, players>>

\* Mutant: only the list of the caller is dropped.
JoinEventDropsCaller(p) ==
  /\ At(p, "joinEvent")
  /\ LET teams == local[p].entries IN
       \E team \in SUBSET (Readers \ Entered(teams)) \ {{}} : \E caller \in team :
         SaveEvent(p, teams \cup {team}, team, {caller})

\* The team that joins is owed its lists.
JoinEvent(p) ==
  /\ At(p, "joinEvent")
  /\ LET teams == local[p].entries IN
       \E team \in SUBSET (Readers \ Entered(teams)) \ {{}} :
         SaveEvent(p, teams \cup {team}, team, team)

\* The entries it read are written back, and those in them are owed their lists.
UpdateEvent(p) ==
  /\ At(p, "updateEvent")
  /\ SaveEvent(p, local[p].entries, Entered(local[p].entries), Entered(local[p].entries))

\* The leaver's whole team goes, and only the leaver is owed a list; an admin who has
\* no team changes nothing.
LeaveEvent(p) ==
  /\ At(p, "leaveEvent")
  /\ \E u \in Readers :
       SaveEvent(p, {team \in local[p].entries : u \notin team}, {u}, {u})

\* The lists of those entered are owed; they were dropped before the deletion.
DeleteEvent(p) ==
  /\ At(p, "deleteEvent")
  /\ listed' = FALSE
  /\ Promise(Showing(entries) \cup Histories(players), EventLists(Entered(entries)))
  /\ Return(p)
  /\ UNCHANGED <<redis, game, players, entries>>

-----------------------------------------------------------------------------
(* invalidateHistoryCacheForGame, invalidateMyEventsCacheForUsers: a scan  *)
(* per user and pattern, all at once.                                      *)

DropPages(p) ==
  /\ At(p, "drop")
  /\ BeginScan(p, local[p].drop)
  /\ Suspend(p, "dropping", local[p])
  /\ UNCHANGED pages

DroppingPages(p) ==
  /\ At(p, "dropping") /\ AtOnce
  /\ ScanDeletes(local[p].drop)
  /\ UNCHANGED pages

PagesDropped(p) ==
  /\ At(p, "dropping")
  /\ ScanDone(p)
  /\ IF local[p].op = "deleteEvent" THEN Suspend(p, "deleteEvent", local[p]) ELSE Return(p)
  /\ UNCHANGED pages

PageCacheNext(p) ==
  \/ ReadPage(p) \/ QueryPage(p) \/ SetPage(p)
  \/ CreateGame(p) \/ EndGame(p) \/ WriteEnd(p) \/ Reread(p) \/ FindStaleGame(p) \/ WriteClose(p)
  \/ CancelGame(p) \/ WriteCancel(p) \/ UpdateGame(p) \/ MovePlayer(p)
  \/ RemoveGame(p) \/ RemoveSave(p) \/ RemoveDelete(p)
  \/ CreateEvent(p) \/ ReadEvent(p) \/ JoinEvent(p) \/ UpdateEvent(p) \/ LeaveEvent(p)
  \/ DeleteEvent(p)
  \/ DropPages(p) \/ DroppingPages(p) \/ PagesDropped(p)

-----------------------------------------------------------------------------
(* Properties.                                                             *)

\* While requests come one at a time, between them nobody is shown a page older than
\* what is owed: after endGame, the closing of a stale game and the cancellation of one
\* that is over the histories of its players, after a join, an update and a deletion
\* the lists of the teams entered by it, still entered or until then, after a leave the
\* list of the leaver. (Of every other write a page may show nothing until it expires:
\* the lists of the creator and of other teams, and all histories when a game is
\* created, edited, removed, ended by endRound or cancelled before its end, when its
\* players come and go, or when its event's visibility changes.)
PagesFresh ==
  calm /\ (\A p \in Requests : pc[p] = "idle")
    => \A key \in PageKeys \cap Cached : cache[key].shows >= due[key]

\* A request is still going to drop this page.
Dropping(p, key) ==
  \/ pc[p] = "reread" /\ key \in Histories(players)
  \/ pc[p] = "drop" /\ key \in local[p].drop
  \/ pc[p] = "dropping" /\ key \in scans[p]

\* However requests overlap, once endGame, a join, an update or a leave has dropped the
\* pages it owes, none that was in Redis before its write is left there; what is older
\* than the write is there only because a reader that had queried before it stored it
\* after it. (Closing and cancelling drop the histories of players read before their
\* write, and a deletion drops its lists before it: they owe nothing of the kind.)
NoPageSurvives ==
  \A key \in PageKeys \cap Cached :
    cache[key].stored >= firm[key] \/ \E p \in Requests : Dropping(p, key)
=============================================================================
