# Kubbetition back end: a verification project

Kubbetition runs games of kubb between teams of one to six players, ad hoc or
as part of events with rounds. The back end is a NestJS application: one Node
thread, PostgreSQL through TypeORM, Redis for caches and refresh tokens, S3 for
files, websockets to push updates. This directory models the parts of it whose
correctness depends on the order of things, checks them with TLC and proves
what can be proved with TLAPS.

One fact shapes every model. A handler runs without interruption between two
`await`s and never holds a lock; nearly no handler opens a transaction. Each
query is atomic, and between two queries of one handler any other handler may
run. Three forms of writing differ in what they do to concurrent changes:

| code | what is written | where it is modelled |
|---|---|---|
| `repository.update(id, {columns})` | the named columns, if the row exists | `Game!Update` |
| `repository.save(loadedEntity)` | every column as it was loaded, `deletedAt` included; a deleted row is inserted again; a loaded one-to-many relation is made exactly what was loaded | `Game!RemoveSave`, `Game!EndRoundSave`, `EventRounds!Save`, `Divisions!SaveDivision`, `TeamPosts!SavePost`, `PageCache!SaveEvent`, `Files!SaveWholeEvent` |
| `relation().add/remove` | one row of a join table | `Game!JoinAdd`, `Game!LeaveRemove` |

## Inventory

| Component | State | Operations | Interacts with | What is hard | What makes it correct |
|---|---|---|---|---|---|
| Games (`games/`) | a row per game (readiness, scores, start, end, winner, cancelled), two lists of members, a list of participants | create, join, leave, ready, score, end, cancel, remove, update | divisions give line-ups; events create and end games; a gateway pushes; the history cache is invalidated | auto-start and auto-end decided by whichever call comes second; stale saves; removal while others write | play only when ready; no lost start or end; a winner only with two scores; a row never goes back |
| Games scheduler | none | hourly closing of stale ad-hoc games | Games | races with late answers | started games do not stay open |
| Games gateway | user → socket | connect, disconnect, push | Games | reconnects | connected players are reached |
| Events (`events/`) | a row per event (teams entered, current round, rounds, limit, mode, deleted) and its games | create, update, image, join, leave, startRound, endRound, delete, rankings | Games, Divisions, Files, cache of a user's events | whole-entity saves with stale lists; rounds announced before their games exist | entries are consistent; rounds come in order; nobody plays twice in a round |
| Matchmaking (`events.service.ts`) | none | greedy draw, ranking-based draw, statistics | Events | odd numbers, exhausted opponents | complete draws; rematches only when unavoidable |
| Event invitations | invitation rows | send, delete | Events, Users | duplicates | one invitation per user and event |
| Accounts, teams, team requests | role, team and deletion of an account; teams; requests with a status | found, edit, remove a team; apply, accept, reject, archive; edit a profile, delete an account | Users, Divisions | check-then-insert, status read before it is written, foreign keys, relations that load without deleted accounts | one open request per user; who was accepted has been in the team; a decided request stays decided |
| Divisions | division, its members | create, update, remove, resolve | Teams, Games, Events | duplicates, members who leave the team | members of the team; distinct member sets; as many as the type says |
| Posts and reactions | posts, one reaction per user | create, update, remove, react | Teams, gateway | broadcasts out of order | one reaction per user; last broadcast is current |
| Friend requests | requests with a status | create, accept, reject, delete | Users, access checks | crossing requests, stale status | one live request per pair; friendships last; only who may see a history does |
| Refresh tokens | hashes in Redis | issue, rotate, revoke all | Users | rotation in three steps | a token is used once |
| Caches | pages in Redis | get, set, delete by pattern | Games, Events | fill races with invalidation; pages dropped for those read before the write | what a write owes its users is shown or gone |
| Files | S3 objects, paths in rows | upload, delete | Events, Games, Users, Teams | order of delete, upload, save | a stored path names an existing file |

The remaining parts (e-mail confirmation, countries, pipes, filters, guards,
configuration, migrations, seed) keep no state of their own or set one flag;
they are listed in `PROJECT.json` with the reason for leaving them out.

## Modules

| Module | What it is |
|---|---|
| `GameLifecycle` | the abstract promise: a game is created, ready, over, in that order and never backwards; results only once ready; a winner only with both results |
| `Game` | one row of the `game` table and every flow of control that writes it |
| `GameProofs` | the theorems about `Game` |
| `MCGame` | instances of `Game` for TLC |
| `Matchmaking` | the two draws and the ranking, as operators |
| `EventRounds` | one row of the `event` table with the games that hang off it; extends `Matchmaking` |
| `Standings` | status, active games and ranking of an event, over the state of `EventRounds` |
| `MCEventRounds` | instances of `Standings` and `EventRounds` for TLC |
| `MatchmakingProofs` | what the draws return, for every list of teams; extends `Matchmaking` |
| `EventRoundsProofs` | the theorems about `EventRounds` that hold under any overlap |
| `StandingsProofs` | the theorems about `EventRounds` and `Standings` for one call at a time |
| `Handlers` | how requests run in one Node thread: arriving, waiting for a query, answering, failing |
| `Membership` | accounts, teams and applications to join one; extends `Handlers` |
| `Divisions`, `Friends` | the divisions of a team; friend requests, invitations and access checks; both extend `Membership` |
| `People` | the composition of the three; `MCPeople` its instances |
| `PeopleProofs` | the theorems about `People` that hold under any overlap |
| `PeopleCalmProofs` | those for one call at a time, and the bounds on duplicates |
| `Redis` | the cache and its scan-and-delete; extends `Handlers` |
| `RefreshTokens`, `PageCache` | the two users of Redis; both extend `Redis` |
| `Files` | the picture of a row and the files in the bucket |
| `TeamPosts` | a post, its reactions, and the sockets it is pushed to |
| `Services` | the composition of the last four; `MCServices` its instances |
| `ServicesProofs` | the theorems about `Services` that hold under any overlap |
| `ServicesCalmProofs` | those for one request at a time, and what overlap leaves of the pages |

### Game

Every HTTP request in flight is a member of `Requests`, the scheduler is `Cron`.
`pc[p]` names the await at which a process stands; `arg[p]` and `snap[p]` are
what the handler keeps in local variables across it. Thus `setTeamReady` is
three steps (`SetTeamReady`: load and check; `ReadyWrite`: set the flag;
`ReadyReread`: read back and decide) and a fourth, `StartGame`, if the game is
to be started. `updateTeamScore`, `endGame`, `remove`, `cancelGame`, the cron
and `endRound` are split in the same way, and creation, which saves the bare
game before the line-ups are known, too. `Fail` ends a request at any await.

`startTime` and `endTime` matter only for being set, and `stale` says that the
start is more than an hour back. A row that is inserted again by a save after
its deletion is `"reborn"`: it has neither creator nor event, which later
handlers notice. The two history variables `removed` and `failed` appear in
properties only. After a removal has begun (`removed`) nothing is promised.

Abstracted: the caches of histories, the social photo, rankings and statistics,
who exactly may call what (any user who could pass the check may be the caller).
`PATCH /games/:id` is left out because its body can not pass validation: the
DTO wants `endTime` to be a `Date` and the pipe never converts it. A game's id
becomes known to others with the answer to its creation (`Known`).

### EventRounds

The event's columns are one record, its games a sequence that only grows; a
game that a stale save cuts off has `attached = FALSE`. A request holds the
entity it loaded, the numbers of the games loaded with it, the pairs still to
be created and the game rows it is going to save. `StartRound` makes all checks and the
draw at once, since both use the loaded entity only; the writes
(`SaveRounds` for a free-for-all's first round, `SaveRound`, one `CreateGame`
per pair) are steps of their own. `Picture` and `RowSave` stand for
`uploadImage` and `deleteImage`, which save the event loaded without games.
`Play` gives a game its result or cancels it: what happens inside is `Game`.

Who is entered is modelled by sets of users; whether they are friends or a
division of the caller, and private events with invitations, are not. Times
pass once (`Tick`: joining closes, then the event ends); `update` changes mode and
rounds, and sets, changes or lifts the limit (its DTO lets `null` through, after which
`join` checks none: `NoLimit`), but does not move the times. `had` is a history
variable: the limits the row has had.

### Matchmaking

`Drawing` is the loop both generators share: take a pair of positions off the
list until fewer than two teams remain. `Matchups` picks the first pair that
has not met, or the first pair; `TournamentMatchups` ranks the teams by record,
point difference and points, and picks an opponent for the best one left.
`Opponent` is what the loop in the code computes: its fallback for a later
team that was not met can never be reached, because the last resort takes the
next team in the ranking first.

### Standings

`getStatus`, `getActiveGames` and `getRanking` are functions of one load of the
event. The ranking counts per user and shows the numbers of a team's first
member; it sorts by points scored before tournament points, whereas the draw
(`Matchmaking!RanksAbove`) goes by the record first. Deleted accounts, which
drop out of a ranking, are not modelled here. `Settled(n)` says that the results up
to round n are final: every game is over with both scores, or called off, and no
`endRound` holds an older copy of one. A game that ended without scores is not
settled, for `endRound` gives it 0:0. Two peculiarities of the status
are in the model as they are in the code: an event shows as finished between
the announcement of its last round and the creation of that round's first game,
and games of earlier rounds that are still on do not count.

### Handlers and what is written over it

`ops` is the set of operations a behaviour exercises (`Scenarios`); within it
every request slot may run any of them, over and over. `calm` is a history
variable: it stays true as long as no two requests have been in flight at once.
Most of these handlers check with one query and write with another, without a
transaction or a constraint, so what they promise is promised for `calm`
behaviours; `AtMostOnce` also bounds what overlap can do: not more than one
duplicate per request racing. Properties without `calm` hold under any overlap.

### Membership, Divisions, Friends

The JWT strategy loads the caller with each request, so role and team are those
of its arrival: the guards of the controllers are part of the arriving action,
the queries of the service that follow are actions of their own. `past` is a
history variable. `SaveTeam` writes the whole list of members, taking users out
of other teams; `SaveProfile` is `UsersService.update`, which looks up a team by
`dto.team`: with no team given the query has no condition and returns whichever
team comes first, so the model takes any. A founder or supervisor who is moved
keeps the role. `DeleteTeam` models the foreign keys: accounts, even deleted
ones, and applications, whatever became of them, stop the deletion; divisions
go along.

Deleted accounts keep their row and drop out of what relations load
(`Members`, `Loaded`). An edit of a division that lists no members writes back
the members that load, and does not look for twins: after a member deletes the
account, two divisions may come to have the same members. `LineupsDiffer` is
therefore stated for when nobody has. Friend requests whose other side is gone
make `getFriends` throw (`ViewFriends`, `"failed"`); the same holds of a private
event whose creator is gone (`ViewEvent`).

### Redis, RefreshTokens, PageCache

A scan returns every key that is there from its beginning to its end, and may
return or miss others (`BeginScan`, `ScanDeletes`, `ScanDone`); the scans that an
invalidation starts in parallel begin as one. Keys have no prefix of their own in
Redis, which the patterns of `delByPattern` rely on.

A refresh token is a JWT over the account and the second it is signed in, and
is thereby the second: two of one second are the same token, and refreshing in
the second a token was signed in hands it out again. `exchanged`, `condemned` and
`dead` are history variables. `UsedOnce` needs `calm`: two refreshes that race
both find the token. `RevokedForGood` needs nothing: what was there when a
revocation began is gone when it returns, until a login or refresh signs the
same token anew.

`PageCache` has one game, one event and two pages per user; what a page shows is
a version number, which every write that changes the page raises. Which pages a
handler drops is taken from the code: `endGame` reads the game again after its write
and drops the histories of those who are in it then; the closing of a stale game
drops those of the players it found before; `cancelGame` the same, and only if the
game was over when it was read; creating, editing, `endRound`, joining, leaving and
removing a game drop none. Joining an event drops the lists of the team that joins,
an update those of the teams it loaded, leaving that of the leaver only, and deleting
drops those of the teams it loaded, before it deletes. A change of visibility, or the
deletion of the event, changes the histories, which are not dropped.

What a write owes to whom is stated at the write, by the rows as they are then, and
apart from what its handler drops: `due[key]` is the version a page has to show,
or be gone, one request at a time; `firm[key]` the version it has to show however
requests overlap. Closing, cancelling and deleting, which drop what they found before
they write, raise `due` only. Whoever leaves a game is owed nothing more of it. Where
the code drops nothing (`Change`), nothing is owed: those pages may be old until they
expire, which is what the code does and no doc denies.

### Files and TeamPosts

A file is named by the contents of the processed picture. Avatars and logos are
put first and the row is read after; a social photo's row is read before; an
event's old image is deleted before the new one is put. `row = "elsewhere"` is
the address at Google that registration stores before the avatar is copied.
`failed` and `repeated` are history variables. Uploading the same avatar, logo
or social photo again deletes the file that the row names, for the name of the
old file is the name of the new one (`repeated`); with an event's image, which is
deleted first, all is well.

`TeamPosts` has one post. A push is not awaited by its handler; in the model the
request stays in flight until the push is out, so that `calm` covers it. A
reaction to an overdue post is saved, but answers 404 and is not pushed
(`FindPost`). A post whose edit races its removal is inserted again. A gateway
keeps one socket per user, in a map that a closing socket clears whichever
socket it holds: `doubled` remembers who has had two at once, for whom nothing is
promised.

## Runs

| Run | Question | Result |
|---|---|---|
| `game_adhoc` | two requests and the cron on an ad-hoc 1v1 game, with removal: safety, no lost start or end, refinement of `GameLifecycle` | holds |
| `game_event` | the same row as an event's game: `endRound` and `remove` with stale rows, queries that fail | holds |
| `game_live` | a 2v2 game between two divisions, under fairness: ready games start, scored games end, started games close | holds |
| `game_winner` | is the persisted winner the one of the scores? | violated: `endRound` never writes it |
| `event_draws` | events of 2 to 5 single players in all modes, one call at a time: rounds in order, complete draws, nobody twice in a round, no rematch in small events whose earlier games have their scores; rankings that add up and, once settled, stay; finished events that stay so | holds |
| `event_joins` | two overlapping requests of any kind on a 2v2 event whose limit of one or two places is changed or lifted: entries stay consistent, and never more than the largest limit | holds |
| `event_swiss` | does the tournament draw repeat a game only when it must? | violated with three teams |
| `event_round_robin` | does a free-for-all of six teams avoid rematches? | violated in round 2 |
| `event_late_join` | does nobody enter once a round has started? | violated by a join saved late |
| `people` | three users, one an admin, two overlapping requests of any kind: membership, line-ups, friendships, access | holds |
| `people_views` | is whoever may see a history let in? | violated once a friend has deleted the account |
| `services` | tokens, pages, pictures, posts and sockets under two overlapping requests, with queries that fail for the pictures | holds |

Bounds. Two requests in flight are enough for the hazards listed, which are all
races between two handlers; the cron is a third flow in `game_adhoc`. The
requests themselves are unbounded: a slot is used again and again, so the runs
contain sequences of any length. Scores 0 and 1 give a win for either side and
a tie, and make 0 as a score differ from no score; in `game_live` one score
is enough because only its presence matters. In `event_draws` games are capped
at four (`MaxGames`): two rounds of four or five teams are created, and the draw of
the round after them is still evaluated in every state; scores of four kinds rank the
teams in several ways, ties with and without points included. In `event_joins` one game suffices: what matters
are the entries and the line-up it is drawn from. The three line-ups there
overlap in a chain, so that two can be entered together and two can not: with a limit
of one, a second team would overfill the event. An update may lower the limit
below the teams that are in, and may lift it: `NeverOverfull` therefore speaks of the
largest limit the row has had, and of nothing once it has had none. The
draws of `EventRounds` are deterministic, so the violations with three and six
teams need no more.

In `people` and `services` a behaviour exercises one scenario, a set of two to
five operations that touch the same rows: the operations of different scenarios
share no rows, or meet in another scenario. Three users are enough for a team with a
founder, a member and an outsider; two teams for a move; two divisions for twins;
three applications for one that is pending while others are decided; two friend
requests for a crossing pair. `MaxChanges` = 4 (writes begin only as long as no page has changed that often) lets a
page be stale, be dropped and be stale again while others write; the scenarios of the
pages mix readers with the writers of a game, or of an event. Requests and pictures are
symmetric. Two seconds give a token of now and one of before; two pictures
give a replacement and a return.

Deadlock checking is off where the system may stop: a deleted game, an event
whose rounds are played, and slots that are idle once the bounds are reached.

Fairness (`Game!Fairness`): a pending query is answered some day, so each
request's next step is weakly fair (`Proceed`); the hour passes; the cron, which
NestJS fires every hour, is weakly fair in both of its steps. No user is obliged
to ask for anything. The other specifications state no fairness. `Fail` and removal are not exercised in `game_live`: a
failing query, or a deletion, justly leaves a game as it is.

## Properties

Of `Game`: `PlayNeedsReadiness` and `WinnerNeedsScores` relate columns written
by different handlers on the strength of guards evaluated long before.
`NoLostStart` and `NoLostEnd` are about two calls of which neither sees the
whole picture before it writes. `Lifecycle` says that every step is a step of
the abstract lifecycle or changes nothing it speaks of, stale saves included.

Of `EventRounds`: `EntriesFit` and `NeverOverfull` must hold under any overlap: a stale
save puts back an older list of teams, which was consistent and within a limit when it
was loaded. `RoundsAnnounced`,
`OncePerRound`, `DrawComplete`, `SecondRoundFresh` and `SmallRoundRobinFresh`
hold as long as calls come one after the other; with two `startRound`s at a
time, the first two fail, since nothing but the loaded list of games prevents a
round from being started twice. `SecondRoundFresh` speaks of a first round whose
games all have their scores, which `startRound` does not ask for. A game without
scores counts as not played, so that its two teams can be paired in the second round;
of four teams that leaves the other two, who drew 0:0, to meet again. For the same
reason `SmallRoundRobinFresh` speaks of draws before which every game of the event
has its scores: a free-for-all of three or four teams whose rounds are started earlier
may well repeat a game. `RematchIsForced`, `RoundRobinFresh` and
`NoLateEntry` are what comments promise and the code does not keep; see the
findings in `PROJECT.json`.

Of `Standings`: `RankingAddsUp` compares two sums over all the users' statistics,
between calls. `RankingSettles` speaks of every step,
those of `startRound` and `endRound` included: these save the games they loaded, maybe
long ago, and once the results up to a round are settled no such save may lose or
change one. "Settled" asks for scores, since `endRound` turns a game that ended without
any into a 0:0 (and overwrites a result that came in after it had loaded the game);
calling a game off later is allowed to change it.
`FinishedForGood` ties the computed status to what `startRound` allows.

Of `People`: `ApprovedWereIn` and `LineupsWereMembers` hold under any overlap, the
first because place and status are one transaction, the second because a check
is against rows that `past` remembers. `MembershipTypeOK` includes that no account
and no application ever points to a deleted team. `LineupsFit` holds under any
overlap too, since an edit writes type and members together. `OnePendingApplication`,
`OneLink`, `LineupsDiffer` hold one call at a time and bound the duplicates
otherwise; `DecidedForGood`, `FriendsForGood` and `NoPeeking` hold one call at a time. `HistoryAccess` is what the comment of `canViewUserGameHistory`
says, and fails.

Of `Services`: `UsedOnce`, `PagesFresh`, `PictureExists`, `NoOrphans` and
`BoardCurrent` hold one request at a time, `RevokedForGood`, `Reachable` and
`NoPageSurvives` always. `PagesFresh` says that between requests nobody is shown a page
older than `due`. Under overlap a reader may store what it queried before a write, so
that a page may be old for its five minutes; `NoPageSurvives` says that this is the only
way: no page that was in Redis before the write of an `endGame`, or of a join, an update
or a leave of an event, is there after its drop (`firm`, `stored`), even when players come
and go meanwhile, the game is removed, or another request scans as well.

## Proofs

`GameProofs` proves, for any users, team size, scores, line-ups and number of
requests, from `GameAssumption` alone:

- `TypeCorrect`: `TypeOK` always holds.
- `PlayIsReady` and `WinnerIsScored`: the two safety invariants.
- `NoStartIsLost` and `NoEndIsLost`.
- `GameRefinesLifecycle`: `Spec => Lifecycle`.

Neither safety invariant is inductive: what a handler writes was decided at an
earlier await. The inductive invariant `Safe` adds what the handlers rely on in
between: a row that does not exist is blank (`Fresh`); whoever is past the
readiness check found a ready game, and it still is (`AdmittedReady`); scores
kept by `endGame` are still recorded, at least as recorded (`ReadScores`); a
process about to delete has been seen to (`RemovalSeen`); what the cron holds
was a started, hence ready, game (`CronFound`). `KeptStep` is the heart of it: until a removal, no
step takes back a declaration, a score, the start or the end, so a stale row
is never ahead of the current one, and what was found stays true. The lost-start
theorems add that a ready game that has not started, and in which no request
failed, has a process on its way to start it; likewise for the end. The
refinement follows from `Safe` and `KeptStep`, one step per action.

`PeopleProofs` proves, for any accounts, bounds on the rows and number of
requests, from `MembershipAssumption` (the founder of the first team is an
account):

- `MembershipTyped`: `MembershipTypeOK`, with what the foreign keys promise: no
  account and no application points to a deleted team.
- `ApprovedHaveBeenIn` and `LineupsHaveBeenMembers`.

A handler writes what it checked one or more awaits ago. The inductive invariant
`PeopleInv` adds what a request may rely on meanwhile, await by await (`Held`):
the rows it named exist, a division it edits still belongs to the team it was
checked against, and once its members have been looked for in the team (`Checked`)
they have been in it. `HeldStays` shows why that lasts: rows are never taken away
nor given to another team, and `past` only grows (`Grown`). An edit that lists no
members is checked by nobody, but the members it loaded stood in the line-up
already. `DeleteTeamKeeps` rests on the foreign keys being checked in the same
step as the deletion, `ApproveKeeps` on place and status being one transaction.

`PeopleCalmProofs` adds `HandlersAssumption` (finitely many requests are in flight
at once) and `IsFiniteSet(People)`, which counting needs:

- `NobodyPeeks`, `DecisionsAreForGood`, `FriendsStayFriends`: `NoPeeking`,
  `DecidedForGood`, `FriendsForGood`, for one call at a time.
- `LineupsAreFull`: `LineupsFit`, under any overlap.
- `ApplicationsDoNotPileUp`, `LinksDoNotPileUp`, `LineupsDoNotPileUp`:
  `OnePendingApplication`, `OneLink`, `LineupsDiffer`. One call at a time there is
  one row; in a race there are no more than requests in flight at once.

The first three rest on `AloneInv`: in a calm behaviour only one call holds
anything (`Sole`), so what it read is still so when it writes (`Fresh`). For
`LineupsFit` every line-up a request carries has as many members as its type
says, like every row (`FitInv`). The bounds need an invariant that counts more
than rows, since a call that has looked and found nothing will insert one however
many others do: rows and calls about to insert one are together within the bound
(`Within`). A call joins the count only when there is no row, so that all that is
counted are calls, one per slot (`RaceFits`); one that inserts leaves the calls
and adds a row (`LandedFits`); all else only takes away (`FewerFit`). For divisions
an edit, which writes back members it loaded, counts as the row it is going to
restore.

`ServicesProofs` proves, for any requests, seconds, users, members and sockets
and from no assumption:

- `SocketsReachable`: `Reachable`, inductive once every open socket is known to be
  a member's (`WiresInv`): when the entry of a user goes with a socket, another
  socket of that user would make the user doubled.
- `RevokedStaysRevoked`: `RevokedForGood`. The inductive invariant `RevokingInv` says
  that the scan of a revocation under way still has to return every token it is
  to delete that is there (`Scanning`). Deleting a key takes it from every scan
  (`ForgetKeeps`), storing a token takes it from what is condemned
  (`StoreTokenKeeps`), and a page never has the key of a token, for which the key
  a reader carries across its query must be known to be a page's (`SetPageKeeps`).

`ServicesCalmProofs` proves what holds for one request at a time, and `OldPagesGo`, from
`RefreshTokensAssumption` (the bound on the clock is a number) and
`FilesAssumption` (no picture is called "none" or "elsewhere"):

- `TokensUsedOnce`: `UsedOnce`. A token that was exchanged in a later second is not
  in Redis any more, and no request is about to store it again (`TokensCalm`).
- `PicturesExist` and `NoFilesLeftBehind`: `PictureExists` and `NoOrphans`.
  `FilesCalm` says await by await what an upload has put and what it is still to
  delete; at its last await the bucket already fits the row it is going to write.
- `BoardShowsPost`: `BoardCurrent`. What a request carries to its push is the post and
  the counts as they are (`PostHeld`). A reaction is never refused after it has been
  read, so nothing is written that is not pushed. Closed sockets show nothing
  (`SeenInv`), which is why one that connects needs no push.
- `OldPagesGo`: `NoPageSurvives`, for any overlap. The property is nearly inductive: a
  page that is older than the last firm write is on somebody's way to the drop, at the
  reread, on the list or in the scan (`Dropping`). `PagesInv` adds the rest: a game that
  is not there has no players, so that a reread that finds no game owes nothing, a
  writer's record is of one shape, and nothing is owed that has not been written
  (`DemandsFit`). Per step and page, `PromisesKept` asks for one of two things: the page
  is stored anew (`Renewed`), or it and the scans of others are as they were and it is
  still to be dropped or owed nothing new (`Kept`).
- `PagesAreFresh`: `PagesFresh`. Every page shows what is due or is on its way to the
  drop (`Accounted`). One request at a time, what a request read still holds when it
  writes (`PageHeld`): a page about to be stored is of the present, the closing of a
  stale game and the cancellation hold the players of the row as it is, and a deletion,
  which drops first, finds none of its pages cached when it deletes the event.

No step is atomic with the one before it, but in all of these except `OldPagesGo` a
request finds nobody else under way (`Alone`). What comes in between is nobody's request: the
clock, the expiry of a page, sockets. A step of one service leaves alone the
requests of another (`Away`), and the two that share Redis have keys of different
shape (`KeysApart`).

`MatchmakingProofs` states what both draws return, for every list of teams and
every finite set of scored games, as `Drawn`: half as many pairs as there are
teams, each side an entry, and whatever relation holds between any two entries
of the list (they differ, they share no player) holds between any two sides of the
draw. `MatchupsFacts` and `TournamentMatchupsFacts` are used by name from the
other modules. The draws, and the sums of points that rank the teams, are
recursive functions, and the library's induction rules cannot be instantiated by
the provers installed. The proofs go by descent instead (`Descent`): among the
arguments for which a claim fails there would be one of least measure (the length
of the list, the number of games), and the step below it, for which the claim
holds, gives it back. In the same way `Recursion` shows that such a function
exists. That the ranking is a permutation of the entries (`RankedFacts`) follows
from its keys being strictly ordered (`AboveOrders`), the last one the place in
the list.

Two more kinds of facts are there for the rankings and the next draws. First, sums:
a sum over a finite set is what any iteration over it adds up (`SumIterates`), it adds
up over disjoint parts (`SumIsAdditive`), and two measures that agree on the two sides
of every game agree on all games (`Balanced`). Second, what exactly a draw begins with:
`DrawsUnfold` takes one pair off a draw, `GreedyFacts` says which pair `Matchups`
takes, `OpponentFacts` and `FirstTournamentMatchup` which one `TournamentMatchups`
takes first, and `RankedFacts` that the keys of the ranked list descend.

`EventRoundsProofs` proves, for any teams, modes, limits and number of requests,
from `EventAssumption` (the lists an event starts with are such as `join` lets
in, teams are finite, scores are natural numbers or missing):

- `EntriesFitAlways`: `EntriesFit`.
- `NeverOverfullAlways`: `NeverOverfull`.
- `RoundsTypeOK`: `TypeOK`.
- `DrawsComplete`: `DrawComplete`, for every number of teams.

`EntriesFit` is not inductive: a save writes whatever list was loaded, maybe
long ago. The invariant `EntriesInv` says it of every list a request holds as well,
of every game a request has loaded, and of the pairs it has still to create;
that a game is fair is where `Drawn` is needed. In the same way `LimitInv` says of
every list that is held that it is within the largest limit the row has had: a request
that is going to set a limit has added no team, and one that adds a team keeps the
limit it was admitted by.

`StandingsProofs` assumes in each theorem that calls come one after the other
(`OneCall`), the condition under which the properties are stated; there is one
request slot, used over and over, and every await may fail:

- `OncePerRoundAlone`: `OncePerRound`.
- `RoundsAnnouncedAlone`: `RoundsAnnounced`, if no update changes the number of
  rounds (`NoUpdates`): one that lowers it below the current round breaks this.
- `FinishedForGoodAlone`: `FinishedForGood`, with updates.
- `RankingSettlesAlone`: `RankingSettles`, without (a round that the event does not
  have any more stands for all of them). It is about every step, those of `startRound`
  and `endRound` between their awaits too: each saves stale rows only of games it does
  not change, or that are not settled.
- `RankingAddsUpAlone`: `RankingAddsUp`, for any number of teams and any results, if
  the list stays once a round has been announced (`ListStays`).
- `SecondRoundFreshAlone`: `SecondRoundFresh`, under the same condition.
- `SmallRoundRobinFreshAlone`: `SmallRoundRobinFresh`, whose condition is that each round
  is drawn when all games before it have their scores, if mode and number of rounds
  stay as well (`EventStays`).

`ListStays` and `EventStays` are conditions on steps, since the code lets anyone leave
and the creator edit at any time (`leave`, `update`): a team that leaves after a round
takes its wins out of the ranking but not the losses it inflicted, and moves the teams
behind it up in the list from which the next round is drawn. The runs meet them by leaving
these operations out; the theorems do not restrict `Ops`.

The invariant `AloneInv` follows a request through its awaits (`InStep`): the round
it read is the one in the row, the games it loaded are all there are, a round to be
announced is one the event has, and the games still to be created are of players
without a game in that round; the last again from `Drawn`.

With the list fixed, `ListInv` adds that every game is between two teams of the list
and that those of the first round are its neighbours, in order. That is what makes a
ranking add up: a result is seen from its two sides, and as every side is an entry,
the sum over the entries of each one's results is the sum over the sides of all
results, where a win of one is a loss of the other (`SidesBalance`). Nobody has more
games than rounds because `OncePerRound` tells a team's games apart by their rounds.

For the second round, `FirstRoundKeys` says how such games rank the teams: the two of
a game have opposite records and, after a tie, no difference, and who sat out has
nothing (`FirstKeys`). From this alone, `BestPairSplits` shows that the first pair
drawn takes a team from every game of the first round, whatever the scores; no two
teams that have met are left for the second pair, and five teams have no third. The
small free-for-all needs one more fact, in `RobinInv`: with four teams, the head of
the list has a game in each round, so that the two games of a round are known by its
opponent, and the draw gives it a new one as long as there is one.

Only model-checked: liveness (`ReadyGamesStart`, `ScoredGamesEnd` and `StartedGamesClose`
need fairness and ENABLED, which are out of the prover's reach) and
what fails (`WinnerMatchesScores`, `HistoryAccess`, `RematchIsForced`, `RoundRobinFresh`,
`NoLateEntry`). Every other property that a run checks is the conclusion of a theorem.

## Not modelled

- Statistics and summaries of games, the public lists of events, teams and
  posts, search and paging: queries without state of their own.
- Who may see a game's social photo, and signed and public addresses of files:
  read-only checks and formatting. Conversion of pictures is a library's.
- The pushes of a game's updates: they follow each write at once, over the
  gateway whose connections `TeamPosts` models.
- Files of rows that are deleted: nothing deletes them, so there is nothing to
  order. `EventsService.updateImage` has no caller.
- Access tokens, which are never revoked, and Google's verification of an ID
  token. E-mail confirmation is a flag that defaults to set.
- Countries, geolocation, pipes, filters, configuration, migrations, seed.
- What a cached page contains: a history page is stored under page, limit and two
  flags, but not under the search and filter it was queried with.

## Plan

1. Done: `Game`, `GameLifecycle`, their proofs; `Matchmaking`, `EventRounds`,
   `Standings`; `People`; `Services`; the proofs of what holds in these two under any
   overlap.
2. Done: the draws, the entries and the types of `EventRounds`; rounds, status and
   rankings for one call at a time.
3. Done: what `People` and `Services` keep up one call at a time, and how many
   duplicates a race can leave behind.
4. Done: what rankings add up to, and the small events whose draws repeat no game.
5. The statistics of divisions and users, whose wins and draws rest on the
   persisted winner.
