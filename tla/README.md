# Duel server: specifications and proofs

The server is a NestJS process: a websocket gateway in which two players meet in a
room and compare how loud they shout over a few rounds, and an HTTP API over
PostgreSQL for accounts, solo records, a diary, a leaderboard and an administrator's view of
the server's events. This directory specifies both in TLA+, checks small instances with TLC
and proves part of it with TLAPS.

Paths below are relative to the repository; `game.gateway.ts` is
`src/game/game.gateway.ts`, and so on.

## 1. Inventory

| Component | State | Operations | Interacts with |
|---|---|---|---|
| `GameGateway` with `GameRoomStore` and `game.types.ts` | rooms, `userToRoom`, `socketToRoom`; per room: players, phase, scores, round records, mic-ready set, official flag, timer handles | socket events `room:create`, `room:join`, `game:ready`, `round:mic-ready`, `round:mic-error`, `round:submit`, `game:rematch`, `room:leave`; connect, reconnect, disconnect; seven timer callbacks | `UserRepository` (profile lookup), `OperationalEventService` (record at connect), admin health (statistics) |
| `AuthService` | `User.refreshToken`, the row itself at signup | login, signup, refresh, logout | `UserRepository`, OAuth providers |
| `UserService` | nickname, avatar, image key, the account | nickname, avatar and image changes, account deletion | `UserRepository`, `R2StorageService` |
| Solo records | one row per user: last and best score | create, find | the database, leaderboard |
| Diary | one row per user and date | create, update, delete, find | the database |
| Leaderboard | none of its own | list (two queries), own rank (up to four) | solo records, users, R2 URLs |
| Admin login and rate limiter | failed attempts per IP and when the first was, in memory | login | operational events |
| Operational events | an append-only table | record, paginated find | gateway, auth, admin login, exception filter |
| HTTP layer, logging, wiring, deployment | none that another part reads | | |

What makes each of them hard, and what must hold:

* **Gateway.** Node runs one callback at a time, up to its next `await`. Three handlers
  await before they change state, so other events get between the check and the change:
  `handleConnection` (the event record, then `tryReconnect`), `onRoomCreate` and
  `onRoomJoin` (the profile lookup). Every room has five timer handles and a grace timer
  per player, armed and cleared by different handlers. Four blocks reset a room, each a
  different set of fields. *Must hold*: the store's maps agree with the rooms, a round is
  scored once and from the submissions made in it, a decided match stays decided, a phase
  never loses the timer that ends it, a match ends whatever the clients do.
* **API.** No request runs in a transaction. Signup and nickname changes check and then
  write; a solo record is read and then written; an account is deleted in five calls over
  two stores. *Must hold*: one account per identity and nickname, no records without
  their user, no new session for a deleted account, no image key without its object, a best
  score that falls only when two submissions overlap.
* **Refresh tokens** rotate by a comparison and a later write, and the answer that carries
  the new one may be lost. Two tokens signed in one second are the same string. *Must hold*: a
  replaced token stays dead, a logout is not undone, a well-behaved client stays logged in.
* **Leaderboard.** The list is two queries and the caller's rank up to four more, while users
  sign up, score and leave. The list numbers ties on, the rank lets them share (section 6). *Must hold*:
  nobody is listed twice or passed over, and the rank is the number of those ahead, up to those
  who moved meanwhile.
* **Rate limiter.** A fixed window from the first failure, replaced when it is over, dropped by
  a success or a restart. *Must hold*: a bound on the guesses in *any* window, and nobody
  refused for failures that no longer count.
* **Operational events.** Pages are cut by a cursor while events are inserted, and an id is drawn
  before its insert commits, or fails. *Must hold*: a walk through the pages shows each event once, in
  order, and leaves none out that was there.

## 2. Modules

| Module | Content |
|---|---|
| `GameRoom` | One room as a record, its timers, and what the gateway's helpers do to it (`startCountdown`, `prepareRound`, `resolveRound`, `finishGame`, `resetGameData`, ...) as operators from room to room. |
| `GameGateway` | The gateway and the store: state, one action per event handler, connection hook and timer callback, split at the awaits. |
| `GameGatewayProps` | Its properties, fairness, and what docs and comments claim. |
| `DuelMatch` | What the rooms promise two players, with no sockets, timers or messages: the abstract match `GameGateway` refines. |
| `ApiServer`, `ApiServerProps` | Accounts, solo records and diary over one database, one action per call; their properties. |
| `Accounts` | What the API promises of its accounts, each request atomic: the abstraction `ApiServer` refines. |
| `Leaderboard`, `LeaderboardProps` | `GET /leaderboard/global` query by query; extends `ApiServer`, whose requests run between the queries. |
| `Sessions` | The refresh token of one account: login, refresh, logout, lost answers; with its properties. |
| `OperationalEvents` | The event table: `record` and the pages of `findMany`. |
| `AdminServer`, `AdminServerProps` | Admin login and rate limiter over `OperationalEvents`; the properties of both. |
| `MC...` | Symmetry for TLC, one module per model. |
| `GameGatewayProofs` | Types: one lemma per operator on rooms, one per action of the gateway. |
| `MatchProofs` | What a step may do to one room; the invariant of a room; scoring, submissions, timers of phases, official matches. |
| `RegistrationProofs` | The two maps that lead an event to its room. |
| `DuelProofs` | Between two players the gateway implements `DuelMatch`. |
| `ApiServerProofs` | Accounts, records and images; `ApiServer` implements `Accounts`. |
| `LeaderboardProofs` | What a leaderboard answer is worth to users who have not moved. |
| `SessionsProofs`, `AdminServerProofs` | Refresh tokens; the rate limiter and the pages of events. |

Three models compose others: `GameGateway` is the store with all its rooms (`GameRoom`);
`Leaderboard` runs against the writes of `ApiServer`; `AdminServer` drives
`OperationalEvents`. Gateway and API share nothing but the users table, of
which the gateway reads a profile, and the event table, to which it appends.

A definition marked `\* mutated` is not part of the model: it is how the definition after
it would look with a plausible bug, and shows that the property meant to catch the bug does.

### From the gateway's code to its model

* A **user** is a member of `Users`; a **socket** `<<u, n>>` is the user's n-th connection,
  so `Owner` stands for `client.data.userId`. A room **code** is given out once: a
  collision of random codes is not modelled.
* `room[r].store` is `"free"` before the code exists, `"open"` while the store has the room
  and `"gone"` after `deleteRoom`. A room that is gone may still have timers and handlers
  that hold a reference, which is why it is kept until nothing refers to it (`Collected`).
* **Timers.** A handle (`countdown`, `prepare`, `round`, `post`, `ttl`, or a user for
  `disconnectTimer`) holds the timer the code could still clear. A timer whose handle is
  overwritten goes on pending and becomes *lost* (`lost`, counted per callback). `Arm`, `Forget`
  and `Cancel` are assignment, clearing of the variable by the callback, and
  `clearTimeout`. `Expired` is the room as a timer callback finds it, the timer being
  one of the handle or a lost one. Durations are not modelled: any pending
  timer may be the next to fire.
* **Countdown.** The chain of `setTimeout`s is `Tick(n)`; one intermediate tick instead of
  three is enough, the ticks differ in nothing but what they emit.
* **Lookups.** `RoomCreate` and `RoomJoin` are the handlers up to the `await`; `RoomCreated`,
  `RoomJoined` and `ProfileMissing` what follows, in any order and arbitrarily late.
  `hello` holds the sockets that still wait for `tryReconnect`.
* **Exceptions.** `resolveRound` reads two players. With one it throws; in the hard-close
  callback nothing catches that and the process ends (`ProcessCrash`), in `round:submit`
  the framework does, so that only the handler's work is lost.
* Left out: emitted messages, `round:db` (a relay that changes nothing), `prepareDeadlineAt`,
  `createdAt`, socket.io's own rooms, nicknames and avatars. Decibels are a small set of
  numbers with 0 for "none submitted".

### From the API's code to its model

* An action is one database or storage call and the code up to the next. `call[c]` is the
  request in progress: its operation, its next step and what it has read. `Abort` ends it
  between two calls: a failed call or the end of the process.
* `user[id]`, `solo[id]`, `diary[id]` and `objects` are the tables and the bucket. Unique
  indexes (`Unique`) and foreign keys (`Unreferenced`) decide at the write. The migrations make
  both foreign keys `ON DELETE RESTRICT`.
* `issued` says whose tokens a client may hold: an access token is checked by signature alone and
  outlives the account. Storing the refresh token (`WriteToken`) and answering with it (`AnswerTokens`)
  are two steps, and a deletion may come between them. The refresh column is "present or not": a request with
  another token than the column's is refused and changes nothing.
* Left out: avatar color, consent, statistics columns nobody writes, diary contents,
  `peakDb` (overwritten every time) and verification at the provider. Token values and expiry are in
  `Sessions`.

### From the remaining code to its models

* **`Leaderboard`.** `read` is the request in progress: `getTopEntries` (`listStep`) and
  `getMyEntry` (`myStep`) run under one `Promise.all`, so their queries interleave. The order
  of ties is the database's choice (`Ranked`). `BoardInit` starts from any tables earlier requests may have
  left. `moved` is a history of the users who were created, scored or deleted since the
  request began; those who are not in it are what an answer can be judged by. A login takes part where it gives
  a client its first token: any other login changes nothing the queries read.
  Prisma loads the user of each listed record in a second query; if it finds the user gone
  the request fails, which is `EndRead`.
* **`Sessions`.** A refresh token's payload is the user and `iat`, so a token *is* the second it was
  signed in. `Refresh` is `refresh` up to the comparison with the column, then come
  `GenerateTokens`, `UpdateRefreshToken` and `Answer`; `Lose` is a failed call or a lost answer.
  `dead`, `pending` and `inStep` are histories for the three properties.
* **`AdminServer`.** `login` runs without an `await` from `isBlocked` to `registerFailure` or
  `reset`, so that is one action each for a refusal, a wrong and a right code; then the login waits for its
  event. `isBlocked` drops an expired record, `registerFailure` would replace it anyway, so
  the record may stay in the model. `failures` is a history of each address's recent wrong codes.
* **`OperationalEvents`.** `BeginRecord` draws the id, `EndInsert` makes the row visible or loses it:
  `record` catches the error and the caller goes on either way. `walk` is an administrator
  who reads page after page; `due` is what the walk must have shown. One filter stands for all.

## 3. Runs

Runs that pass:

| Run | Instance | What it shows |
|---|---|---|
| `gateway_match` | 2 users with one socket each, 2 room codes, matches of 2 rounds, peaks 0 and 1 | `ScoresMatchRecords`, `RoundsScoredOnce`, `SubmissionStands`, `OfficialMatchDecided`, `UserIndexComplete`, `ImplementsDuelMatch`: scoring and results under leaves, disconnects, forfeits, mic errors, rematches and joins in flight; every step is one of the abstract match or none; nobody plays in a room the index does not name. |
| `gateway_registration` | 2 users, 3 sockets, 1 room code | `UserIndexSound`, `UserIndexComplete`, `SocketIndexExact`, `StatsConsistent`, `GraceOnlyWhileAway`: a third socket gives reconnects, replaced sockets whose disconnect comes late, and a `tryReconnect` that runs after a newer one. |
| `gateway_lost_timers` | 2 users, 1 room, 1 round, one lost timer at a time | `PhaseHasItsTimer`, `FinishedRoomHasTTL`, `RoomShape`: a countdown started twice leaves a timer behind that no handle names; the current phase has its timer all the same. |
| `gateway_liveness` | 2 users, 1 room, 2 rounds, no symmetry | `MatchEnds`, `FinishedRoomMovesOn`, under `LiveSpec`. |
| `api_accounts` | 2 requests at a time, 2 identities, 2 nicknames, 2 accounts, 1 image, 1 date | `OneAccountEach`, `DeletedAccountHasNoRecords`, `SessionsEndWithAccount`, `ImageLostOnlyByDeletion`, `BestFallsOnlyByOverlap`, `ImplementsAccounts`: every pair of requests interleaved, failing at any call. |
| `sessions` | 3 requests at a time, tokens of 3 seconds, a clock of 5 | `ReplacedTokenStaysDead`, `LogoutHolds`, `ClientStaysLoggedIn`: overlapping refreshes with one token, logouts in the middle of them, tokens signed in the same second, answers that are lost. |
| `leaderboard_board` | 3 users, 2 places on the board, scores 1 and 2, one writing request at a time, one user who moves | `ListedOnce`, `NobodyPassedOver`, `RankCountsThoseAhead`, `RankAgreesWithList`: a signup, submission or deletion between any two queries. |
| `admin` | 2 logins at a time, 1 address, 2 attempts per window, 4 events, a clock of 2 | `FailuresBounded`, `RefusedOnlyAfterFailures`, `PagesInOrder`, `WalkIsComplete`: windows that end and begin again, restarts, events that commit out of order or never while pages of one and two are read. |

Runs that find what a doc or a comment says violated are in section 6.

`gateway_match`, `api_accounts`, `sessions`, `leaderboard_board` and `admin` also check their
model's type invariant.

**Bounds.** Two users fill a room, and the third user, where one more matters, is in
`gateway_third_player`. One room code is enough where the properties are about one room; a
second is there for a user who is led from one room to another. Two rounds separate the first
round of a match from a later one. `MaxLookups = 1` is a user with one create or join in
flight; `UserIndexComplete` depends on it, and on `MaxLost = 0`, see section 6. `MaxLost` and `MaxRound` bound
the timers a client could pile up by repeating one trick and the rounds they start.
Two requests are what the API's races take; they
are races of one read with one write. `sessions` has three, for two refreshes past
their comparison and a login beside them. A board of two places and three users has
a full list, a list filled up from the second query, and someone left out; `MaxMoved = 1` keeps most of
them still, which is what the properties speak of. The admin clock of 2 with a window of 1
holds two records that follow each other and the three failures `FailuresBounded` allows; addresses do not touch each other's records, so one is enough; four
events give three pages. Every safety property of these runs, and both refinements, are also proved without
most of the bounds, as section 4 says.

**Refinement.** `Duel` in `GameGatewayProps` maps a room to its stage (`countdown` to
`round_end` are the match), the number of its records and its scores, `Abstract` in
`ApiServerProps` the `User` table to accounts and the number of rows ever made to the ids used.
`DuelMatch` is a promise to *two* players: it is checked with two users and with no lost timers,
because the divergences of section 6 are exactly what breaks it (a third player who drops in,
a countdown left behind that restarts a round). Its `Decide` may happen in the lobby too, for the grace timer
that outlives a match that was called off. That a match starts from zero, scores one round at a time and never more
than `TotalRounds`, can be called off only before its first scored round, and that a deleted code never comes
back, holds through all of that.

**Deadlock.** The gateway really stops when every socket of the instance is used up and
no timer pends, so the check is off there. The API's models never stop
and the check is on.

**Fairness** (`GameGatewayProps!Fairness`). Weak fairness of each timer callback of each room:
Node runs a timer that is due, and a pending timer stays pending until it fires or is
cleared. Weak fairness of `tryReconnect` and of the end of each profile lookup: the event
record never rejects and a database call settles. Nothing is assumed of clients:
they need never send an event, and may leave or vanish at any time. No strong fairness is used.

## 4. Proofs

| Theorem | Statement |
|---|---|
| `GameGatewayProofs!TypeCorrect` | `Spec => []TypeOK` of the gateway |
| `GameGatewayProofs!ResolveRoundType` | closing a round keeps a room well formed |
| `MatchProofs!RoundsAreScoredOnceEach` | `Spec => []RoundsScoredOnce` |
| `MatchProofs!ScoresCountRoundsWon` | `Spec => []ScoresMatchRecords` |
| `MatchProofs!RoomsKeepTheirShape` | `Spec => []RoomShape` |
| `MatchProofs!PhasesHaveTheirTimers` | `Spec => []PhaseHasItsTimer` |
| `MatchProofs!FinishedRoomsHaveTTL` | `Spec => []FinishedRoomHasTTL` |
| `MatchProofs!SubmissionsStand` | `Spec => SubmissionStands` |
| `MatchProofs!OfficialMatchesAreDecided` | `Spec => DecidedButForLateJoins` |
| `RegistrationProofs!UserIndexIsSound` | `Spec => []UserIndexSound` |
| `RegistrationProofs!UserIndexIsComplete` | `Spec /\ []OneLookupEach /\ []TimersDieWithRoom => []UserIndexComplete` |
| `RegistrationProofs!SocketIndexIsExact` | the same hypotheses `=> []SocketIndexExact` |
| `RegistrationProofs!GraceRunsOnlyWhileAway` | the same hypotheses `=> []GraceOnlyWhileAway` |
| `RegistrationProofs!StatsAreConsistent` | the same hypotheses, finitely many users, `=> []StatsConsistent` |
| `DuelProofs!DuelsImplemented` | two users: `Spec /\ []OneLookupEach /\ []TimersKeptTrack => ImplementsDuelMatch` |
| `DuelProofs!OfficialMatchesOfTwoAreDecided` | two users: `Spec /\ []OneLookupEach /\ []TimersDieWithRoom => OfficialMatchDecided` |
| `ApiServerProofs!ApiTypeCorrect` | `Spec => []TypeOK` of the API |
| `ApiServerProofs!AccountsStayApart` | `Spec => []OneAccountEach` |
| `ApiServerProofs!RecordsHaveTheirUser` | `Spec => []DeletedAccountHasNoRecords` |
| `ApiServerProofs!SessionsEnd` | `Spec => SessionsEndWithAccount` |
| `ApiServerProofs!BestIsKeptWithoutOverlap` | `Spec => BestFallsOnlyByOverlap` |
| `ApiServerProofs!ImagesAreStored` | `Spec => ImageLostOnlyByDeletion` |
| `ApiServerProofs!AccountsImplemented` | `Spec => ImplementsAccounts` |
| `SessionsProofs!SessionsTypeCorrect` | `Spec => []TypeOK` of the sessions |
| `SessionsProofs!ReplacedTokensStayDead` | `Spec => ReplacedTokenStaysDead` |
| `SessionsProofs!LogoutIsFinal` | `Spec => LogoutHolds` |
| `SessionsProofs!SingleFlightIsSafe` | `Spec => []ClientStaysLoggedIn` |
| `AdminServerProofs!AttemptsAreBounded` | `Spec => []FailuresBounded` |
| `AdminServerProofs!RefusalIsDeserved` | `Spec => RefusedOnlyAfterFailures` |
| `AdminServerProofs!PagesAreInOrder` | `Spec => []PagesInOrder` |
| `AdminServerProofs!WalksAreComplete` | `Spec => []WalkIsComplete` |
| `AdminServerProofs!AdminTypes` | `Spec => []TypeOK` of the administrator's side |
| `LeaderboardProofs!BoardTypes` | `BoardSpec => []BoardTypeOK` |
| `LeaderboardProofs!NobodyListedTwice` | `BoardSpec => ListedOnce` |
| `LeaderboardProofs!NobodyIsPassedOver` | `BoardSpec => NobodyPassedOver` |
| `LeaderboardProofs!RankIsOffByThoseMoved` | `BoardSpec => RankCountsThoseAhead` |
| `LeaderboardProofs!RankIsAPlaceInTheList` | `BoardSpec => RankAgreesWithList` |

They hold for every value of the constants: any number of users, sockets, room codes,
rounds, lookups, lost timers, requests, addresses, attempts, events and places on the board, under the named assumptions of
the modules (a few constants are numbers and the "none" values are not members of the sets
they extend), which TLC evaluates in every run.

* `TypeCorrect` is inductive as it stands: one lemma per operator on rooms, one per action.
* **The match** (`MatchProofs`). First every action is reduced to a relation between one room before
  and after it (`Change`: a player returned, was removed, left, submitted; a timer went off; ...), which
  forgets users' sockets, the maps and the other rooms (`StepChanges`). Then each relation
  keeps an invariant of that room, `Sound` and `Clocked`, and the properties follow from it. What
  the properties lack to be inductive:
  * `RoundsScoredOnce` does not say that the round in play has no record yet; `Scored` does. Only
    `prepareRound` enters such a phase, with the next number, and `resolveRound` leaves it in the step
    that adds the record.
  * `ScoresMatchRecords` counts wins in a sequence that grows or is cleared (`Counted`): a new record
    adds at most one win, of the user whose score grows.
  * `SubmissionStands` needs that a room in play is official, so that a player who leaves it forfeits
    and the room does not fall back to a lobby whose next round could begin with an old submission.
  * `PhaseHasItsTimer` needs `Clocked`: in preparation some player is not ready. Otherwise the timeout
    of `prepareRound` would find nobody to forfeit, and the phase would be left without a timer.
  * `RoomShape` needs that players appear once (`Seated`) and that a room is never left empty (`Peopled`).

  None of this assumes anything of lookups or lost timers: no third player, late join or timer
  left behind can break it, which the runs show for small numbers only. `HandlesAssumption` says that no
  user is named like a timer field; it is a condition on the encoding of handles, not on the code.
* **The maps** (`RegistrationProofs`). `UserIndexSound` is not inductive: a create opens a room, so an
  entry that named its code beforehand would point at a room without its user, and a join registers
  its user with the room it fetched before the await. `Indexed` adds that neither an entry nor a
  lookup names a code that was not given out, and holds for any number of lookups in flight.
  The other four properties are proved together (`Registered`): a lookup's user is in no open room,
  the sockets of the index are online, each player came on a socket of their own, a grace timer runs
  only against a player who is away, and a room that is not open has no timer in a field. They hold under
  two hypotheses on a behaviour, and fail without either (section 6): `OneLookupEach`, a user has at
  most one create or join in flight (`SingleLookups` proves it of `MaxLookups = 1`), and
  `TimersDieWithRoom`, no timer whose handle was overwritten is pending in a deleted room.
* **The duel** (`DuelProofs`). `Orderly` is the invariant of an open room: the countdown's timer pends only
  in `ready` and `countdown`, those of `resolveRound` only in the phase they have left behind, a lobby has
  no records, and a match that goes on has a round to play. A join that has cleared a room for its
  user keeps it `Expecting` (one player, no records, no timer of a round) until it returns; with two users and one
  lookup each there is no other join (`OneGuest`). Each relation of `Change` then is a `Move` of
  the match, and each `Move` an action of `DuelMatch` or a stutter (`MoveIsDuel`). A step changes
  one room, or every one in a crash (`StepRooms`). `TimersKeptTrack` says no handle of a pending timer is
  overwritten; a countdown left behind may start a round of a match that is over. TLC has also checked the
  invariant `DuelInv` on the instance of `gateway_match`.
* **The runs and the two hypotheses.** The code imposes neither. The instances of `gateway_match` and
  `gateway_registration`, with `MaxLookups = 1` and `MaxLost = 0`, satisfy both: lookups of one user differ in
  their numbers (`SingleLookups`), and a room is written only through `Put`, which counts the lost timers of
  what it writes (`RoomsAreWritten`, `NoTimerLost`). What these runs check of the maps is the case the
  hypotheses describe, and section 6 has the others.
* **Official matches.** Without hypotheses, only `RoomJoined` can take an official match back to `ready`
  (`DecidedButForLateJoins`). Between two users who are both in the room there is nobody to join late, so
  `OfficialMatchDecided` holds as the runs check it.
* The first API theorems follow from what the database checks at the write, each
  inductive together with `TypeOK`. The type invariant carries the arguments a request
  needs (`Argued`): what a call record holds when its write comes. `AccountsImplemented` also
  needs that ids are given out in order (`Numbered`), so that a new row takes an unused id, and that an
  absent account has no records, so that its signup starts with none.
* `SessionsEndWithAccount` and `BestFallsOnlyByOverlap` need `TypeOK` only. An answer may tell of an account
  that is gone: the update is refused without the row, but nothing is read after it. `ImageLostOnlyByDeletion`
  needs that the key an upload is about to write still has its object. Deletions of other requests run in
  between, so the invariant `ImageInv` adds that such a key is private: it is in no row, and no
  other upload or deletion holds it. And a stored key is its account's own: no other row has it, and no deletion
  of another account holds it (`ImagesOwned`).
* `Sessions`: a dead token is never the column's and on its way into it with nobody, so
  `Refresh` cannot accept it; a token signed now is of the current second, which is not dead.
  After a logout the column is empty until a request of `pending` or a later login writes. While a
  client is in step, the one request in progress holds what the column will be, or is.
* The limiter counts in records and the property in windows. `Explained` ties the two: of the
  failures still recent, those from the record's first one on are as many as it counts, and those before it
  belong to a record that was replaced, so they are fewer than `MaxAttempts` because their own first
  failure is out of the window. That gives `MaxAttempts - 1 + MaxAttempts`, and a refusal its `MaxAttempts`.
* **Pages of events.** A page starts at the cursor's row and skips one. `WalksInv` says that the cursor is a
  stored row of the walk's filter and the last one shown (`Walking`), so the next query finds it first
  and the skip drops exactly what was shown. No insert in progress is due, and rows
  never leave the table, so whatever is inserted meanwhile, the next page goes on with what is due below the
  cursor. An insert that commits late may fall on either side of the cursor.
* **The leaderboard.** `BoardInv` is about the users who have not moved since the request began: what a query
  found of them is what the tables still say. Its `ListInv` says of them that the list is in order
  and, once complete, leaves nobody out while there are places or for somebody behind. If the first query leaves places,
  its list has exactly those with a record, so the second query, which reads users without one by age, adds nobody twice. Its `RankInv` says that
  each count is the size of a set that agrees with the tables on the users who have not moved. Cardinalities come in
  only at the end.
* **Sorting.** That rows can be sorted at all is an induction over a finite set, which the library's induction
  theorems, with an operator as parameter, cannot be used for here. `LeastNatural` in `AdminServerProofs` gets
  the least element of a set of numbers from well-foundedness of `<`; `SortedRows` takes the least cardinality of a set of
  ids that cannot be sorted and finds a smaller one.

Only model-checked:

* Liveness (`MatchEnds`, `FinishedRoomMovesOn`): fairness and `ENABLED` are outside the prover's reach.
* What section 6 says is violated: those are counterexamples of TLC's, not theorems.

## 5. What is not modelled

* Token verification at the providers, request validation (apart from what decides a
  step), presigned URLs, image contents, logging, the exception filter and the deployment scripts:
  I/O, formatting or wiring with no state that another part reads.
* The admin token and its guard: a signature check without state. `AdminHealthService` keeps
  no state either; its two game figures are operators of `GameGateway` that `StatsConsistent` checks.
* A diary entry's contents, and the monthly query, which compares local midnights with UTC
  dates: calendar arithmetic that depends on the host's time zone.
* `sanitize-metadata` and what an event says beside its name: data.
* Rooms live in memory only, so there is no recovery to model: after a restart none is left.

## 6. Where the code and its documentation differ

Each is a run that TLC finds violated:

| Run | Said | Done |
|---|---|---|
| `gateway_official_kept` | `officialRoundStarted`: first round of this match started (`game.types.ts:62`) | Leaving a finished match returns the room to `waiting` with the flag set; in the next match the first mic failure is a forfeit. |
| `gateway_late_forfeit` | states where a forfeit does not apply (`game.gateway.ts:24`) | A grace timer survives `resetGameData` and forfeits a room in `ready`. |
| `gateway_third_player` | joining a full room is an error (`game.gateway.spec.ts:306`) | Two joins pass the check before either lookup returns. |
| `gateway_lone_match` | in `ready` two players have joined (`game.types.ts:3`) | A join in flight moves the room to `ready`; the player there starts a match alone, and closing its round throws. |

Met on the way and not made into runs:

* Two creates (or joins) of one user in flight put it in two rooms, one of which
  no event of theirs reaches any more (`game.gateway.ts:267`); `UserIndexComplete` with `MaxLookups = 2`.
* A create that returns after its socket disconnected opens a room nothing ever deletes (294).
* The guest does not become host when the host is removed by a reconnect (179) or leaves
  an official match (782).
* `startCountdown` overwrites a running chain's handle (897), so a timer may outlive `cleanupRoom`. The comment
  at 1296 says that such timers are harmless in production and are cut off. The left-over tick goes on
  in the deleted room to `prepareRound`, whose timeout cleans the room up a second time and
  unregisters its players by their user id; one of them may be in another room by then, which no
  event of theirs reaches any more. TLC finds `UserIndexComplete` violated that way with `MaxLost = 1` and two rooms.
* A TTL started in `ready` runs on into the match and may delete its room (`game.gateway.ts:140`), where
  `game.types.ts:48` has it for idle rooms.
* Of two overlapping submissions the later write may lower `bestDb` (`solo-record.repository.ts:13`), which
  `docs/api.md:327` says accumulates the maximum; `BestFallsOnlyByOverlap` is what holds.
* `docs/api.md:305` says records go by cascade with the user. They go by three calls without cascade or
  transaction (`user.service.ts:118`), so a failure between them leaves an account without its records.
* Two refreshes with one token may both pass the comparison, where `docs/api.md:161` has the second
  refused; `ReplacedTokenStaysDead` is what holds. A client that loses the answer to a refresh is
  locked out until it logs in again.
* `docs/api.md:535` says that ranks are row numbers, without ties: equal `bestDb`, different rank. The places of
  the list are; the caller's own rank is one more than the number of strictly better scores
  (`leaderboard.repository.ts:102`), so tied callers are told the same rank, and all but the first of them see
  themselves further down the list. `RankAgreesWithList` is what holds.
* `docs/api.md:573` says five failures within five minutes are refused. Within some five minutes
  nine are looked at: the window is fixed. `FailuresBounded` is the exact bound.
* `docs/api.md` clamps `limit` to 200; the DTO rejects more with 400, so `ClampLimit`'s upper end
  is not reached over HTTP.
* A signup that loses the race for its identity is answered as a nickname conflict: both unique
  indexes raise the same error code (`user.repository.ts:61`).
* Replacing a profile image leaves the old object in the bucket.

## 7. What could follow

1. The diary's monthly query, with a time zone as a constant.
2. The token of the administrator's login and the guard that checks it.
