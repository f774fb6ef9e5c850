# A TLA+ verification of the movie backend

The program (`src/src`) is one Node process: a NestJS 11 server over HTTP and WebSocket, PostgreSQL
through TypeORM (READ COMMITTED), a cache in memory, video files under `public/` (development) or in
S3 (production), and a Redis queue whose worker runs in a process of its own.  Requests interleave at
every `await`.  The models are written from the code, one action per step that another request can
come between: a statement of the database, a file operation, a timer.  Between two such steps only
microtasks run, and a JWT is verified and the memory cache read in microtasks; that is why those are
not steps.

Contents: 1 the system, 2 the modules and the code, 3 the runs, 4 bounds, 5 fairness, 6 proofs,
7 where the code does not do what it says, 8 what is not modelled, 9 the plan.

## 1. The system

| Component | State | Operations | What is hard, and what makes it correct |
|---|---|---|---|
| Likes: `movie.service.ts` `toggleMovieLike` | `movie_user_like` | press of Like or Dislike | Seven queries, each on its own connection: a press acts on what another has changed, and may fail after it has written.  No like without its movie and user; a press that nobody overlaps is one toggle; one answered with an error took effect once or not at all; only the presser moves his light, or a request whose token names no user. |
| Catalogue: `movie.service.ts` `create`, `update`, `remove`; `TransactionInterceptor` | `movie`, `movie_detail`, genre links, the file of a movie | create, patch, remove | Open transactions with row locks and uncommitted unique titles, a file moved inside a transaction (renamed on the disk, copied and deleted in S3), a removal in two transactions, a patch in four statements with a read after its COMMIT, a COMMIT nobody awaits.  Rows are whole, a removed movie stays removed, a file lies where its row says, an answer is not taken back, there is no circle of waits but one around a genre that is being removed. |
| Movie list: `findAll`, `CommonService` cursor | none on the server, a cursor on the client | a page | Four statements per page, rows that come and go between them, one comparison operator for all columns, a cursor in JSON.  No movie is missed or listed twice. |
| Recent movies: `findRecent`, cache interceptor | two cache entries | `GET /movie/recent` | Concurrent misses.  The two entries agree. |
| Videos: `common.controller.ts`, worker, `renameMovieFile`, `saveMovieToPermanentStorage` | `public/temp`, `public/movie`, the queue | upload, thumbnail job, move | The worker and POST /movie race for one file; S3 has no rename, and an upload may be repeated.  No file is lost, a created movie has its file, two movies share one only after copies that overlapped. |
| Chat: `chat.gateway.ts`, `chat.service.ts`, `WsTransactionInterceptor` | `connectedClients`, the rooms of sockets, `chat_room`, `chat` | connect, disconnect, `sendMessage` | Several sockets of a user, rooms announced before they are committed.  The registry holds live sockets, a live socket is in it unless another of its user came or went, nobody hears another's room. |
| Pool: the two transaction interceptors, `createMessage` | the pool's connections and its queue | borrow, return | A message needs a second connection while it holds the first; connections lost to a failed BEGIN or ROLLBACK.  Nothing but that second connection may make it stop for good. |
| Throttle: `throttle.interceptor.ts` | a counter per user, route and minute | a request | Read on arrival, written on success, or when the answer becomes an error for being late.  How far the limit is overrun; nobody is refused too early. |
| Response time: `response-time.interceptor.ts` | none | the answer of a request | Throws at 3 s, when everything inside has succeeded, was counted and is about to commit. |
| Views: `main.ts` session, `getMovie` | `movieCount` of a session | `GET /movie/:id` | Read when a request comes in, written back when it is answered.  A view is lost only to an overlapping request. |
| Tokens: `auth.service.ts`, `bearer-token.middleware.ts`, guards | the cache entries `TOKEN_` and `BLOCK_TOKEN_` | login, rotation, block, request | Two entries of one token with TTLs rounded up at the boundary.  A blocked token stays out, none outlives its expiry; rotated tokens have lost their user, and what they may do must still go back to his login. |
| Users, genres, directors: the three services | a table each | create, update, remove | Find first, write later.  Names stay unique, each call takes effect at one instant. |

They interact through the database (a like refers to movies and users, a movie to genres and
directors), the disk (an upload is moved by POST /movie while its thumbnail is taken), the pool (all
of them borrow) and the token (guards run before every HTTP handler; the gateway verifies its own).
`PROJECT.json` lists under "hazards" each place where this can go wrong, with the properties that say
how it must not.

## 2. The modules and the code

A module's state is named after the code's, or after the table.  Actions bear the name of the
statement or method they stand for; `PROJECT.json` "map" gives the lines of each.  A definition
marked `mutant:` is a plausible bug in the definition that follows it; no specification uses it.

* **`LikeButton`** is the abstract specification of the buttons, from the comment over the routes of
  `movie.controller.ts`: a press that meets no other of its pair toggles its light in one step and is
  answered with the light it left, or is refused and changes nothing, or is answered with an error, which
  tells nothing: it took effect once or not at all (`Break`).  Presses that meet on a pair are promised less:
  each writes at most once, its own button or none.  A press of a token without a user (`NoUser`, what
  rotation issues) lands on any user's pair, where it may light its button and never puts one out,
  and is answered "none".
* **`MovieLike`** is `toggleMovieLike`, query by query.  `req[r]` holds the handler's local variables
  (the row it read is `seen`), and `alone`, a history variable: no other request overlapped it on its
  pair.  `FindAnyUser` is `findOne` with a condition that is undefined: it finds any row.
  `QueryFails` rejects whichever query is awaited, the read-back after the write included, or is the late 500 of
  `ResponseTimeInterceptor`: what was written stays.  `ButtonsSpec` says that `MovieLike` implements `LikeButton`.
* **`MovieCatalog`** is `create` under `TransactionInterceptor`, `update` in its own transaction, and
  `remove`, with the removal of genres and directors by their services.  What an open transaction
  has written stays in the record of its request until it commits, and its locks are guards of the
  statements that would wait for them; `Waits(r)` gathers those guards.  `UpdateMovie`, `UpdateDetail`, and `Unlink`
  and `Link` (the DELETE and the INSERT of `addAndRemove`) are the statements of a patch, and
  `ReadUpdated` is its read after COMMIT.  Between `Unlink` and `Link` a DELETE of a genre the patch has unlinked
  locks the genre and waits for the link: `doomed` are the genres so locked (`AwaitLinks`), until they are
  removed or spared (`RemoveGenre`, `SpareGenre`).  `prod`, which never changes, says where the files are: a creation
  renames its file on the disk, or has it copied in S3 and then deletes the source (`MoveFile`,
  `DeleteTemp`).  The answer `late` is that of `ResponseTimeInterceptor`.  Any statement may fail; the
  process may die, for one because a COMMIT that nobody awaits rejects.
* **`AtomicCatalog`** is the abstract specification of the catalogue, on the same tables and without
  transactions, locks or program counters: a creation or a patch takes effect in one step, in which the
  unique title and the references hold for what it writes, or is refused, for a reason that holds in that
  step, or fails; a removal takes the movie and then its detail (the fate "half").  A failure may follow an effect: a
  creation answered late, a patch that was made (the fate "acted") and not read back.  A refusal never does.  On the
  disk no two movies get one file; in the bucket (`prod`) they may.  It promises no
  more than the code keeps: a patch may find its movie gone and is answered 200 (`Miss`), the genres it
  unlinks are those the movie had some time before, and a creation that was answered may be lost with
  the process (`Crash`).  `ActsAtOnce` is the refinement: `Fate` and `Asked` map a request to what has
  become of it and what it asks for, `used` to the ids that no creation under way may still take.
* **`ConnectionPool`** has the three ways in which handlers borrow: a query, a transaction, a chat
  message (a transaction and, in it, a second connection for the author), and any number of each may be
  under way.  The pool itself is that of `pg`: FIFO, no limit on the wait.
* **`Throttle`** is the interceptor on one route.  `key` is the counter a request was checked against.
* **`RequestPipeline`** extends it to the public routes of movies with what runs around their handlers:
  the session is read (`session[r]` is the copy of request `r`), the throttle judges, `getMovie`
  counts, and one of three answers comes: in time, late (`AnswerLate`: `Succeed` of the throttle, yet
  a 500 for the client), or an error.  `given` and `late` are histories of the answers.  The session
  store (`InUse`, `Close`) is external.
* **`MovieFeed`** is a client that follows `nextCursor` through `GET /movie`, in an order `order` drawn from
  `Orders`.  A page is four statements: `CursorIds` and `CursorRows` are the query inside
  `applyCursorPaginationParamsToQb` (TypeORM selects the ids of the page first, then their rows),
  `DataIds` and `DataRows` that of `findAll`; `Past` is the WHERE clause the cursor becomes.  `Written` is what
  JSON leaves of a value: `createdAt` without its microseconds.  Rows equal in every order column come
  in any order.  `torn` is a history: rows changed between the statements of one page.
* **`RecentMovies`** is `findRecent` behind the interceptor.  A list is its version number.
* **`VideoFiles`** is a file from upload to movie.  `prod`, which never changes, chooses between rename and S3's copy and
  delete.  The queue and ffmpeg are external.
* **`ChatRooms`** is the gateway and its service.  `stage[s]` is how far `handleConnection` came,
  `owner[s]` the `sub` of the token the socket presented
  (`NoUser` when it was rotated; any user is then the author of its messages);
  `client` is `connectedClients`, `joined` the Socket.IO rooms.  The room an administrator names is drawn where
  the code looks it up.  `unseen` is a history variable: the
  rooms that were written and not committed when the socket asked for its rooms.
* **`BearerToken`** is the life of tokens.  A request carries an issued token or none, and is judged in
  one step.  The clock counts milliseconds; `Second` is kept apart because `exp` is rounded down to it.
  Signing is deterministic and `iat` counts seconds, so that equal payloads are one token (`Signs`): two logins of
  a user in one second get the same, and a payload that rotation has stripped of its user is the same
  for all users of a role.  `origin` is a history variable: the users whose logins a token goes back to.
* **`TokenRegistry`** is the abstract specification of the tokens: a registry knows each token's kind, expiry
  and holders and whether it is revoked, and is asked at each request.  It has no caches with deadlines,
  no payload, no role that is carried from token to token.  It leaves open what the code leaves to rounding:
  the answer in the very millisecond of an expiry, and the part of a second a lifetime is shorter.  It also leaves
  open (`LeftOpen`) what `login/passport` asks for, on which `src/README.md` and the guard disagree, and whether a
  refresh token is good on `token/access`; what the code does there is in `BearerToken` (`Passes`) and in section 7.
  `AnswersAsRegistry` is the refinement.
* **`UniqueTable`** is what the users, genres and directors promise: each call takes effect, or is
  refused for a reason that holds, at one instant.  **`NamedRows`** is the three services (`kind`, which
  never changes, says which), statement by statement, with `TakesEffectAtOnce` its refinement of `UniqueTable`.

`MC...` modules give constants their values; a cfg chooses sizes and properties.

## 3. The runs

| Run (cfg) | Question | Result |
|---|---|---|
| `like` (`MovieLike.cfg`) | Presses of a user, and of a token without one, that overlap in any way, with the movie and the user removed and any query failing meanwhile. | The queries implement `LikeButton`, errors after the write included; no dangling like; every press ends. |
| `catalog` (`Catalog.cfg`) | Creates, patches and removals that compete for titles, files (on the disk or in S3), locks, the genre and the director, which are removed meanwhile, with failing statements (before COMMIT and after), late answers and crashes. | Every detail has its movie (or was cut off in a removal), every row its file (on the disk its own), genres and director; titles are unique; removed movies stay removed; a patch sets the genres it names; what POST /movie answered holds once its COMMIT is through (`AnswerIsKept`), unless the process died; the only circle of waits is that of a patch between `Unlink` and `Link` and the removal of a genre (`SomebodyMoves`); all of it implements `AtomicCatalog` (`ActsAtOnce`). |
| `pool` (`Pool.cfg`) | Queries, transactions and any number of chat messages, over a pool that may lose connections. | The pool stops for good only when messages that wait for their author hold every connection not lost; every handler ends, but for that circle. |
| `throttle` (`Pipeline.cfg`) | Concurrent, failing, late and anonymous requests in one session over two minutes. | The limit is overrun by less than the requests in flight; a user is refused only after `Limit` pages of his minute were handled; a view is lost only to an overlapping request. |
| `feed` (`Feed.cfg`) | Walks in six orders, ascending, descending and mixed, by id, `likeCount` and `createdAt`, while movies come and go. | Nothing is missed or repeated where the order allows it (section 7); each cursor lies strictly past the one before, except ascending by `createdAt`, where it only never goes back to an earlier millisecond. |
| `recent` (`Recent.cfg`) | Concurrent misses of both caches. | In whatever order the queries come back, the two caches agree. |
| `video` (`Video.cfg`) | Uploads, repeated ones too, thumbnails and competing moves, on disk and in S3. | No file is lost; a created movie has its file; two share one only in S3, after overlapping copies or a repeated upload; jobs end. |
| `chat` (`Chat.cfg`) | Sockets of three people, and of tokens without a user, in every order, two tabs of one among them; rooms created, failures, crashes. | The registry holds live sockets; a live one falls out of it only by another of its user; a registered socket misses only rooms of the gap; nobody is in or hears another's room. |
| `token` (`Token.cfg`) | Issue, use, cache, rotation, block, expiry, restart, at every millisecond. | Blocked tokens stay out; none outlives its expiry; whoever is served as an administrator descends from an administrator's login; each request is answered as `TokenRegistry` would (`AnswersAsRegistry`), which leaves two routes open. |
| `rows` (`Rows.cfg`) | Three concurrent calls of each of the three services. | Names stay unique; what is referred to stays; each call takes effect at one instant. |
| `like_double_press` (`MovieLikeDoublePress.cfg`) | The comment over the like routes, of any two presses. | Violated (section 7). |
| `feed_title` (`FeedTitle.cfg`) | Do all pages of a filtered list match the filter? | Violated (section 7). |

Every property of the passing runs has a mutant (`PROJECT.json` "mutants") that breaks it.  Where the type
invariant is a theorem (section 6) no run repeats it.

`CHECK_DEADLOCK FALSE` stands where a model ends for good: the sockets, calls, uploads, tokens or
ticks of its bound are used up, and the server waits for work that does not come; in `pool`, where every
connection is lost or held by a message that waits for another.

## 4. Bounds

* Requests: two or three in flight.  The hazards are races of two actors; the third is somebody who
  removes what they use, or overtakes both.  `ConnectionPool` and `Throttle`, where the number itself
  matters, have theorems for every number.
* `MaxId`, `MaxRoom` (ids a sequence hands out): two movies, two rooms, three rows.  In `rows` and
  `chat` every create that can happen gets its id; in `catalog` a request may be used again, and the
  bound only ends the run.
* `catalog` starts empty: two requests, each used again when it has ended, so that a row is created,
  patched and removed in all orders.  The bodies (`Posts2`, `Patches3`) compete for a title, the
  file, the genre and the director, and patches name the fields `update` branches on.  Within these bounds
  are reached: the wait of a patch for a genre that is being removed, and of that removal for the patch;
  two movies in S3 that share the file; a removal's DELETE of the detail that waits for a patch; a patch that
  misses its movie.  Not reached are two movies on the disk at once (there is one file, and only the
  first gets it) and an `UpdateDetail` that waits (it takes three requests).  For those the
  project rests on the theorems, which have no bounds.
* Movies of a walk: five, with equal counts and with two creation times in one millisecond (`Millisecond` is 3
  microseconds); `Take` 2.  A page boundary can fall between equal counts or within a millisecond, and
  pages can be emptied behind and before the cursor.
* `throttle`: a user beside anonymous requests, three requests, a limit of 2, two minutes: one request
  more than the limit can arrive together, and one can end in the next minute.  One session, one
  movie, two views of it: the hazard is two requests of one session; more sessions and movies do not
  meet, and the proof has any number of them.
* `like`: one movie, one user and two requests, each used again: a press meets another, or one without a
  user that lands on its pair, or a removal, and either fails at any query.  The refinement is proved for any number of
  movies, users and requests.
* `pool`: two connections and four requests of any kind: two messages can hold both connections and wait for their
  author while two others queue, and one or both connections can be lost.
* `chat`: three sockets, each of any of three users or of a token without one: two tabs of one user with a third person, the
  administrator with either guest, and two messages that may both create a room.
* Tokens: three, of an administrator and another user (a login takes two and leaves one to rotate; the proof
  has chains of any length); a `Second` of 2 ms, lifetimes of 1 and 2 of
  them, a margin of 1 ms, a clock to 4: an access token and its cache entries expire within the run, at and off the
  boundary, and a second rotation within the second gives the same token.  A rotated token that two users of a
  role share takes five tokens; that rests on the theorems, which need no bounds.
* Clocks (`MaxTime`, `MaxMinute`), `MaxVersion`, `MaxCrashes`: named bounds in guards.
* Symmetry is used for interchangeable requests, sockets, users and tokens, never in a run with
  liveness.

## 5. Fairness

`MovieLike`, `ConnectionPool` and `VideoFiles` have liveness properties, and weak fairness of the steps of each
request or job: the database answers a query it was sent and the worker process runs, which nothing takes away
again.  There is none for clients, who need not press, connect or retry, and none for failures, crashes or the
clock: no press ends because it must fail.  The pool has weak fairness of handing out an idle connection, which
it does in the same tick.

`MovieCatalog` states no fairness.  Whether a request that waits for a row lock gets it depends on the
order in which PostgreSQL wakes those that wait.  What does not depend on it is `SomebodyMoves`: of the requests in
flight and the removals of genres one does not wait, except in the one circle there is.  In it a patch stands between the
two statements of `addAndRemove` with a genre to link that a DELETE has locked, which waits for the link the patch has
deleted.  PostgreSQL ends it: with an error for the one (`Fail`) or the other (`SpareGenre`).

## 6. Proofs

Every theorem is checked by TLAPS for all values of the constants that satisfy the module's `ASSUME`:
sets are finite where something is counted, limits are naturals, the null values are none of the
real ones.

* `AtomicityProofs` is about the two services that write in several statements without a transaction,
  and the atomic objects they implement.
  * `MovieLike`.  Inductive invariant: types, `NoDanglingLike` and `AloneInductive`, which ties the
    row a lone press has read to what is in the table now, and keeps requests without a user from being
    alone or having seen a row (`StraysApart`, from `NoUserIsNobody`).  From it `AloneIsAtomic`,
    `OnlyThePresserMovesTheLight`, and the refinement `ButtonsSpec`: initial states map to initial
    states, the writing query of a press to `Take` or `Clash`, as it was alone or not, a failing one to `Break`,
    before the write or after it, and the others to `Press`, `Land`, `Answer`, `Refuse` or a stutter.
  * `NamedRows`.  `RowsInductive`: a row has an id that the sequence has handed out, and a call under
    way has either still to write or has written and only its answer to read.  With it the writing
    statement of a call is the instant at which it takes effect in `UniqueTable`, the look before it
    and the read after it are stutters, and a refusal has a reason in the state in which the
    statement finds it (`TakesEffectAtOnce`).  `UniqueNames` is kept by the statements that write a
    name, `ReferencesHold` by the one that removes.
* `ConnectionPoolProofs`.  `PoolInductive` says who holds how many connections at each place of his
  handler.  With `HoldsItsShare` and a count of connections, `NeverAllWaiting` follows for any number of messages and
  of connections: if messages waiting for their author (`Authors`) and lost connections are together fewer than
  all, one is left that is idle or in the hands of a request at work.  That they are fewer is said in the property, of the
  state it speaks of; the code does not see to it (section 7).
* `MovieCatalogProofs`.  `CatalogInductive`: an id is drawn once, and a request that has found a movie
  found a committed one (`IdsDrawn`, `TargetsSettled`); each request is where its kind of handler can be, so
  that no transaction in flight was answered before its COMMIT (`RequestsInPlace`); the titles,
  directors, genres and files that open transactions have written or moved are held until they end
  (`TitlesHeld`, `ReferencesHeld`, `FilesHeld`), which are the guards that the database's locks and
  constraints put on the others.  The six invariants of the tables and answers follow for
  what a COMMIT makes visible, and `PatchSetsGenres` for the step of a patch.  Requests are finitely many: type
  correctness has to count the creations that have not drawn an id yet against `MaxId` (`IdsSuffice`).
  `SomebodyMoves` follows from the order of the statements: whoever waits for a row or a title waits for a transaction
  that has written its movie.  Such a one waits for nothing but a genre that is being removed, and whoever removes it
  waits only for a patch past its `Unlink`.  `FilesHeld` keeps a file to one movie on the disk only; in S3 it
  says that the file is there.
  The refinement of `AtomicCatalog` (`ActsAtOnce`) takes the COMMIT of a transaction as the instant it acts:
  that the checks made awaits ago hold there still is `TitlesHeld` and `ReferencesHeld`, that on the disk the file
  is the movie's alone `FilesHeld`, that the id is fresh `IdsDrawn`, that a patch without a row has no movie
  `TargetsSettled`.  All statements before it are stutters or refusals, whose reason is the table they read; of those after
  it, the read of a patch maps to `Answer` or, late, to `Fail`.  Rollbacks, crashes and lost connections map to `Fail` and
  `Crash`, the removal of a genre to its own step, whoever waited for whom.
* `InterceptorProofs` is about what interceptors keep between requests.
  * `Throttle`, `RequestPipeline`.  The bound of the throttle is inductive once it counts requests in
    flight.  Every step of the pipeline is a step of the throttle or leaves it alone, so that its theorem
    carries over (`PipelineOverrun`).  `CountIsAnswered` (the counter is the number of pages answered, in
    time or late) gives `RefusedAfterLimit`, `CopiesCounted` gives `ViewsLostByOverlapOnly`.
  * `RecentMovies`.  `CachesAgree` speaks of a page entry that has not expired.
    `EntriesAgree` says it of every entry, and so needs nothing of the clock: the page is never stored but
    with the list, or from it.
* `MovieFeedProofs`.  `WalkInductive`: the cursor divides the listed movies from the others, and the next one
  is that of a page of the same table.  Which orders it holds for is in the properties themselves
  (`OneDirection`, `ById`, no truncated column in the direction that would suffer).  The key lemmas are
  that `Less` is transitive, and total on rows with different ids.  `WalkMoves` needs less,
  `NextIsSelected`: its cursor comes from a row that the WHERE clause let through, whatever the
  directions and although the page may be torn.  Ascending by `createdAt` the clause compares with a value that was cut
  to its millisecond, so that it lets through the row the cursor came from: what follows there is `NotBehind`.
* `BearerTokenProofs`.  `EntriesMatch`: a cached payload ends with its token at the latest, a block at the
  earliest.  `BlockedStaysOut` and `NoneOutlivesExpiry` follow at each moment of the clock.  `RolesDescend` (the
  role in a token is that of all the users its chains began with) gives `AdminsOnly`.  Together they give the
  refinement `AnswersAsRegistry`: since no token has a block entry without a request for it, and each such entry
  outlasts the token, the block list is the registry's (`BlockedIff`); since an entry `TOKEN_` ends with its
  token, the cache admits what verification would, but for the last millisecond (`AdmittedIfGood`); since the
  role of a payload is its holders', the guards judge as the registry does, on the routes it does not leave open
  (`PassesIfEntitled`).  An `exp` that is rounded down to the second is within the window the registry allows
  (`DivWindow`).
* `VideoFilesProofs`.  `MovesInductive` says where the file of a move is once it was renamed or copied: in
  `public/movie`, and out of `public/temp` unless its copy in S3 is still to be deleted, overlapped another, or
  met a repeated upload.  With it
  no step takes away the last copy of a file (`NothingLost`), a movie's file is in place and
  `SharedOnlyByOverlap` holds.
* `ChatRoomsProofs`.  `KnownAreDrawn` (a room anybody refers to has an id that was drawn) makes the
  insertion of a room harmless to every other, `NewIsBlank` the arrival of a socket; with
  `RegistryLive` the sockets that are told of a new room are those of its members.
  `FallsOutOnlyByAnother` is inductive with `RegistryLive`.  `RoomsReach` gives `OnlyTheGapIsMissed`: a room that is
  committed or written has reached each registered socket that has asked for its rooms, from its
  query, through the gap, or by the request that wrote the room; COMMIT then adds nothing.

The inductive parts (`AloneInductive`, `AloneIsAtomic`, `RowsInductive`, `PoolInductive`, `HoldsItsShare`,
`WalkInductive`, `NextIsSelected`, `CatalogInductive`, `ChatInductive`, `EntriesMatch`, `RolesDescend`, `CopiesCounted`,
`CountIsAnswered`, `EntriesAgree`, `MovesInductive`, `RoomsReach`), and `OnlyThePresserMovesTheLight`, a
consequence of the refinement, are proved for all constants and no run repeats them.

Only model-checked: the liveness properties `EveryPressEnds`, `EveryRequestEnds` and `JobsEnd` (TLAPS does not reach
fairness).  Every other property of a passing run is a theorem.

## 7. Where the code does not do what it says

Two runs check a sentence of the repository that the code does not keep:

* `like_double_press`.  The comment over the like routes says that Like pressed again goes out.  Of two
  presses in flight together both find no row: the light stays on, or one of them is refused.
* `feed_title`.  The README promises sorting, filtering and cursor together.  From the second page on
  the cursor's WHERE replaces that of the title, and the list shows movies of any title.

The models follow the code in these further departures; a property is restricted where one would
break it, and says so:

* Of two overlapping PATCHes with genres, the later leaves the genres of both: it removes
  those it read at its start (`movie.service.ts:351`; the condition on `old` in `PatchSetsGenres`).
* `createMessage` borrows a second connection while its transaction holds the first
  (`chat.service.ts:52`).  As many messages at once as the pool has connections wait for ever, and nothing
  bounds their number (`ws-transaction.interceptor.ts:14`): `NeverAllWaiting` speaks of fewer, `EveryRequestEnds` excepts
  that circle (`Stuck`).
* A walk in orders of mixed directions, or without the id, may miss movies: all columns are compared with
  one operator (`common.service.ts:106`; `OneDirection`, `ById`).  A cursor over `createdAt` has lost
  the microseconds (`common.service.ts:163`): descending it skips the rest of its millisecond, ascending it lists its
  own row again, and a walk may turn in one millisecond for ever (`Exact`; the exception of `CursorMoves`).
* A request of more than 3 s is answered 500 and has taken effect all the same
  (`response-time.interceptor.ts:27`; the answer "late" in `AnswerIsKept` and `RefusedAfterLimit`, the fate "failed" in
  `ActsAtOnce`, the phase "failed" in `ButtonsSpec`).
* A like is read back after it was written, a patch after its COMMIT (`movie.service.ts:541`, `movie.service.ts:443`): if the
  read fails the client gets an error for what has taken effect.  The two abstract specifications allow it.
* A COMMIT of POST /movie that rejects does so after the answer, and ends the process
  (`transaction.interceptor.ts:36`; `gone` in `AnswerIsKept`).
* In S3 two movies may come to share a file (`common.service.ts:45`; `twice` in `SharedOnlyByOverlap`, `prod` in
  `FilesInPlace` and in `Create` of `AtomicCatalog`).
* Of two overlapping requests of a session the later answer overwrites the views the other counted
  (`movie.controller.ts:94`; `overlapped` in `ViewsLostByOverlapOnly`).
* Requests that arrive together all pass the throttle (`throttle.interceptor.ts:50`; the number of
  requests in `OverrunBounded`).
* A socket that connects while a room of its user is uncommitted is not joined to it
  (`chat.service.ts:116`; `unseen` in `OnlyTheGapIsMissed`).  A user's old tab, when it closes, removes
  the entry of the new one (`chat.gateway.ts:29`; "registered" in the same property, `FallsOutOnlyByAnother`).
* `token/access` issues a token without a user, because the payload has `sub` where `id` is read
  (`auth.controller.ts:47`; `AdminsOnly` speaks of `origin`).  With such a token a like is saved on the row of
  any user (`movie.service.ts:504`; `FindAnyUser`), a chat message is stored under the name of any user
  (`chat.service.ts:52`; `FindAuthor`), and the throttle does not count a request (`throttle.interceptor.ts:32`;
  the anonymous requests of `Throttle`).  Tokens that two users of one role rotate to in one second are the same
  token, and to block one is to block both (`auth.service.ts:151`; `Signs`).
* `login/passport` wants an access token (`auth.guard.ts:21`; `Passes`), while `src/README.md:81` lists it as Public,
  and a refresh token is of no use anywhere, `token/access` included, while `src/README.md:126` speaks of authentication by
  access and refresh token.  `TokenRegistry` takes neither side (`LeftOpen`), so that `AnswersAsRegistry` says of
  the two only that a token which is revoked or expired is of no use there.
* The chat gateway verifies a token by itself: a blocked one opens a socket (`auth.service.ts:80`;
  `ConnectChat`, which `BlockedStaysOut` does not speak of; `EnterChat` of `TokenRegistry`).
* Two removals of one row are both told it was deleted (`user.service.ts:106`; the fate "void").
* `MOVIE_RECENT` has no TTL and nothing removes it (`movie.service.ts:64`): once stored the list does not change
  until the process ends, `@CacheTTL(1000)` notwithstanding.  `CachesAgree` says only that both caches are stale
  together.
* `getOrCreateChatRoom` looks for the room of a user and creates one if there is none (`chat.service.ts:96`): two messages at
  once create two.  Nothing says that a user has one room; the chat properties hold of both.
* `process()` does not wait for ffmpeg (`thumbnail-generation.worker.ts:16`): a failed thumbnail is
  not tried again, `attempts` notwithstanding.

## 8. What is not modelled

* `tasks.service.ts`: its cron decorators are commented out and nothing calls its methods, so that the
  program takes none of their steps.  (This is also why `likeCount`, by which lists are ordered, never
  changes in `MovieFeed`.)
* Pipes, DTOs and validation: stateless, and the models start from inputs that passed them;
  `MovieTitleValidationPipe` and `MovieFilePipe` are not used by any route.
* Passport strategies other than what `login/passport` does: `JwtStrategy` guards no route.
* Configuration, logging, filters that only format an answer.
* The like status that a list adds for a user who is logged in, and `findOne` of the services: reads
  that change nothing.  Page pagination: no code calls it.
* Locks that one statement takes one after the other: in all models a statement takes its locks at once, so that two
  statements do not meet halfway.  Circles between the statements of transactions are in `MovieCatalog` (section 5); that
  PostgreSQL finds them is taken from it (`Fail`, `SpareGenre`).
* `WsTransactionInterceptor` keeps the query runner on the socket (line 25).  The handler reads it in the
  microtasks after it is set, before another message's BEGIN can be answered, so that the models
  give each message its own.

## 9. The plan

Order, most important first; all done.

1. `LikeButton`, `MovieLike`, their proofs in `AtomicityProofs`: the race of the read and the write; refinement.
2. `MovieCatalog`: transactions, locks, files, failures.
3. `ConnectionPool`, `ConnectionPoolProofs`; `Throttle`.
4. `MovieFeed`, `MovieFeedProofs`.
5. `BearerToken`, `BearerTokenProofs`.
6. `ChatRooms`, `ChatRoomsProofs`.
7. `UniqueTable`, `NamedRows`, the refinement by TLC.
8. `RecentMovies`, `VideoFiles`.
9. `RequestPipeline`, `InterceptorProofs`: the throttle inside the response time interceptor, with the session.
10. The answer of POST /movie before its COMMIT, late answers, repeated uploads, orders of mixed directions
    and the cursor over `createdAt`.
11. `VideoFilesProofs`: a file leaves one place only after it is in the other.
12. Requests whose token names no user, in `MovieLike`, `LikeButton` and `ChatRooms`, with their proofs.
13. A proof of `OnlyTheGapIsMissed`: a room is in `unseen` or was committed when the socket asked, or its
    creator told the socket.
14. `MovieCatalogProofs`: all that transactions, locks and the disk promise of movies.
15. `NamedRows` and `RecentMovies` proved: the refinement of `UniqueTable`, the agreement of the caches.
16. `AtomicCatalog`, and the refinement of it by the statements and locks of `MovieCatalog`, checked and proved.
17. `TokenRegistry`, and the refinement of it by the caches, payloads and guards of `BearerToken`, checked and proved.
18. Failing queries in `MovieLike`, read-backs after an effect, any number of messages in `ConnectionPool`, the files of
    `MovieCatalog` in S3, its patches statement by statement with the genres that are removed between two of them, walks
    ascending by `createdAt` in `CursorMoves`; all proved again.

Dropped: `ChatRooms` over `ConnectionPool`.  The two cut the handler of a message differently (what it asks of the
pool, and what it does to rooms), and their properties meet nowhere: no chat property depends on when a connection
is granted, and the pool's only on how many a handler holds.
