# Verification of tinbase

tinbase is a Supabase-compatible backend in one process: REST, auth, storage,
realtime, edge functions, cron, pg_net and webhooks over one embedded or native
Postgres. This directory holds TLA+ models of its stateful parts, the TLC
configurations that check them on small instances, and TLAPS proofs that hold
for every value of the constants. Paths below are relative to the repository;
`handler.ts` alone means the handler of the component under discussion.

To check it, in this directory:

    tlc -config MCStorage_uploads.cfg MCStorage      # any MC*_*.cfg with its module
    tlapm StorageProofs.tla                          # any *Proofs.tla

Contents: 1 what runs concurrently, 2 the inventory, 3 the modules, 4 the runs,
5 fairness, 6 the proofs, 7 where code and words differ, 8 what is left out,
9 the plan.

## 1. What runs concurrently

There is one JavaScript thread. Code between two `await`s is atomic; at every
`await` other handlers, timers and socket callbacks run. SQL statements are
atomic too and queue for one connection (`src/src/db/engine.ts`, `Mutex`), but
a handler that needs several statements rarely wraps them in a transaction, so
the statements of concurrent requests interleave. Bytes live in a storage
driver outside the database; no transaction spans both. The process may die at
any `await`; the database (and the file driver) keep what they had, all
JavaScript state is lost.

That is why the models share one form: a request is a program counter (`pc`,
`step`) and its locals, one action per stretch between two awaits, and the
tables, the driver and the in-memory fields are the shared variables.

## 2. Inventory

| Component (code under `src/src`) | State | Operations | What is hard about it | Correct when |
|---|---|---|---|---|
| Storage objects, quota (`storage/handler.ts`, `storage/driver.ts`, `node/fs-driver.ts`) | `storage.objects` rows, driver bytes, quota, promise chain of writes | upload, upsert, remove, move, copy, setQuota | two stores, rollbacks, check-then-act on the quota, failing writes in a promise chain | rows describe bytes; growth fits the quota that was checked; every request is answered |
| Resumable uploads (`storage/handler.ts` 608-768) | in-memory uploads, then as above | POST, HEAD, PATCH, DELETE | repeated and delayed PATCHes, two finalizations of one upload | the offset covers received bytes; what is stored has no hole and stays |
| Sessions and refresh tokens (`auth/handler.ts`) | `auth.users`, `auth.sessions`, `auth.refresh_tokens` | sign-in, refresh, logout, user removal | no transaction around a refresh; logout against refresh; a token presented twice | ended sessions stay ended; tokens are single use; nobody is logged out by accident |
| One-time tokens, OTP, e-mail change (`auth/handler.ts`) | `auth.one_time_tokens`, columns of `auth.users` | mint, redeem, confirm both sides | attempt limits, two requests for a code, two changes at once | a token is taken once and not after its attempts, a code not after a later request; the address moves only with the consent of every side |
| MFA (`auth/handler.ts`, `auth/totp.ts`) | factors, challenges | enroll, challenge, verify, unenroll | count-then-insert, check-then-update | limit kept; a challenge is used once |
| OAuth, messages, settings (`auth/*`) | flow state, rate windows, settings row | redirect, callback, send | external parties | formats; windows |
| Cron (`cron/service.ts`) | `cron.job`, `lastRun`, `lastMinute`, timer | tick, stop; SQL schedules jobs | ticks overlap; a tick goes on with an old time | no minute missed, none run twice, stop drains |
| pg_net (`net/service.ts`) | request queue, responses, `draining`, timer | SQL enqueues; tick, stop | at-least-once sending around failing queries and restarts | nothing lost; repeats only after a fault; the queue moves on past rows that cannot be recorded while a batch has room |
| Realtime (`realtime/engine.ts`) | connections, channels, presence, contexts | join, leave, track, broadcast, dispatch of changes | joins and dispatches across awaits, re-joins, presence of shared keys | clients' presence equals the server's; no ghosts; the newest token in force; changes in order, none missed, a record that can be looked up only to those whose it was |
| Change capture, database core (`db/database.ts`, `db/engine.ts`) | listeners, connection mutex | query, transaction, listen | dispatches that wait in one line; LISTEN that fails once | every committed change reaches every listener |
| Migrations, pristine database (`db/database.ts`, `db/pristine.ts`) | applied versions, seed snapshot | runMigrations, checkPristine, recordSnapshot | runs that overlap; writes by requests while migrations run; a failing file | in order, once each; data is never taken for seed |
| Schema cache (`db/database.ts`) | caches per schema | getSchemaInfo, invalidate | a fill that began before an invalidation; scripts that fail half way | the caches hold the schema as it is |
| Wire server and engines (`node/native/*`) | protocol queue, pending op | query, exec, transaction, listen | errors and closes between messages | each op gets its own answer |
| Queues (`db/emulated.ts` 32-180) | pgmq tables | send, read, pop, delete, archive | visibility timeouts against slow readers | no message lost; archived once |
| Webhooks (`webhooks/service.ts`) | hooks, `started` | register, dispatch | start that fails half way | every matching change is delivered once per hook |
| Life cycle (`index.ts`, `node/server*.ts`) | service handles, lock file | start, failing start, close | order of stopping, partial start | nothing queries a closed database |
| Functions, retention, logs | module registry, timers | invoke, sweep | environment across awaits | isolation |
| REST, schema tools, admin, CLI | none of their own | translate | pure conversions | covered by unit tests |

Components talk through the database (every one), through `pg_notify` (change
capture to realtime and webhooks), through direct calls (admin API to the
others), and at shutdown through `close()` in `index.ts` 619-627, which stops
cron, pg_net, retention, webhooks and realtime in turn and closes the database
last.

## 3. The modules

| Module | Models | State and how it corresponds |
|---|---|---|
| `ObjectStore` | what storage promises: one map from locations to contents on which each request takes effect at once | abstract; no code of its own |
| `Storage` | `upload`, `persistObject`, `removeOne`, `removeObjects`, `emptyBucket`, `moveOrCopy`, `checkQuota`, `serializeQuota`, `setQuota`, `loadQuota` | `rows` = `storage.objects`, `bytes` = the driver, `quota`/`saved` = `quotaBytes`/`storage.config`, `chain` = `quotaChain`, `pc`/`mem` = each handler's position and locals |
| `TusUpload` | `handleTus`, `appendTus` and the persisting of a finished upload | `live` = ids in `tusUploads`, `upload` = the buffers (which outlive their id in the hands of a handler), `row`/`file` = the object's row and the driver's file, whole or torn |
| `CronService` | `CronService` and the order in which the connection serves its queries | `step`, `now`, `rest` = the locals of each tick, `queue` = the connection's mutex, `lastRun`, `lastMinute`, `inFlight` as in the class |
| `NetService` | `NetService` with its tables | `queued`, `response` = the tables, `draining`, `inFlight` as in the class, `batch` = rows of a tick still to deliver |
| `AuthSessions` | `token` (password, refresh_token), `sessionFor`, `logout`, `userFromBearer`, `sessionIdFromBearer`, `eraseUser` | `users`, `sessions`, `tokens` = the tables with their foreign keys, `now` = the clock in seconds |
| `OneTimeTokens` | `mintOneTimeToken`, `issueToken`, `redeem`, `startEmailChange`, `mintEmailChangeTokens`, `verifyEmailChange`, the sweep of expired tokens | `rows` = `auth.one_time_tokens` of one account, `email`/`parked` = `auth.users.email`/`email_change`, `pos`/`ask`/`addr` = each handler's position, request and locals, `known` = what the mailer has taken |
| `RealtimeChannels` | `connect`, `handleJoin`, `authorizePrivate`, `access_token`, `handlePresence`, leaving, `onClose` for one topic | `sock` = membership in `connections`, `channel` = `conn.channels` with key and context, `presence` = the topic's map, `refs` = `phxRefCounter`, `mirror` = the map a client puts together from `presence_state` and the diffs |
| `ChangeFeed` | the notify trigger, `onCdcEvent`, `dispatchCdc`, `canSee`, `getSchemaInfo`, `getRlsTables`, `invalidateSchemaCache`, `WebhooksService.register`/`dispatch`, the SQL editor's invalidation | `log` = what has been committed, `pending` = notifications on their way, `catalog` = per version of the schema, whether the table has policies and a primary key, `schemaCache`/`rlsCache` = the caches, `queue` = the line before the connection, `task` = each running dispatch, `sub`/`got` = channels and what was sent |
| `Migrations` | `runMigrations`, `initSnapshot`, `checkPristine`, `recordSnapshot`, `fingerprint`, and their callers (`createBackend`, the admin API, `db pristine`) | `ledger` = `schema_migrations`, `rows` = the app's tables, `snap` = `seed_snapshot`, `failure` = `migrationFailure`, `run` = position and locals of each run |

`MC*.tla` only add symmetry sets and concrete functions for constants; each
`.cfg` is one question. `*Proofs.tla` hold the theorems of the module they are
named after; `AuthProofs` those of `AuthSessions` and of `OneTimeTokens`, whose
names differ (`Calls`, `Nil`, `pos`, `TokenSpec`, ...) so that one module can speak
of both.

Modelling decisions that need a word:

- Identity stands for content. A body is "who wrote it and how long it is"; a
  session is named by the sign-in that made it and a token by the request that
  made it (the code draws random ids, which never repeat).
- The file driver's `put` writes in place (no temporary name), so a put that
  fails half way, or that a crash cuts short, leaves a torn file (`Torn`); one that
  fails before touching the file leaves the old bytes. In `Storage` both are
  choices of `Faults`, and a crash leaves the bytes alone (no property is stated
  across it); in `TusUpload` a failing put and a crash may each do either.
- `usedBytes` is the sum of all rows' sizes. It is written as the cardinality of
  a set of byte units so that no recursion is needed and TLAPS can prove about it.
- A removal's statement may delete any subset of the rows it names: row-level
  security decides, and the model leaves that open. Likewise an insert or update
  may always be refused.
- Resumable uploads leave the quota open: since it can be set, cleared and used
  up at any moment, finalizations may interleave in any way and be refused at any
  time, which is what the module allows.
- Cron fields are the set of minutes they match (`Matching`), fixed per job;
  "N seconds" is a period. Job lists arrive in any order, because the query has
  no `order by`. Time advances at any moment, so a command may run arbitrarily long.
- In `AuthSessions` a sign-in is the password grant; user, deadline and expiry
  are read in one turn, as in `sessionFor`. `ReadBearer` is two awaited calls
  folded into one step: the row of the user and the second verification of the
  token, between which only the clock and the removal of the user matter, and
  both are possible before the step as well.
- A one-time token is named by the request that minted it and its part (code,
  link, either side of a change). Nobody presents one that was not mailed; a
  wrong code is a `guess`. A later request deletes the codes of the address and
  leaves the links, whose rows have another type (`auth/handler.ts` 951, 955).
  `Expire` stands for the deadline and for the sweep:
  an expired row is found by no query, whether it is still there or not.
- In `RealtimeChannels` the triggers of a join are one awaited step that may
  fail; everything between two awaits (opening the channel, the snapshot, a
  presence diff to all members) is one action. A message may still end after its
  socket has closed, because the code looks at neither.
- In `ChangeFeed` one line of queries stands for the engine's mutex: an answer
  is handled, up to the next query it leads to, before the next answer. That is
  what keeps dispatches in step, so it is modelled and not left to chance.
  `getSchemaInfo` makes four queries; the first and the last are kept, since
  only what lies between them can see two schemas. A record's content is its
  owner, and a policy shows rows to their owner. A subscriber is signed in as a
  user, is `Anon` (one more owner, so that there are rows the policies show to it)
  or the service. A change carries its record or, for a DELETE and a payload that was
  too large, does not; a table has a primary key or has none. `CanLookUp` is
  what these two decide: where it is false nobody is looked up for, `Anon` is
  refused and everybody else is sent the change.
- In `Migrations` a fingerprint reads the tables one after the other and the
  shape (which files have run) last, as the code's queries do. The rows of the
  app are "seed" and "user" content per table. A check from another process
  has its own connection, so it interleaves with everything.
- History variables (`ended`, `raced`, `forked`, `cut`, `asked`, `sends`, `runs`,
  `owed`, `overlapped`, `tracked`, `named`, `rekeyed`, `overlap`,
  `against`, `wrongs`, `taken`, `settled`, `swept`, `tangled`, `since`,
  `hookSince`, `moved`, `disturbed`, `blind`, `spoiled`, `during`, `folded`,
  `plain`) are read by no guard, except that `moved` bounds how often channels
  change. They let a property speak of the past and name the exact situation in
  which it is not promised.

## 4. The runs

Every passing run explores its whole state space. The bounds are chosen so that
each hazard has room to happen with one actor to spare.

| Run | Instance | Shows |
|---|---|---|
| `storage_uploads` | 3 requests, 2 in flight, 2 locations, sizes 1-2, quota changing between 2 and 3, torn writes | `RowsMatchBytes`, `GrowthWithinCheckedQuota`: checks, rollbacks, replacements and changes of the quota interleave in every way |
| `storage_no_overwrites` | 3 requests, 2 in flight, uploads and copies, with and without a quota, failing puts | `AnsweredWriteKept`; `BehavesAsOneStore`: rows and bytes refine `ObjectStore` |
| `storage_removals` | 2 requests of upload, remove, move; size 2, quota 1 or 3 changing; torn writes, restart | `EveryRequestAnswered`: no failure, refusal or restart breaks the chain of writes |
| `tus_resumed` | 3 requests on 2 uploads of one object, with and without overwriting, 3 bytes, puts that fail or are cut short by a crash and leave the old file or a prefix | `OffsetReceived`, `StoredWhole`, `StoredKept` with a repeated PATCH beside a finalization |
| `cron_ticks` | 2 overlapping ticks, an every-minute job and a 2-second job, 4 instants in 2 minutes, 1 restart | `OncePerMinuteInTurn`, `NoMinuteMissed`, `StopDrainsInTurn`, `StopReturns` |
| `net_delivery` | 4 requests, batches of 2, 2 ticks, 2 faults; the replies of the first and the third cannot be recorded | `NothingLost`, `SentTwiceOnlyAfterFault`, `EveryRequestAnswered`: the second is answered behind one such row; the fourth is behind a whole batch of them and is promised nothing |
| `auth_logouts` | 4 requests, 2 users, token life 1 s, timebox 2 s, clock to 2 s, crash | `StaysEnded`, `SessionRefreshable`, `OneUsableToken`, `EndsWhatItSays`: enough for a sign-in, two uses of its token and a logout, or two sessions and a scoped logout |
| `realtime_presence` | 2 sockets, 3 messages, 2 presence keys, 2 tokens of which one may read, 2 tracks | `PresenceMirrored`, `PresenceTruthful`, `NewestTokenInForce`: two joins and a new token of one socket, or joins of both, finish in any order around leaving, tracking and closing |
| `feed_order` | 2 subscribers (a user, anon or the service), a webhook, 2 changes with or without record and key, 1 failing query, caches cold or warm | `NoOvertaking`, `NoChangeMissed` |
| `feed_schema` | 1 subscriber that may leave or change identity, 2 changes, 1 schema change (policies, key), 1 failing query or script | `RecordWasVisible`, `CachesCurrent` |
| `tokens_codes` | 4 requests, 2 addresses, 2 attempts, changes confirmed by both sides | `RedeemedOnce`, `RedeemedInTime`, `MovedWithConsent`: two requests for a code with a guess and a redemption, or a change with both confirmations beside a sign-in |
| `migrations_overlaps` | 3 runs, 2 files and a seed, 2 tables, 1 failure, crashes | `AppliedOnceInOrder`, `BaselineHonest`: two runs that overlap, or one cut short, and a third that checks what is left |

Why these bounds suffice: the storage hazards need at most two writers of one
location and a third after them; two locations give a move or copy a source and a destination. Two bytes
are the least for which a hole can exist, and a third gives a torn file a middle. Two ticks are the least that overlap,
two minutes the least for which an old time and a new one differ. Rows
beyond a batch make the queue wait, and two unrecordable ones fill it. Two sockets give a member and a witness of
it, and three messages a join, a second join and a token. Two subscribers are
the least for which one change waits at a subscriber while the next passes it;
a schema read that straddles a change needs one change. Four requests hold a code, its redemption, a wrong
guess and a second code; two attempts make one that is counted and one that
burns. Two files are the least with an order, two tables the least a fingerprint
can read apart. Where the proofs apply (section 6) the bounds
do not matter at all: that schema changes and moving channels, which `feed_order`
leaves out, keep the order and lose nothing either is shown by the theorems. The
`VIEW` of `feed_schema` leaves out the history variables that no guard and
neither of its properties reads. `CHECK_DEADLOCK FALSE` is set because requests are finite
and services stop.

Each property is paired in `PROJECT.json` with a mutated definition kept beside
the original ("Mutant: ..."); replacing the original makes TLC find the property
violated, so none of them holds by the shape of the model. `TypeOK` carries the
structural facts too: in `AuthSessions` (`SessionTypeOK`) the foreign keys, in `NetService` the
batch size, in `OneTimeTokens` (`TokenTypeOK`) that a used-up row is about to be burnt.

Properties that are conditional say so in their names or comments:
`OncePerMinuteInTurn` and `StopDrainsInTurn` hold while ticks do not overlap;
`StaysEnded` excepts sessions a logout and a refresh met on; `OneUsableToken`
excepts a token presented a second time before its first use revoked it;
`SessionRefreshable` excepts a logout that met the sign-in and a crash between
revoking and issuing; `NewestTokenInForce` excepts a socket whose newest message
was sent beside another one; `PresenceTruthful` excepts the entry of a client
that joined again under another key; `NoOvertaking` excepts dispatches that fill
a cache, begin with a cache a failing script left behind, or run while a later
one is spared queries, because it cannot be looked up or the channels or the
schema changed (`disturbed`); `RecordWasVisible` speaks of tables with a key and
of changes with a record; both it and `NoChangeMissed` except dispatches with a
failing query (`blind`); `NoChangeMissed` promises `Anon` only what can be looked
up; `EveryRequestAnswered` of the sender promises nothing behind a batch of
unrecordable rows; `CachesCurrent` excepts a schema read under way at the last schema
change (`raced`) and a script that failed after it (`spoiled`);
`MovedWithConsent` excepts changes of address that overlap (`tangled`) and those
of which a token expired or was spent by a sign-in (`swept`); `BaselineHonest`
promises a match only to databases that undisturbed, successful runs have
written to (`plain`), and excepts from a baseline only what was written beside
the run that took it (`folded`). The exceptions are real: without them TLC finds
each one.

## 5. Fairness

Only three runs use it.

- `Storage!FairSpec`: weak fairness of each request's next step. The database
  answers every query (or rejects it) and a driver call settles; nothing else is
  assumed. Arrivals, quota changes and restarts have no fairness.
- `CronService!FairSpec`: the connection serves whoever is first in its queue,
  and `stop()` resumes once the promise it awaits has settled.
- `NetService!FairSpec`: each tick's current step completes (a fetch is aborted
  after its timeout, queries settle), the timer keeps firing while no tick is
  draining, `stop()` resumes. Faults are bounded by `MaxFaults`, which is what
  "eventually no more failures" amounts to.

## 6. The proofs

Every theorem holds for arbitrary constants under the named assumptions on them
(`ASSUME` in the modules: sizes are naturals, sets do not overlap, and the like).

| Theorem | Statement | Inductive invariant and why it is needed |
|---|---|---|
| `StorageTypeOK` | `[]TypeOK` | `TypeInv`: a handler past its first step has a job, and one that persists has a body; without that the rows it writes are untyped |
| `WritesAreSerialized` | `Limited => []OneWriteAtATime` | `ChainInv`: the chain has no repetition, holds exactly the queued and running writes, and only its head runs. `Limited` (a quota is always set) because the code serializes only then |
| `RowsMatchTheirBytes` | with `WritesOnly`, `NoCrash`, `Limited`: `[]RowsMatchBytes` | `MatchInv`: a running write owns the row at its target, which describes its buffer. The assumptions name where the code has a race or no repair: removals, moves, and a crash |
| `GrowthIsBounded` | with `Limited` and `QuotaSafeOps`: `GrowthWithinCheckedQuota` | `GrowthInv`: what the running write read (limit, replaced size, used bytes) still bounds the total when it inserts. Copies are excepted because they break it (section 7) |
| `AnsweredWritesAreKept` | with `NothingOverwrites`: `[]AnsweredWriteKept` | `SoleInv`: whoever is past its insert, or was answered, owns the row at its target by its id, so no other request inserts, puts or undoes there. `NothingOverwrites` (only uploads and copies) because an upsert, a move or a removal takes the object away by intent, and their races are in section 7 |
| `TwoStoresAreOne` | with `NothingOverwrites` and `PutsAreWhole`: `BehavesAsOneStore` | the step simulation of `ObjectStore`: the put is where a write takes effect, every other step stutters. `PlainInv`: where there is no row there are no bytes, a row without bytes is one whose put is still to come, and a copy's source keeps its row and bytes. `PutsAreWhole` because bytes of a torn put stay in the file driver |
| `StoredUploadsAreWhole`, `OffsetsAreReceived` | `[]StoredWhole`, `[]OffsetReceived` | `UploadInv`: the bytes up to the offset a handler compared stay received, whatever moves the offset since; so the buffer is whole when a put begins, and the put that is answered replaces whatever torn file was there |
| `UploadsTyped` | `[]TypeOK` | part of `UploadInv`: an offset is typed because the bytes below it are the upload's |
| `StoredUploadsAreKept` | `[]StoredKept` | `OwnedInv`: where no upload overwrites, a finalization past its insert and one answered as stored each hold the one row, so there is never more than one of them, and no other put, torn or not, touches its file |
| `EveryMinuteIsRun` | `[]NoMinuteMissed` | `Kept`: an owed job is run or still in the list of a tick that took its time in that minute |
| `RunOncePerMinute` | `[]OncePerMinuteInTurn` | `Monotone`: without overlap, times only grow and `lastMinute` is the newest minute run |
| `StopWaitsForTheTick` | `[]StopDrainsInTurn` | `KnownInTurn` over `Monotone`: without overlap a running tick is the one `inFlight` names, hence the one `stop()` awaits |
| `SchedulerTyped` | `[]TypeOK` | `TypeOK` and `Typed` of the other scheduler proofs |
| `NoRequestIsLost`, `NoRequestIsRepeated` | `[]NothingLost`, `[]SentTwiceOnlyAfterFault` | `Safe`: at "delete" the reply is there; `Paced`: at most one tick is past the `draining` test, and its batch is unsent until a fault |
| `BatchesAreBounded` | `[]TypeOK` | `Bounded`: with the types, that the queue and each batch are finite, without which a batch's cardinality means nothing |
| `AuthTypeOK` | `[]SessionTypeOK` | `Structure` = `SessionTypeOK`, what each step knows about its job (`JobsFit`), and who owns a session (`Owned`): rows and locals that name one session name one user, the fact the foreign keys rest on |
| `EndedSessionsStayEnded` | `[]StaysEnded` | `EndedInv`: no handler past its liveness check holds an ended session, unless it raced, or its user is gone and the insert will be refused |
| `TokensAreUsedOnce` | `[]OneUsableToken` | `SingleInv`: per session one holder, and one handler between check and revoke, of the token that is the holder |
| `LiveSessionsRefreshable` | `[]SessionRefreshable` | `LiveInv` and `TokenInv`: a live session has a holder; a logout that is about to revoke left no session in its scope |
| `RealtimeTypeOK` | `[]TypeOK` | `TypeOK` is inductive as it stands: what a message asks for is known from its first step on |
| `ClientsMirrorPresence`, `PresenceIsTruthful` | `[]PresenceMirrored`, `[]PresenceTruthful` | `PresenceInv`: both, and `Joined`, a channel's connection is among those its key was joined under, and only members have tracked, so that whoever holds a key alone is the only one to change its entry |
| `NewestTokenWins` | `[]NewestTokenInForce` | `TokenInv`: the newest message of a socket is in flight alone, or answered and in force, unless it overlapped; an answered message never comes back |
| `FeedTyped` | `[]TypeOK` | `TypeInv` = `TypeOK` and `Lined`: a dispatch has exactly one query in the line, and of a kind its step waits for; notifications wait in the order of the commits |
| `CachesAreCurrent` | `[]CachesCurrent` | `CacheInv`: a read of the schema that no change has met reads the schema of now (`ReadsCurrent`) |
| `RecordsStayPrivate` | `[]RecordWasVisible` | `PolicyInv`: what a dispatch acts on as the table's policy was in force at some moment since the commit, unless one of its queries failed; `SentInv` adds what has been sent. The table must have had its key all along, because a dispatch that knows of none asks nobody and sends |
| `ChangesReachTheirSubscribers` | `[]NoChangeMissed` | `FeedInv`: whoever listens has attached the trigger, every change after that is noticed, and a dispatch that is past a subscriber has sent it the change if it was certain to be sent it (`VisitedHeard`): by a look-up that finds the row, or, where none is possible, because it is signed in |
| `ChangesStayInOrder` | `[]NoOvertaking` | `OrderInv`, a lockstep argument: of two undisturbed dispatches the earlier is at least as far on, and where they are equally far its query is ahead in the line (`InStep`); so a later change is never at a subscriber the earlier has not reached (`SentBehind`). A change that cannot be looked up disturbs the dispatches under way, which is the case the lockstep fails in |
| `MigrationsTypeOK` | `[]TypeOK` | `TypeOK` with `AllFit`: which goals, bases and positions each step of a run can have; without it a snapshot could be recorded before one was read |
| `MigrationsInOrder` | `[]AppliedOnceInOrder` | `OrderInv`: the ledger is in order and no run is further on than one past its end; so whoever commits commits the next file |
| `BaselinesAreHonest` | `[]BaselineHonest` | `BaselineInv`: what a run has read so far, and what it is about to record, holds users' rows only of tables written to beside it. `PlainInv`: in a plain history at most one run is under way, and at each of its steps what it has read is what the tables hold |
| `LogoutsKeepToTheirScope` | `EndsWhatItSays` | `BearerInv`: the identity a logout acts on is the one of the access token, and it has none only if that token has expired |
| `TokensTyped` | `[]TokenTypeOK` | `TokensInv`: what each step knows of its request (`AsksFit`), that a row or a mailed token was minted by the request it names (`RowsMinted`, `KnownMinted`), and that no mint has more wrong attempts than there are refused requests (`WrongsCounted`), without which `wrongs` has no bound |
| `TokensRedeemedInTime` | `RedeemedInTime` | `RedeemInv`, a balance: the wrong attempts answered on a mint and those past their count but not yet burnt are at most the attempts its row has counted (`AttemptsCover`), so a row that can still be redeemed has fewer than the limit; and a mint with a later answered request has no code (`SettledFits`); its link it may have |
| `TokensRedeemedOnce` | `[]RedeemedOnce` | `OnceInv`: a token that was taken has no row, and none is inserted again, so no second request finds it |
| `AddressMovesWithConsent` | `MovedWithConsent` | `ConsentInv`: until changes tangle, at most one change is being made and no confirmation beside it, the parked address is that of a change of which each side was taken or has its row (`HeldSides`), and where a confirmation is about to move the address no row is left; so each side was taken |

The proofs are laid out bottom-up: lemmas about `Goto`/`Finish` (what any step
of one handler leaves alone), one step per action, then the temporal theorem.

The attempt to prove `NoOvertaking` corrected the property: a failing script
that leaves the caches behind spares a later dispatch the look-ups an earlier one
makes, just as a cold cache does, in instances larger than the run's. Such
dispatches now count as `disturbed`.

Only model-checked: liveness (`EveryRequestAnswered`, `StopReturns`), which is
out of the prover's reach, and the safety theorems' properties outside their
hypotheses, where a run covers that. Every safety property of the runs is stated by
a theorem.

## 7. Where code and words differ

Every run passes: the properties name the exceptions. These are the places
where the code does something else than a sentence of it says, or than a reader
would expect, as they came up.

Storage:

- A move onto an occupied location is refused, and its rollback deletes the
  bytes of the object that was there (`handler.ts` 910-928).
- A copy checks the length it read before it queued and inserts the metadata its
  source has by then, so it can exceed the quota (`handler.ts` 934).
- A removal deletes the row, then the bytes; an upload of the same key in between
  is answered and then loses its bytes (`handler.ts` 867-889).
- Without a quota, upserts of one location are not serialized: if the put of one
  fails, its rollback deletes the row another has just written and kept the id of
  (`handler.ts` 270-275, 602).
- A put that fails half way, or a crash in it, leaves a torn file, because the
  driver writes in place (`node/fs-driver.ts` 33-37); a crash leaves the row as
  well, so the object is listed and served torn. The rollback deletes the row
  only. This goes for plain and for resumable uploads.
- A PATCH whose body arrives after another PATCH moved the offset sets the
  offset back (`handler.ts` 705-734). No byte is lost: that is `OffsetReceived`.
- With `x-upsert`, a last PATCH that is repeated finalizes the upload twice; if the
  put of the second fails, its rollback deletes, by the id both share, the row the
  first was answered for (`handler.ts` 599-606). `StoredKept` is about uploads that
  do not overwrite.

Cron and pg_net:

- A tick that outlasts its minute runs a job again: it marks the minute it began
  in (`cron/service.ts` 67).
- A job with a period is marked with the time its tick began (`cron/service.ts` 67,
  88), not with the time it starts. Begun late, behind slow jobs of the same tick,
  it may be started again by the next tick at the same real moment: nothing keeps
  its starts N seconds apart, and no property says so.
- A reply Postgres refuses (a NUL character in text) is recorded by nobody:
  `record` swallows the error (`net/service.ts` 241-243), the row stays and is sent
  again at every tick, against the comment at 167-168 ("must never poison the
  loop"). Up to 19 such rows cost their places in each batch; twenty of them at the
  head of the queue starve every request behind them for good (`limit 20`, 157).
- `stop()` of cron and pg_net waits for the latest tick only, which for pg_net may
  be one that returned at once; an older tick then queries a database that is
  being closed, which the comments say must not happen.

Sessions:

- A refresh past its look at the session brings back a session a concurrent
  logout deletes (`on conflict ... do update`), against the comment at
  `auth/handler.ts` 594-595. `StaysEnded` shows this is the only way.
- A refresh token presented twice before its first use has revoked it gives its
  session two usable tokens (`auth/handler.ts` 591).
- A sign-in that meets the two queries of a global logout may keep its session and
  lose its token (906-908); so may a session whose refresh a crash cuts off between
  revoking the old token and issuing the new one (602).
- `logout` verifies the access token a second time for the session to scope by
  (889); if it has expired by then, `scope=local` ends every session (902).
- A refresh counts the timebox from its own time, so access tokens outlive the
  session's absolute deadline the comment at `auth/handler.ts` 2428-2430 speaks of.

One-time tokens:

- A new request deletes the code of an earlier mail and not its link: 951 deletes
  rows of the type it is asked for, 'otp', and 955 stores the link as 'magiclink'.
  The link stays redeemable until it expires or a sign-in spends it.
- Two requests for a code at a time may leave two codes live (951).
- A sign-in by code at the current address spends every token of that address,
  the current side of a pending change included (`auth/handler.ts` 1254). The new
  side alone then completes a change that both were to confirm (comment at
  747-750).
- Two changes at a time, or a confirmation beside a new request, mix: a token of
  one confirms the address of the other.
- More than `MAX_OTP_ATTEMPTS` guesses may be in flight at a time; it is answered
  guesses that are counted, and `RedeemedInTime` says no more.
- The code and the link of one mail can both be redeemed when they arrive
  together.

Realtime and the change feed:

- A socket that joins again under another presence key leaves the entry of its
  first key behind for good (`realtime/engine.ts` 353-365).
- Two `access_token` messages, or one beside a join, may end in either order, and
  the identity of a private channel can be replaced without its policy being
  asked again.
- A later change overtakes an earlier one when the earlier dispatch makes more
  queries: the later one is a DELETE under a policy, or has lost its record to the
  limit of 7500 bytes (`db/bootstrap.ts` 556) and is sent without a look-up
  (`realtime/engine.ts` 626), or a cache was cold.
- The look-up of a row sees it as it is by then, so a record may be withheld, or
  sent, because of a later change; as long as the table has a primary key, never
  to somebody whose it was not since.
- A table with policies and without a primary key is not filtered at all: every
  INSERT and UPDATE goes, with its record, to every subscriber that is signed in
  (`realtime/engine.ts` 621, "can't PK-filter; conservative").
- `anon` is sent no DELETE and nothing else that cannot be looked up, even where
  the policies let it see the row (620-626): it misses those changes by design.
- A failing `getRlsTables` counts as "no table has policies": that change goes to
  every subscriber unfiltered (`realtime/engine.ts` 559).
- A webhook whose trigger cannot be attached is registered all the same
  (`webhooks/service.ts` 68).
- A script that changes the schema and then fails skips the invalidation
  (`admin/api.ts` 372), and a schema read that was under way at a change is stored
  after it; either way the caches are stale until the next change.

Migrations:

- A migrate call that throws after some files were applied takes no snapshot, so
  the database counts as diverged from then on.
- "Diverged for good" (`db/pristine.ts` 182-185): the snapshot of a run that began
  before the check said so overwrites it.
- Of two overlapping runs the slower one's insert of a version is a duplicate: it
  reports a failed migration that has been applied.
- What requests write while migrations run becomes part of the baseline; the
  comment at `db/pristine.ts` 21-24 says so, and `BaselineHonest` that it is the
  only way.

## 8. What is left out, and why

Failing SQL statements other than refused inserts and updates; failing driver
deletes; buckets, downloads, signed URLs; the memory driver's sharing of a
resumable upload's buffer; expiry of cron's `epoch 0` first run beyond "due at
once"; day-of-month and day-of-week fields; address policy, headers and bodies of
pg_net; passwords, signatures, claims other than user, session and expiry;
retention of revoked tokens (a deleted revoked token is refused as a revoked one
is). The clock counts whole seconds, as tokens do. Recovery tokens (whose code
and link share one type, so that a later request deletes both), phone codes, the
type a client names when it redeems (`magiclink` alone matches and counts the
link rows only) and the limits on how often mail is sent; a change of the schema
that renames the columns of a key; broadcasts, more than one topic of a
socket, column filters, `stop()` of the realtime service and a LISTEN that
fails; the delivery of a webhook (one request, no retry); the subset engine
(which skips what it cannot run and takes no snapshot), edited seed files. MFA,
OAuth, queues, edge functions, the wire protocol and the order of shutdown have
no module.

The modelled lines are a small share of the repository. Most of the rest is the
studio and its pages, the command line, configuration, the translation of REST
queries to SQL, formatting and SQL text. None of it keeps state between calls or
waits for anything another handler changes, so there is no interleaving to
explore, and its cases are inputs for unit tests.

## 9. The plan

What would come next, in order of what can go wrong, with the hazards already
listed in `PROJECT.json`:

1. `Lifecycle`: start, failing start and close, composing the services and the
   connection, so that "no query after close" is checked across them.
2. `Mfa`: enrolment limits and single-use challenges, on top of `AuthSessions`.
3. `MessageQueue`: pgmq with visibility timeouts, refining an abstract
   at-least-once queue.
4. Pure algorithms: `cronMatches`, `matchFilter`, `parseByteRange`, `clampExpiry`
   against reference definitions over bounded inputs, in one run.

The set of runs is kept small: a new component brings one passing run with all
its properties.
