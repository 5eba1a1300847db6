# LCloud: TLA+ models, checks and proofs

LCloud is a self-hosted backend in one Python process (FastAPI on asyncio, SQLite
through SQLAlchemy, one Telegram account through Telethon). It stores files as
messages of Telegram chats ("clouds") with their index in SQLite, and it is a
document database whose operation log is backed up to Telegram. This directory
holds TLA+ models of the parts that are hard to test, the TLC runs that check
them, and proofs for TLAPS. `PROJECT.json` lists the runs, the lines every
definition stands for, the findings, the hazards and the theorems.

## How the system runs

* One process, one event loop. Between two `await`s a handler runs alone; at an
  `await` any other handler may run. Nearly everything interesting is an
  interleaving of handlers at `await`s.
* Each handler opens its own SQLAlchemy session. aiosqlite runs SELECTs outside a
  transaction; the first flush of a write opens SQLite's write transaction, which
  one session at a time may hold (`busy_timeout` bounds the wait). So rows are
  read *before* the lock is taken.
* The unit of work UPDATEs only the columns whose value changed against what the
  session loaded.
* Telegram is a remote service: a call may fail after it took effect, and nothing
  makes it atomic with a transaction.
* The cache is in memory, per process, and is gone after a restart. Everything
  else is in SQLite or in Telegram.

## Inventory

| Component | State | Operations | What makes it correct |
|---|---|---|---|
| JSON document writes (`api/json_db.py`) | collections, documents, operations | create, set, patch, delete, batch, rules, validator, through three routers | the log replays to the table; a document keeps its owner; app users write their own documents only; batches are atomic; no write brings a deleted document back by accident |
| Operation log backup (`userbot/db_backup.py`) | watermark, segments | list, build, upload, mark | the watermark never passes what is in the chat; nothing stays above it, and while no collection is dropped every operation reaches the chat |
| Restore (`userbot/db_restore.py`) | an empty target | deduplicate, replay | what was written is what is restored; whatever is in the chat can be restored |
| TTL cache (`cache.py`) | entries, counters | get, set, delete, evict, expire | exact accounting, both limits, oldest use goes first, no answer outlives its time |
| Cached reads (`api/json_db.py`) | cache entries | hit, SELECT, fill, invalidate | the cache answers what the tables do |
| File store and quota (`api/v2_files.py`, `files.py`, `storage_public.py`, `auth/storage_quota.py`, `userbot/handlers.py`) | files, messages, charged bytes | upload, supersede, delete, rename, ingest, recompute | a listed file can be downloaded; an upload supersedes its predecessor; the charge is the bytes of the live files; the quota holds |
| Lists and queries (`api/json_db.py`) | cached pages | list, query, page, invalidate | a walk over pages misses nothing that stayed, unless a page it was given was out of date |
| Event stream (`api/json_db.py`, `sdk/src/realtime.ts`) | a cursor per client | poll, resume | no gap, no duplicate, nothing one may not read |
| Shares (`api/shares.py`) | links, counters | create, revoke, download | limits and revocation hold |
| Publishable keys (`api/storage_public.py`) | keys, cache entries | create, revoke, resolve | the limit of keys; a revoked key is refused |
| Sign-in, PIN recovery (`api/auth_v2.py`, `pin_recovery.py`) | challenges, attempts | challenge, verify, set PIN, recover | a challenge is used once; attempts are counted |
| Payments (`api/payments.py`) | requests | submit, approve, reject | one pending request per contact; decided once |
| App sessions (`api/app_auth.py`, `sdk/src/auth.ts`) | refresh sessions, the SDK's session | sign in, refresh, sign out | a session that was signed out stays so, and the SDK knows |
| Administrator's sign-in (`userbot/client.py`) | login flow, session files, what the client remembers of them, the claim | start, code, password, cancel, reject | only the administrator's account stays signed in; who keeps trying gets in |
| Administrator's cookies (`auth/jwt_utils.py`, `api/magic.py`, `userbot/commands.py`) | epoch, links, cookies | issue, spend, /revoke | a link opens one session; /revoke ends all |
| Clouds, databases (`api/v2_clouds.py`, `clouds.py`, `json_databases.py`, `userbot/scan.py`, `inchat.py`) | clouds, databases, chats | create, connect, scan, disconnect | rows and marked chats correspond |
| Workers, rate limits (`workers/`, `utils/rate_limit.py`) | pool, buckets | submit, acquire, retry | limits hold, nobody waits for ever |
| Search, tags, compression, cryptography, documentation pages, shell, SDK, web | rows or none | single statements, pure functions, I/O | out of reach of interleaving |

How they interact:

* JSON writes append to `json_operations` in the transaction of the document;
  the backup worker reads operations above its watermark; the restore reads the
  chat the worker wrote; the event stream reads the same operations.
* JSON reads fill the cache after their session is closed; writes delete from it
  after they commit. Every await between is a place for another request.
* The file store calls Telegram between its transactions; the handler of chat
  events writes rows of the same table; the quota is a column of the user's row
  updated in a transaction of its own.
* The registry of clouds owns the chats that the file store and the backup use.
* The keys, the sessions of app users and the sign-in yield the principal that
  the writes are checked against.
* Sign-in, purchases and PIN recovery write the same `users` table.

What is hard here: overlapping read-modify-writes (documents, rules, versions,
quota, counters), Telegram calls and transactions that fail apart from each other,
a crash between an upload and its mark, ids that are used again, cache entries
filled too late, and one bad chat that holds up the others. `PROJECT.json`
`hazards` has each at its line.

## Modules

| Module | Models | Kind |
|---|---|---|
| `JsonRows` | rows, operations, rules, validators and what each write does to a row; replay of the log | operators |
| `JsonDb` | requests as sessions over the tables and the write lock | state machine |
| `JsonDbAtomic` | what the store promises: a request is one atomic step | abstract specification |
| `OpLogBackup` | collections, operations with SQLite's ids, the backup worker, the chats | state machine |
| `BackupRestore` | the restore as a function of the chat; what backup and restore promise | operators and properties |
| `ForgetfulMap` | what the cache promises | abstract specification |
| `TtlCache` | the cache with its order, limits and counters | state machine |
| `ReadCache` | reads and writes of one collection over a `ForgetfulMap` | state machine |
| `FileStore` | rows, messages, charges of one cloud | state machine |
| `EventStream` | polls, pages and connections over the operations of a collection | state machine |
| `Listing` | a walk over pages, cached or not, while documents are written and others read | state machine |
| `CloudRegistry` | rows of clouds and databases, chats and their markers, the scan | state machine |
| `Accounts` | users, challenges, purchase requests, the PIN's lock | state machine |
| `UserbotLogin` | the flow, the session files, the client's memory, the claim of the administrator | state machine |
| `AdminTokens` | epoch, links, cookies, /revoke, the first start | state machine |
| `AppSessions` | refresh sessions on the server and the session of the SDK | state machine |
| `PublicKeys` | keys of a cloud behind the cache | state machine |
| `Shares` | public links with a limit of downloads | state machine |
| `Workers` | the pool's slots and the token buckets | state machine |
| `MC*` | instances for TLC | |
| `JsonDbProofs` | about `JsonDb` and that it implements `JsonDbAtomic` | proofs |
| `BackupProofs`, `ReadersProofs`, `FileStoreProofs`, `CloudRegistryProofs`, `AccountsProofs`, `AccessProofs`, `InMemoryProofs` | about the specification of the `MC` module they extend, for every value of its constants | proofs |

An `MC` module may hold several components that share no state: its variable
`scene` names the one a behaviour is of, the others stay as they began. Where a
property is about requests one at a time, the variable `regime` is "serial" in a
behaviour whose requests do not overlap and "overlap" in one whose requests do, and
the property's name begins with `Serial` or its comment says so. In the serial regime
of clouds nothing else interferes either: no call of Telegram fails, no process
crashes, no document is dropped into a chat. In that of files no call fails, nothing
crashes and nobody recomputes, but a request may come through any of the three
routers, of the owner or of an administrator beside it, files are renamed and
documents dropped. `MCFileStore` instantiates its module a second time, with the
constants of its serial regime; `MCBackup` has one instance and narrows the requests
of each scene.

### JsonRows, JsonDb, JsonDbAtomic

`docs`, `coll` and `log` are the committed tables. `tdocs` and `tlog` are the same
tables as the holder of the write lock (`writer`) sees them. `pc`, `req`, `snap`,
`obj` and `item` are a handler's local state: where it is, its request, the
collection row and the document object it loaded, and the next write of its batch.

A handler is `Begin` (SELECT the collection; 403 and 422), `Find` (SELECT the
document; 404, 409, ownership), one `WriteItem` per write, and `Commit`; or `Abort`
when a later item of a batch is refused or an INSERT meets the unique constraint,
or `LockTimeout`. Single writes are batches of one. `AdminRead` and `AdminCommit`
are the endpoints of the rules and the validator. `Crash` is the end of the process.

`Flush` is the unit of work's UPDATE of changed columns; it is why two overlapping
writes of a document can leave a row neither of them asked for. `Loaded` is the
session's identity map: a batch that names a document twice sees its own object.

Requests are records `[path, user, app, writes]`; the three routers are the three
values of `path`. Documents are functions of a few fields; merging, the validator's
three conditions, the ownership rules and the owner an operation is logged with are
modelled exactly.

`JsonDbAtomic` applies a request to the rows as they are at one instant.

### OpLogBackup and BackupRestore

Ids are `NextId`: one more than the largest in the table, as SQLite gives them to a
column that is not AUTOINCREMENT. `DeleteCollection` takes the collection's
operations with it (ON DELETE CASCADE) and logs nothing. The worker is `ListPending`,
`Build`, `Upload` (or `Refused`, by a chat that always refuses or once), `MarkUploaded`, `EndPass`; `Interrupt` is any
exception or the end of the process, and leaves the tables and the chats as they are.
`ops` and the operations of a segment are sets: an operation carries its id, and the
code orders by it. `OldestOf` is `ORDER BY id LIMIT`: what has fewer than
`BatchLimit` operations before it.

`Restore` takes the newest of equal ranges, sorts all operations by id (`Sorted`; those of
one id stay in the order of their segments), and folds
over them: collections are found by the name in the snapshot, an operation id
already known must be the same operation, and a patch of a missing row is an error.

Document writes do not overlap in this module (they do in `JsonDb`). The settings of
a collection are one value.

### TtlCache, ForgetfulMap, ReadCache

`cache` is the `OrderedDict`, `data` a function of the keys and `order` the set of
pairs whose first was used before the second, with the three counters the code
keeps: of bytes, and of entries and bytes per namespace.
Every method runs under the lock without awaiting, so it is one step. Time is the
number of ticks an entry has left. `recent` is history for one property, who was used
before whom whatever the code's order says.
`ForgetfulMap` is what callers may rely on: an answer is the value stored last, not
older than its time to live; anything may be forgotten. `ReadCache` uses the cache
through it. Hits do not renew entries; the three routers differ in what they cache
and what they invalidate (`StaleOnlyByRace` says that nothing else makes an entry
stale). `KeyWrites` says whether clients write through the
publishable key, whose handlers do not invalidate.

### FileStore

`files` are the rows (never removed), `chat` the messages that exist, `used` the
charged bytes, `task` a handler's local state. An upload is `Check`, `Send` (or
`SendFails`, with or without the message), `FindPrevious`, `CommitRow`, `Charge`; a
deletion `FindFile`, `DeleteMessage` (or `DeleteMessageFails`), `DeleteRow`,
`Release`. `DropDocument` and `Ingest` are a document from another Telegram client
and the handler of its event; `SumUp` and `Recompute` the operator's recomputation.
The LC1 and LC2 branches of an upload differ in signatures and captions only and are
one action. It is assumed that a message the process sends is not delivered to it
as an event.

The routers differ in what they do about the live row of the same name. v1 does not
look for it, so that two uploads through v1 make two live rows. v2 looks among all rows,
and supersedes the one found if its user may; the publishable key looks among its own
user's. Both raise *after the message was sent* when there are two. A rename takes any
name. So neither "one live file has a name" nor "every message has a row" is true, even
of one request at a time, and both are refuted below. What is true has its premise in
the property: `OneLivePerOwner` is about rows that have an owner, one owner at a time,
while nothing was renamed; `NoOrphans` is about a cloud all of whose rows are one user's
(`Sole`), while nothing was renamed.

### EventStream and Listing

A stream of `EventStream` is `Open`, then in turn `CheckRule`, `SelectOps`, one `Send`
per frame, and `Sleep`; `Break` drops the connection at any place, with what is left
of its page. `stream[s].resumes` tells the two kinds of client apart: one comes back
with the last id it saw, the other (EventSource in the SDK) with the URL it first
opened. `Drop` and `CreateAgain` give operation ids a second time. Writes are atomic,
for `JsonDb` has shown that ids are given under the write lock. `ops` and a page are
sets whose elements carry their id; `FirstPage` is the query's ORDER BY and LIMIT, and
`Send` takes the lowest id that is left.

`Listing` keeps the two orders a page is cut from: `updated_at` descending, and the
query's own sort, which is stable and raises on values of two kinds. `Before` is the
two together, and `Answer` puts the match with i - 1 others before it in the i-th place. `Begin` takes the
stamp and `Commit` writes it, so that stamps need not follow the order of commits.

The owner's and the by-id endpoints answer from the cache, where a page is an entry by
itself under its limit and offset; the publishable key's read the table. `pages` are the
entries and `reads` what another reader has selected (`Read`) and not stored yet
(`Keep`); `Invalidate` follows a commit of the owner and by id, and nothing follows one
of a publishable key; `Forget` is the end of the ten seconds, or an eviction, at any time.
A page remembers how it fell behind the table (`behind`), and the walk collects that of the
pages it was given in `since`: a key wrote ("key"), a commit had not invalidated
yet ("open"), a page was selected before a commit and stored after it ("late").

### CloudRegistry

`chats` is Telegram's side of a chat: absent, there, or marked in its description.
Every endpoint that makes, connects, disconnects or scans clouds is a chain of steps
with a call of Telegram between its transactions; each call may raise, with or
without its effect. Ids of clouds are SQLite's and come again after the newest row is
deleted. A file refers to a cloud by its id, which is why a disconnection can fail.

### Accounts

`Verify` is one step, for its second SELECT runs inside the write transaction; all
other handlers read and write in two. `Flush` writes the columns that differ, so that
two misses that overlap count once and a hit can take a lock away. `misses` and
`late` are history: what a counter that is not racy would say.

### UserbotLogin, AdminTokens, AppSessions, PublicKeys, Shares

`UserbotLogin` has one lock and a holder `op`; `Fail` is an await that raises inside an
operation, and `torn` remembers that. `disk` is the account the session files log in.
`remembered` is the answer of `is_user_authorized()`, which Telethon keeps once it is
true: `EndSession`, from another device, ends the session and leaves the answer as it was or
not, and `start_login` asks for nothing else. `Misled` is a client that believes in a
session that has ended; it refuses every login until the process is started again. `waiting` is the account Telegram waits for a
password of, and outlives a cancelled flow. The module runs without a configured
administrator, the harder of its two modes: the first to log in is claimed.

`AdminTokens` reads the epoch and writes it in two steps, spends a link in three and
starts in two transactions. `AppSessions` has the server's handlers and the SDK's
calls with `Lose` anywhere between; a handler whose client is gone runs on
(`OrphanWrites`). Of what a refresh checks it keeps `revoked_at`: `expires_at` is a year
off and put off by each refresh, and `disabled_at` is read there and set nowhere. `PublicKeys` is the cache-aside lookup of a key over its row,
`Shares` a download in four steps.

### Workers

The pool is `asyncio.Semaphore`'s queue and value with the counter `active`. The
buckets have ticks for time; `debt` is history, what was given out and is not yet
refilled by time.

## Runs

Passing runs:

| Run | Shows | Bounds |
|---|---|---|
| `jsondb_overlap` | replayable log, agreeing owners, isolation, validated public data, whole batches, no resurrection, whatever overlaps | 2 requests and 1 change of rules or validator in flight, 2 documents, 2 app users, one of another database, a stranger, the owner with batches of 2; no request begins after 3 operations |
| `jsondb_serial` | the tables are the log's replay; requests refine `JsonDbAtomic` | 1 request and 1 change at a time, 2 documents, 4 operations |
| `backup` | the watermark, restorability, faithfulness; nothing stays above the watermark, and without deletions every operation reaches the chat | segments of 2, 4 operations; scene restore: 1 database, 2 principals, 2 bodies, 2 settings, 2 faults; scene progress: 2 databases, 1 collection dropped, 1 fault |
| `in_memory` | the cache's accounting, limits and promise; slots, bursts; jobs and calls end; no deadlock | 3 keys, 2 namespaces, 3 sizes, one above the limit; 4 jobs on 2 workers; 2 callers, a burst of 2, 2 attempts, waits below and above the limit |
| `cache_overlap` | how entries become stale; stale answers and revoked keys end | the scene "reads" of `MCInMemory` alone: 2 requests, 2 documents, 2 writes; no jobs, callers or addresses |
| `files` | a listed file is stored; one user's cloud has no orphans; quota and its overshoot; charges; a user's one live row of a name | both: the owner and an administrator, 3 routers, 2 names, 2 sizes, 1 dropped document, 1 rename; overlap: 2 requests, 2 messages, 1 each of failures, recomputations, crashes, a quota of one small file; serial: 1 request, 3 messages, a quota of 3; files that nobody is charged for have one size, and only the owner's charge is recomputed |
| `readers` | streams without gap or repetition, bounded leaks, delivery; walks that miss nothing, cached or not | 1 stream of any principal, pages of 2, 3 operations, 1 of broken connections, rule changes and drops, no rule change under the owner, who may read anyway; 3 documents, pages of 1; from the table, 2 writers and 3 writes, or 1 write under a filter or sort; from the cache, another reader of the page at offset 1, 1 writer with 2 writes, or 1 under a sort |
| `accounts` | uses of challenges, requests and guesses are bounded; a payment is one account | 2 requests, 2 keys, 1 contact, 2 PINs, 2 misses to the lock, 2 challenges, 2 purchases, 2 users, 1 hour |
| `clouds` | databases keep to their owner's cloud; rows and marked chats; scans are complete | 2 requests, 2 chats, 2 users, 3 rows inserted, 1 each of uploads, failures, crashes, scans |
| `access` | who gets in: the administrator alone, links and /revoke, sign-outs, limits of keys and shares | 3 people, 1 crash, 1 failure; 2 links, 3 cookies, 2 revocations; 3 SDK calls at a time of 5, 2 sessions, 1 lost message; 3 keys at a limit of 2; 1 share with a limit of 1, 2 or none, 5 downloads |

Several properties put two facts of one kind together, an exact one for requests one
at a time and what is left of it when they overlap (`QuotaOvershootBounded`,
`LimitsBounded`, `SerialRowsMatchChats`, ...). The definitions named "Mutant" beside the
model's own are the bugs the properties were tried against; each part of such a
property has one that breaks it.

Runs that find a disagreement between the code and its documents, each a finding in
`PROJECT.json`:

| Run | What happens |
|---|---|
| `jsondb_replay_race` | two overlapping writes leave a row the log does not replay to |
| `backup_lag` | operations with ids used again are never uploaded, and the lag is 0 |

The passing runs state where the code keeps its promises. Where it does not, the
same modules show it; these instances are not kept as runs. The properties are
defined in the modules, under "not given by the code" where they are stated for
nothing else. First the store, the backup and the files:

| Change | Refuted | Behaviour |
|---|---|---|
| `jsondb_serial` with two `Admins` and two changes that differ in both rules | `TablesMatchLog` | two changes of the rules mix their columns |
| `backup` | `RestoreIsFaithful` | a dropped collection comes back, for its deletion is not logged |
| `backup` | `AlwaysRestorable` | an id of two operations in one chat, and the restore gives up |
| `backup` | `EverythingBackedUp` | ids that come again after a deletion, at or below the watermark, are never uploaded |
| `backup` with one database in `Broken` | `BackedUpAtLast` | one refusing chat holds up the databases behind it |
| `cache_overlap` | `Coherent` | a write through the publishable key invalidates nothing; and with `KeyWrites = FALSE`, a read fills the cache after the write's invalidation |
| `files` | `SerialUsedIsLive` | superseded versions stay charged |
| `files` | `SerialOneLivePerName` | one at a time, two uploads through v1, a rename, a dropped document, or a user's upload next to an administrator's row make two live rows of a name |
| `files` | `SerialNothingOrphaned` | then an upload of the name fails after its message was sent, and no row leads to the message |
| `files`, serial, with two clients | `OneLivePerOwner`, `UsedCoversLive`, `NeverOverQuota` | two uploads of a name; bytes released twice; the quota checked twice against one value |
| `files`, serial, with `MaxSums = 1` | `UsedCoversLive` | a recomputation overwrites a charge |
| `files`, overlap, `ListedIsStored` without its premise | `ListedIsStored` | a crash in a deletion leaves a listed file without its message |

Then, with the constants of their runs:

| Run | Refuted | Behaviour |
|---|---|---|
| `readers` | `NoRepeat` | EventSource comes back with the URL it opened, and gets everything since then again |
| `readers` | `NothingLeaks` | a rule is tightened between the two SELECTs, or after them |
| `readers` | `DeliveredAlways` | a collection is dropped and created again, and ids start over below a client's |
| `readers` | `WalkCompleteUnsettled` | a write stamped before the walk commits during it, far behind the front |
| `readers` | `WalkCompleteDeleting`, `WalkCompleteQuery` | a deletion, or a document that enters or leaves the matches, moves the rest by a place |
| `readers` | `WalkCompleteCached`, `StaticWalkCached` | a cached page is behind the other pages: a document that moved to the front in between hides one that stayed |
| `readers` | `AlwaysAnswers` | a sort over a number and a text raises |
| `accounts` | `AccountIffApproved` without "serial" | two approvals, or an approval and a rejection, of one request |
| `accounts` | `MissesLock` without "serial" | two misses count as one |
| `accounts` | `ContactIdentifies` | two purchases of one contact make two users, and recovery raises |
| `clouds` | `RowsAreMarked`, `FileInItsChat`, `OwnRowsOnly` without "serial" | a scan records a chat that is being disconnected; ids are given again under an upload or a disconnection |
| `clouds` | `DisconnectRemovesRow` | a cloud with files keeps its row and loses its marker |
| `access` | `LoginAlwaysSucceeds`, `ForeignNeverStays` | an operation of the login is torn while a foreign session is looked at or turned away |
| `access` | `LoginSucceedsAfterEnd` | a session was ended from another device, the client still believes in it, and every login is refused with 409 until a restart |
| `access` | `AttachedOnce` | logging in again attaches the handlers again |
| `access` | `RevokeEnds`, `FreshIsGood` | a link or login under way keeps the epoch it read; a crash between the two transactions of the first start leaves no epoch |
| `access` | `BelievesLive`, `RefreshKeepsSession` | a refresh answered after a sign-out saves its session; the 401 of an old session clears a new one |
| `access` | `RevokedRefused`, `DeletedRefused` | a fill overlaps a revocation; a disconnected cloud's key stays cached |
| `access` | `WithinLimit`, `EveryDownloadCounted` | downloads that overlap count as one |
| `in_memory` with `Repeat = TRUE` | `EveryCallEnds` | callers that come back take every token from one that waits |

Some properties have such a premise in them. `ListedIsStored` holds until the process
crashes, `OvershootBounded` until somebody recomputes, `NoOrphans` and `OneLivePerOwner`
until a file is renamed (and the one of a cloud that one user fills), what is said of the
login until an operation is torn, and `LoginSucceeds` while the client is not misled.
`WalkSound` is about walks that met no page behind the table: with any one of the three
races left out of that premise TLC refutes it. `BackedUpAtLast` says, once a
collection was deleted, only that nothing stays above the watermark.

Why the bounds are enough. The races need two actors with one object between them,
and an operation before and after; a third request adds no new kind of step. Three
or four operations are a create, a change, a deletion and a write after it, and make
two segments with an overlap. Two faults strike one segment twice. The cache needs a
key more than its limit, the pool two jobs more than workers. Two messages, one of
them perhaps dropped into the chat, make every pair of requests on one file; one at a
time, the third is the upload that finds two. A walk's
pages of one put a page's end between any two documents; one cached page, the second, is
older or newer than the others, and two writes are the one that makes it so and one
during the walk; a stream's pages of two have
an end and a middle. Two misses to the lock
have a first and a last; three SDK calls are a refresh, a sign-out and a sign-in. In
the scene of the streams one trouble at a time is allowed, for each breaks the
premise of another property. What does not depend on the size of the instance is
proved for all of them where a theorem exists.

Deadlock is not checked where bounded counters stop the model and the program would
go on; `in_memory` has no such bound and checks it.

### Fairness

* `OpLogBackup`: weak fairness of the worker's own steps, `Work`. The worker is a
  loop that sleeps for its interval and always makes another pass; an exception is
  caught and logged by the loop. Nothing is assumed of writers, faults or chats, and
  a chat in `Broken` refuses for ever.
* `ReadCache`: weak fairness of `Tick` only. Time passes; no request is assumed to
  continue, so a stale entry has to end without help.
* `Workers`: weak fairness of a granted job's begin and end, of each caller's steps and
  of `Tick`. asyncio runs every task that is ready and time passes; that a job's
  coroutine and a call to Telegram end is assumed. No job is submitted and no call made by fairness.
* `EventStream`: weak fairness of each stream's own loop, `Serve`, and of `Open`: the SDK
  and EventSource reconnect by themselves. None of `Break`, writes or rule changes.
* `PublicKeys`: weak fairness of each request's next step and of the expiry of an
  entry, which are a handler that runs on and time.
* `UserbotLogin`: weak fairness of the steps under the lock, of the restart (the
  container is restarted), and of a user who keeps trying: starts a flow for the
  wanted account, enters code and password, cancels a flow that is in the way.
  This is an assumption about people, not code: `LoginSucceeds` says that the code
  does not stand in the way of such a person, except where it names how it does: a torn
  operation, or a client that is misled. No restart of a running process is assumed.
* The other modules state safety only.

## Proofs

Eight modules hold theorems, each about the specification whose run checks the same
property, for every value of its constants: any number of requests, documents, people,
chats, keys and files. A theorem named differently from its property states that
property (`PROJECT.json` `theorems` has the pairs).

Assumptions: the named ASSUMEs of the modules, all evaluated by TLC in the runs. They
say that special values are distinct (`None`, `Absent`, `Nobody`, `NoCloud`, `"issued"`),
that bounds are naturals and limits positive, that there is a client and there are
finitely many, that bodies are documents, that writers are app users or none, and that requests have the shape the routers accept. Nothing is
assumed about how requests overlap, except where a theorem says so.

| Module | Theorem | Property |
|---|---|---|
| `JsonDbProofs` | `TypeCorrect`, `AlwaysReplayable`, `OwnersAlwaysAgree` | `TypeOK`, `LogReplayable`, `OwnersAgree` |
| | `Isolation`, `BatchesAreWhole`, `DeletedStaysDeleted`, `OnlyValidData` | the action properties `OwnerIsolation`, `CommitsWhole`, `NoResurrection`, `PublicDataValidated` |
| | `LogIsTheDatabase`, `RequestsAreAtomic` | `TablesMatchLog` and the refinement `AtomicSpec`, with one request at a time |
| `BackupProofs` | `MarksAreSound`, `ChatsRestore` | `MarksSound`, `ChatRestores` |
| `ReadersProofs` | `LeakIsBounded`, `NothingMissedOrRepeated`, `WalksAreSound` | `LeakBounded`, `NoGapNoRepeat`, `WalkSound` |
| | `EveryWalkIsSound` | what `WalkSound` says, of all behaviours of `Listing` |
| `FileStoreProofs` | `RowsDoMatchMessages`, `OvershootIsBounded`, `ChargesDoCover`, `UserHasOneOfAName` | `RowsMatchMessages`, `QuotaOvershootBounded`, `SerialUsedCoversLive`, `SerialOneLivePerOwner` |
| `CloudRegistryProofs` | `OwnersKeepTheirClouds`, `ScansFindAll`, `SerialRowsDoMatch` | `DatabaseCloudIsOwners`, `ScanFindsAll`, `SerialRowsMatchChats` |
| `AccountsProofs` | `UsesAreBounded`, `PaymentsBuyOne`, `GuessesAreBounded` | `UsesBounded`, `SerialAccountIffApproved`, `GuessesBounded` |
| `AccessProofs` | `AdminIsTheOnlyOne`, `FlowsLogInTheirOwn` | `OnlyTheAdmin`, `FlowLogsInItsOwn` |
| | `LinksAndCookiesDoEnd`, `SignOutDoesHold`, `EndedDoStayEnded`, `LimitsAreBounded` | `LinksAndCookiesEnd`, `SignOutHolds`, `EndedStaysEnded`, `LimitsBounded` |
| `InMemoryProofs` | `WorkersStayBounded`, `CacheStaysBounded`, `StaleByKnownRacesOnly` | `WorkersBounded`, `CacheBounded`, `StaleOnlyByRace` |
| | `CacheKeepsItsPromise` | `PromiseKept`, the refinement of `ForgetfulMap` and the order of evictions |

Every proof has the same shape: an inductive invariant, a lemma per action, and a
last temporal step. What follows is why each invariant is what it is.

### JsonDb

`IInv` carries the first three properties. None of them is inductive, because what a
transaction writes was decided when its row was read. `IInv` adds:

* `SessionOK`: what each handler's local state can be at each place, and that a
  handler holds the lock exactly from its first flush on;
* `ObjectOK`: what a session loaded is still true of the row's existence and owner,
  in the table and in the transaction. Rows are never removed and owners never
  change, which is what saves the check made before the lock;
* `RowsKept` and `Idle`: how the transaction's tables relate to the committed ones;
* `LogOK`: the properties of `log` also for the open transaction's `tlog`.

The data of a loaded row is *not* in `ObjectOK`, because it may be stale: that is the
run `jsondb_replay_race`.

An action property says something of the step that commits, so each needs to know what
the open transaction has done so far. `GuestOK` says whose rows a guest has changed
(`Isolation`). `TransactionOK` says that `tlog` is `log` and the operations of the writes
done, in order, and that no other row differs (`BatchesAreWhole`), and which row came
back to life by a write that may do so (`DeletedStaysDeleted`). `ValidOK` says that
what a public router wrote passed the validator its request loaded, merged patches
included (`OnlyValidData`).

`LogIsTheDatabase` and `RequestsAreAtomic` assume `OneAtATime`: one client and one
administrator, as `jsondb_serial` has them; with more, the first is refuted. Documents,
batches, fields and the log's length stay arbitrary, and the two may still overlap each
other, time out and crash. `SerialInv` is `Fresh`, the object a request holds is the row
as it is, and `Replayed`, the log folds to the tables, for the open transaction too. `AtomicOK` says that the open transaction is
the abstract request applied up to the write reached; then `Commit` is one step of
`JsonDbAtomic`, and every other step a stutter.

### Backup, readers

`BackupInv` is the types, `Above` (each range marked ends at or below the watermark, and
the segment in the worker's hands begins above it) and, until a collection is deleted,
`Covered`: what is at or below the watermark is in a posted segment, and the worker's
segment has all that lies between the watermark and its last id, below which no
later operation can get. After a deletion ids are used again and `Covered` is lost,
which the run `backup_lag` shows.

`ChatsRestore` is about the scene where nothing is deleted, and needs a history: the rows
that were written over are nowhere in the state. `Told` says that there is one: rows
`A`, one for each write of the log, such that each was made by its operation of
the row that `Stood` before it, and the documents are the last. The rows need not be kept,
only to exist, and each request adds one (`WriteLogs`). `Ruled` says the same of
settings, which the log has in full. `ChatInv` says that a segment has all
operations of its range, that a chat has all up to the end of each of its segments, and that
a snapshot's settings are not the default only if the log has a change of them.

A restore is then followed operation by operation (`RebuiltAlong`). What is sorted by id has no gaps
(`SortedIsOrderly`), so that the next operation is either the one after those replayed or
the last of those again (`NextOne`): overlapping segments repeat an operation only next to
itself. Replayed on a copy of the row it was written on, an operation makes a copy
of what it made (`FirstReplay`); on a copy of what it made, it does too, with a larger
version (`ReplayAgain`: a patch merged twice is merged once). `Rebuilt` says this for all
documents; that a collection is there from its first operation on; and that its settings
are right already or a change of them is still to come. With no lag the last
operation replayed is the last there is.

A stream's leak is bounded by `Allowance`, a page for each change of the rule and each drop.
`LeakInv` says of each stream either that what it holds may be shown under the rule
that is in force, or that a page of the allowance is not used yet. `NoGapNoRepeat` is about
streams while nothing was tightened or dropped; `Steady` says that a client has got
exactly the visible operations up to its cursor, that those of its page are next,
and that ids and the order of writing agree.

A walk over pages: `Ranks` says that in a finite linear order exactly one element has
i - 1 before it, `AnswersOrdered` that `Before` is one on the matches of a query that
can be sorted, and `AnswerSound` concludes that a query's answer is its matches, each once.
`ListingInv` then has two parts. `ToCome`: a document that stayed and was not written is
seen, or has at least as many before it as the walk's offset; for a write that began
after the walk stamps later than every such document (`Stamps`), so that it can only add to
what is before it. `SoFar`: while nothing is written, what is seen is how the answer begins.
`CacheFresh` brings the cached pages in: a page that nothing has left behind, kept or just
selected, is the answer's slice as the table stands. So a walk that was given no page left
behind was given what the table would have given (`Turned`). TLC tries the cache with whole
collections and one sorted query and cuts writes short (`Enough` of `MCReaders`);
`EveryWalkIsSound` is about `Listing` without these cuts.

### Files, clouds

`QuotaInv` adds to the charge of a user the sizes of the uploads that passed the check
and are not charged yet; the last to pass the check saw the charge under the quota, so
that the others are all that can be above it. `RowsMatchMessages` needs that messages in
flight, in the chat and in rows are distinct. `SerialInv` follows the single request
from its message to its charge: `OneOwner` says that the upload in progress has found the
one live row its owner has of the name, `LeadTo` that in a cloud of one user each message
is of a live row, of one a row replaced, waiting to be ingested, or the request's own.

`DatabaseCloudIsOwners` needs with the types only that ids are bounded; what has to be shown
is that an id comes again only after no database names it (`Removes`, `Adds`). `ScanInv` says that a scan has each chat it
must not miss still before it, in its hands, or in a row. The serial `SerialInv` says which row
or marker may be missing and which request is about to write it.

### Accounts, access

Where requests that overlap may exceed a limit, the invariant counts what was granted
together with the requests that are on their way to be granted, and bounds the sum:
`OpensInv`, `PendsInv`, `LateInv`, `KeysInv`. With one request at a time,
the parts under `regime = "serial"` say that a request writes over what it loaded
(`BoughtInv`, `MissesInv`, `ServedCounted`, `EpochsInOrder`, `SdkInStep`).

`LoginInv` says that what rests in the session files between operations is the
administrator's unless an operation was torn (during one, a foreign account's session is there
until it is turned away), and that a flow that owes a password is the one Telegram waits
for. `SpentByOne` ties a link that is spent to the one request that opens a session
with it. `OneRefresh` and `FewTokens` bound the tokens of a dead session by those lost on
the way. What is proved of a signed-out session under overlap is that bound alone; that
the SDK believes in no dead session is about one call at a time. A share's counter never
passes its limit, whatever overlaps; the downloads served do (`WithinLimit` is refuted), and
keep to the limit one at a time.

### Workers

`PoolInv`: a job waits once, and slots free and slots held are all the slots; so the
slot handed to the first waiter is the slot of a job that held none. `BucketInv`: what
a bucket could give out now and what it gave out that time has not refilled are
together no more than a full bucket.

### Cache

`CacheInv` is the type, `Exact` and `Total` (the counters are the sums over the entries
held), that neither limit is exceeded, and that the order the code keeps is a part of
`recent`: what it evicts first is what was used longest ago. Each step of `TtlCache`
is then a step of `ForgetfulMap` or a stutter, as every eviction only forgets. The sums are
compared by parts (`SumParts`): what a replacement takes off and adds.

`StaleByKnownRacesOnly` goes through the steps: an entry that was good and is not must have
been written, by a fill that holds an older row, or what it was read from must have
changed. Then the step is a commit, whose `Invalidated` has to name every key the change can
show in (the document, the pages of its collection, all of them for a batch), or a write
through the publishable key, which invalidates nothing. `ReadInv` has only what this needs.

### Sums, extremes, folds

The library's induction theorems are about operators and the provers here cannot
instantiate them. What needs induction is proved in two other ways: from the least
counterexample, as `WFMin` gives it (greatest and least ids in `Lowest`, `Highest`,
`Greatest`; sums of sizes in `FileStoreProofs`), or by carrying the function that
witnesses a fold along with the log as it grows (`DocsFold`, `RulesFold`, `WritesFold` in
`JsonDbProofs`).

The restore's fold is followed from the least counterexample too (`RestoreFolds`,
`RebuiltAlong`).

### Only model-checked

Liveness, which TLAPS does not reach: `BackedUpAtLast`, `StaleAnswersEnd`, `EverybodyServed`,
`Delivered`, `LoginSucceeds`, `DeadKeysForgotten`. Every invariant and action property of the passing runs is proved.

## Plan

Done: the modules above; theorems about the store, the backup, the readers, the cache,
the files, the clouds, the accounts, the sign-ins and the workers.

Next, theorems: what is known of the watermark and the chats after a deletion, when ids are
used again.

Next, compositions: `CloudRegistry` with `FileStore`, whose uploads race with a
disconnection; drop and re-creation of a collection under open sessions of `JsonDb`.

## Not modelled

* Bytes: encodings, compression, signatures, captions, segment formats and checksums.
* Projections and exports of the JSON database: reads with no effect; of queries, paths
  into nested values.
* Times to live of cookies, links and tokens; limits per address outside `Workers`.
* More than one server process: the program is started as one, and its cache, worker
  and Telegram session assume it.
* SQLite and SQLAlchemy themselves, Telethon and Telegram: taken as they are used,
  marked external in the map.
* The components marked `not_modelled` in `PROJECT.json`, with the reason for each.
