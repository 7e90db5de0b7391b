# Verification of mangako-api

mangako-api is an Axum service (`src/src`) that keeps a catalog of manga, covers
and volumes in PostgreSQL, fills it from MangaDex, mirrors cover images, and
searches offers at Mercado Livre. Several instances may run against one
database. This directory holds TLA+ models of the parts whose correctness
depends on the order of events, the TLC runs that check them on small
instances, and TLAPS proofs of their main properties for all instances.

Paths below are relative to the repository (`src/`); `mangadex.rs` and its like
are in `src/src`.

## Inventory

| part | code | state it keeps | operations | modelled by |
|---|---|---|---|---|
| MangaDex gateway | `mangadex.rs` 70-237 | semaphore, `next_request_at`, circuit breaker | `acquire`, `allows_request`, `record_result`, `send` | `MangaDexGateway` |
| Volume synchronisation and edits | `manga_service.rs` 187-257, 377-470, 644-692, 838-888, 1374-1511 | `manga_volumes`, `manga_source_syncs` | refresh, create, update, delete, invalidate | `VolumeSync` |
| Mercado Livre tokens | `mercadolivre_oauth.rs`, `mercadolivre.rs` 31-72 | one row of `mercadolivre_oauth_tokens` | `initialize`, `token`, `failed`, `mark_rejected`, `authorized_get`, refresh loop | `OAuthTokens` |
| Response cache | `operations.rs` 310-548 | entries by URI, `total_bytes` | `get`, `insert`, `invalidate_path`, `clear`, `cache_get_response` | `ResponseCache` |
| Rate limiter | `operations.rs` 145-215, 309-318 | request times by client address | `allows` | `RequestPath` |
| Metrics | `operations.rs` 34-128, 217-307 | hourly rows, two counters | record, snapshot | `RequestPath` (the await of the gateway's metrics write is in `MangaDexGateway`) |
| Cover mirror | `cover_storage.rs`, `main.rs` 18-38 | `cover_assets`, `cover_download_schedule`, files, advisory lock | backfill, claim, slot, download, store, record, retry, requeue, upload | `CoverMirror` |
| Catalog reads and manga synchronisation | `manga_service.rs`, the rest; `manga.rs` 773-951 | mangas, localizations, aliases, creators, covers | get, search, fallback, upsert, create, update, soft delete, covers by hand | `Catalog`, an implementation of `AtomicCatalog` |
| Offer search | `mercadolivre.rs` 74 ff. | none | filter and rank product names | no: text matching without state |
| Handlers, errors, OpenAPI | `api.rs`, `manga.rs`, `shopping.rs`, `error.rs`, `openapi.rs` | none | translate HTTP to service calls | no: stateless |
| Authentication | `auth.rs` | none | compare a bearer token | no: stateless |
| Configuration, start-up, migrations | `config.rs`, `main.rs`, `db.rs`, `migrations/` | none after start | read once | no: sequential; the unique indexes and the token seed are part of the models that need them |

How the parts meet. A request passes the rate limiter, the metrics layer and the
response cache, then a handler of the catalog. The handler reads PostgreSQL and,
when its data is missing or stale or the request says `refresh=true`, goes
through the gateway to MangaDex and upserts what it gets; if the gateway refuses
or fails it falls back to what is stored. A successful request other than a GET
clears the cache of its own process only. The cover mirror is a background task
of each instance, one of which works at a time. The token store is used by
offer searches and by a refresh loop in each instance. All concurrency is that of
async tasks (a handler can be dropped at any await when its client disconnects)
and of instances that share the database.

### What is hard, and what makes each part correct

* **Gateway.** The breaker is told the outcome of a request only after an awaited
  metrics write; a dropped future never tells it. Correct means: no permit is
  lost; slots are an interval apart; failures in a row are counted to the
  threshold; an open circuit is a silent one; the half-open probe is alone;
  throttling silences the process for a cooldown; the circuit opens and closes
  again; every call returns.
* **Volume synchronisation.** A refresh is a long sequence of page fetches and
  small transactions, interleaved with other refreshes, with edits by hand, and
  with MangaDex changing its listing. Each upsert looks up a row in one statement
  and writes it in another. Correct means: no duplicates; an undisturbed refresh
  leaves the catalog equal to the listing; a row made by hand is not reconciled
  away; an edit invalidates the stamp; every refresh ends.
* **Tokens.** Mercado Livre rotates refresh tokens: an exchange consumes the old
  one whether or not its answer arrives; the row lock that serializes exchanges
  belongs to a PostgreSQL session, which may end while its caller awaits the POST.
  Correct means: two exchanges at once only after a session ended; nothing used
  before it is committed; nothing rolled back; a token that works is not
  exchanged; a stored failure keeps its token from being posted until the cooldown
  is over; the stored grant stays live.
* **Cache.** The mutex is not held while a handler runs. Correct means: exact
  byte count, both limits kept, an edit shown to those who ask after it.
* **Rate limiter and metrics.** `now` is read before the lock, so a request may
  prune and be counted with a time older than the table's youngest; all of it is
  in memory, while the hourly counts outlive a restart. Correct means: no more
  than the limit per client in a minute; nobody refused without cause, nor for
  ever; a bounded table; at most one fallback per catalog request; a week's total
  that misses nothing.
* **Cover mirror.** The advisory lock belongs to a PostgreSQL session and is gone
  as soon as the session is, whatever the worker is doing. Files are written
  before the row. Correct means: one download at a time, never two of one cover;
  starts an interval apart over all instances; a late worker records nothing; a
  ready row has its files; pauses are kept; every queued cover is mirrored once
  its downloads stop failing.
* **Catalog reads and synchronisation.** A read upserts what MangaDex answered in
  one transaction of many statements under READ COMMITTED, of a search one after
  another, beside edits, deletions and covers added by hand. Creators are shared
  by manga and locked in the order of their credits; the primary flag is cleared
  in one statement and set in another; the limit of covers is counted before the
  INSERT. Correct means: a manga changes as a whole; it goes back to an older
  version only if upserts overtook each other; deadlocks are over creators, or over
  covers of which several requests make another primary, and every request ends; the limit is exceeded by no more than what counted at
  the same time.

`PROJECT.json` lists every hazard at its line with the properties that cover it.

## Modules

| module | content |
|---|---|
| `MangaDexGateway` | limiter, breaker and `send`, with their callers and time |
| `VolumeSync` | one manga's volume rows, refreshes, editors and MangaDex's listing |
| `OAuthTokens` | the token row, its callers in all instances, and Mercado Livre |
| `ResponseCache` | the cache of one process and the requests through it |
| `CoverMirror` | the assets, the workers of all instances, uploads and the files |
| `AtomicCatalog` | what the catalog promises of each manga, in single steps |
| `Catalog` | its manga, credits and covers, statement by statement, and MangaDex |
| `RequestPath` | limiter, fallback counters and hourly counts around every handler |
| `MC*` | sets of model values and symmetry for TLC |
| `*Proofs` | TLAPS theorems |
| `SumTheorems` | what the proofs need of folds over finite sets, proved once |

Definitions named `...Early`, `...Unlocked`, and so on, under a comment "Faulty
variant for the mutation runs", are deliberately wrong versions of the
definition that follows. Nothing in a specification uses them; put in place of
the right one, each makes a stated property fail, which shows that the
property depends on that code.

### MangaDexGateway

`phase[r]` is the await in which a call of `send` is suspended: `waiting` for the
semaphore (first come, first served: `ahead`), `sleeping` until `slot[r]`,
`sending` in reqwest, `measuring` in the metrics write. `Acquire` is the poll in
which the permit arrives and `next_request_at` is advanced, `Send` and `Refuse`
are the one in which `allows_request` is asked, `Record` is `record_result`
with the return of `send`. `AbandonWaiting` and `AbandonHolding` drop the future
at any of these awaits: the permit goes back, the slot stays reserved, and the
breaker is not told. `RecordFailure` has both branches of `record_result`, with
the cooldown ladder `min(cooldown << min(open_count, 3), max)`.

Instants are distances ahead of the present, floored at 0: the code compares
instants with now and adds durations to the later of the two, nothing else. What
the metrics write stores does not matter to the gateway; that it is an await
does.

### VolumeSync

`rows` is `manga_volumes` with its two unique indexes (the numbered-volume index
ranges over active rows, the one on `mangadex_cover_id` over deleted rows as
well); `synced` says that `volumes_last_success_at` is set and younger than six
hours. `reader[s]` holds the locals of `get_manga_volumes_inner` and
`refresh_manga_volumes`: offset, covers seen, and the row `upsert_volume` found
before it writes. `FetchCover` is a `list_covers` answer with the SELECT by key,
`UpsertVolume`, `SkipVolume` and `UpsertConflict` are the three outcomes of the
write, `Reconcile` the final transaction, `DropRefresh` any failure or
disconnection. An editor's handler is `BeginCreate` (existence check),
`InsertVolume` or `InsertConflict`, then `Invalidate`; `UpdateVolume` and
`DeleteVolume` commit in one statement and then invalidate.

A page holds one cover instead of fifty, so a page's transaction is one
upsert: within a page the upserts commit together, and any interleaving of
larger pages is one of these with fewer stops. The key stands for volume number
and locale. File names and assets are left out; an uploaded volume behaves as a
manual one here. Covers have an `updatedAt`, as MangaDex sends it; without one
(`$9 IS NULL`, `manga_service.rs:1455`) an upsert overwrites whatever the row holds,
which the model leaves out.

### OAuthTokens

The row is `access`, `refresh`, `due`, `cooling`, `reauth`; `lock` is the row
lock of `SELECT ... FOR UPDATE`. `at[c]` is where a caller is in
`access_token`/`after_unauthorized`/`authorized_get`. Tokens are generations, so
that "newer" has a meaning; the code only compares them for equality. `Grant`,
`GrantLate` and `Revoke` are Mercado Livre.

The lock lasts as long as its session. `LoseSession` ends that of a caller between
`StartExchange` and its commit: the row is free at once, and the caller, which has
no statement under way, goes on awaiting the POST (it is in `broken`). Its next
statement fails: the UPDATE of `failed()` (`Failed` then stores nothing) or the one
of the new tokens (`GiveUp`). `Leave` is a disconnection, a stopped instance or a
statement that fails: the transaction rolls back and the lock is released. A POST
it leaves behind is a `straggler`, an exchange nobody waits for that may still be
made, beside any other. `LoseAnswer` and `Garble` are the two ways an answer is
lost, `Unreachable` and `Refuse` the failures before the exchange was made (any
refresh token may be refused for good, as `invalid_client` counts too); all four
go through `failed()`.

`CoolDown` may come any time after a failure was stored: `retry_after` is sixty
seconds from `now()`, the start of the transaction, which precedes the wait for the
row lock and the POST. `Reseed` is the operator's procedure of `README.md:143-148`.
Each instance's refresh loop is a caller that asks for a token and has no use for it.

### ResponseCache

`entries` and `totalBytes` are `CacheState`. A GET is `Hit`, or `Miss`,
`Respond` (the handler read the catalog) and `Store` or `Bypass`; `Refresh` is
the `refresh=true` route; another method is `BeginEdit`, `CommitEdit`,
`AnswerEdit`. `Fail` is an error response or a dropped future at any point, also
after the commit. The eviction loop of `insert` is the recursive function in
`Survivors`; entries inserted at the same instant may go in any order. The
catalog is the number of edits committed to it.

### CoverMirror

`status`, `stored`, `attempts`, `nextAt` and `lease` are the columns of
`cover_assets` by source URL; `uploaded` is its rows without one; `pacing` is
`cover_download_schedule`. `at[w]` is where a worker is in `process_next`:
`Claim` is the lock with the claiming UPDATE, `TakeSlot` the UPDATE of
`wait_for_download_slot`, `Start` the GET, then `Downloaded` or `DownloadFails`,
the steps of `store_upload`, and `RecordReady`, `RecordConflict` or
`RecordFailure`, each with the unlock that follows it. The lock and the claim are
one step, and so are the record and the unlock, because nothing that another
process can do between the two changes what either does. `GiveUp` is a statement
of a session that PostgreSQL has ended (`LoseSession`); `Crash` is the end of an
instance. `Enqueue` is a catalog upsert, `Backfill` the start-up one.

`store_upload` is shared by workers and uploads: the original is written under
another name and renamed (`StoreOriginal`, one step), the thumbnail by
`fs::write`, which creates or truncates (`CreateThumbnail`) and then writes
(`FinishThumbnail`); `Tear` leaves it partial. An upload ends with
`record_upload`; what its handler does with the asset afterwards belongs to the
catalog.

Time does not pass (`Tick`) while a worker's timer is due or its slot is being
taken (`Urgent`): the sleep of `wait_for_download_slot` ends on time, the GET
follows at once and ends with its timeout (`cover_storage.rs:221-239`). Neither
tokio nor PostgreSQL guarantees that. A worker that is late only delays itself, but
its download may then start less than an interval before the next one
(`StartsSpaced`), as with the gateway's sleepers, or outlast its lease
(`OneDownloadPerCover`).

Instants are distances from now: above 0 in ticks, below 0 in their order only,
which is all that `ORDER BY next_attempt_at` looks at. The directory of files and
the clock are shared by all instances, as in the deployment. Keys of files stand
for contents. `AbandonUpload` may cut a thumbnail short on a mere disconnection;
`tokio::fs` would finish that write on its own thread, so the model allows more.

### Catalog and AtomicCatalog

`row` is `mangas`: whether it is shown, as MangaDex has it or edited, or deleted
(`deleted_at`), `mangadex_version`, and `mangadex_last_volume` as the version at
which it was true. `details` is the version of localizations, aliases and credits,
which `upsert_localizations`, `upsert_aliases` and `upsert_creators` delete and
insert anew; `covers` and `flagged` are the active general covers and those with
`is_primary`. `at[r]` is the statement that is next for a request, `queue[r]` the
manga it has yet to upsert (one, or the results of a search), `seen[r]` the rows
its UPDATE of `is_primary` found, `held[r]` those it has locked by now,
`credited[r]` how many creators it has upserted.

A read is `GetStored` (found and fresh), or `Ask`, then `Answer` or
`AnswerLocally` (MangaDex failed, or does not know it). An upsert is `UpsertRow`
(it locks the row; titles and aliases follow under that lock), `ClearFlags`,
`FlagCover`, one `Credit` per relationship, and `Commit`. Then `Loaded` reads the
manga again, or `LookUp` and `Learn` are `populate_latest_volume`. Another method
is `BeginEdit` and `EditRow`; `CreateManga`; or `BeginCover`, `LookForFlags`,
`ClearFlags` and `InsertCover`. `ClearFlags` is a step per row: PostgreSQL locks the
rows of an UPDATE one by one, as it meets their versions in the table, and waits
with those before locked; any order is allowed. `RefusePrimary` is a violation of
`manga_covers_one_primary_per_manga_idx`, `Deadlock` PostgreSQL's choice of a
victim, `Leave` a client that disconnects or any other error (a slug that is
taken, a connection lost): the transaction rolls back.

What a transaction wrote becomes visible at its commit, so the tables change in
`Commit` only; the locks it holds until then are functions of where it is
(`HasRow`, `HasCovers`, `HasPrimary`, `HasCreators`), and `Blockers` says whom the
next statement waits for. A statement that waits for nobody is merged with the
one before it. The KEY SHARE locks of foreign keys do not conflict with an UPDATE
that leaves keys alone, so an INSERT of a cover does not wait for an upsert of its
manga. The asset that `upsert_cover` queues and the sync row belong to that manga
alone and are locked under the lock of its row; `invalidate_volume_sync` is a
statement of its own, holds nothing and only waits for a commit.

`AtomicCatalog` has one variable, an entry per manga (state, version of what is
published or -1 if metadata and details differ, last volume, kind of primary
cover), and one step per promise: `Publish` is the only way back from deletion
and takes metadata, titles, credits and cover together; `Learn` only fills a gap;
`ReplacePrimary` never leaves a manga without a primary cover that had one.
`Catalog` implements it with each entry a function of its tables (`EntryOf`).

### RequestPath

`at[r]` is where a request is between the layers of `build_router`: `stamped`
after `Instant::now()` of `allows`, `admitted` after the critical section
(`Admit`, `Refuse`), `handling` after `track_catalog_request`, `answered` before
the UPSERT of `track_api_request`. `recent` is `RateLimiter.clients`; an address
without times has no entry, as `retain` leaves it. `MaxDelay` bounds the time
between the clock and the mutex; the code has no such bound, and the properties
say how the limit depends on it. `hourly` is `request_count` by bucket, `Total`
the query of `snapshot_last_week`; `Restart` loses everything else.

`fallback` counts first, and `snapshot` loads `catalog_requests` before
`fallback_requests`: a reported rate may exceed 1 by the requests that came in
between. The counters are taken to be sequentially consistent, although the code
uses Relaxed; each counter on its own is exact either way. One clock stands for
that of the process and that of PostgreSQL. Authorization comes first and keeps
no state.

## Runs

| run | instance | what it shows |
|---|---|---|
| `GatewayDeployed` | 1 permit (as deployed), 3 callers, all may disconnect | the counters stay in range; an open circuit is quiet; throttling is followed by a cooldown of silence; only a caller that leaves in flight wedges the breaker |
| `GatewayPatient` | 2 permits, 3 callers that stay, fairness | requests are spaced, every call returns, and requests keep being tried |
| `GatewayWedged` | 1 permit, 2 callers that may disconnect | violated: `NotWedged` |
| `VolumeSyncReaders` | 2 refreshes, 2 covers, 2 keys, 1 change at MangaDex, fairness | an undisturbed refresh mirrors the listing; refreshes end |
| `VolumeSyncEdits` | 2 refreshes, 1 editor, duplicate keys in the listing | no duplicates, and volumes made by hand stay |
| `OAuthFaults` | 2 callers that may vanish, sessions that end, 3 generations, fairness | two exchange at once only after a session ended; committed before use; a failed token is not posted in its cooldown; a live grant; no needless exchange; every call ends |
| `CacheEdits` | 2 requests, 3 pages of 2 paths, 2 edits | exact byte count, limits, edits shown |
| `CoverWorkers` | 2 workers, 2 covers, 1 fault, fairness | downloads are serialized, spaced, never two of one cover; nothing ready is undone; queued covers get mirrored |
| `CoverUploads` | 1 worker, 1 upload, 1 cover, 2 images with one thumbnail, 2 faults | ready rows have their files |
| `CatalogCovers` | 2 requests, 1 manga with its cover, 2 versions, limit of 1 cover, 3 by hand, edits | `AtomicCatalog` is implemented; versions; the limit; who may deadlock, row by row |
| `CatalogCredits` | 2 requests, 2 manga that name 2 creators in opposite orders, searches of both, 1 local manga, fairness | every request ends, deadlocks included |
| `RequestPath` | 2 requests, 2 addresses, 2 per window of 3, 1 place in the table, a delay of 1, restarts | admissions, refusals, fallbacks, the week |

### Why the bounds are enough

* Gateway: three callers are a holder, a waiter behind it and one that comes and
  goes, so a permit can be passed on, dropped and contended. The interval is 2
  ticks, so a slot can be partly gone. Cooldowns span the whole ladder of
  `open_count`: the defaults are 5 and 60 minutes, so 8 times the first stays
  below the maximum, as in `GatewayDeployed` (2 and 24 ticks); in
  `GatewayPatient` (1 and 5) the maximum caps the ladder. `MaxBacklog` only
  bounds how far disconnecting sleepers can push the pacing clock, which nothing
  in the code bounds.
* VolumeSync: two refreshes make every pairwise interleaving; two covers and two
  keys allow a move, a swap of keys between a row and a cover, a duplicate and a
  removal; three rows are the two covers' rows and one made by hand. One change
  at MangaDex can fall between any two steps. The edits run has one key, since
  conflicts need two claimants of one key. It has one edit; with two, so that a
  cover is deleted, its key taken by hand, and a refresh meets the deleted row, TLC
  found no violation in 5.9 million states, which take longer than a run should.
* OAuth: two callers suffice for every property, which speaks of one caller and
  whoever interferes, with a straggler beside them; three generations are two
  exchanges, or one and a reauthorisation, one of them lost. The proofs have no
  such bound.
* Cache: three pages exceed the two entries allowed; lengths 1, 3 and 4 with
  4 bytes in all and 3 per entry let both limits, and the entry limit, bind, and
  make one insertion evict one or two; two edits can be answered out of order.
* Cover mirror: two workers are one that holds the lock and one that waits for
  it or takes it when the other's session ends; two covers are one that fails
  and one that must not starve. One fault (crash, lost session or failed write)
  is enough to have two workers at work at once; with two faults, and without
  liveness, TLC found no violation in 2.5 million states. In `CoverUploads` the
  values of Retry-After are none, one below and one above the pause of 3, and
  the ladder reaches its maximum within the three attempts that are told apart.
  `Lease` (4) is larger than `Timeout` (1) and the slots two workers can have
  taken, as two minutes are larger than 30 seconds and a slot or two.

* Catalog: two requests make every pair of handlers, statement by statement; a
  cycle of two is the shortest deadlock, and the proofs are for any number. One
  manga suffices for covers and versions, which never meet those of another; its
  cover and one by hand are two rows, which two requests lock in opposite orders;
  two are needed for creators and searches. A limit of 1 with three covers by
  hand is exceeded as 16 is. The manga of `CatalogCovers` credits one creator
  twice, as author and as artist.
* RequestPath: two requests are an older and a younger clock at the mutex. A
  window of 3 with a delay of 1 leaves a shorter window that is not empty; the
  limit is reached, the table of one address is full, and times expire before
  the clock's bound. An hour of 2 ticks and a week of 2 put the week's start in
  the middle of a bucket. One counted request shows it in or out of the total.
  The clock's bound is the only deadlock.

### Fairness

`Step(r)` of the gateway is weakly fair: tokio polls a woken task, the semaphore
is first come, first served, and the client's timeout ends an exchange. Time
passes. Nobody is obliged to call or to disconnect. A refresh's steps are weakly
fair for the same reasons (`list_covers` answers or fails; a failure is a step as
well). In the token store exchanges and GETs have timeouts (weak fairness of
`Answer`), and PostgreSQL queues waiters of a row lock, so that a caller for whom
the lock is free again and again gets it (strong fairness of `Advance`). In the
catalog a request's steps are strongly fair for the same reason: PostgreSQL queues
those who wait for a row, breaks a deadlock, and MangaDex answers or times out.
No fairness is assumed of faults, of editors or of MangaDex. The cache has no
liveness property: it never waits. A worker of the cover mirror is weakly fair
(`main` calls `process_next` at least every five seconds, statements and the GET
end), and time passes; failures, crashes and lost sessions are not fair, and all
but failed downloads are limited by `MaxFaults`.

### What breaks when an assumption is dropped

Each of these was found by TLC with the constants named.

* `KeepsTrying` needs callers that do not disconnect (`Abandonable = {}`). So
  would "a 429 opens the circuit": a client that leaves during the metrics write
  takes the result with it.
* `SendsSpaced` needs `PromptTimers`: the interval separates slots, so a sleeper
  polled late may send right before the next one. `StartsSpaced` needs the same of
  `CoverMirror`, where it is part of `Tick`.
* `OpenMeansQuiet` and `ThrottleSilence` need `Permits = 1`, the
  default: with two, a request let out earlier is in flight when the circuit
  opens, and its success closes it.
* `CalmRefreshMirrors` is proved without editors, `Duplicates` and `Renumbers`
  (`SettledKeys`), and each of the three breaks it in its own way:
  - with an editor it fails even if MangaDex only adds covers (two edits, one
    change): a row moved by hand to another cover's key makes that cover be
    skipped as older, and is then moved back; with `Renumbers` an edited row also
    keeps its key when its cover is adopted;
  - with `Duplicates` and `Unlists` it fails with a single refresh and two
    changes: a cover is skipped because the row of its key holds a newer cover of
    the same key; that one was unlisted meanwhile, so reconciling deletes the row
    and the skipped cover is shown nowhere until the next refresh;
  - with `Renumbers` and two refreshes it holds for one change only: a lookup of
    an earlier listing is written over a later one.
* `OnlyRemovedReconciled` fails with two overlapping refreshes even when MangaDex
  removes nothing (`Unlists = FALSE`, one change): the one that began earlier
  reconciles the cover that the later one has just added.
* `LoneRefreshCompletes` fails without any editor too, for one refresh at a time
  with `Renumbers` and two changes at MangaDex.
* `FreshAfterEdits` fails with `EditorsLeave` too: the edit is committed and its
  handler ends before `invalidate_volume_sync`.
* `OneDownloadPerCover` fails with `Lease = 3`: a worker whose session ended still
  waits for its slot, behind others, when its lease ends. With one fault, an
  interval of 1 and a timeout of 1, 3 is the largest lease that `LeaseSuffices`
  refuses, so that condition of the theorem cannot be weakened. The code leases
  for 120 seconds, with an interval of 1 and a timeout of 30, so up to 88 faults
  are covered; nothing in it bounds their number.
* `EventuallyMirrored` speaks only of covers whose thumbnail no other asset has.
  Two source URLs with the same bytes meet the unique `storage_key` or
  `thumbnail_storage_key`: the second keeps its lease (`RecordConflict`), and is
  downloaded again after every lease, for ever.
* `ReadyServesFiles` excepts thumbnails of which a write was cut short: the file
  is there, `fs::metadata` finds it, and nobody writes it again.

* `AdmissionsBounded` fails for the whole minute: a request with a younger clock
  prunes what one with an older clock, next at the mutex, should still count.
  `RefusedOnlyIfBusy` fails without the delay, by a time that was recorded behind
  a younger one and is dropped with it.
* `OlderOnlyIfOvertaken` without its exception fails with two reads of one manga,
  of which the one that MangaDex answered first commits last.
* `RequestsEnd` fails under weak fairness: two creators may be locked again and
  again by requests that come and leave.

## Divergences found

The first has a violation run, whose counterexample is the demonstration. The
others are stated by a property that does not hold, named in each entry; TLC
refutes it when a configuration adds it.

1. **A dropped probe wedges the breaker** (`mangadex.rs:111`). `allows_request`
   raises `half_open_probe_active` before `send` awaits; only `record_result`
   lowers it. A client that disconnects meanwhile leaves it up, and every later
   request of the process is refused: by `DropsAloneWedge` and `WedgeIsForGood` this
   is the only way, and there is none back. `README.md:82`: "After a cooldown, one
   half-open probe is allowed." Run `GatewayWedged`.
2. **A refresh undoes an invalidation** (`manga_service.rs:884`). The stamp is
   the time of the refresh's last transaction, so an edit made while it ran is
   not followed by another. `README.md:73`: "is invalidated by local catalog
   edits". `FreshAfterEdits` of `VolumeSync`: one refresh, one edit.
3. **A replaced volume blocks all refreshes** (`manga_service.rs:1444`). A
   deleted row keeps its `mangadex_cover_id`; when a volume was made by hand
   under the same key, the refresh gives it the same cover id and violates the
   unique index, every time. `README.md:176`: "`refresh=true` forces a complete
   refresh and reconciles removed covers". `LoneRefreshCompletes` of `VolumeSync`:
   one refresh, two edits.
4. **A synchronisation ends a pause** (`cover_storage.rs:142`). Every upsert of a
   cover queues its asset again with `LEAST(next_attempt_at, now())`, so a
   refresh of the manga makes a throttled cover due at once. `README.md:94`:
   "`429` and `403` pause a failed cover for at least 30 minutes".
   `ThrottlePause` of `CoverMirror`: one worker, one legacy cover, no faults.

More, of the same kind:

* Paging by offset loses a cover (`manga_service.rs:866`). A removal at MangaDex
  between two pages shifts the rest; a cover that is listed is not seen and its
  row is soft-deleted. `OnlyRemovedReconciled` of `VolumeSync` states the contrary
  and TLC refutes it with one refresh and one change.
* A fresh token that is rejected may be exchanged again before the mark
  (`mercadolivre_oauth.rs:100`: "must not cause a refresh storm"). One caller
  exchanges after a 401, gets a 401 with the fresh token too and is about to mark it;
  another, which took the fresh token from the row, gets its first 401 and exchanges
  it; the mark then names a token that is not stored any more, and no cooldown
  begins. `NoRefreshStorm` of `OAuthTokens`: two callers, no faults.
* A lost answer leads to reuse (`mercadolivre_oauth.rs:150`). A timeout after the
  exchange was made is stored as transient, and the consumed token is posted
  again a minute later. The comment at line 181: "do not blindly reuse it".
  `NoBlindReuse` of `OAuthTokens` states it and TLC refutes it with two callers;
  `StoredGrantIsLive` shows that the stored grant dies only after such a loss: of
  the answer, of the caller that waits for it, or of its session.
* `refresh=true` drops the cached pages before the handler synchronises
  (`operations.rs:468`), so a GET in between stores the old page again.
* "A manga can have at most 16 active covers" (`manga_service.rs:975`) is exceeded
  by insertions that count at the same time; `OvershootBounded` says by how many.
* A cover by hand that becomes primary between the two statements of
  `upsert_cover` (`manga_service.rs:1670`) makes the whole refresh, or the whole
  search, a 500; the other way round it is the editor who gets it.
  `RefusePrimary` is that step.

What the model shows and no document denies: two exchanges of one refresh token
are under way at once when PostgreSQL ends a session during the POST; a cooldown
counts from the start of the transaction that stored it, so that an exchange of ten
seconds leaves fifty; an edit that makes a cover primary and a refresh, or two such
edits, lock the covers of a manga row by row (`manga_service.rs:1007`, `1670`) and
may deadlock, which ends one of them with a 500; a read by MangaDex UUID, a refresh
under way or a search brings a deleted manga back; the slug of a deleted manga
stays taken (409); an older answer of MangaDex may be written over a newer one; an
uploaded cover is committed before it is linked to its asset
(`manga_service.rs:178`); a search whose offset is beyond the local matches skips
as many of MangaDex's; and a GET, which reads its tables by several statements,
may show parts of two versions.

## Proofs

`tlapm` checks every proof. The assumptions are the ASSUMEs of the modules:
finitely many requests, positive counts, an order between cooldowns, manga of
MangaDex's apart from local ones. TLC
evaluates them in every run.

**MangaDexGatewayProofs.** `TypeCorrect` first: `consecutive_failures` stays
below the threshold because the failure that would reach it trips. Permits and
holders always add up (`PermitsAreConserved`), which needs the cardinality
lemmas for one holder more or less. With one permit two callers cannot both
hold; as `record_result` runs before the permit goes back, an open circuit is
quiet (`OpenCircuitIsQuiet`), and a throttling trip leaves at least a cooldown
on the clock for as long as `sinceThrottle` is short (`ThrottlingIsSilent`).
`ClosedHasFewFailures` follows the observer and the counter through trips and
probes. `DropsAloneWedge` needs no hypothesis about who disconnects: every other
step keeps the exchange that will lower the flag, or lowers it. `WedgeIsForGood`
rests on `ProbeMeansOpen`: the flag is up only while `open_until` is set, so
`allows_request` refuses everybody, and without a request in flight there is no
`record_result`. `SlotsStaySpaced` holds for
any number of permits. So does `PromptSendsAreSpaced`, with `PromptTimers`: `Paced`
says of all sleepers, the due ones too, that their slots are an interval apart, an
interval past the last request and an interval behind the clock.

**VolumeSyncProofs.** For any number of rows, covers, refreshes, editors and
changes. `TypesHold` rests on `TypeInv`, which adds that a refresh writes what it
fetched and that an unused row has no cover; the offset never passes the number
of covers, as a fetch that finds nothing ends the paging. Every write asks both
unique indexes, so one lemma about an indexed write gives `IndexesDeduplicate`, and
`HandmadeVolumesStay` needs no more than the types. `CompletedRefreshMirrors` is
the long one. It says, under `SettledKeys`, that a refresh nobody disturbed leaves
the catalog equal to the listing, however it interleaves with others: `FollowInv`
(a row has its cover's key and is not ahead of it; nor is a page in hand),
`ReplacementsAreNewer` (whatever is known of a cover that lost its key is older
than the cover listed under it, so that an undisturbed refresh skips nothing), and
`CalmProgress`, which follows it through its pages (`Fetches`), its write (`Writes`:
the cover in hand is still listed as it was fetched) and its reconciliation
(`Reconciles`: every listed cover was seen and has an active row).

**OAuthTokensProofs.** For any number of callers. The inductive invariant has
these parts: the row lock is held by whoever is between exchange and commit with a
session that is whole, so by at most one (`LockHeld`, gives `ExchangesAreSerial`); a
locked row exists and has no brake (`BrakeReleased`); the refresh token blamed for a
failure is braked for as long as it is stored (`BlamedIsBraked`, gives
`BrakesHold`: nobody writes the brakes without the lock, and the tokens of a caller
without its session are never stored); the row's token and those in use were
committed (`Recorded`, gives `TokensAreCommittedFirst`). `Grants` is about Mercado
Livre: a posted refresh token is not newer than the row's (`PostsAreOld`), no
exchange is under way behind a grant that can still be stored
(`NoStragglerBehindGrant`), so such a grant is the live token, and the row is live
or its successor was lost (`LiveOrLost`, gives `StoredGrantStaysLive` and
`RotationIsOneWay`). Rejected tokens were refused (`RefusedOnes`, gives
`NoStormOfExchanges` and `MarksHitTheirToken`).

**ResponseCacheProofs.** `AnsweredEditsAreShown`: nothing stored or about to be
stored predates an answered edit unless it overlapped it, since the clear and
the mark of what is under way are one critical section. The lemmas
`RemoveKeeps`, `InsertKeeps` and `TickKeeps` say what the cache operations leave
alone; the proof holds whatever `Survivors` computes. `BudgetIsKept` and `TypesHold`
need what it computes. `BudgetInv` says that the cache is typed, that every
request has the locals of its place (`LocalsOfPlace`: who stores has a page and a
length that was read), and that the budget holds. The bytes of pages are
a sum, hence those of a part and of the rest (`BytesOfParts`), so neither
saturating subtraction ever saturates. `SurvivorsFit` is about the eviction loop: its
recursion has a value (`EvictionExists`), and whichever of the oldest go it stops at
a set that leaves room or at none (`EvictionStops`); an entry that passed `Fits` fits
into an empty cache.

**SumTheorems.** The library's induction theorems take an operator, which the
provers cannot instantiate; with a set instead (`NatInductionOnSet`,
`SubsetInduction`) induction needs no parameter but a constant. From these follow
that the fold behind `MapThenSumSet` and `SumFunctionOnSet` exists, does not depend
on the set it is taken in or on the order of its elements, and adds up over parts
(`SumIsFold`, `SumOfElement`, `SumOfParts`).

**CoverMirrorProofs.** For any number of workers, uploads and covers. The lock is
held by whoever is between claim and record with a session that is whole, so by at
most one (`LockInv`, gives `DownloadsAreSerialized`); a worker at work on an
asset that is ready has a broken session, so it cannot write
(`ReadyAssetsStay`). Slots of sleepers are an interval apart and behind `pacing`,
and the last start is as far from the next slot (`SpacingInv`, gives
`StartsStaySpaced`). Whoever is past a step of `store_upload` has its file
(`FilesInv`, gives `ReadyAssetsHaveFiles`). `LeaseKeepsDownloadsApart` needs
`LeaseSuffices`: `BacklogInv` bounds the schedule, since while a worker with a live
session waits for its slot nobody takes another, so that it is ahead by one
interval for that worker, one for the next, and one for every fault;
`LeaseInv` says that a lease outlasts the wait and the download that remain
(`LeaseRuns`), so that nobody else claims the asset meanwhile (`OneClaim`).

**CatalogProofs.** For any manga, creators, listings, limits and number of
requests. `MangaChangeWhole` is the refinement: initial states map to initial
states, and every step of `Catalog` to a step of `AtomicCatalog` or a stutter. It
needs the invariant `Whole`: variables have their types and a request that was
answered has a version (`ItemsReady`), the last volume it carries is of the
version or later (`LastReady`), and metadata and details agree, with at most one
primary cover, of a manga that exists (`TablesAgree`). `DeadlocksAreKnown` needs that at
most one transaction is between `UpsertRow` and `Commit` of a manga (`RowExclusive`)
and that only a transaction that clears flags, or has cleared them, holds covers
(`HeldWhere`). Every member of a cycle holds and waits (`CycleMembers`); who waits for a manga's row
holds nothing, and an upsert that waits for the index of primary covers would have
the row it waits behind. A member past its flags waits in the end for creators, hence
for one like itself (`CreditsSuffice`); those that still clear are of one manga
(`CoversOfOneManga`), and one of them at most is an upsert. `AnswersAreNew`
(an answer is at least as new as the row, unless overtaken) gives
`VersionsGoForward`; `RoomForAdders` (covers by hand and those who are about to
add one) gives `CoversBounded`.

**RequestPathProofs.** For any number of requests and addresses. `TypeCorrect`
has the bounds of the table, which pruning only shrinks. `FallbacksBounded`:
`FallbacksAreRequests` is inductive as it stands, since it counts those that may
yet fall back. `WeekCovered` and `AdmissionsAreBounded` are about sums. For the
week, `HoursHold` says that from any hour on the buckets hold what was counted since
it began, whatever restarted; a week's buckets then cover the instants of the week
and at most an hour more. For the
limiter, `LimiterInv` says that a clock read by a waiting request is not older than
`MaxDelay` (`ClocksRead`), that the times of a client are in that order too
(`TimesOrderly`), that they were admitted then (`KeptWereAdmitted`) and that what
was admitted in the shortened window is still in the table (`RecentAreKept`), although
a request with a younger clock pruned it; the same part says why a refused client
was refused (`RefusalsHaveReasons`).

Proved for every value of the constants, and without a run: `PermitsConserved`, `ClosedMeansFewFailures`, `SlotsSpaced` and
`WedgedForGood` of the gateway,
`NoRollback` and `CooldownHitsItsToken` of the token store.

Every safety property and every action property that a passing run checks is a
theorem. Two have a hypothesis that their run satisfies or a weaker one that TLC
checks: `SendsSpaced` (`PromptTimers`) and `OneDownloadPerCover` (`LeaseSuffices`). `OpenMeansQuiet` and `ThrottleSilence` are
about one permit. `CalmRefreshMirrors` is proved under `SettledKeys`; the run
`VolumeSyncReaders` also has covers that change their key, for which it is
model-checked only.

Only model-checked: liveness (`EveryCallReturns`, `KeepsTrying`, `RefreshEnds`,
`CallsEnd`, `EventuallyMirrored`, `RequestsEnd`), as the prover does neither
fairness nor ENABLED.

## Not modelled

* Handlers, errors, OpenAPI: stateless translation between HTTP and services.
* Offer search: filtering and ranking of product names, text without state.
* Authentication: a stateless comparison. Configuration, start-up, migrations:
  sequential, once.
* MangaDex's columns of the hourly metrics, written by the same UPSERT.
* The pool of ten connections: a waiter fails with a timeout of its own.
* Which local manga a search text matches, and every form of text.

## Plan

1. Abstract specifications for the others, each under a refinement mapping: a
   breaker of three states for the gateway, a serial rotating grant for the token
   store, a map with forgetful entries for the cache.
2. `ResponseCache` inside `RequestPath`, and `Catalog` with `VolumeSync` over one
   set of manga, to state what a page shows of a synchronisation.
3. Proofs: the refinements of 1; `CalmRefreshMirrors` with `Renumbers` for a
   single refresh.
