# tt-scrap: a TLA+ model

tt-scrap is a Go service that resolves TikTok and Instagram posts, downloads
their media and hands it to the caller or uploads it to Telegram.  Most of its
code converts data; what makes it hard to get right is a handful of shared
objects that many goroutines, a PostgreSQL server, media servers and Telegram
act on at the same time.  This directory models those objects in TLA+, checks
them with TLC on small instances and proves all safety properties, and the refinement,
with TLAPS for every instance.  `PROJECT.json` records which lines of the source each
definition stands for.

## 1. Inventory

| Component | Source | State | Operations | Hard behaviour |
|---|---|---|---|---|
| Identity leases | `internal/identity/lease.go`, `pool.go` | entries with `busy`, `waiting`, assignments and cooldowns; route health with a version; `queued`, `workers`, `ready`, `failure`, `unwritable`, the channel `notify` | `acquire`, `finish`, `failedLocked`, `wakeLocked`, `Close`, `fail` | requests park on a channel that is closed and replaced; pinned and unpinned requests compete; a lease outlives the route failure it did not see; shutdown waits for leases |
| Identity persistence | `internal/identity/store.go`, `pool.go` | RAM checkpoints (`pending`, versions), `saved`, the connection `db`, `owner`, `ownerToken`; in PostgreSQL the advisory lock, the ownership token and the rows | `Open`, `initialize`, `claim`, `retake`, `connect`, `sync`, `write`, `persist`, `saveBeforeClose`, `Close` | several processes overlap; backends outlive their clients; replies and commits are lost or late; a batch is written while newer checkpoints are taken |
| Operation | `internal/core/operation.go`, `internal/httpapi/operation.go` | attempts, delivery facts, the event stream, the context | `AllowRetry`, `BeforeDeliveryCommit`, `MarkDelivery*`, `Finish`, `emit` | stages in several goroutines share three attempts; what the caller may retry depends on the order of events |
| Telegram delivery | `internal/httpapi/telegram.go`, `telegram_client.go`, `delivery_event.go` | per upload: gate, context, result; the prepared media; `DeliveryEvent` | `send`, `sendStreamed`, `sendSingle`, `call`, `record`, `finish`, `operationTerminal` | uploads run while media downloads, are superseded, answered early, late or never |
| Spool | `internal/spool/spool.go` | RAM budget, per buffer: bytes, `reserved`, `pinned`, regions, `ready`, `err`, waiters | `New`, `Write`, `Complete`, `Fail`, `Close`, `Reader` | ranges are copied with the lock released, out of order, under readers and `Close` |
| Ranged download | `internal/platform/download.go` | the pinned representation, the part counter, the worker group, one writer per part | `downloadOnce`, `startRanges`, `work`, `fetch`, `fetchOnce`, `finish`, `stop` | parts are fetched concurrently from a file that may change; parts are resumed; a failure must join every worker |
| Media batches | `internal/identity/media_batch.go` | opens in progress, the recovery error | `open`, `close` | the lease must not end while a body is read |
| Extraction | `internal/platform/cache.go`, `tiktok.go`, `resolve.go`, `instagram.go`, `internal/core/cache.go` | per memo: cached answers with an expiry, flights; per limiter: slots and waiters | `ResolveURL`, `ExtractURL`, `ExtractMusic`, `memo.do`, `Cache.Get`, `SetUntil`, `Limiter.Acquire` | concurrent calls share one flight, whose leader may be cancelled, time out or be refused; music is answered from a post that is already old |
| Instagram account pool | `internal/instagramapp/pool.go`, `client.go`, `recovery.go`, `update.go`, `store.go` | accounts with session, health, `busy`, `mediaBusy`, `updating`, `refreshGate`; `queued`, `pendingHealthWrites`, `updating`, the channel `changed`; health pending in the `Store`; the table | `Detail`, `WithMedia`, `acquire`, `renew`, `MarkHealth`, `Flush`, `persistSessionContext`, `updateExisting`, `Open`, `Close` | answers arrive after the session they belong to was replaced; sessions and health are changed in memory and in the table in two steps, either of which may fail or lose its reply; everybody waits on one channel |
| Instagram account import | `internal/instagramapp/import.go` | the batch, its results, known accounts | `Import` | rows are updates or new accounts, a batch stops in the middle, the pool serves requests meanwhile |
| Identity preparation | `internal/identity/preparation.go` | slots being prepared | `prepareSlot` | competes with requests for leases |
| MP4, clients, crypto, images, HTTP, configuration | `internal/platform`, `internal/tiktokapp`, `internal/instagramapp`, `internal/media`, `internal/httpapi`, `internal/core`, `cmd` | none that outlives a call | parsing, conversion, requests | none of interleaving; covered by unit tests and test vectors |


How they interact: an HTTP operation creates an `Operation`; extraction and
download run inside a lease of the identity pool; a download writes a spool
buffer from several goroutines while a Telegram upload reads it; the lease goes
back (and its checkpoint becomes dirty) before the upload's last bytes are
released; the persistence goroutine writes checkpoints to PostgreSQL.  All
retries (extraction, media, byte range, identity recovery) spend one allowance.
Extraction goes through a memo and a limiter; Instagram posts are asked of the
account pool (`Detail`) and their media is downloaded on the same account
(`WithMedia`).  An operator's import changes accounts of the pool while it serves.

What makes each part correct:

- leases: an identity carries one operation at a time, its counters are exact,
  nobody sleeps on `notify` for ever, stale results do not undo newer health;
- persistence: what the pool believes saved is saved, and no process writes over
  another's rows, whatever connections and processes die;
- operation and delivery: a terminal event that says "safe to retry" is right,
  success means everything was delivered, nothing is delivered twice;
- spool: the RAM budget holds, readers see only bytes that arrived, and end;
- Instagram pool: what memory and table say of sessions and health agrees well
  enough that a restart neither uses a rejected session nor kills a good one, late
  answers do no harm, one login is made per rejected session, every call ends;
- import: every row is reported, and reported as what happened;
- extraction: one call upstream per key, cancellation stays with the caller that
  was cancelled, answers do not outlive their assets, every call returns;
- ranged download: one version of one file, every byte in its place, nothing left
  running.

`PROJECT.json` lists the hazards of the code line by line with the properties
that would catch them.

## 2. Modules

| Module | Models | Composition |
|---|---|---|
| `IdentityLease` | `acquire`, `finish`, admission pauses, shutdown | |
| `IdentityLeaseProofs` | theorems about it | extends `IdentityLease` |
| `OwnedRows` | abstract: rows with one owner at a time | |
| `IdentityStore` | persistence of several processes and PostgreSQL | implements `OwnedRows` |
| `IdentityStoreProofs` | theorems about it, the refinement included | extends `IdentityStore` |
| `Operation` | `core.Operation` as operators on its own variables | |
| `Delivery` | one delivery to Telegram, its goroutines and Telegram | extends `Operation`, whose steps are conjuncts of its actions |
| `DeliveryProofs` | theorems about it | extends `Delivery` |
| `Spool` | store, buffers, writers, one reader per buffer | |
| `SpoolProofs` | theorems about it | extends `Spool` |
| `RangeDownload` | one download attempt with its workers and the servers | |
| `RangeDownloadProofs` | theorems about it | extends `RangeDownload` |
| `InstagramStore` | the account table and the `Store` in front of it, as operators | |
| `InstagramPool` | `Detail`, `WithMedia`, renewal, checkpoints, `updateExisting`, restart | extends `InstagramStore`, whose statements are conjuncts of its actions |
| `InstagramPoolProofs` | theorems about it | extends `InstagramPool` |
| `InstagramImport` | `AccountManager.Import` | extends `InstagramPool`: its steps interleave with the pool's, and updates are the pool's own steps |
| `InstagramImportProofs` | theorems about it | extends `InstagramImport` |
| `Cache` | `core.Cache` as operators on a sequence | |
| `Extraction` | `memo.do`, `Limiter` and what the flights of each memo do | extends `Cache` |
| `ExtractionProofs` | theorems about it | extends `Extraction` |
| `MC...` | the instances TLC checks | |

### IdentityLease

A step is one critical section of `Pool.mu`.  `entries`, `busy`, `waiting`,
`queued`, `workers` are the fields of the same names; `down` and `paused` keep the
reasons for which `Ready` is false or admission pauses.  A request goroutine is
`idle`, in the `loop` of `acquire`, `parked` in its select, `woken` or `leaving`
it, `holding` a lease, or `done`.  `Grant` scans slots in the order of the code
and takes the least assigned, least recently used free identity (`Better`,
`Preferred`); `Finish` chooses among the outcomes an operation can report,
`FailedLocked` and `Succeeded` change health as the code does.  Cooldowns are
sets from which an element may leave at any time.  `Stored` is what `initialize` may
load: rows with their assignment counts, and the health of identities and routes that
an earlier process left.  `struck` is a history variable: leases that were out when
their route failed.  `finish` takes a checkpoint only if `json.Marshal` of the session
succeeds; the error path is left out, because a session is plain data that always
encodes.

### IdentityStore and OwnedRows

Each process runs `open`, then the loop of `persist`, then `Close`; `pc` is the
point between two database calls where its connection may break.  PostgreSQL is
external: a set of backends, the advisory lock, the token, the rows and the
uncommitted batch of each backend.  A backend may die, may outlive its client,
and may commit late.  A statement that the server refuses for good (a missing table, a
revoked privilege) pauses admission, in a save as in a reconnect.  The fatal write
errors for edited tables are left out.
`ImplementsOwnedRows` says that commits only come from the current owner and
never move a row back.

### Operation and Delivery

`main` follows `send`/`sendStreamed`, `prep` the preparation goroutine, `call[u]`
each upload.  Transfers are numbered; a retry or a recovery starts the next one.
Telegram is external: it may answer before the body ends, turn a complete body
into a message at any later time, or answer with something that says nothing.
An upload's gate keeps its last bytes back until the commit.  An upload that was
stopped may still read the reply it had coming; `late` is a history variable, the uploads
whose refusal was read after another upload was committed.  `Withdraw` lets an offer of
a transfer end in a few states more than the code does, with no effect on what follows.

### Spool

Two writers per ranged buffer, one for a buffer of unknown size, one streaming
reader.  `WriteStart`/`WriteEnd` and `ReadStart`/`ReadEnd` are separate because the
code copies with the lock released.  A byte is its offset; `stored` is what really
arrived and `ready` what the code believes.  The bytes reserved are a set
(`ReservedBytes`), so that the store's count is compared with a cardinality.  A buffer
that moved to disk may fail its first write there (`AppendFails`).

### RangeDownload

`main` follows `downloadOnce`, worker 0 is the same goroutine in `finish`.  A byte
is the file it came from and its position there, so that mixing files or resuming
at the wrong offset shows in `content`.  An ETag is the version number of a file,
hence equal at different addresses.  Servers may redirect any request, change the
file, ignore `If-Range`, omit strong ETags, and break off.

### InstagramStore, InstagramPool and InstagramImport

A session is a number that every login mints anew, so that "older" and "replaced"
can be said; `row[a].ctx` is the session the saved device and cookie context belongs
to.  A statement is one step that commits and is confirmed, fails, or commits and
loses its reply (`withDB` makes one failure of all; see section 6 for what this
assumes).  A password is there or not: a changed one is not told from the one before.
`req[r].pc` is the point
between two critical sections, statements or answers where `Detail` stands;
`acc[a].gate` is `refreshGate`; `asleep` are the callers blocked on the current
`changed`, and `Woken` is `notify` with the condition under which it does nothing.
`lookup` is the set of dispositions an answer of Instagram can produce (from
`lookup` and `apiFailure`), `recoveryDisposition` those of a failed login, each with or
without a Retry-After; all restrictions are one reason, `session_expired` is the other.  `rejected` is a history
variable: sessions Instagram rejected.  `Restart` ends the process at any point and
opens the pool from the table, where cookies may have expired meanwhile.  `Chosen`
says of an account that the scan of `acquire` prefers it to every other free one.  In
`InstagramImport` a row is known by name or only after its login; routes are
abstracted to whether one that works is left; the choice among routes has no effect
on the pool.

### Cache and Extraction

Deadlines are kept as the time left, so that `Tick` ages what expires and the state
space stays finite.  A call goes through one memo (`ExtractURL` of TikTok through
two: the link, then the post); `enter` is the top of the loop of `memo.do`, `wait` a
follower, everything between `reuse`/`app`/`gate` and `finish` the leader's `fn`.
`Limiter.Acquire` is four steps, as others can run between them: `Acquire` takes a free
slot at once, `CountIn` adds to `waiting` and is refused over the limit, `Select` takes a
slot, gives up or blocks, `CountOut` subtracts.  So `waiting` counts callers that have a
slot already or were refused, and a newcomer may be refused because of them.  A released
slot goes to the caller blocked longest, as a Go channel does it; a caller that gives up
leaves the queue wherever it stands in it.  A response is the time its assets have left
and whether it has audio.  The deadline of a single request upstream (`UpstreamTimeout`)
is one of the errors `failed`: followers receive it like any other, and it is not the
deadline of the call's own context.

## 3. Runs

| Run | Instance | Shows |
|---|---|---|
| `lease` | 3 requests, 2 identities of one route, 5 stored states, queue 1, 1 fault | exclusive leases, exact counters, no lost wakeup, pinned requests are not overtaken, a stale success keeps a route failure, nothing new to save after the drain |
| `store` | 2 processes, 1 item, 2 stamps, 2 faults | durability, ownership, refinement of `OwnedRows`, truthful `Close`, and that a pool gives up only for a rival or a lost claim reply |
| `store_liveness` | same, 1 stamp, 1 fault | checkpoints are eventually saved, permanent errors forgotten |
| `store_own_orphan` | as `store` | violated: see findings |
| `delivery` | 3 transfers, albums of 2 requests | a retry called safe although a message was made has one cause only, no duplicate delivery, true success, event order, termination |
| `delivery_superseded` | the same, albums of 1 request | violated: see findings |
| `spool` | a buffer of 3 bytes in two ranges and one of 1 byte, budget 3 | accounting, pins, readers, termination of readers |
| `range_download` | 4 bytes, parts of 2, 2 connections, 2 addresses, 2 versions | one representation, whole successes, joined workers, termination |
| `instagram_pool` | 2 requests on 1 account with a password, 3 sessions, 1 update at a time, 1 failed statement, 1 restart | exact counters, sessions saved before use, durable health, deserved deaths, needed renewals |
| `instagram_pool_liveness` | 2 requests and 2 downloads on 1 account, queue 1 | every call ends |
| `instagram_import` | 2 imports of 2 rows, 1 known and 1 new account, 1 request, 1 failed statement, 1 restart | complete and true reports, every import ends |
| `extraction` | 3 calls in scenarios of links, posts, music and Instagram posts; 1 slot, 1 waiter, caches of 1 entry | own cancellation, bounded work, expiry of music, every call returns |

Every property of a passing run has a mutant of the mapped code in `PROJECT.json`
that violates it.

Bounds.  Two identities on one route are what a stale success needs; three requests
on them with a queue of one are two holders and a waiter, pinned or not, or a holder,
a waiter and one the queue turns away.  The case of four, in which an unpinned
request sleeps because of the reservation of a pinned one that gives up, is beyond
this instance; theorem `WakeupsAreNotLost` covers it for every number of requests.
Two processes with two faults give a lost connection or reply and a
takeover; four backends let both processes keep an abandoned one each next to the
one they use, and a process that finds none left waits until one ends
(`store_liveness` would show a process that waits for ever).
Three transfers are the allowance of the code itself (`MaxAttempts`).  A buffer of
three bytes in ranges of one and two has a hole, a range written in two pieces and a
budget that holds only one of the buffers.  Two connections with two parts have a
part fetched by each, and a part of two bytes can be resumed in its middle.
Two requests with two slots of one account are what a late failure, a concurrent
renewal and a delayed checkpoint need, and three sessions are the one at first, its
renewal and its replacement.  The import instance has a request in flight that an
update must wait for, a lost reply to an insert, and a restart between two imports.
The pool run has one account and no downloads: the bounds of `CountersExact` on media
and on an account's concurrency, and a `Flush` that writes the health of some accounts
and not of others, are out of its reach and rest on `CountersAreExact` and
`HealthStaysDurable`, which hold for any number of accounts, calls and downloads.
Three calls of one key (music) are a leader, a follower that takes over and a second
follower; three of different keys are one that holds the slot, one that waits and one
that is refused; a cache of one entry evicts.
`CacheTTL` is shorter than `MetadataTTL`, so that a cached post outlives its assets.
`TypeOK` of the modules whose run does not list it holds as well and can be added to
their configuration; it says no more than the other invariants need.
Symmetry is used only in runs without liveness.  Deadlock is not checked because
every system may come to rest: all requests answered, all processes off, the
operation ended, the buffers closed, the download returned.

Fairness.  Request goroutines, the persistence goroutine, uploads, readers and
workers run when they can, and every call out of the process ends: upstream
requests, database calls and Telegram requests all carry deadlines
(`openTimed`, `context.WithTimeout`).  Nothing is assumed of faults, cooldowns,
cancellation, other processes, or abandoned backends.  Two liveness properties
have a premise the code does not enforce.  `EveryCallEnds` assumes that operators
stop updating accounts: every update of the only eligible account sends the requests
that wait for it back to sleep.  `EveryCallReturns` is about finitely many calls: a
follower could wait for ever behind an endless series of leaders that are cancelled.

## 4. Findings

1. `store_own_orphan`: a reply to `pg_try_advisory_lock` that is lost after the
   server took the lock makes the process its own rival: `p.owner` still names the
   older backend, `retake` misses it twice and the pool fails although "any other
   holder is a different process" (`store.go:190`).
2. `delivery_superseded`: the upload of a replaced transfer is cancelled but not
   joined; a 4xx reply it still reads after the commit sets the rejected flag, and
   an unclear reply to the final upload is then reported as rejected and safe to
   retry.  `SafeUnlessSuperseded` says that this is the only way: in every other case
   the property that fails here holds (run `delivery`, theorem `SafeIsSafe`).

Met while modelling, and harmless: a 4xx reply that arrives before the commit is
cleared by the commit (`operation.go:95`) and reported as unknown instead of rejected.
A cached TikTok post may outlive its assets when `TIKTOK_INFO_CACHE_TTL_SECONDS` exceeds
`CACHE_TTL_SECONDS`: only the music memo bounds its entries by the assets (`memo.expires`).  A
call with `refresh` may join the flight of a call without, which then answers from
what was cached.

## 5. Proofs

Each proof module states one inductive invariant, a conjunction of named parts,
proves that the initial states have it and that every step keeps it (one lemma per
action, or per part where few actions touch it), and derives the properties from it.
The constants are any that satisfy the `ASSUME`s of the modules; the bounds of the
runs (faults, clock, restarts, versions) are constants like the others, so the
theorems hold for every bound.

`IdentityLeaseProofs` (`RequestsAssumption`, `SlotsAssumption`, `QueueAssumption`,
`StoredAssumption`, `FaultsAssumption`):

- `LeasesAreExclusive` from `Typed /\ Exclusive`.  `Typed` joins the types with
  "a request holds an entry exactly while it is holding", without which the entry
  that `finish` frees has no type;
- `CountersAgree` and `TypeCorrect` from `CountsExact`: `waiting`, `queued` and
  `workers` are the cardinalities of the requests they stand for, and a request
  keeps a reservation only while it looks for that identity (`Reservations`).
  Counters are integers until then, because that none becomes negative is itself
  a consequence;
- `WakeupsAreNotLost` by `WakeupStep`: a step keeps what sleepers wait for
  (`SleepersKept`) or wakes all of them (`NoSleepers`).  It needs the exact counters;
- `StaleSuccessIsHarmless` from `VersionsOrdered`: a struck lease saw an older
  version than its route has;
- `NoCheckpointAfterDrain`: after the drain nobody holds a lease;
- `PinnedIsNotOvertaken`: an unpinned request takes an identity only if `waiting` is
  zero, and `waiting` is exact.

`IdentityStoreProofs`: `Invariance` of eight parts.  `Links` says which connections a
process has at each point, `Distinct` that no backend serves two processes,
`Ownership` that a connection in use, and a backend with an uncommitted batch,
abandoned or not, holds the lock in the present epoch.  From these `OwnerIsConnected`.
`Epochs` and `Growing` order tokens and stamps (rows, then an uncommitted batch, then
the owner's RAM), so that a late commit moves no row back: `StoreImplementsOwnedRows`
maps every step to a step of `OwnedRows` or a stutter.  `Bookkeeping` relates `pending`,
the batch in flight and `saved` to the rows: `SavedStaysDurable` and `CloseSaves`.
`Suspicion` says what a process that gives up has seen: `FailureHasACause`, which is
the true half of finding 1.

`DeliveryProofs`, for albums of any number of requests: `Invariance` of `Stages` (where
preparation is while `send` is where it is), `Gates` (a gate opens after preparation
and the commit, one at a time), `Calls` (all other uploads are stopped by then),
`Answers`, `Counts`, `Verdict`, `Events` and `Refusals`, without assumptions.  `MessageOnce`,
`SuccessIsWhole` and `EventsInOrder` follow, and `SafeIsSafe`, which is
`SafeUnlessSuperseded`: `Refusals` says that the flag "rejected" is of an upload whose
gate is open or of a refusal read late, so that a retry is called safe only if no gate
opened, if the one that opened is of a refused upload, or if its upload got no answer
while a late refusal was read, which is finding 2.

`SpoolProofs`, for buffers of every size: `Invariance` of `Places`, `Chunks` (what a
writer copies follows what it wrote, within its range), `Extent` (what is written has
arrived, and `ready` is its prefix without a gap), `Memory` (pins are those of copies in
progress, and pinned RAM is reserved) and `Account` (`used` is the cardinality of the
bytes reserved).  From these `BudgetIsKept`, `PinnedStaysReserved`, `ReadersAreRight`.

`RangeDownloadProofs`, for every size, part size, number of connections, retries
and addresses (`RangeAssumption`):

- `NoMixedFiles` from `IInv`: before the first response is accepted nothing runs
  (`Early`); workers run only against the pinned file (`Anchored`); no two fetch the
  same part (`Distinct`), so the only writer of a part is the worker whose response
  continues at the writer's offset (`InPlace`);
- `SuccessIsComplete` from `Settled` on top: workers exist only between the
  announcement and `finish`, and only a complete buffer is a success;
- `NothingRuns` from `Accounted` (free slots and extra workers that run add up) and
  `Released` (what ended before the return stays ended).

`ExtractionProofs`, for any number of calls and caches of every size.  Whatever the caches hold: `Owned` (an error
that tells of a context tells of the call's own), `Flying` (every flight has one leader,
every call upstream a flight), `Seated` (slots are those of the calls that hold one) and
`Lined` (each caller that waits stands in the queue once, and only while no slot is
free) and `Tallied` (`waiting` is the number of callers between their two additions, of
which those not refused are within the limit).  `CancelsItself` and `OneFlightPerKey`
follow.  On top of it `Stocked` says that
every cache is a sequence of entries with a response and the time left, none of which
outlives its assets in the music cache, and that a call only ever returns a response
(a leader caches what its followers then share).  It needs what the operators of `Cache`
return for every sequence: `Keep` numbers the positions it keeps by how many are not
after them, which is an injection into a set of the same size and so reaches every
position of the result.  `Tick` ages an entry and its response by the same amount.
`MusicIsKept` follows.

`InstagramPoolProofs`, for any number of accounts, calls and downloads, with `Restart`
at any point: `Invariance` of eight parts.  `Shaped` gives the records their fields;
`Gated` says that a gate has one holder; `Calling` and `Updated` say what a call of
`Detail` and `updateExisting` may rely on between two steps, such as that nobody changes
the session of an account whose gate is held for a renewal, or that a drained account
has no lease and no pending death.  `Owned` (a session belongs to one account) is needed
because `rejected` is a set of sessions: an update whose cookies Instagram accepts
after all must not clear the rejection of another account's session.  `Saved` gives `SessionStaysSaved`.  `Healthy` says
where a death or a cooldown is until the table has it (with a call that is about to mark
it, pending in the `Store`, or in the row), and gives `HealthStaysDurable` once nothing is
unsettled.  `Counted` is `CountersAreExact`.  `DeathDeserved` and `RenewalNeeded` are
shown action by action from the invariant: only `Judge` kills an account, only `Publish`
and `PublishUpdate` change a session.

`InstagramImportProofs`: `ImportInvariance` joins the position of the import in its batch
with `Verdict` (an update that returns has a result); `EveryRowIsReported` follows.
`ReportsAreTrue` cannot rest on the invariant of the pool, in which the pool has the
accounts of the table: during an import the table may be ahead (an insert whose reply
was lost, or that is not added yet).  `ReportIInv` says only what a report needs.
`Listed`: both lists name an account once, and the pool's are in the table.  `Rows` and
`Members` with `PoolStays`: no step of the pool takes an account or a password from the
table or the pool (a late write of health or of a session, a renewal and a replacement
change other fields).  `Served`: an update has its password in the table before it
publishes it and in both when it says "updated".  `Placed`: what the import knows is the
table, the update it waits for is that of its row, and an account it inserted is in the
table only until it is added.  `BorneOut` is the claim itself, for the rows reported so
far.  A restart in the middle loads the pool from the table and forgets the report.

Only model-checked, and why:

- liveness under fairness (`EventuallySaved`, `EventuallyWritable`, `EveryOperationEnds`,
  `ReadersEnd`, `EveryDownloadEnds`, `EveryCallEnds`, `EveryImportEnds`,
  `EveryCallReturns`): the prover has no rules for it, nor for `ENABLED`;
- the guarantees of the pool (`CountersExact`, `SessionIsSaved`, `HealthIsDurable`,
  `DeathIsDeserved`, `RenewalIsNeeded`) while an import inserts accounts: the theorems are
  about `InstagramPool` alone, where the pool has the accounts of the table.  TLC finds no
  violation of them on the instance of `instagram_import` either; they can be added to its
  configuration.

## 6. Not modelled

Parsing, selection, media conversion, cryptography, the login flow and wire protocols
of TikTok and Instagram, HTTP routing and configuration: conversions without shared
state.  In `Delivery`, the Instagram wrapper of the same `send`; in `RangeDownload`,
responses without a length; in `InstagramPool`, a pool without a database, and
`Seed`; in `InstagramImport`, CSV and cookie parsing and `Status`; in `Extraction`, the
asset registry, the caches that `GetExtraction` reads, `INSTAGRAM_METHOD=legacy` and the
history of attempts.  Media batches (`media_batch.go`) appear in `Delivery` only as the
retry they cause, and identity preparation (`preparation.go`) takes leases like any
other request of `IdentityLease`.

Assumed of PostgreSQL in `InstagramStore`: a statement whose reply is lost has ended
before the next statement of the `Store`.  The code makes this likely and not certain.
A statement that times out closes its connection, the next one opens another, and the
abandoned one ends by `statement_timeout` (5 s, `store.go:43`), while `withDB` stops
waiting for it after at most 5 s of its own (`store.go:82`).  A late commit of an
abandoned `SaveSession` or `Flush` is therefore not in the model; `IdentityStore` has
late commits, because there the code is built to survive them (lock, token, stamps).

## 7. Plan

Every safety property of the runs is proved.  What is left:

1. The pool's theorems for `InstagramImport`, from the invariant of `InstagramPoolProofs`
   weakened to a pool whose accounts are a part of the table, and one more part: no
   account, call or update has the session an import is about to insert.
2. Late commits in `InstagramStore`: one abandoned statement that may still take effect,
   and what `SessionIsSaved` and `HealthIsDurable` can promise with it.
3. `GetExtraction` and the asset registry, which read the caches of `Extraction`.
