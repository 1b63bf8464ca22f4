# TLA+ models of the artifacts server

`artifacts` is a git hosting server written in Rust: bare repositories on disk, served over
smart HTTP and a REST API, with forks that share objects through `objects/info/alternates`,
SQLite databases for owners, tokens, audit events and webhooks, background tasks for
retention, garbage collection and webhook delivery, and a desktop GUI that polls it. Almost
every operation is a sequence of steps (git subprocesses, blocking calls, transactions, file
operations) with awaits between them, run by an async runtime that may drop a handler at any
await. The models in this directory take the operations apart at those points and check what
must hold for every interleaving.

Contents: [inventory](#1-inventory-of-the-system), [modules](#2-modules-and-the-code-they-model),
[runs](#3-runs), [proofs](#4-proofs), [divergences](#5-where-code-and-documentation-disagree),
[limits](#6-what-is-not-modelled), [plan](#7-plan). Paths below are relative to the
repository's `src/` directory.

## 1. Inventory of the system

| component | state | operations | hard behaviour | what makes it correct | module |
|---|---|---|---|---|---|
| ref writes: `smart_http.rs`, `refs.rs`, `commits.rs`, `merge.rs`, `git_cmd.rs` | refs and objects of a repository | push (info/refs, unpack, connectivity gate, one swap per ref), POST /commits, POST /merge | handlers interleave at every await; a value is read early and swapped against late; partial packs; dropped handlers | refs never point into a hole, acknowledged commits stay, refusals have no effect | `RefWrites` |
| read side: `git_wire/`, `native_pack.rs`, `refs.rs`, `reads/`, `rest.rs` | none | ls-refs, fetch, ref listings, blob, diff, log, tree | several reads of a repository that is written to meanwhile, no lock | rows are values the refs had, packs are complete but for a known cutoff, what stays reachable is served | `UploadPack` |
| pack parsing: `native_pack/parse.rs` | objects written so far, pending deltas | parse, store direct objects, resolve deltas in passes | any order of deltas, missing and vanishing bases, cycles, sizes at their limits | what is written is what the pack means; the passes end | `PackIngest` |
| audit log: `audit.rs` | hash-chained rows in SQLite | record, prune, verify_chain | racing recorders, retention deleting from under them, clock jumps | one chain; the verdict means what it says | `AuditChain` |
| webhook outbox: `webhooks.rs` | delivery rows, worker threads | enqueue, claim, POST, mark, prune | leases, slow threads, crashes, failed writes | true outcomes, everything finalized in the end | `WebhookOutbox` |
| webhook keys: `webhooks.rs`, `secrets.rs`, `rest/admin.rs`, `rest/webhooks.rs` | master key in memory and in a file, sealed secrets | add, delete, enqueue, rotate, load | rotation against adds and pending deliveries; crash between database, memory and key file | secrets open under the current key | `WebhookKeys` |
| event stream: `events.rs`, `webhooks.rs` | broadcast ring, in-memory registry | publish, SSE stream, dispatch | a receiver is overtaken, connects or leaves in between | no overflow is silent | `EventBus` |
| fork network: `storage.rs`, `alternates_cache.rs`, `rest/repos.rs`, `rest.rs` | directories, alternates files, mtime-keyed cache | create, fork, delete (default, force, cascade), lookups | no lock; check-then-act across awaits; stale cache; half-made forks | a fork keeps its objects unless its loss was asked for | `ForkNetwork` |
| garbage collection: `gc.rs`, `object_store/mod.rs` | loose objects with ages; cached walks | preview, run, periodic sweep | reachability computed before, deletion after; pushes and forks meanwhile | nothing in use is deleted, garbage goes | `GcSweep` |
| tokens, ownership, quotas: `tokens.rs`, `ownership.rs`, `auth.rs`, `rest/tokens.rs`, `rest/repos.rs` | token rows, owner rows, directories | mint, rotate, revoke, expire, record, check, delete | three stores that no transaction spans; ids used again | tokens stay with those who made the directory; directories keep their rows | `Access` |
| rate limits: `rate_limit.rs`, `ip_rate_limit.rs` | token buckets | check, refill, evict | lazy refill, eviction, rounding; the clock is read before the lock | a bucket that forgets is the bucket that does not, and late calls cost no more than they waited | `RateLimit` |
| process: `app.rs`, `main.rs`, `db_migrate.rs`, `rest/admin.rs` | schema, versions, JWT key and file, phases of the shutdown | boot, migrate, serve, rotate the JWT key, drain, exit | crashes between any two statements; requests, tasks and blocking work that hang | boots after any crash, stops when told, keys stay retired | `Server` |
| readiness: `rest/health.rs`, `app.rs` | draining flag | probe, drain | probes in flight when things change | an unfit server is out of rotation in time | `Readiness` |
| GUI: `bin/artifacts-gui/` and the list endpoints | list, selection, detail, scrapes | poll, page, click, draw | offsets that shift, a selection that moves during a request | few rows lost, the detail settles | `Dashboard`, `Charts` |
| conversions: `pkt_line.rs`, `reads/`, `merge.rs`, `ids.rs`, `commits.rs`, `metrics.rs` | none | framing, parsing of git's output, validation, scraping | cuts, limits, separators in data | what is read is what was written | `PktLine`, `GitOutput`, `Names`, `Charts` |
| errors, configuration, remaining metrics | none that is read back | | | | |

How they interact. A mutating handler authenticates (admin token, JWT or repository token),
takes a rate-limit token, checks the owner, works on the repository through `git` subprocesses,
gix or the file system, then records an audit event and publishes a webhook event. The last two
are best-effort: their failure is logged and the mutation stands. The audit log and the outbox
are therefore driven by all other components but never hold them up, and each can be modelled
with an unconstrained source of events. The write path, the read side, the fork network and
garbage collection share repositories. `GcSweep` composes the last two with pushes: it has the
alternates of the network, the steps of a fork and the steps of a push, each reduced to what
the collector can see. `UploadPack` has the steps of the writers reduced to what a reader can
see. `Access` has the handlers of the fork network again, with the tables they check and write
instead of the objects.

The hazards are listed with their lines, and with the properties aimed at them, in
`PROJECT.json`.

## 2. Modules and the code they model

### `CommitGraph`, `AtomicRepo`, `RefWrites`: the write path of one repository

`CommitGraph` has the constant graph: `Commit`, `Parents` (any function; nothing below needs it
to be acyclic), `Reach` (defined as the least set closed under parents, without recursion),
`IsAncestor`. A commit stands for itself with its trees and blobs.

`RefWrites` models three kinds of request on one repository, any number of each. `refs` is the
ref store, `odb` the object database, `op[q]` the locals of request `q` with the await it is at,
`outbox` the events handed to `publish_event`; `moves` is a history of ref changes. One action
per step between two awaits:

| action | code |
|---|---|
| `InfoRefs`, `ReceivePack`, `Unpack`, `CheckConnected`, `ApplyRefUpdate`, `Report` | native receive-pack in `smart_http.rs`: advertise, read the request, `git unpack-objects`, `git rev-list --not --all`, one swap per ref, report-status |
| `CreateCommit`, `BuildCommit` | `commits.rs`: validate the parent, write blobs, tree and commit |
| `MergeBranches`, `ResolveTarget`, `Plan`, `BuildMerge` | `merge.rs`: resolve the source, resolve the target by a later call, decide (no-op, fast-forward, refusal, three-way), merge-tree and commit-tree |
| `CasBranch`, `Publish` | the common end of both: swap, then event |
| `Fail`, `Cancel` | a git call fails unexpectedly; the future is dropped |

`CasUpdate` and `CasDelete` are `FsRefStore`: `git update-ref` under the ref's lock, so one
atomic step, which also refuses objects it does not have. Any non-zero exit is a conflict, so a
swap may fail although the comparison holds. The client chooses freely: any set of refs, any new
values, any pack (complete or not), any parent, any strategy. Connectivity is modelled as
`rev-list --not --all` does it: what the current refs reach is taken to be there and is not
looked at, which is sound only because of the invariant the module establishes.

`AtomicRepo` is what the write path promises: objects only accumulate, a ref changes in one step
to a completely stored commit, and each REST request takes effect at most once, in a step that
keeps all the branch contained. `RefWrites` implements it under the mapping `heads <- refs`,
`stored <- odb`, `applied <-` the REST requests in `moves`.

### `AuditChain`

`rows` is `audit_events`; a row keeps its content (timestamp and the rest), `prev` and `hash`.
SHA-256 is taken to be injective, so the hash of a row *is* the sequence of contents hashed along
the chain. `Stamp` takes the timestamp, `Record` is the `BEGIN IMMEDIATE` transaction that reads
the tail and inserts (it excludes other recorders, so that it is one step: two of them cannot read the
same tail, here or in the code), `RecordFails` the swallowed error, `Prune` the retention task,
`ClockChange` a wall clock that may go anywhere, `Tamper` an edit of the file behind the server's
back (external). Rows from before the chain existed have no hash (`Legacy`). `VerifyChain` is the
scan of `verify_chain`, as an operator on the rows.

### `WebhookOutbox`

`rows[d]` is a row of `webhook_deliveries`, `jobs[d][i]` the threads that hold it. Absolute times
are countdowns: `wait` is the time until `next_attempt_at` (or until a finalized row may be
pruned), `age` the time since the claim. `EnqueueDelivery` inserts one row per matching
subscription, `ClaimPendingDeliveries` is one poll of the worker (lowest due ids, at most a batch,
lease and attempt count written), `Post` the HTTP request, `Mark` the verdict written back,
`MarkFails` the ignored write error, `Crash`, `PruneFinalized`, `Tick`. Nothing but the lease ties
a row to its thread: `Mark` stamps the row whatever has happened to it since, as the SQL does.
`Deadline` is the longest life of a thread; the code bounds the HTTP exchange, but not the wait
for a blocking-pool slot, name resolution or a database connection. The run has `Deadline <
Lease`; what holds without it is proved (section 4) or listed in section 5.

### `ForkNetwork`

`repoDir[r]` and `alt[r]` are the directory and the alternates file of repository `r`, with an mtime;
`cache` is `AlternatesCache`; `op[q]` the locals of each fork and delete request; `broken` and
`cut` are histories of forks that have lost objects. A fork is the series of file operations of
`FsStorage::fork` (`CheckFork`, `MakeDirs`, `CreateAlternates`, `WriteAlternates`,
`SnapshotRefs`) - `fs::write` creates the file and then fills it - after the handler's first half
(`ForkRepo`). A delete is `DeleteRepo`, `ScanForks` or `PlanCascade`, then `Remove` and `Forget`
for each repository, deepest level first. Any handler can end at an await (`Cancel`), the process
can die anywhere (`Restart`), which leaves half-made forks behind, and `ListRepos` polls the cache
all the time. `CoarseClock` says whether two writes may get the same mtime. The status a request
is answered with is not kept: no property is about it. The client names the id of a fork, and
nothing stands between the check of the id and `create_dir_all`: two forks may work on one
directory, and a fork may be made of a repository that is itself half made, into a cycle of
alternates even. `cascade_delete_order` is the relation `Depths` (each fork one level below its
source), which has exactly one solution. `Kept(q)` and `WasThere` are for the properties: the
forks that are as request `q` met them, and those that only such forks separate from what it
removes.

### `GcSweep`

`file[r][c]` is the loose file of an object in a repository, young or old: it is young for
`min_age_secs` after it was written, or renewed: `git unpack-objects`, which serves a push, touches
the file of an object that is there already. `src` is the alternates relation, `heads` the refs.

| action | code |
|---|---|
| `Tick`, `SweepRepo`, `AdminGcRun` | the periodic task and the admin endpoint choose a repository |
| `ListLoose` | the network of the repository and the listing of its loose objects with their ages |
| `Walk` | the refs of one member are read and walked; the pass ends without deleting if a member cannot be walked |
| `DeleteLoose` | the listed, old, unreached files are unlinked; an unlink may fail |
| `StartPush`, `Unpack`, `CheckConnected`, `Land` | a push, also one that deletes a ref |
| `Link`, `ReadRefs`, `WriteRefs` | a fork: alternates, snapshot of the refs, refs |
| `GrowOld`, `Crash` | time; the process dies, forks stay half made |

### `WebhookKeys` and `EventBus`

`WebhookKeys`: `current`, `keyFile` and `row` are the key in memory, the key file and the sealed
secrets; a sealed value is modelled by the key it is sealed under. `SealSecret` and `InsertRow`
are the two halves of `add`, `EnqueueDelivery` copies the sealed secret, `ClaimDelivery` opens
it. A rotation is `BeginRotation` (the deferred transaction reads), `CommitRotation` (fails if
another commit came in between or a row does not open), `SwapKey`, `WriteKeyFile`. `raced`,
`torn` and `stale` record the races and crashes that the properties make exceptions for.

`EventBus`: `sent` is the history of the broadcast channel, a receiver is a position in it, and
`Recv` what tokio answers a receiver that was overtaken. SSE clients connect, read and leave;
the dispatcher matches each event against the registry (`Matching`), signs and posts, and counts
what it missed.

### `Access`

`dir`, `owner` and `tok` are the repositories on disk, the `repos` table and the `tokens` table.
A request is admitted as a principal and goes through the calls of its handler one by one:
create (`CheckQuota`, `PathExists`, `MakeDir`, `RecordOwner`), fork, delete (`RemoveDir`,
`DeleteRow`), mint, rotate (`RevokeAll`, `Mint`); `RevokeToken`, `Expire` and `Prune` are single
statements; `Drop` cuts a handler short between any two. Ids are deleted and created anew, so a
repository has lives; and two requests may pass `PathExists` for one id and make its directory
both, as `create_dir_all` is content with one that is there. `makers` is the history of who has
made the directory of each id; `made` only serves the bound (`Room`).

### `Server` and `Readiness`

`Server` starts from any database an earlier release may have left (`Found`) and from nothing.
`Create`, `AddColumn` and `RecordVersion` are the statements of `db_migrate::run`, one action
each; `NextStore` and `Listen` finish the boot. Requests (`Arrive`, `Finish`, `Detach` for work
that a dropped handler leaves on the blocking pool) and background tasks may hang; a task that
waits for a blocking thread (`TaskBlocks`: a sweep of the collector and the git it runs) cannot be
cancelled. The shutdown is `Signal`, `BeginDrain`, `ListenerDrained` or `ListenerDeadline`,
`TasksJoined` or `TasksDeadline`, `Report` (the audit row), `Exit`, which waits for blocking work
(`Held`): the runtime of `#[tokio::main]` does so when it is dropped, without a deadline.
`SwapJwtKey`, `OpenKeyFile`, `WriteKeyFile` and `KeyFileError` are the rotation of the JWT key:
memory first, then truncate, then write. Two of them may cross, and the one that swapped first
write last; `crossed` is then its key. `Die` may come anywhere.

`Readiness` has the probe (`HealthReady`, then one `CheckStore` per store and `Answer`), stores
that fall ill and heal, the drain flag and, as an external part, the orchestrator's period,
timeout and threshold.

### `TokenBucket` and `RateLimit`

`RateLimit` is both limiters. A call reads the clock (`ReadClock`) and then waits for the entry of
the map, which it holds while the bucket is made if there is none, refilled lazily (`TokensAt`),
charged (`Admit`) or not (`Refuse`, which answers with `Wait`), and dated to the clock that was
read (`Settle`). Calls on one bucket may come in the other order than they read the clock; the
bucket is then dated back. `MaxWait` bounds the time between the two steps. A bucket is forgotten
when it was not touched for `Stale` (`Evict`). `OpenWindow` starts a window of observation at any
moment; `late` sums up what the calls in it have waited. `TokenBucket` is what it promises: a
level that rises with time, never above capacity, and a call that takes its cost or is refused,
with up to `Credit` given back. The mapping reads the level off the bucket as it would be refilled
now, a missing bucket as a full one, and `Credit` is `MaxWait`.

### `UploadPack`

One request on a repository whose refs are loose files, lines of `packed-refs`, or both. Writers
`Push`, `DeletePacked` and `DeleteLoose` (git drops the packed line first), `PackRefs` and
`PruneLoose` (git's own packing), and `Collect` run between its steps. `LsRefs`, `HeadLoose`,
`HeadPacked`, `ListPacked`, `ListLoose` are `head_state` and `enumerate_refs`; `AdminGetRepo`,
`WalkRefs`, `AddPacked` are `list_refs` of the REST side, which reads in the other order. `Fetch`,
`Walk`, `WritePack` are the native pack generator; `NativeFails`, `PackObjects` the fallback to
`git pack-objects`. git leaves out what the known haves reach (`Between`). The walk of gix,
external code, does something else (`Shown`, `Walked`): `with_boundary` makes it stop at the haves
and takes the oldest one that is there as a cutoff; what is older, and a parent that is missing,
is passed over without an error. `Time` gives the committer's times, which need not agree with
`Parents`. A fetch ends as `"packed"` if generate_pack made the pack, as `"done"` if git did.
`GetBlob`, `GetDiff` and `ReadObject` are the reads that resolve first and read later.

### `PackIngest`

`store_with_full_resolution` and its two earlier variants, as the SQLite object store calls them:
`ParsePack` parses all of the pack or refuses it, `StoreDirect` writes the objects that are not
deltas, `QueueDeltas` and `Resolve` go through the deltas, `EndPass` starts another pass or gives
up, `WriteFails` is a store error; `OtherWrites` and `OldDeleted` are other requests on the store.
Offsets and sizes are decoded from their groups of bits, in words of `Word` values: what does not
fit is refused where the code refuses it, and wraps where it wraps. The reference is `Rounds`: the
direct entries, then what one delta makes of what is known, as often as the pack has entries.
`Meaning` is the last round. It takes no account of the order of the entries, and reads an offset
as a numeral (`Distance`), not group by group.

### `Dashboard`

`rows` is the table in order of creation, of which a create or delete (`InsertRow`, `RemoveRow`)
shifts a part by one position. The poller reads the total and page after page
(`StartPoll`, `CountRows`, `FetchPage`, `StoreList`), then the selection and the detail of what
was selected (`ReadSelection`, `FetchDetail`, `StashDetail`); the user clicks at any moment; the
fork layout is recomputed when its fingerprint changes (`RenderForks`).

### `PktLine`, `GitOutput`, `Names`, `Charts`, `Parsers`

Pure code, as operators. `PktLine` reads and writes frames (`PktSpec` is its iterator on one
stream); `GitOutput` has what git prints for log, ls-tree, diff and merge-tree (external) and the
parsers of it; `Names` the validators of refs, branches, paths and object ids beside `git
check-ref-format`; `Charts` the metrics text, its parser and the charts made from successive
scrapes. Characters are members of a small alphabet
that has one of each kind a function tells apart. `Parsers` drives them: each state is an input,
and `ParsersExact` compares the result with a reference definition that does not parse.

## 3. Runs

| run | instance | checks |
|---|---|---|
| `ref_writes` | a diamond of four commits, two refs, one push (any refs, any pack), one commit, one merge | `RefsConnected`, `AckedCommitsKept`, `RefusedHadNoEffect`, refinement `AtomicRepoSpec` |
| `audit_chain` | two recorders, three ids, clock 0..2, retention 1 | `ChainNeverForks`, `VerdictIsExact` |
| `webhook_outbox` | two rows, two faults, three attempts, `Deadline` 1 < `Lease` 2 | `DeliveredOnce`, `OutcomeIsTrue`, `Lifecycle`, `EventuallyFinalized` |
| `webhook_keys` | two subscriptions, two rotations, three keys, one fault; beside it the bus with a ring of one, three events, one SSE client or the dispatcher with two subscriptions | `SecretsReadable`, `RestartKeepsKey`, `DeliveriesSigned`, `NothingLostSilently` |
| `fork_network` | every network of at most three repositories, one fork, two deletes, fine clock | `NoForkBroken`, `HitsAreTrue` |
| `gc_sweep` | two commits, a repository with one branch and room for a fork, one push, the sweeper and one admin pass, one fault | `PushedKept`, `StableKept`, `Reclaimed` |
| `access` | three ids, two users and the admin, one token row, two requests at a time, quota 1 | `MakersHoldTokens`, `QuotaBounded`, `RotationKills`, `OwnedWhenQuiet` |
| `server` | all databases of earlier releases, two request slots, two tasks, deadline of two units, two keys, two faults | `SchemaSound`, `ShutdownRowLast`, `RetiredStaysRetired`, `BootsAgain`, `StopsWhenTold` |
| `rate_limit` | one caller with two calls at a time, bucket of 6, cost 3, second of 2, waits of up to 2, clock 0..7; beside it the probe with checks of up to two ticks, period 2, threshold 2, drain delay 5 | `WindowBounded`, `RetryAfterHonest`, refinement `LenientBucket`, `PulledBeforeRefusal` |
| `pack_ingest` | packs of up to three entries, three resolvers, two-bit size groups, words of three bits with offsets that wrap and that are refused, one foreign write or deletion; beside it the inputs of the parsers | `ResolvesExactly`, `Terminates`, `ParsersExact` |
| `upload_pack` | three commits of different times, two refs, four layouts of loose and packed refs, three clones, three writer steps | `RowsAreReal`, `FetchComplete`, `ReadsServed` |
| `dashboard` | three repositories, pages of one, four pages, two changes, two clicks, one failed request | `WalkLosesFew`, `DetailSettles` |

All of them hold. Three runs hold two machines that do not share state, `EventBus` beside
`WebhookKeys`, `Readiness` beside `RateLimit` and `Parsers` beside `PackIngest`: a constant-in-time
variable `who` of the MC module says which one moves, so that a behaviour is one of either machine
and the state space is the sum of the two. Each property is about one of them.

What the properties say:

* `RefsConnected`: no ref ever reaches an object that is not stored, although packs arrive in
  part and refs move between the gate and the swap. `AckedCommitsKept`: what a REST client was
  told has landed stays in the branch until a push rewinds it. `RefusedHadNoEffect`: a refusal
  (400, 409, `ng`) means nothing moved. The refinement says the rest: each REST request takes
  effect at most once and only by extending its branch.
* `ChainNeverForks`: each row's hash covers every earlier row that is still there.
  `VerdictIsExact`: `verify_chain` accepts exactly the logs whose chained rows are as recorded and
  without a hole before any of them.
* `DeliveredOnce`, `OutcomeIsTrue`: with threads that end before their lease, a success is repeated
  at most once per fault, and the recorded outcome is the real one. `Lifecycle`: pending,
  finalized, gone, never back. `EventuallyFinalized`: every enqueued delivery is finalized.
* `SecretsReadable`, `RestartKeepsKey`, `DeliveriesSigned`: what is sealed opens, what is in memory
  is in the file, what is delivered is signed, with exactly the exceptions that the properties
  name: an `add` that overlapped the swap, a crash or failed write inside a rotation, rotations
  that cross, deliveries that waited while a rotation committed.
* `NothingLostSilently`: a client that counts lag notices knows at every moment which event it has
  got to; the dispatcher's drop counter is exact, and what it saw is posted to those it matches.
* `NoForkBroken`: a delete without force never breaks a complete fork that was there when the
  request came in, with every fork between it and what is removed. `HitsAreTrue`: the
  cache does not contradict the alternates file of a fork that has its objects.
* `StableKept`: what a member of the network reaches throughout a pass, the pass does not unlink.
  `PushedKept`: what a push has brought is there when its ref moves. `Reclaimed`: garbage that stays
  garbage goes, unless a member of its network cannot be walked.
* `MakersHoldTokens`: a token opens a repository only if it was minted for the admin or for a user
  who has made the directory of the id, and the owner is one of those; so the one who has made it
  alone has all tokens but the admin's. Two who raced past the exists check share it.
  `QuotaBounded`: races exceed the quota by less than the number of requests at a time.
  `RotationKills`: when a rotation mints, every token that was good at its check is dead.
  `OwnedWhenQuiet`: a directory nobody works on has an owner row, unless a delete crossed a create
  of the same id or a handler was cut between directory and row.
* `SchemaSound`: a recorded version has all its effect, and a serving process has every one.
  `BootsAgain`, `StopsWhenTold`: no crash stands in the way of the next boots, and no hanging
  request or task in the way of a shutdown with a deadline, but for work on a blocking thread that
  never ends (`Held`). `ShutdownRowLast`: when the last audit row is written, no handler is at
  work that the listener's deadline did not cut off, and no task unless theirs has passed.
  `RetiredStaysRetired`: a JWT key replaced by a rotation that reported success is in force again
  only if its own rotation, which swapped before, was the last to write the file.
* `WindowBounded`, `RetryAfterHonest`, `LenientBucket`: no window of time admits more than a full
  bucket, its refill and what the calls in it waited between clock and lock; a client that obeys
  Retry-After gets through; and lazy refill with eviction is the ideal bucket, but for one wait
  given back with each call. `PulledBeforeRefusal`: a draining or failing server is out of
  rotation by the end of its window, although a probe in flight may still succeed and reset the
  count; with a drain delay longer than the window no request meets a closed listener.
* `ResolvesExactly`, `Terminates`: what is written is what the pack means; a missing base is
  reported only when it is missing; the passes end.
* `RowsAreReal`: every row of a listing is a value the ref had while the request ran, with the one
  gap that `enumerate_refs` has (packed-refs is read before the loose files). `FetchComplete`: a
  client that is told its fetch succeeded has all of it if git made the pack or the client had
  nothing; after a pack of generate_pack for a client with haves it lacks at most commits that are
  older than those haves, or were not reachable all the time, and what those reach. `ReadsServed`:
  a read of what stays reachable fails only for a reason.
* `WalkLosesFew`: a walk over the pages loses no more standing repositories than the table changed
  meanwhile. `DetailSettles`: once the clicks stop, the Detail tab shows the selected repository.
* `ParsersExact`: frames, log, tree, diff, merge conflicts, metrics and names come out as they went
  in, for the inputs on which the code is meant to be exact; section 5 lists the others.

Bounds and why they suffice. The diamond has a fast-forward, a divergence and a merge commit; two
refs let a push succeed on one and fail on the other, and let a merge's source and target move
apart; one request of each kind gives every pair of writers. Three audit rows are a pruned one, a
survivor and a new one, and the clock values put timestamps in any order relative to ids. Two
deliveries and a batch of one make the worker choose; three attempts have a first, a repeated and
a last one; two faults put one before and one after another's recovery. Two rotations cross, and
three keys are the first and one for each. A ring of one event overflows at the second. Three
repositories are a cascade of three levels, or a chain with one more fork joining it; with two
forks and one delete (`ForkReqs = {f1, f2}`, `DeleteReqs = {d1}`) TLC finds the same, and the
theorems are about any number of either. In the sweep two commits are a tip and what it rests on:
an object can be garbage, become reachable by a push or a fork, and be shared by two repositories.
Two requests at a time are every pair of handlers, and with a quota of one three ids are one more
than two racing creates may reach. Two keys, two faults and two slots let two JWT rotations cross,
one of them failing. The bucket of 6 with a cost of 3 is two calls, a second of two ticks is no
multiple of a cost, so that rounding matters, and eight ticks go past the eviction age and a full
refill. Two calls and waits of up to two ticks let one date the bucket back under the other, twice
in a row; callers share nothing, so one is enough. Of three commits c2 is older than its sibling
c3, which a client may have. Three pack entries are a chain of two deltas in every order, a cycle
of two and a dangling one. Three writer steps pack, prune and move a ref under one reader. Three
repositories on pages of one let a deletion shift a row across the boundary while the walk is at
the second.

Constants named `Max...` are bounds of the models (but for `MaxPages`, `MaxPayload` and `MaxCap`,
which are limits of the code, made small).
Symmetry is used for recorders, repositories, users, tokens, requests, callers and deletes, which
are interchangeable, and only in runs without liveness properties.

Deadlock is not checked where everything can be over (`ref_writes`, `fork_network`, `gc_sweep`,
`pack_ingest`, `upload_pack`: a finite set of requests; `rate_limit`: the clock ends;
`webhook_keys`: every subscription, key and event is used up). It is checked in the other runs,
whose tasks never end.

Fairness, and what in the code justifies it:

* `WebhookOutbox`: `WF` on the claim (`spawn_delivery_worker` polls in an endless loop and survives
  errors), on `Post` and `Mark` (a thread on the blocking pool runs to its end, and the HTTP client
  has a timeout), on `Tick`. None on pruning, enqueueing or faults, and the faults are finitely
  many: an outbox whose process crashes for ever before it can write finalizes nothing.
* `GcSweep`: `WF` on the steps of the sweeper (an endless loop over all repositories), on the ageing
  of each file, and on the steps of a push once it has started (subprocesses with a timeout). None
  on forks, admin passes, new pushes or crashes.
* `Server`: `WF` on the start (the supervisor restarts a process that has ended), on the steps
  of boot and shutdown, on time and on the two file operations of a key rotation.
  None on requests and background tasks, which may hang, also on a blocking thread, nor on signals
  and crashes.
* `PackIngest`: `WF` on the ingest itself, a loop without waiting. `Dashboard`: `WF` on the poller,
  which loops for ever and whose requests have a timeout.

Every property of a run has a mutant in `PROJECT.json`: a plausible bug in one definition (a blind
swap, a dropped lease, a tail read at the wrong end, a cascade in the wrong order, a cache keyed by
name only, a version recorded before its statements, a wait rounded down) under which TLC finds
the property violated.

## 4. Proofs

TLAPS proves the following for every value of the constants: any commit graph, any number of
requests, recorders, rows, threads, faults, callers and budgets.

* `RefWritesProofs`: `TypeCorrect`, `ConnectedAlways`, `AckedAlwaysKept`, `RestOnlyExtends`,
  `EventsAlwaysTrue`, `RefusedAreHarmless`, and `Refinement` (`Spec => AtomicRepoSpec`).
  `RefsConnected` is not inductive: at the swap one must know that the new tip is complete. The
  strengthening `HandlersSound` says what the locals of a request guarantee at each await. For a
  push behind the gate, every new tip is completely stored; this uses `RefsConnected` when the
  gate is passed (it skips what refs reach) and then survives any ref move because `odb` only
  grows. For a REST request before its swap, the new tip extends the expected one and adds
  nothing that is missing (`Extends`); completeness follows at the swap, where the expected value
  *is* the ref. `QuietMovedNothing` (no move by a request that has not come to its swap or was
  refused) and `Landed` (between swap and event the move is on record) complete `IInv`. The
  module first proves that every step is one of a few kinds (`StepKinds`), and then each conjunct
  against the kinds instead of the sixteen actions. Assumptions: `Parents` is a function into
  sets of commits, `None` is no commit, a request is of one kind.
* `ServerProofs`, the audit chain: `TypeCorrect`, `NeverForks`, `EditsDetected`, `RecordSafe`,
  `VerdictExact`. The inductive invariant adds that ids are unique and `RowsLinked`: the hash of a
  surviving row extends its `prev` by what was recorded under that id, whatever the row's content
  says now. `EditsDetected` follows because a row that verifies must then have the recorded
  content. `VerdictExact` is the equivalence, in both directions: a scan that succeeds has met
  every row below the last one it knows the hash of, and one that fails has met an edit or a hole.
* `ServerProofs`, the process: `ServerTypeCorrect`, `SchemasSound`, `ShutdownRowsLast`,
  `RetiredKeysStay`. `SchemaInv` says that a store's versions are recorded in order, that each has
  its effect, and how far the boot has come in the statements of the migration at hand; so a crash
  between any two statements leaves a database that the next boot takes for what it is. `DrainInv`
  goes through the phases of the shutdown. `KeyInv`: the key in memory is at least as new as those
  of the rotations under way, and a retired key that is in the file or in memory is the one that
  crossed.
* `WebhookProofs`, the outbox, under `Deadline < Lease`: `TypeCorrect`, `NoDoubleFlight`,
  `AtMostOncePerFault`, `NotGivenUpEarly`, `OutcomesTrue`, `VerdictsStand`. The invariant is a
  predicate of one row, its threads, its history and the number of faults (`RowOK`): a pending row
  with a thread waits at least as long as the thread may still live, its attempts are accounted
  for by requests made or faults, a success not yet stamped is the only one in excess of the
  faults. Each action is shown to preserve it row by row. `RowsMoveOnward` (`Spec => Lifecycle`)
  needs no such assumption: it rests on two facts about each step, which shapes a row and its
  history can have (`Shapes`) and that a step only takes them onward (`Onward`), and so holds for
  threads that outlive their lease.
* `WebhookProofs`, the master key: `KeysTypeCorrect`, `SecretsStayReadable`, `RestartsKeepKey`,
  `FreshDeliveriesSigned`, for any number of subscriptions, rotations and keys. The properties speak
  of quiet states; the invariant has to say what holds while a rotation is under way: its key is
  nobody else's before the swap (`KeysFresh`), between commit and swap its rows and the deliveries
  enqueued from them wait for that key (`Resealed`), and with no rotation there they are under
  the key in memory (`UnderKey`). The file follows the memory (`FileAgrees`), except while a swap is
  not written yet.
* `EdgeProofs`, the rate limits: `TypeCorrect`, `WindowsBounded`, `RetryHonest`, and `Refinement`
  (`Spec => LenientBucket`), for every capacity, cost, refill and cleanup age, any number of
  concurrent calls and any `MaxWait`. `WindowBounded` is not inductive: `WindowAccount` adds what
  is left in the bucket to what was admitted, and the sum grows by the refill and, when a call
  settles, by what it has waited (`SettledLevel`: that much more may be in a bucket that was dated
  back). `RetryCovers` says that at the time a refusal named, the bucket as refilled then holds
  the cost; `Dated` that nothing is dated in the future. Eviction preserves all three because of
  `BudgetAssumption`: a bucket left alone for `Stale` is full (the slowest budget, 20 tokens at 10
  a minute, refills in two minutes; the cleanup task waits an hour).
* `EdgeProofs`, readiness: `ReadyTypeCorrect`, `PulledInTime`. The count of failed probes is reset by
  a success, so the invariant has to tie it to time: as long as the server is routed to, a cause has
  lasted at most one period more than it has made probes fail (`Pulled`), and a probe in flight
  misses only causes that are younger than the probe (`Seen`). `Delayed` ties the drain delay to the
  age of the drain. It assumes that probes do not overlap (the period is at least the timeout).
* `EdgeProofs`, the event bus: `BusTypeCorrect`, `NothingIsLost`, for any ring, any number of
  clients and subscriptions. The invariant adds that the positions are behind the bus (`Passed`) and
  that a delivery under way is of a handled event and not made yet (`JobsSound`).
* `AccessProofs`: `TypeCorrect`, `RotationsKill`, `QuietIsOwned`, `TokensOfMakers`, `QuotaHolds`,
  for any users, ids and tokens and any finite number of requests at a time. `RowOrWriter`: a
  directory has its row or a request about to write it. `MakersKnown` follows an id through its
  handlers: who owns it or is about to record it, who has passed the check of its owner and whose
  tokens it has are among those who have made its directory, or the admin. `QuotaAccount` counts
  rows together with the requests that have passed the quota and have no row yet; the sum stays
  below quota plus requests because the one that passes sees fewer rows than the quota.
* `AccessProofs`, the walk over the pages: `DashTypeCorrect`, `WalksLoseFew`, for any finite set of
  repositories, table, page limit and cap, and any number of changes, clicks and faults.
  `WalkLosesFew` speaks of the end of a walk; `WalkSound` says of every point of it that the standing
  rows passed unseen (`Lost`) are no more than the changes so far, also with the rows added by which
  the table has outgrown the first count. The lemmas `Removed` and `Inserted` say that a change
  moves one row at most across any position, or makes the table longer and moves none; `PageFacts`
  that a page continues where the walk is and comes up short only at the end of the table.
* `StorageProofs`, garbage collection: `TypeCorrect`, `StableIsKept`, `PushedIsKept`, for any graph, any
  repositories and any number of pushes, forks and passes. `StableMet` says what a pass has learnt
  of the objects that stay reachable while it walks, `MadeUnlisted` that an object made by a push
  in flight is young and on no list.
* `StorageProofs`, the fork network, under `~CoarseClock`: `ForkTypeCorrect`, `ForksStayWhole`,
  `HitsStayTrue`, for any finite set of repositories and any forks and deletes. `NoForkBroken` holds
  because of the order:
  among the forks a delete has met, those whose source it will remove are on its list and deeper
  than the source, or broken already (`RequestSound`). For the plan this needs `HitsAreTrue`: the
  levels come from the cache. `Dated` says that no file is of the future, so that a new file
  misses every cache entry, `BrokenKnown` that a fork not known to be broken has its source.
* `UploadPackProofs`: `TypeCorrect`, `RowsAlwaysReal`, `FetchAlwaysComplete`, `ReadsAlwaysServed`, for
  every graph, every layout of refs and any number of writer steps. The invariant has one
  part per phase of a request: `Observed` (the values the refs have now are on record), `HeadSound`
  (while HEAD is looked up the packed line is as good as the file that was not there), `RowsSound` (a
  row of `enumerate_refs` is right, or will be overridden, or its file is gone), `WalkSound` (a row of
  `list_refs` is right, or the packed line will do), `FetchSound` (the client is closed under parents
  until it gets the pack, and what the walk does not yield it has, or is reached from what the
  cutoff passed over: `NotShown`, `WalkCovers`), `ObjectsSound` (no ref dangles or
  comes back from packed-refs, and the native generator gives up for a reason). It assumes that
  clones are closed under parents; nothing of the times.
* `UploadPackProofs`, the packs: `IngestInvariance`, `PacksResolve` (`IngestSpec => []ResolvesExactly`),
  for any packs, stores, resolvers and word, and any number of steps of others. `Known` says that
  n resolved entries are known to the reference after n rounds, `AtHand` that the store has nothing
  but what others wrote and what was resolved, `InPhase` which entries each phase has dealt with:
  in a pass an entry is resolved, queued or put off, once, and as long as the pass has resolved
  nothing, what it put off is `Baseless`. Three facts about the reference carry the steps.
  `RoundsInMore`: with more objects the rounds know no less. `RoundsGrounded`: an entry means one
  object at most, made from a base that means one. `OffsetIsDistance`: decoding an offset bit by bit,
  wrapping as it does, is the numeral modulo the word. From them `StuckRightly`: when a pass puts
  off all it had, no round reaches an entry that is left, be it in a cycle or without its base.
  Assumed: a word has an even number of values.
* `UploadPackProofs`, the frames: `FramesReadBack` (`PktSpec => []FramesExact`), for every stream and
  every limit below what four hex digits can say. `Consumed`: writing what was read gives what was
  consumed. `ReadUpTo(m)`: m frames are read, the bytes are those m frames and the buffer, and at
  the end the buffer is short of the next frame. `ReadWhole` and `ReadPart` are the two halves of the
  step, `ReadConsumes` the way back; `HexRead` and `DigitsBack` that four digits and a number
  determine each other. A stream may also be bytes that no writer made (`frames` is empty): for them
  `Consumed` is what there is to say. Upper and lower case of a hex digit are the same byte.

`CommitGraphProofs` has the lemmas about `Reach` that `RefWritesProofs`, `UploadPackProofs` and
`StorageProofs` share.

Only model-checked: liveness (`EventuallyFinalized`, `Reclaimed`, `BootsAgain`, `StopsWhenTold`,
`Terminates`, `DetailSettles`), since the prover has no rules for fairness; and of `ParsersExact`
all but the frames: what the folds of the other parsers compute for every input takes induction
over data for each of them. That `Depths` has one member in every state, so that the cascade is
never stuck, was checked with TLC on the instance of `fork_network`.

## 5. Where code and documentation disagree

Each item was met while modelling. Most are states a module reaches: where a property is named, it
is defined in the module, it states what the documentation says, and TLC refutes it when the run's
cfg has that property (and the constants given) instead of its own, without symmetry.

1. `RefWrites`, `ThreeWayHasTarget`. A comment in `merge.rs` says the three-way path always has a
   target; with strategy `merge` onto a missing branch it has none, and the client gets a 500.
2. `AuditChain`, `MismatchMeansTampering`. The admin endpoint describes a mismatch as tampering; the
   server's own retention makes every later verification fail, because the oldest survivor is
   chained to a row that was pruned and the scan expects the genesis hash.
3. `WebhookOutbox`, `SingleFlight`, with `Deadline` 3. The lease exists "so a slow worker can't
   double-deliver"; a thread that is slow enough outlives it and two threads deliver the row.
4. `ForkNetwork`, `OnlyForceOrphans`. "Without this flag a delete that would orphan a fork's
   object graph fails with 409": a fork that completes between check and removal is orphaned
   without it. So is a fork that was complete all the time, when what it was forked from is itself
   still being made by another request, and gets its alternates file after the check (with two
   forks).
5. `ForkNetwork`, `HitsAreTrue`, with `CoarseClock = TRUE`. "mtime tracking is sufficient": not when
   the clock of the file system ticks more slowly than `fs::write` takes. A lookup between creation
   and content is then cached for good, and the delete check no longer sees the fork.
6. `WebhookKeys`, `AddsAreSerialized`. "`add` and `rotate_master_key` both take the conn-mutex
   first to serialize": the mutex has become a pooled connection, which excludes nobody, and an
   `add` may seal under a key that a rotation replaces before its row is inserted.
7. `Server`, `KindIsOutcome`. "Classify the drain outcome for the `server.shutdown` audit event"
   (`app.rs:1066`): the kind goes by the time since the drain began alone, with an epsilon. A
   drain that cut requests off just at its deadline is graceful, and one whose tasks joined late
   has timed out.
8. `Readiness`, `SlowFailsClosed`. "Slow-but-not-broken stores fail closed rather than blocking
   the probe" (`rest/health.rs:28-31`); the SQLite stores do not yield, so a late success is a
   success. `deploy/k8s/deployment.yaml:85-98` (period 5, threshold 2) needs ten seconds to take a
   server out of rotation, and the default drain delay is five (`app.rs:189`):
   `PulledBeforeRefusal` bounds the refusals only for a delay longer than the window.
9. `Dashboard`, `DetailIsSelected`. The poller stashes a detail "only if the selection
   hasn't changed underfoot", but compares it with the id it asked for (`polling.rs:194-201`), not with
   the one selected by now: for one poll the tab shows the former
   selection. `WalkLosesFew` leaves out tables with a row that does not decode: such
   rows are counted and skipped, so that a page comes up short and ends the walk early.
10. `UploadPack`, `PackIsExact`. The walk "yields every commit reachable from wants that is NOT
   reachable from haves" (`native_pack.rs:125-130`): a client that has c3 and wants c2, an older
   commit that c3 does not reach, gets an empty pack and a success. A commit that was collected
   after the advertisement is passed over likewise.
11. `RateLimit`, `BurstAndRefill`. "`capacity` is the burst allowance; `refill_per_sec` is the
   sustained throughput" (`rate_limit.rs:55-56`): the clock is read before the entry is locked
   (`rate_limit.rs:121-124`, `ip_rate_limit.rs:65-66`) and the bucket dated to it whatever its
   date is (`:133`, `:74`). A call that lost the race for the lock dates it back, and the next one
   is credited the same time again. The excess is what calls wait there, microseconds as a rule.
12. `Server`, `RetiredForGood`. "The previous secret stops authorizing any JWT on the next
   request, no restart required" (`rest/admin.rs:270-271`), and `persisted` says that the file
   "was rewritten" (`:258-259`): of two rotations that cross, the one that swapped first may write
   the file last, both report `persisted: true`, and after a restart the key that the later
   rotation replaced signs again.
13. `Server`, `NeverBlocksForever`. `drain_background_tasks` returns "with the rest abandoned rather
   than blocking shutdown forever" (`app.rs:954-960`): it does return, and the audit row is written,
   but `main` does not end as long as a blocking thread runs, such as a sweep
   (`gc.rs:438`) whose `git rev-list` (`gc.rs:308`) has no timeout.
14. `Access`, `CreateFailsIfExists`. "Fails if the repo already exists" (`storage.rs:204`): two
   creates that both pass the exists check make one directory and both succeed; the loser of the
   owner row has a write token to the winner's repository.

Conversions, on inputs that `ParsersExact` leaves out:

* log: a commit message that holds the separator `\x01` is cut into fields (`reads/mod.rs:179-183`);
* diff: changed lines that begin with `++` or `--` are dropped as headers, and files with braced
  renames or quoted names attach their hunks to the previous file;
* tree: directories are sorted first over the whole listing, where the comment says "at every level";
* merge-tree: a conflicted path with a TAB adds a path that does not exist (`merge.rs:467-475`);
* names: `valid_ref_name` refuses components that begin with `-` and says `git check-ref-format`
  does, `valid_branch_name` takes them; `validate_sha` takes upper case, `Oid` does not; a path with
  `..` inside a name can be committed and not be read;
* pkt-line: a length of the form `+123` parses, as `from_str_radix` takes a sign;
* packs: an entry that inflates to less than it declares is accepted, and `read_delta_varint`
  drops the high bits of its last byte;
* packs: an OFS_DELTA offset past 2^64 wraps, because `checked_shl` checks the shift and not the
  value. The tests `..._rejects_overflow` and `..._checked_overflow_returns_error` name a refusal
  that they do not assert; a comment (`parse.rs:2526-2535`) knows of the wrapping and calls the guard
  dead code, as no bytes give 2^64 - 1 before it: those of 2^57 - 2 followed by 0x7f do, so that one
  more byte is refused. `PackIngest` has an entry of either kind;
* metrics: `metrics.rs:18` documents `artifacts_rate_limited_total{class}`; the counter has no label.

## 6. What is not modelled

Abstractions inside the modules. The `git receive-pack` fallback of `pack_handler` is left out
(the native path is the default for requests that parse); its `git gc --auto` does not know the
forks that borrow from a repository. Work of a dropped handler that a blocking thread finishes
anyway is covered by dropping the handler one step later. The audit database is one table with
serial transactions, as `BEGIN IMMEDIATE` makes it; outbox transactions are atomic and their
failures are `MarkFails` or an event that was never enqueued; a lookup in the alternates cache, a
scan of the repositories and a `remove_dir_all` are one step each. In `GcSweep` a file does not
grow old under the request that writes it (the default age is two hours, far above the request
timeout), and a run with `minAgeSecs = 0`, which asks for no protection, is left out. A push
renews the files of objects that are there already, but a pass that has listed them as old before
that may still unlink them (`gc.rs` says so itself); `PushedKept` is therefore about what the push
itself has made. A fork that was left half made stops the collection of its network. Whether the
client accepts a pack that lacks commits is its own affair and not modelled. Partial writes of a
failed ingest stay in the store, as unreferenced objects. Tokens of a bucket are integers of a
finer unit, where the code has `f64`. A restart hands out fresh buckets, which `Restart` models
and the windows begin anew.

Left out within components: `MemRefStore` and the other in-memory variants that tests use; the temporary
file and rename inside `write_loose`; webhook rows from before secrets were sealed and the check
of a subscription's URL; a JWT key pinned by the environment and the rotation of the admin token;
`check_bind_safety` and TLS reload; SSE streams that hold a drain without deadline open; the byte
quota, scopes and the last-used flush; side-band and the grammar of the requests; combined diffs of
merges; limits on the length of names; drawing of the GUI.

Errors, configuration, logging and the counters nobody reads back keep no state that anything
else depends on. `PROJECT.json` has the status of each component.

## 7. Plan

1. Proofs: the parts of `ParsersExact` beside the frames, one parser at a time.
2. Models: crashes inside `write_loose`; the byte quota; the grammar of upload-pack and receive-pack
   requests; the `git receive-pack` fallback.
3. Composition: `WebhookKeys` with `WebhookOutbox`, for what a retried delivery is signed with; larger
   instances of `GcSweep` (three commits, two forks).
