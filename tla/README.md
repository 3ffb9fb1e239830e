# Verification of puzzpool

puzzpool hands out slices of a key range ("puzzle") to GPU workers, takes their
results, and shows what has been searched. This directory holds TLA+ models of
the server, TLC configurations that check them on small instances, and TLAPS
proofs. Paths below are those of the repository.

## 1. Inventory

### Components

| Component | Code | State | Operations |
|---|---|---|---|
| Virtual-chunk allocator | `src/allocator.cpp` | `alloc_cursor_hex`, `bootstrap_stage` per puzzle; interval lists in memory | seed, cut a fresh run, import blocked ranges, load interval lists |
| Job lifecycle | `src/work_service.cpp`, `src/submission_service.cpp` | tables `chunks`, `workers`, `findings`; file `BINGO_FOUND_KEYS.txt` | `/work`, `/heartbeat`, `/submit` done and FOUND, reclaim |
| Admin handlers | `src/service_admin.cpp` | table `puzzles`, `blocked_vchunk_ranges` | activate, set puzzle, set test chunk, import ranges, reclaim |
| Start-up | `src/db.cpp`, `src/service_bootstrap.cpp`, `src/service.cpp` | the database file | migrate, seed configured keyspaces, repair the active puzzle |
| Visualization cache | `src/service_visualization.cpp`, `src/service.cpp` | `visRevisions_`, `visCache_` | look up, build without the lock, store, invalidate |
| Puzzle status refresh | `src/service_puzzle_status.cpp`, `src/puzzle_status.cpp` | status columns of `puzzles` | fetch without the lock, apply |
| Background threads | `src/main.cpp` | - | reclaimer every minute, status refresher |
| Authentication | `src/auth.cpp`, `src/auth_service.cpp` | none on the server (signed cookies in the browser) | login, callback, logout, `/auth/me`, the guard of the admin routes |
| Permutation | `src/permutation.cpp` | none | affine and Feistel order of virtual chunks |
| Statistics | `src/service_stats.cpp`, `src/service_serialization.cpp` | none | read-only |
| The rest | configuration, hex conversion, hashes, HTTP client, log redaction, frontend, deployment | none that matters here | - |

### How they interact

All handlers of `PoolService` share one `std::shared_mutex`, `mu_`. Every handler
that changes something takes it uniquely from its first read to its last write,
so two of them never interleave. The exceptions are what makes the system hard:

- pictures are built **without** the lock, through a read-only connection, and
  stored later under it;
- the status refresh fetches **without** the lock and applies under it, and several
  run at once;
- a GitHub callback waits for GitHub without any lock; its state is in cookies, which
  expire, are overwritten by another login, and outlive the server's settings;
- a handler may commit several times (autocommit statements before and after a
  transaction), so a **crash** can fall between two of its commits;
- workers are remote: their calls are late, repeated, or never made; the server
  sees only timestamps, and reclaims by **timeout**;
- the migration at every start rewrites rows, and meets databases of earlier versions.

### What must hold

- *Allocator*: a job is a non-empty run inside the puzzle; no virtual chunk is in
  two jobs; blocked virtual chunks are not issued; "all keyspace has been
  assigned" is said only after a search found as many virtual chunks taken as it may
  probe (all of them, unless `MAX_ALLOC_PROBES` is less); the stage counts the first jobs.
- *Job lifecycle*: a job has one holder; it passes to another worker only through
  a reclaim; finished rows never change; findings and chunk rows agree; a
  worker has one job per puzzle; silent workers lose their jobs; the puzzle is
  finished as long as one worker goes on.
- *Restart*: results survive a death of the process, and the file never shows a key
  the database lost.
- *Cache*: nothing older than the last invalidation is served.
- *Status*: a puzzle shown solved is solved; what is shown was true when its timestamp
  says or later; a puzzle with enough keys is shown solved in the end.
- *Sessions*: a session belongs to the browser whose login it came from; once a browser
  had the answer to a login it cannot use that login again; what `/auth/me` says is
  what the guard does.
- *Statistics*: totals counted by separate queries agree, and every live job is shown.
- *Migration*: a start succeeds on a database of any earlier version.
- *Registry of puzzles*: while requests are answered exactly one puzzle is active
  and it is seeded; a start does not switch it; jobs and imported ranges keep the
  units they were made in.

The hazards behind these properties, each with its line, are in `PROJECT.json`.

## 2. Modules

| Module | What it is | Code |
|---|---|---|
| `VchunkAllocator` | the search of the virtual-chunk strategy as operators over a set of taken virtual chunks: probe positions, shifted runs, cursor, the three bootstrap anchors | `allocator.cpp` |
| `SectorAllocator` | the legacy strategy as operators: sectors, which one is offered, where a job is cut | `allocator.cpp` |
| `AffinePermutation`, `Permutation` | the affine and the Feistel order | `permutation.cpp` |
| `ChunkPool` | the core: the chunk table and every handler that changes it | `work_service.cpp`, `submission_service.cpp`, `service_admin.cpp` |
| `KeyspaceLedger` | abstract: what the pool promises about one virtual chunk | `docs/architecture.md`, `docs/database.md` |
| `ChunkPoolLedger` | the refinement mapping from `ChunkPool` to `KeyspaceLedger` | - |
| `ChunkPoolProgress` | fairness and liveness of `ChunkPool` | `main.cpp` |
| `PoolRestart` | `ChunkPool` with a server that dies and comes back | `db.cpp`, `service.cpp` |
| `VisualizationCache` | `ChunkPool` with the cache of pictures and requests that build outside the lock | `service_visualization.cpp` |
| `IntervalIndex` | the sorted interval list behind "is this run free?" | `allocator.cpp` |
| `BlockedRanges` | the table of imported ranges, with every import | `service_admin.cpp`, `allocator.cpp` |
| `PuzzleRegistry` | the puzzles table: requests, `/work`, a start in steps, deaths | `service_admin.cpp`, `service_bootstrap.cpp`, `allocator.cpp` |
| `StatusRefresh` | the solved-state of puzzles: overlapping refreshes, found keys, the block explorer, deaths, restarts with other targets | `service_puzzle_status.cpp`, `puzzle_status.cpp`, `main.cpp` |
| `AdminSessions` | signing in with GitHub, signing out, the guard, in several browsers | `auth.cpp`, `auth_service.cpp` |
| `PoolStats` | what `/stats` counts, as operators over the state of `ChunkPool` | `service_stats.cpp` |
| `Migration` | the statements of the migration over the columns each table has | `db.cpp` |
| `ChunkPoolProofs`, `LeaseProofs`, `PoolRestartProofs`, `PuzzleRegistryProofs`, `VisualizationCacheProofs`, `AdminSessionsProofs`, `StatusRefreshProofs`, `BlockedRangesProofs` | theorems | - |
| `MC*` | the instances TLC checks | - |

`ChunkPool` extends the two allocators; `PoolRestart`, `VisualizationCache` and
`ChunkPoolProgress` extend `ChunkPool` and reuse its actions unchanged; `PoolStats`
extends it with queries. `StatusRefresh`, `AdminSessions` and `Migration` share no
state with the chunk table beyond the table of findings, which `StatusRefresh` keeps
as a set of its own (`Find` is the effect of an accepted `SubmitFound`).

### How state and actions correspond to the code

| `ChunkPool` | Code |
|---|---|
| `chunks` | table `chunks`; the row id is the index, `[lo, hi)` is `[vchunk_start_hex, vchunk_end_hex)`, or the key range of a legacy or test row |
| `lastSeen`, the field `age` | `workers.last_seen` and `chunks.heartbeat_at`, as minutes before now |
| `active`, `testRange`, `cursor`, `stage` | columns of `puzzles` |
| `reached` | `current_hex` of the `sectors` |
| `blocked` | `blocked_vchunk_ranges`, as the set it covers, and the copy in memory, which every `/work` reloads before it searches (`allocator.cpp:43`) |
| `findings` | table `findings` |
| `Work` | `WorkService::assignWork`: reactivation (`TableFor`), the worker's own job, the test chunk, a reclaimed job, a fresh one, or 503 |
| `Heartbeat`, `SubmitDone`, `SubmitFound`, `ReclaimTimedOut` | the functions of these names |
| `ActivatePuzzle`, `SetTestChunk`, `ImportRanges` | the admin handlers |
| `Tick` | the clock of SQLite |

A handler is one action, because it holds `mu_` uniquely from its first read to
its last write. In `PoolRestart` a crash between two commits of a handler is one
action too: nobody else runs between those commits. `PuzzleRegistry` splits a
start into its autocommitted statements and lets the server die after each.
`VisualizationCache` splits a request into look-up, two reads of the database,
and store. In `PuzzleRegistry` a set-puzzle that dies between its commit and its
`ensureAllocatorForPuzzle` loses the seed the admin chose: the next start seeds
the puzzle with the derived one.

| `StatusRefresh` | Code |
|---|---|
| `puzzles` | name and status columns; `target`, `state`, `checked`, `note` |
| `refresh[r]` | the locals of `refreshPuzzleStatuses` in thread `r`: its timestamp, targets and results |
| `Collect`, `Fetch`, `Apply` | the block under the first lock; one turn of the loop without it; the block under the second lock |
| `PollerWakes`, `ActivatePuzzle`, `SetPuzzle`, `Start` | who calls it: the poller of `main.cpp`, the two handlers, the constructor; `SetPuzzle` may add a row of a name there is already, as the code does when the parameters differ |
| `Die` | also between two updates of either loop: each commits for itself |
| `heldAt` | history: when the target of a puzzle last was in a state |

| `AdminSessions` | Code |
|---|---|
| `cookies[b]` | the state cookie and the session cookie browser `b` would send |
| `calls[c]` | a request to the callback under way: `Sent`, with the state cookie its browser had at that time, or `Exchanging`, past the state check |
| `handleGithubLogin`, `handleLogout` | the routes of these names |
| `CallbackSent` | a browser follows a link to the callback, at any time and any number of times |
| `CallbackBegins`, `CallbackEnds` | `handleGithubCallback` up to the exchange, and from GitHub's answer to its response, which may be lost (`Answer`) |
| `authorizeAdminRequest`, `IsAdmin` | the guard, and `is_admin` of `/auth/me` |
| `begun`, `answered` | history of logins and of the answers each browser had; `Links` are the addresses GitHub may have sent somebody to |

In `Migration` a statement is the columns it needs and the columns it makes;
`Execute` runs the next one, `Throw` ends the start when a column is missing.

### Abstractions

- Key ranges are measured in virtual chunks of size 1; a legacy puzzle in keys.
  The rounding of an imported key range to virtual chunks is in `BlockedRanges`.
- The worker's hashrate, `min_chunk_keys` and `chunk_quantum_keys` appear only as
  the length of run they ask for, any number from 1 to `MaxRun`.
- An age counts up to one past the timeout, where no comparison can tell it from
  a larger one. So time needs no bound of its own.
- SHA-256 is a parameter: any multiplier and addend, any round functions.
- "`ORDER BY RANDOM()`" is a nondeterministic choice.
- Requests are well formed; a statement that fails is modelled in `Migration` only.
- A signed cookie is a record of the secret it was signed with, its expiry and its
  content. GitHub exchanges a code only once; the model lets it exchange one any number
  of times, so that no property of the server rests on it. Logins and logouts are
  answered at once.
- `blocked` is one variable for the table and the copy in memory. Both change or are
  reloaded under the same lock, so they agree wherever the code uses the copy; that
  a copy could be left stale is not expressible.
- A start may turn jobs into test rows. `ChunkPool` and `PoolRestart` say which;
  `PuzzleRegistry`, which has no rows of chunks, lets a start take the jobs of any
  puzzles away (`MarkTests`).
- What the explorer says of an address is unfunded, funded or spent, and only moves
  on; a look-up may fail.

## 3. Runs

State counts are of one complete search.

| Run | Instance | States | Shows |
|---|---|---|---|
| `Leases` | 2 workers, 2 virtual chunks, 1 key, two test ranges, one of them equal to a job | 147,191 | lease columns, one holder of the test chunk, findings and rows agree, totals of `/stats` agree and live jobs are shown, finished rows final, no direct handover, `KeyspaceLedger` implemented |
| `Search` | 2 puzzles: 5 virtual chunks, 4 probes, runs of up to 2, imports; and a legacy one of 3 keys in 2 sectors | 640,504 | jobs apart and inside, off blocked ranges; stage = number of jobs, also after a search that failed; sectors; 503 only when as many virtual chunks are taken as the search may probe; one job of a puzzle per worker |
| `Restart` | 2 workers, 1 virtual chunk, 2 keys, the test range equal to the job, 2 deaths | 258,353 | results survive; the file never ahead of the database; no worker comes back to two jobs (deaths of the process, not of the machine) |
| `Progress` | a survivor and a worker that may vanish, 2 virtual chunks, imports | 4,470 | the puzzle is finished; no stale row stays |
| `Pictures` | 1 worker, 1 request, 2 puzzles, 2 views, imports | 821,416 | nothing older than the last invalidation is served |
| `Imports` | 9 keys in virtual chunks of 2, two sources, two bases and steps | 11,976 | exactly the touched virtual chunks are blocked; rows compact; binary search and count right |
| `Registry` | up to 3 rows of puzzles, 7 requests, 4 configurations, deaths | 197,040 | one active, seeded puzzle; a start keeps it; units kept |
| `Status` | 2 puzzles (an address, a threshold), 4 settings, 3 refreshing threads, 2 findings, deaths | 1,373,367 | solved means enough different keys; what is shown was true; a target that is gone shows nothing; solved for good |
| `Sessions` | 2 browsers, 2 users, 6 settings, 2 logins, 2 callbacks under way | 1,534,908 | sessions come from the browser's own login; a callback sent after the answer to its login is refused; `/auth/me` agrees with the guard |

Three more runs end in a violation, each of one statement of the documentation:
see section 6.

### Bounds, and why they are enough

| Bound | Where | Why it is enough |
|---|---|---|
| `MaxTestChunks` | `SetTestChunk` waits once so many test rows exist | Every other row takes a virtual chunk, so this makes the table finite. 1 gives a test row handed out, returned, reissued and finished beside normal jobs |
| `MaxRun`, virtual chunks | constants | 5 virtual chunks: three anchors, and two that only the probe loop finds; runs of 2 do not fit in places and fall back to 1 |
| `MaxAllocProbes` = 4 | `Search` | One less than the virtual chunks: a search may end before it saw the free one, and does |
| `TimeoutMinutes` = 0 | constant | An age is below or past the timeout; more minutes add no case of a comparison |
| `FourRows` | `Search` | Only four rows are explored: all of one puzzle, or parts of both |
| `TwoRows` | `Restart` | A job, its repeated issue and a test chunk |
| `MaxRestarts` = 2 | `PoolRestart` | A death, and one after the recovery from it |
| `MaxRevision` = 4 | a handler that invalidates waits below it | A build spans at most the two reads; four revisions bring two invalidations during a build and a picture of each |
| `MaxPuzzles` = 3, `MaxIds` = 2 | `Registry`, `Imports` | Three rows of a name; an import of two ids makes two intervals, and any sequence of imports is explored, so an interval that bridges rows on both sides occurs |
| `MaxPuzzles` = 2, `MaxFindings` = 2, `MaxClock` = 1 | `Status` | One puzzle of each kind of target; two findings reach a threshold of 2, or report a key twice; two instants tell a stale result from a fresh one |
| `MaxLogins` = 2, two `Callbacks`, `MaxClock` = 1 | `Sessions` | Two logins are two of one browser or one of each; two callbacks under way are a first and a repeated one of a login, or those of two; both cookies live 1, so at the second instant each may have expired or be fresh |
| `MaxStarts` = 2 | `Upgrade` | A start, and one after it failed or died |

Workers (in `Sessions`, browsers and callbacks) are symmetric where `SYMMETRY` is given: no constant tells them apart, and
none of those runs checks liveness (`ImplementsLedger` is a safety property,
`Ledger!Spec` has no fairness).

### Fairness

`ChunkPoolProgress` assumes weak fairness of `Tick` and `ReclaimTimedOut`: the
clock runs and the reclaimer thread wakes every minute (`main.cpp:161-168`). The
rest is an assumption about clients, not about the code: a *survivor* goes on
asking for work, and, again and again, in time not to be reactivated (strong
fairness: the chance comes and goes with the clock), and finishes some of the
jobs it gets. Every other worker and the admin may do anything for a while and
then stop. The second assumption is needed: a worker that always comes back after
the reactivation timeout is never offered a reclaimed job (`work_service.cpp:51`).

`StatusRefresh` assumes weak fairness of the steps of every refresh (a look-up ends:
curl gives up after 15 seconds), of the poller, which sleeps and refreshes in a
loop (`main.cpp:170-177`), and of starting the server again. `SolvedForGood` asks
in addition, as its premise, that the server does not die again and again. Nothing
is assumed of handlers, of the explorer or of those who find keys.

### Deviations

Operators whose comment starts with "Deviation" belong to no specification. Each
is a plausible slip in the definition it precedes; put in that definition's place
it makes the run violate the property, which shows that the property depends on
that piece of the code. `PROJECT.json` lists the pairs.

## 4. Proofs

TLAPS proves every safety property the runs check, invariants, action properties
and the refinement, for every value of the constants that meets the assumptions
below: any number of workers, puzzles, virtual chunks, keys, requests, browsers,
refreshing threads, and any bound on tests, restarts or revisions.

| Module | Theorems |
|---|---|
| `ChunkPoolProofs` | `TypeCorrect`, `SectorsFreeCorrect`, `NoDoubleIssueCorrect`, `JobsInsideKeyspaceCorrect`, `FreshJobsAvoidBlockedCorrect`, `StageCountsJobsCorrect`, `ExhaustedMeansSearchedCorrect`; `SectorsPartition`: every key of a legacy puzzle is in exactly one sector; `AffineOrderVisitsAll`: every virtual chunk has a position in the affine order; `AffineSearchedCorrect`: the theorem on exhaustion for that order |
| `LeaseProofs` | `LeasesCorrect`, `LeaseShapeCorrect`, `OneJobPerWorkerCorrect`, `FindingsMatchChunksCorrect`, `OneTestChunkOutCorrect`, `FinishedIsFinalCorrect`, `NoDirectHandoverCorrect`, `ImplementsLedgerCorrect` (the pool refines `KeyspaceLedger`), `LiveJobsShownCorrect`, `StatsAddUpCorrect`; `SumCountsUnion`: a sum of the sizes of separate sets counts their union |
| `PoolRestartProofs` | `RestartInvariant`, `OneJobSurvivesRestart`, `FindingsSurviveRestart`, `BingoOnlyCommittedCorrect`, `ResultsSurviveRestartCorrect` |
| `VisualizationCacheProofs` | `CacheInvariant`, `ServedSinceInvalidationCorrect` |
| `BlockedRangesProofs` | `OverlapsIsSetTest`, `AbsorbKeepsApart`, `MergedIsMergeOf`, `InsertOrMergeCorrect`, `InsertAllCorrect`, `TotalIsCardinality`: what the binary search, the merge, the insertion and the count compute; `BlockedInvariant`, `BlocksExactlyCorrect`, `RowsApartCorrect`, `IndexExactCorrect`, `CountedOnceCorrect`, `ReimportChangesNothingCorrect` |
| `PuzzleRegistryProofs` | `RegistryInvariant`, `OneActiveCorrect`, `AllSeededCorrect`, `ActiveSurvivesStartCorrect`, `JobsKeepTheirUnitsCorrect`, `BlockedKeepTheirUnitsCorrect` |
| `StatusRefreshProofs` | `StatusInvariant`, `SolvedMeansFoundCorrect`, `ShownWasTrueCorrect`, `UnconfiguredShowsNothingCorrect` |
| `AdminSessionsProofs` | `SessionsInvariant`, `SessionFromOwnLoginCorrect`, `StateUsedOnceCorrect`, `MeMatchesGuardCorrect` |

A theorem `XCorrect` says `Spec => []X`, or `Spec => X` where `X` is an action
property, with the specification of its module.

### The arguments

**Runs of the chunk table.** One lemma, `StepKinds`: a step either keeps the run
of every row, or (only `/work`) appends one row. The virtual-chunk strategy looks
whether the run is free before it appends it (`ProbeHit`, `AnchorHit`). The legacy
strategy looks at nothing, so `NoDoubleIssue` is not inductive there: it takes
`SectorsFree`, that the keys from `current_hex` to the end of a sector are in no
job. That in turn needs that sectors do not overlap (`SectorsApart`), that a job is
cut at the end of its sector, and that only `/work` moves `current_hex`.
`TypeOK /\ SectorsFree` is inductive (`Inductive`); the facts about runs and the
stage are inductive relative to it.

`ExhaustedMeansSearched` says that a 503 means at least `min(total, MAX_ALLOC_PROBES)`
virtual chunks taken, for keyspaces of any size. A failed search for one virtual chunk
has found what every probe looked at taken (`MissMeansProbed`); it counts because no
two probes look at the same one: positions that follow the cursor around differ
(`ProbesDiffer`), and an order that visits every virtual chunk (`OrdersVisitAll`)
visits none twice (`OrderInjective`). That hypothesis is discharged for
`PERMUTATION_MODE=affine` (`AffineSearchedCorrect`): Euclid's algorithm ends in 1 only
if multiplier and number of virtual chunks combine to 1, so the multiplier has an
inverse. For legacy puzzles the property says that all keys are in jobs, and needs
the converse of `SectorsFree`: what lies before `current_hex` is in a job (`SectorsCut`).

**Leases.** The handlers have one form: some jobs are taken away (none, those of a
worker that was away, those past their timeout, the one that was returned), then
one row is aged, handed out, added, finished or credited. Each of these keeps
`LeasesOK`: rows are well formed, a worker has one job of a puzzle, findings and
FOUND rows agree. It adds to the checked properties that only a found row has a
key, without which a late FOUND could be credited with a key of no finding.
`OneTest` is about every test range, not only the one that is set: an earlier range
may be set again while its old job is out. What one row goes through in a step
(`RowMove`) gives the action properties and, read through the mapping, the step of
`KeyspaceLedger`. `LiveJobsShown` needs that a worker was seen no earlier than the
job it holds (`SeenSince`), and `StatsAddUp` that sums over separate sets count
their union.

**Crashes.** A crash leaves the table some handler had committed so far
(`CommittedTable`), and the migration that follows changes only which rows count as
tests. `RestartInv` is what neither disturbs. Two properties of `ChunkPool` are not
claimed with restarts, because they read the flag the migration changes:
`OneTestChunkOut`, since a job equal to the test range becomes a second test row
that is out, and `NoDoubleIssue`, which would no longer see the job that did
(section 6, `RestartDoubleIssue`).

**Cache.** An entry is absent or of the current revision, and what a request has
read is recent as long as its revision is still the current one (`CacheInv`). So the
look at the revision before storing is what makes building without the lock safe.

**Imports.** `BlockedInv`: the rows of a source are apart, and together they cover the
virtual chunks of the keys ever imported. It rests on what three loops compute. Each
is a recursive function, and the library's induction theorems cannot be used (they
take an operator as parameter): a lemma shows that a function with these equations
exists, and that the equations hold, and each theorem looks at the least set, or the
least number, for which it would be wrong. The same is done for `gcdBigInt` and
for the sums of `/stats`.

**Registry.** A row is unseeded, or seeded for its own range and size, and only a
seeded row has jobs or blocked ranges (`RowOK`); ensuring changes a seeded row only
where `WrongDefault` lets it (`RowMove`); an update that activates a row
deactivates the others in the same commit, wherever the server dies.

**Status.** A refresh works on copies. What a copy says is tied to the tables by
facts that only get truer: findings are never deleted, targets change only with a
restart, which no refresh survives, and the history of a state only moves on. So a
result may be written late (`TargetOK`, `ResultOK`). `ConstructorOK` says why nothing
of an earlier configuration is shown: requests are served only after the
constructor's own refresh, which writes every row.

**Sessions.** The proof follows a nonce: given to one browser and kept in its state
cookie until the browser has an answer to it (`NoncesOK`), carried by the callbacks the
browser sends meanwhile, and compared by the server with the cookie they carry
(`CallOK`). So a callback sent after the answer carries another cookie, or none.

### Assumptions

All are named `ASSUME`s, which TLC evaluates in the runs.

| Assumption | Why the code justifies it |
|---|---|
| `PuzzlesAssumption` | a puzzle has a virtual chunk: empty ranges are refused; the order is a function on its virtual chunks: both orders reduce modulo, or walk below, their number |
| `MaxAllocProbesAssumption`, `SectorsAssumption` | clamps in `config.cpp`; the constant of `allocator.cpp:62` |
| `ScalarsAssumption`, `BoundsAssumption`, `RegistryAssumption`, `InputsAssumption`, `SettingsAssumption`, `ConstantsAssumption`, `CacheAssumption`, `MaxRestartsAssumption` | types of parameters; `InputsAssumption` is what the admin handler and the start check before they store a puzzle |
| `NullsAssumption`, `NoTarget \notin States` | SQL NULL is none of the values |

### Only model-checked

- Liveness (`EventuallyCovered`, `StaleRowsEnd`, `SolvedForGood`): fairness and
  `ENABLED` are out of the prover's reach.
- That the Feistel order visits every virtual chunk once: TLC evaluates it (and the same
  for the affine order) on up to 16 virtual chunks, in `OrdersAssumption`. No
  theorem assumes it silently: it is the hypothesis `OrdersVisitAll`.
- `Migration`, which is there for its violation, as are `IssuedJobsDisjoint` and
  `LateFoundHeard`: these do not hold.

## 5. What is not modelled

- **A data race.** `visualizationRevisionLocked` (`service.cpp:47`) inserts into a
  `std::map` while its callers may hold only the shared lock. Two first requests
  race; the outcome is no state of a map. The model keeps the inserts apart.
- **Starving pictures.** The build loop starts over whenever the revision moved
  (`service_visualization.cpp:447`); nothing bounds the retries, so a request
  need not be answered under steady traffic. No liveness is claimed.
- **Power loss.** `PoolRestart` and `PuzzleRegistry` let the process die; what it had
  committed is there at the next start. The database runs in WAL mode with
  `synchronous=NORMAL` (`db.cpp:16-17`), so when the machine loses power the last
  commits may be rolled back, and a line of `BINGO_FOUND_KEYS.txt` may then be
  ahead of the database. No property speaks of that.
- **Failing statements**, such as an `INSERT` that fails after the `DELETE` of the
  rows it replaces (`allocator.cpp:375`).
- **Parts of the statistics**: hashrates, generations, the counts of legacy sectors,
  which are sums over one query with no other to agree with.
- **Parts of sign-in**: how a cookie or a signature is encoded (a model has the
  verdict), and the diagnostics logged at start, which change nothing.
- **What the migration fills in**: `Migration` has the columns, not the rows; the
  marking of test rows is in `PoolRestart`.
- Drawing, JSON, logging, hex strings, HTTP, the frontend, deployment.

## 6. Where code and documentation disagree

| Run | Statement | What happens |
|---|---|---|
| `RestartDoubleIssue` | "No job overlaps possible" (`docs/architecture-review.md`) | While the test range equals a job, a restart turns the job into a test row, and its virtual chunks are issued again |
| `LateFound` | a late FOUND is accepted "regardless of current assignee" (`docs/architecture.md`) | It is refused once somebody else completed the chunk |
| `Upgrade` | "Migrations must be idempotent on both a fresh database and an existing pre-migration database" (`agent-instructions/PROJECT_INSTRUCTIONS.md`) | The first script makes indexes on columns of `chunks` that are added after it (`db.cpp:82-86`, `132-137`): on a `chunks` table from before them the start fails, and so does every later one |

Read off the code while modelling it, and not made a run of:

- "deterministic full coverage" (`docs/architecture.md`): with more virtual chunks
  than `MAX_ALLOC_PROBES` (8192 unless configured) a search can end without moving
  the cursor, and `/work` answers 503 from then on although virtual chunks are free:
  in the instance of `Search` with 5 virtual chunks and 4 probes, one is. So
  `ExhaustedMeansSearched` promises no more than that the search was made and found
  as many taken as it looked at; `EventuallyCovered` is checked with enough probes.
- A `state` "can never be replayed" (`docs/security.md:102-103`, `docs/api.md:470`,
  `auth_service.cpp:128`): the answer clears the cookie, and the server remembers no
  nonce. A callback sent before the answer to another one of the same login arrived
  carries the same cookie and passes the state check too, even when it is processed
  after that answer; then only GitHub's refusal to exchange a code twice is left.
  `StateUsedOnce` is about callbacks sent after the answer. The 503 for missing
  settings clears no cookie.
- `alloc_seed` is "immutable after first fresh allocation" (`docs/api.md:584`): a job that
  a start turned into a test row (`db.cpp:158`) is not counted as an allocation. With
  `AUTO_RESEED_EMPTY_VCHUNK_PUZZLES` on, a puzzle left without other jobs may be
  reseeded. `JobsKeepTheirUnits` is about the jobs that are still counted.
- The same parameters reactivate a puzzle (`docs/api.md:586`): only the oldest row
  of a name is compared; when it differs another row is inserted each time.
- Invalidation "is wired to all mutation paths" (`review/`): an incomplete
  submission changes a row and invalidates nothing (`service_submit.cpp:49`), and
  `/work` invalidates the active puzzle only.
- "Each statement is wrapped in a try/catch" (`docs/database.md`): none is; columns
  are looked up before they are added.
- `checked_at` is the time "of the last backend refresh" (`docs/api.md:311`): a slow
  refresh that began earlier sets it back. `ShownWasTrue` is about the time shown.

Three more limits of the code that the passing runs are stated around:

- `StaleRowsEnd` holds without a test range. The reclaimer skips test rows
  (`work_service.cpp:97`), so a test chunk held by a worker that vanished stays
  with it until the admin acts.
- `BlockedKeepTheirUnits` holds with `AUTO_RESEED_EMPTY_VCHUNK_PUZZLES` off, the
  default. With it on, the size an admin chose is replaced at the first `/work`,
  and ranges imported before that keep the numbers of the old unit.
- `ServedSinceInvalidation` bounds the age of a picture by the last invalidation,
  not by the last change.

## 7. Plan

The order in which the project grows, most important behaviour first. Done:

1. `VchunkAllocator`, `ChunkPool`, `Leases`, `Search`: the core and its safety.
2. `KeyspaceLedger`, `ChunkPoolLedger`; `ChunkPoolProgress`.
3. `PoolRestart`; `VisualizationCache`; `IntervalIndex`, `BlockedRanges`;
   `PuzzleRegistry`; `SectorAllocator`, `Permutation`.
4. `StatusRefresh`, `AdminSessions`, `PoolStats`, `Migration`.
5. Types, runs and blocked ranges of `ChunkPool`; sectors; interval lists: proved.
6. Leases, findings, stage and exhaustion of `ChunkPool`, the refinement of
   `KeyspaceLedger`, the totals of `/stats`: proved.
7. The safety of `PoolRestart`, `VisualizationCache`, `PuzzleRegistry`,
   `BlockedRanges`, `StatusRefresh` and `AdminSessions`; the affine order; exhaustion
   for keyspaces of any size: proved.

Next:

8. That the Feistel order is a permutation: each round undoes itself, and the walk
   of a permutation that starts below n returns below n. Then
   `ExhaustedMeansSearched` without a hypothesis, in both modes.
9. The copy of the blocked ranges in memory as a variable of its own, and power loss
   as a restart on an earlier commit.
