# Formal verification of all-in-one-ARR

TLA+ models of the backend of all-in-one-ARR (`src/backend`), the TLC runs that check them
on small instances, and TLAPS proofs of what holds for every instance. Modules follow the
source: a definition carries the name of the function or column it stands for, and
`PROJECT.json` maps each one to its lines.

## 1. The system

One Python process: FastAPI and APScheduler share one asyncio event loop (a single Uvicorn
worker), one SQLite database in WAL mode and one JSON settings file. Nothing runs in
parallel with the loop except short `asyncio.to_thread` calls that hold no shared state; all
concurrency is coroutines that interleave at their awaits: scheduled jobs, API handlers and
detached tasks. The process may die at any point; SQLite and the settings file survive it,
everything else (gates, queues of tasks, latches, manual pauses) does not.

| Component | State | Operations | Hard part |
|---|---|---|---|
| **SyncGate** (`core/context.py`) | an `asyncio.Lock` | `run` (waits), `try_run` (409 when held), `is_running` | the lock is free between a release and the wake-up of the next waiter; cancellation of a waiter |
| **List-Syncarr** (`modules/list_syncarr`) | `items` table, `tracked` lists and `auto_remove` settings, per-cycle outage latch | scheduled poll, "Sync now", refresh of off-list items, "Delete availables" sweep, per-item delete | rows are read before and written after awaits; removal is a three-step saga over Trakt, Seer and SQLite; the sweep and the delete do not use the gate; request back-off |
| **Findarr** (`modules/findarr`) | `findarr_processed`, `findarr_searches`, `findarr_history`, run state | scheduled and manual runs, read back outcomes, reset, clear, settings | the cap is counted from the log; a search is awaited, then recorded in several commits, with a crash between them; verdicts from a grab history that others write too |
| **Deletarr** (`modules/deletarr`) | scan results in memory, settings | scan (by name or against the Arr), delete selected | results, tracked files and disk are all older than the delete that acts on them |
| **Languagarr** (`modules/languagarr`) | scan results in memory, `languagarr_queue` table, settings | scan, scheduled run, batch by hand, enqueue, clear, reviewed "Delete & search" | enqueue and clear are not gated; what is re-read before an irreversible step; crash between a delete and its search |
| **Cleanarr** (`modules/cleanarr`) | `cleanarr_strikes`, `cleanarr_quarantine`, settings, the completed and quarantine folders | queue pass, malware, orphan and purge passes, clear strikes, ignore, settings | reads that are partial or malformed; reads of three services at different moments; rename and its database row are two steps |
| **Bandwidth Controllarr** (`modules/bandwidth_controllarr`) | `_ControlState` in memory, settings | control tick, switch, limiter, pause and resume by hand | the switch is stored ahead of the lock a tick holds; answers that are lost; manual pauses are lost on restart |
| **Trending** (`core/trending*.py`, `clients/omdb.py`, `anilist.py`, `tmdb.py`) | feed store and its mirror in SQLite, ratings, OMDb's daily usage, key pool and pointer | refresh cycle, page read, rating backfill, key and interval settings | three starters of one cycle, two of one backfill; lookups of one batch share a pointer; days end while a batch runs |
| **Dashboard** (`core/dashboard*.py`) | cached statistics, daily snapshot | refresh, serve | serve-stale cache, single flight |
| **Status checker** (`core/status_checker.py`) | last result per service | check one, check all | an older answer overwrites a newer one |
| **Scheduler** (`core/scheduler.py`) | schedules | add, reschedule (remove, then add) | the job missing between the two steps |
| **Trakt client and auth** (`clients/trakt.py`, `trakt_auth.py`) | tokens, device code session | read list, remove items, authorise, refresh | token refresh raced by calls |
| **Settings store** (`core/settings_store.py`) | JSON file | typed reads and updates, normalisation | items are keyed by slug, lists by owner and slug |
| **Database** (`core/db*.py`) | SQLite tables | upserts, counters, retention | updates of rows that were cleared meanwhile |
| **Clients, webhooks, posters, anime ids, metrics, services API** | little or none | I/O and conversion | — |
| **Frontend, scripts, CI** | browser state | React views | — |

How they interact: the scheduler fires each module's job, which enters the module's gate with
`run`; the API enters the same gate with `try_run`, or calls a module function directly without
one (per-item delete, sweep, clear, ignore, enqueue). Modules share the database and the
settings store by synchronous calls that never interleave, and reach services through clients
whose every call is an await.

### What makes each part correct

* **SyncGate**: runs never overlap; a waiting run is served, in order; a cancelled one loses nobody's wake-up.
* **List-Syncarr**: one cycle at a time; never two live requests of the program for a title; a
  declined title is left alone; only items read from a list are requested; auto-remove waits
  for availability; `removed` means off the Trakt list and no Seer request left; an outage mutes
  the cycle; items get requested, and removed, in the end.
* **Findarr**: searches of any hour stay within the cap, and of a unit within its back-off; "found nothing" is
  never said of a search that grabbed, and a grab is credited only to a command it could be of; a verdict
  reaches that search's row; what a reset cleared comes back only with a search; every search gets an outcome.
* **Languagarr**: one scan, batch or delete at a time; every pending row is worked off; no file is
  searched for, or deleted, that stopped qualifying since the scan; "searched" means Sonarr took the search.
* **Cleanarr**: an incomplete read strikes, clears and removes nothing it cannot see; what is removed
  earned its strikes; only entries nobody refers to are moved, and what is ignored or importing is spared.
* **Deletarr**: where the root folders have the mount in common, a delete never takes a file the Arr tracks,
  nor anything in the folder of a title that waits for its import; never one that came into a folder reported as empty.
* **Bandwidth**: what is paused by hand stays paused; limits are those of the settings at that
  moment; everything settles, up to the pauses of others, which are theirs to end.
* **Trending**: the budget of the day is kept, nothing that some row links is paid twice, the page becomes
  current, and what it shows is rated again and again.

## 2. Modules

| Module | Models | Extends or instantiates |
|---|---|---|
| `SeqFilter` | the list comprehension with a condition, as a recursive function | — |
| `SeqFilterProofs` | what it yields for every list; the least and the greatest element of a set of numbers | `SeqFilter`, the library's theorems |
| `FifoGate` | what a gate promises: one holder, first come first served | `SeqFilter` |
| `SyncGate` | `SyncGate` over `asyncio.Lock`, at the grain of the loop's steps | `SeqFilter`, `FifoGate` (refinement) |
| `SyncGateProofs` | proofs about `SyncGate`, its refinement of `FifoGate` among them | `SyncGate`, `SeqFilterProofs` |
| `ListSync` | List-Syncarr with the items table, the Seer and Trakt calls, users and crashes | `FifoGate` (refinement of its gate) |
| `MCListSync` | the sets of user and service moves the runs allow | `ListSync` |
| `ListSyncProofs` | proofs about `ListSync` | `ListSync`, `SeqFilterProofs` |
| `Languagarr` | Languagarr with its queue table, the Sonarr calls, users and crashes | `FifoGate` (as its gate) |
| `LanguagarrProofs` | proofs about `Languagarr` | `Languagarr` |
| `Findarr`, `MCFindarr` | Findarr: its three tables, the run, and the Arrs' commands and grab history | `SeqFilter`, community modules |
| `FindarrProofs` | proofs about `Findarr` | `Findarr`, `SeqFilterProofs` |
| `Cleanarr`, `MCCleanarr` | Cleanarr's queue cleaning: strikes, ignore list and removals | `SeqFilter`, community modules |
| `CleanarrProofs` | proofs about `Cleanarr` | `Cleanarr`, `SeqFilterProofs` |
| `CleanarrFiles`, `MCCleanarrFiles` | Cleanarr's file passes over the completed and the quarantine folder | community modules |
| `Deletarr`, `MCDeletarr` | Deletarr: manifest, both scans, delete | community modules |
| `Bandwidth`, `MCBandwidth` | Bandwidth Controllarr with SABnzbd and qBittorrent | — |
| `BandwidthProofs` | proofs about `Bandwidth` | `Bandwidth` |
| `Trending`, `MCTrending` | the Trending page's store, ratings and OMDb client | `SeqFilter`, community modules |
| `TrendingProofs` | proofs about `Trending` | `Trending`, `SeqFilterProofs` |

`SyncGate` exists once for every module of the program that has a gate. `ListSync` and `Languagarr`, whose
tasks compete for one, have it as `FifoGate`; in `Findarr`, `Cleanarr`, `CleanarrFiles` and
`Deletarr` whatever goes through the gate is one process (`run`, `op`), and only what the code
leaves outside the gate runs beside it. `Cleanarr` and `CleanarrFiles` are two stages of one run that share the
settings and nothing they write.

### `FifoGate` and `SyncGate`

`SyncGate` has the lock's two fields (`locked`, the deque `waiters` of futures, each with its
task) and the place of each task. `run` is `Run`; `try_run` is `TryRunRefused` (409) or
`TryRunAdmitted`, which calls `acquire()` on a lock that reads free. `acquire()` is one step when
the fast path applies and otherwise appends a future; `Resume` is the step in which the loop
continues a task whose future is done. `Cancel` cancels a waiting task and `Unwind` is the
`CancelledError` leaving `acquire()`, with the hand-over of a swallowed wake-up. `Finish` releases.
asyncio's lock is not in the repository: its definitions are marked external and modelled from
its documented contract and the way `SyncGate` uses it.

`FifoGate` is the abstract lock: a holder and a queue. The refinement takes the running task as
holder and the waiting tasks whose cancellation has not begun as queue.

### `ListSync`

| Variables | In the code |
|---|---|
| `rows` | the `items` table: `status`, `seer_request_id`, and `request_attempts` with `next_request_at` reduced to `none`, `held`, `due` |
| `tracked`, `autoRemove` | the settings store |
| `onTrakt`, `media`, `requests`, `declined`, `lastId` | Trakt's lists and Seer's records (the environment) |
| `mine` | the requests this program made, for the properties only |
| `gate`, `queue` | `ctx.sync_gate` |
| `at`, `loc` | for each task the call it awaits, and its local variables: lists still to read, items still to process, the copy `cur` of the row it works on, the refresh's snapshots, the latch `down`, and where a shared routine returns to (`after`) |

A task is at a *call* (`read`, `status`, `declined`, `create`, `untrakt`, `lookup`, `delete`), which a
`Serve…` step of the environment answers and a `Resume…`/`Status…` step picks up, or at a *local*
place (`lists`, `items`, `settle`, `snaps`) where it awaits nothing; while a task is at a local
place nobody else moves, which is what cooperative scheduling guarantees. `_apply_seer_status`
and `remove_tracked_item` are shared by the poll, the refresh, the sweep and the delete exactly
as in the code. Every Seer or Trakt call may fail before or after it took effect, within
`MaxFaults`; a Seer failure is an error or an unreachable host. `Crash` may fall between any two
steps, within `MaxCrashes`.

Abstractions: titles, lists and request ids are small sets; PENDING and PROCESSING are one
status; lists and items are taken in any order; texts, activity rows, metrics and
`last_synced_at` are left out; a request quota (`MaxRequests`) stands for the unbounded id counter
and answers further requests with an error.

Operators named `Name_Fault` are plausible bugs in `Name`. No specification uses them; each
property is shown to fail when one of them takes the place of its original.

### `Languagarr`

| Variables | In the code |
|---|---|
| `rows`, `order` | `languagarr_queue`: `status`, with "searched" split into `recent` and `old` by the retry window; the pending rows by `queued_at` |
| `settings` | `enabled`, `auto_queue`, `monitored_only` of the settings store |
| `results` | `ScanState.results` with each item's `recommended_action` (in memory) |
| `file`, `inScope`, `monitored`, `asked` | Sonarr: audio verdict and score of each file, whether `Scope.includes` its series, whether it has a monitored episode, whether a search for it was accepted |
| `gate`, `queue` | `ctx.languagarr_gate`, as `FifoGate` promises it |
| `at`, `loc` | the call each task awaits and its local variables: the batch `todo`, the file `cur`, what a scan found, the scope's monitoring rule `strict` |

Here a `Serve` step of Sonarr answers the call a task awaits, and one `Resume…` step takes the
task through everything the code does up to its next call. The scheduled run scans (`auto_queue`),
publishes, prunes, queues what a search can fix and goes on with a batch in one step, as the code
does without awaiting Sonarr; the `aclose()` between is left out, because nothing that can happen
there matters (the gate is held, and a row queued in it is one of the results). Queueing and
clearing by hand take no gate and are single steps. The worker and the deleter share the re-check
up to what differs: the worker accepts a file without audio data and asks for the episodes with
`monitored_only`; the deleter does neither.

Abstractions: each file is a series of its own with one group of episodes; languages are reduced
to the verdict; a file that was moved counts as gone; the caps of 500 and 25 files per request,
slugs and texts are left out. A file the program deleted does not come back: a replacement has
a new id.

### `Findarr`

| Variables | In the code |
|---|---|
| `processed` | `findarr_processed`: attempts and `next_eligible_at` of a unit |
| `searches` | `findarr_searches`: the log the cap is counted from, and the pending outcomes |
| `history`, `lastHistory` | `findarr_history` and its AUTOINCREMENT counter |
| `file`, `commands`, `grabs` | Sonarr and Radarr: each item's file against its cutoffs, the commands they accepted, their grab history |
| `run` | the place of the run and its locals: apps and modes still to do, searches read back, the retry state read, units still to search |
| `now` | hours |

A run goes from app to app: `BeginApp` reads the pending searches, `ReadCommands` their commands, and `Resolve`
judges all that finished in one pass (`Classify`, `InWindow`), writing outcome, history row and back-off of each; per mode
`QueueGuard`, `Fetch` (lists, pruning, units, selection) and then, for each unit, `Send` and `Answered`. `Send` is the
awaited `trigger_search`: from then on the Arr has the command and the program has recorded nothing. `Answered` is what
`_send_search` does with the answer: retry state, history row, log row with retention; a command without an id is logged
with the outcome "unknown". `SendFails` is the call that raises, whether or not the Arr took it. Each write is a commit of its
own, and `CrashInSend` stops after one or two of them. `ResetState`, `ClearHistory` and the Arrs act
between any two steps, also while a search is awaited. `BuildUnits` groups episodes by season where the settings say so.

`InWindow` accepts a grab up to `Grace` after the command's end. That is `_GRAB_GRACE`, two minutes, rounded up to one
unit of the model's clock; a wider window credits more, never less. Of the Arrs it is assumed that they show a command as
ended only once its grabs are in their history, dated no later than the grace after its end.

Abstractions: items are numbers with constant series, season and app; texts, totals, the run
state shown by the API and metrics are left out; the seven-day retention is a few hours.

### `Cleanarr`

| Variables | In the code |
|---|---|
| `strikes` | `cleanarr_strikes`: download, record id, strikes, reason, `logged`; oldest first |
| `ignored`, `categories`, `dryRun` | the settings a run reads |
| `state`, `entry`, `job` | the Arrs' queue records, their queue ids, and SABnzbd's history |
| `run` | place and locals: the history read, what was struck, the removals still due |
| `shown`, `reported`, `acked` | for the properties: runs that saw a download fail, reports made, clicks answered |

`LoadSab` and then one `RunApp` per app read (`QueueReads` gives each way a read can go wrong: a record
without an id, one tied to its download by its folder only, one lost) and do all of `strike_app`: what to hold
back (`ReadHeld`, `DepartedHeld`, `OutageHeld`), which downloads to strike, which rows to clear. `Select`
picks the removals; `RemoveOne`, `RemoveFails` and `Report` carry them out one at a time, with the queue, the settings
and SABnzbd changing in between. `ClearStrikes` and `Ignore` take the gate; `UpdateSettings` does not.

Abstractions: a record's warning messages are reduced to whether the patterns match; titles and
categories to whether they are ignored; strikes saturate at `StrikeTop`.

### `CleanarrFiles`

| Variables | In the code |
|---|---|
| `place`, `since`, `blocked` | the completed folder: where each entry is, its modification time, whether it holds a file of a blocked extension |
| `quarantine`, `origins` | the quarantine folder by stamped name, and `cleanarr_quarantine` |
| `job`, `records`, `folders`, `ignore` | SABnzbd's jobs and the folder of each category, the Arrs' records, the ignored ids, titles and categories |
| `run` | place and locals: every read of the run |

The reads (`ReadConfig`, `ReadHistory`, `ReadQueue`, `ReadArrs`) are steps of their own because what they read
moves; so are the worker threads (`FindBlocked`, `DeleteFiles`, `FindOrphans`, `Quarantine`, `Purge`) and the database
write `RecordOrigins`. A crash may come between the renames and the rows.

A job has SABnzbd's category (`CategoryOf`) wherever its entry lies, and the malware pass goes by that; the orphan pass goes by the folder
an entry was found in. Ignore rules match download id, title and category of the usenet records; a job in the history that has not
completed is `unfinished` and guards its entry as much as any other. An entry that meets its name in quarantine gets a clash number,
which stays a part of the title the ignore rules see when it is purged.

Abstractions: the unit of time is `min_age_hours`; one blocked file per entry; dry runs are in `Cleanarr` only.

### `Deletarr`

| Variables | In the code |
|---|---|
| `disk` | the existing paths, each a sequence of names |
| `arr` | Radarr or Sonarr: titles with folder, files and root |
| `settings`, `kind` | library path, `use_arr_source`, library type |
| `lib` | `LibraryState`: the last scan's results and mode; `seen` remembers what that scan saw, for the properties |
| `op` | the scan or delete that holds the gate, with the manifest it built |

`ReadTitles`, `ReadRoots` and `ReadFiles` build the `Manifest` (`CommonRoot`, `Reroot`); `Walk` is
the whole scan: `ScanMovies`, `ScanTv` by names, `ScanArr` against the manifest. `Check` is the test of the picked paths against
the results of the scan and `DeleteOne` the removal of one, with its own check of the path and of the
files tracked below it (`Covers`); a removal that fails may have removed a part (`CutShort`). Some files are symbolic
links (`LinkTo`): one that leads nowhere is passed over, and next to the library's folders any is. What the patterns make of a name is given by constants
(`ClassOf`, `CompanionOf`, `MatchesOf`), so the regular expressions are out of the model and what the scan does
with their verdicts is in it.

The manifest of the Arr can be laid over the library only if the root folders the Arr reports have the library's mount as their
longest common prefix. That layout is an assumption of `TrackedSpared` and `PendingKept`, stated in them as `SharedMount`; without it
they are false (`Deletarr_category`: a category folder as the only root; finding 7: no common prefix).

Abstractions: sizes only as an order; grouping, sorting and texts of the proposals; links to folders; a walk
reads the disk at one moment.

### `Bandwidth`

| Variables | In the code |
|---|---|
| `set` | `enabled`, `sab_limit_enabled` and the limit of the settings store |
| `mirror`, `manual` | `_STATE.enabled`, `_STATE.manual_paused_clients` |
| `gate` | `control_lock()`: the holder and those who wait |
| `sab`, `qb` | the two clients: who paused the queue, the speed limit, whether torrents are active |
| `task` | the tick and each dashboard request, with their locals |

A step runs from one await to the next: a tick reads the switch, asks both clients, enforces the
limit, decides, commands and stores; requests queue on the lock, but the switch is stored before
they do. An answer may be an error before or after the command took effect; both clients may be offline.
`Outside` is a change made in the clients themselves; `Restart` loses everything but `set`, `sab` and `qb`.

### `Trending`

| Variables | In the code |
|---|---|
| `offer` | what the providers show: rows, each a title under an IMDb or a TMDB id |
| `store`, `mirror`, `active`, `cycle`, `interval` | `ctx.trending_store`, its tables, `_REFRESH_ACTIVE`, the running cycles, the setting |
| `reader` | a page read that found no feed and fetches it |
| `rating` | `trending_ratings`, by the age of each row |
| `pool`, `omdb`, `usage`, `tried` | the keys, the client's pointer and the keys used up today, today's usage, whether a backfill ended today |
| `run` | of each spawner, its backfill with one job per title |

`Fetched` ends one fetch of a cycle and starts the next; `Ended` closes the cycle and spawns a backfill. A
backfill takes a `Batch` within the budget, and each of its lookups goes through `Turn` (its place in the
semaphore, the check for a fresh rating, the breaker), `Resolved`, `Rejected` (to the next
key), `Rate` or `Unreachable`. Days pass without end (`NewDay`): what is kept of a
time is how long ago it was.

A title may be on the page under its IMDb id, under its TMDB id, or under both in one row. A job is for one id with the aliases that
some row links to it (`Linked`, `Group`), as in `_rating_targets`; a title whose ids no row links is two jobs.

Abstractions: pages of a feed are read at once; ratings are their age; search, the add button, the
library overlay and poster pre-warming are left out.

## 3. Runs

| Run | Instance | Checks | Result |
|---|---|---|---|
| `SyncGate_fair` | 2 scheduled, 2 manual runs, fairness | `MutualExclusion`, `NoLostWakeup`, `WaiterServed`, `ServedInOrder` | pass |
| `ListSync_polls` | scheduled and manual poll, one title on an own and a foreign list, 2 requests, 1 fault, 1 crash | `OneCycle`, `NoDuplicateRequest`, `TrippedCycleIsQuiet`, `RemovedLeavesNoRequest`, `DeclineRespected` | pass |
| `ListSync_upkeep` | poll and sweep, 1 fault; users drop, request, untrack, clear; Seer forgets | `OnlyListedRequested`, `RemovedIsOffTrakt` | pass |
| `ListSync_live` | poll and delete, 2 requests, 1 fault, 1 crash, fairness | `RequestedEventually`, `RemovedEventually` | pass |
| `ListSync_resurrected` | poll and delete | `RemovedIsFinal` | violated |
| `Languagarr_queue` | job, scan and delete, 1 file, 1 fault, 1 crash; users queue, clear, unmonitor, re-profile, delete, change settings | `OneAtATime`, `SearchedWasAsked`, `SearchedWasMonitored` | pass |
| `Findarr_fair` | both apps with one item each, cap 1 an hour, 2 hours, 3 commands, 1 disturbance (a failure, a command without an id, a crash, a reset, a clear or a grab of others), fairness | `CapKept`, `RetryKept`, `OutcomeOnOwnRow`, `VerdictTrue`, `ResetStays`, `OutcomeKnown` | pass |
| `Cleanarr_queue` | a show of two records and a movie, removal cap 1, 2 strikes, 2 disturbances | `OnlyFailingStruck`, `OutageFreezes`, `RemovalEarned`, `AlreadyGoneTrue` | pass |
| `CleanarrFiles_passes` | two entries of one name in two folders, 3 time units, 2 disturbances | `OrphanWasFree`, `OriginKept`, `ImportingSpared` | pass |
| `Deletarr_runs` | a library with every class of name, two Arr inventories, 3 disturbances, one of them the delete | `TrackedSpared`, `EmptyLosesNothing`, `PendingKept` | pass |
| `Bandwidth_control` | the tick and two requests at once, 1 fault, 1 change from outside, 1 restart, fairness | `MirrorTrue`, `ManualPauseHolds`, `LimitIsCurrent`, `Settles` | pass |
| `Trending_ratings` | three feeds, three titles, two keys (one always rejected), budget 1 per key, pairs of disturbances, fairness | `BudgetKept`, `PaidOnce`, `FeedsCurrent`, `RatedAgainAndAgain` | pass |

Further instances lie beside them, for questions that need bounds of their own. They are not part of the
list in `PROJECT.json` and are run the same way (`tlc -config X.cfg M`):

| Instance of | Checks | Result |
|---|---|---|
| `SyncGate_tryrun` (`SyncGate`) | `TryRunNeverWaits` | violated |
| `ListSync_gated` (`MCListSync`): two polls, 2 titles, one without a TMDB id | `TypeOK`, `OneCycle`, `NoDuplicateRequest`, `OnlyAvailableRemoved`, `RemovedIsFinal`, `GateRefined` | pass |
| `ListSync_outage` (`MCListSync`) | `OutageMutesCycle` | violated |
| `ListSync_shared` (`MCListSync`): one title on an own and a foreign list, 2 requests, no faults, fairness | `RequestedEventually`, `RemovedEventually` | pass |
| `Languagarr_live` (`Languagarr`): job and manual batch, 2 files, fairness | `TypeOK`, `BatchIsOurs`, `PendingWorkedOff`, `EveryRunEnds` | pass |
| `Languagarr_unmonitored` (`Languagarr`) | `DeletedWasMonitored` | violated |
| `Findarr_runs` (`MCFindarr`): one episode, cap 2, 3 commands, failed commands | the safety properties of `Findarr_fair` | pass |
| `Findarr_seasons` (`MCFindarr`): both modes, season searches, an unmonitored episode | `CapKept`, `OutcomeOnOwnRow`, `VerdictTrue`, `ResetStays` | pass |
| `Findarr_early` (`MCFindarr`) | `RetryDelayKept` | violated |
| `Findarr_credited` (`MCFindarr`) | `GrabbedWhileRunning` | violated |
| `Findarr_reset` (`MCFindarr`) | `ResetForgets` | violated |
| `Cleanarr_fair` (`MCCleanarr`), fairness (some ten minutes) | `TypeOK`, `StrikesEarned`, `CapKept`, `ReportedOnce`, `FailingHandled` | pass |
| `CleanarrFiles_kept` (`MCCleanarrFiles`) | `OneName`, `IgnoreKept`, `RetentionKept` | pass |
| `CleanarrFiles_renamed` (`MCCleanarrFiles`) | `OrphanWasFree` | violated |
| `Deletarr_proposals` (`MCDeletarr`) | `LargestKept`, `ProposalsApart` | pass |
| `Deletarr_mounts` (`MCDeletarr`) | `FallsBackWithoutMount` | violated |
| `Deletarr_category` (`MCDeletarr`) | `TrackedSparedAnywhere` | violated |
| `Bandwidth_others` (`MCBandwidth`) | `LeavesOthersPause` | violated |
| `Trending_pointer` (`MCTrending`) | `PointerInBounds` | violated |
| `Trending_split` (`MCTrending`): a title whose ids no row links | `LookedUpOnce` | violated (`BudgetKept`, `PaidOnce` hold) |

**Bounds.** Every interesting case of the gate needs at most a holder, a woken waiter, a
cancelled waiter and a newcomer: four tasks. In the list sync two polls (or a poll with a sweep
or a delete) on one item are enough for every race on a row, because tasks meet only through
one row, one title and the gate. Two lists are there because one title on both shares a Seer
request. Two requests make a duplicate possible; one fault separates any two
steps of a removal or loses one answer; one crash after it tests the restart in the state the
fault left. For the liveness of the list sync the second request is what is left when the answer of the first was lost or the
process died before its id was stored. In Languagarr tasks meet in one row, one file and the gate, so one file shows every race
between a job, a scan, a delete and the users' requests; the order of the queue and the size of a
batch matter to liveness only, which has two files and batches of one.

In the other modules a run is one process, and what the bounds must leave room for is two runs with
something between them, and a step of somebody else between any two steps of a run. *Findarr*: two commands are the
fewest that can break a cap of one or a delay, and a third leaves room for one whose answer was lost or that a crash kept out of the
log; with a cap of one an hour and a delay of three the next may come too early in two hours; `MaxCommands` limits what a
run selects, not what it does with it. *Cleanarr*: two strikes
need two runs, so a run between them can see anything; a download of two records is there because it is struck, held and
ignored as one, a second app because each is read by itself. Two disturbances make, for one, a bad read and a removal that
is refused, or a recovery and an outage. *CleanarrFiles*: the same name in a category folder and outside meets in quarantine; two changes
take a job from the queue through the history to nowhere. *Deletarr*: one movie folder with a better, a duplicate, a
mismatched and an extra video and artwork with and without a companion, a season folder, a title in a folder of its own
root, a title without files and a stray one: one path through each rule of the scan. *Bandwidth*: two requests
beside a tick are enough for every order on the lock and on the switch. *Trending*: two titles cost more than
one key's budget; two runs overlap when a day ends; `Plots` names the pairs of disturbances that meet in the same state. All
pools of the run have one size (`BudgetKept` is about those; see section 4), and its budget of two lookups a day exceeds the one title nobody
resolves: titles without a rating come first in every batch, and with as many of them as the budget nothing else would be rated.

Deadlock is checked in every listed run but those of Findarr, Cleanarr, CleanarrFiles and Deletarr: their
clock, commands or moves come to their bound, and with nothing wanted nothing has to happen.

**What the users may do** differs between runs on purpose. `RemovedIsFinal` holds where nothing
removes outside the gate (`ListSync_gated`) and fails with the per-item delete (`ListSync_resurrected`).
`RemovedIsOffTrakt` is checked where no user puts items back. `RemovedLeavesNoRequest` is checked without sweeps: a sweep that
overlaps a poll can mark an item removed while the poll is about to request it. `DeclineRespected` is checked
without requests of other users: a request made and declined by others between
`latest_request_declined` and `create_request` is not seen by the code, and cannot be.

**Fairness.** The interval trigger of APScheduler fires for ever; the loop resumes ready tasks in
order; each call has an httpx timeout, so it is answered or fails; time passes. These are
strong fairness of a task's steps (an idle moment of the loop comes again and again, but other
tasks take turns in between), of `PollDue`, of `Admit` and of `BackoffElapses`. Nothing forces a user, a failure
or a crash. For the gate, the loop resumes ready tasks and every run ends: weak fairness of
`Resume`, `Unwind` and `Finish`. Languagarr assumes the same of its job, its gate and its tasks; nothing
forces a user to queue anything, and `PendingWorkedOff` speaks of behaviours in which the worker stays enabled.
Findarr assumes that its job fires, its run goes on, a command of an Arr ends, and that a lookup that is tried again and
again succeeds sometimes (strong fairness of `Resolve`): without the last `OutcomeKnown` is false, because a failed lookup ends the
pass and the searches behind it wait. A search that no lookup ever gets past, because the Arr goes on answering it with an error other than 404, is
assumed away by this. Cleanarr's `FailingHandled` assumes the same of a removal that is tried again
and again. The bandwidth control and Trending assume their jobs and weak fairness of each task's next
step, and Trending that days pass. In Bandwidth no request need ever come, and `Settles` speaks of what follows the last.

### Where code and documents disagree

1. **`try_run` may wait** (`SyncGate_tryrun`). After a release that woke a waiter `locked()` is
   false, and `await lock.acquire()` queues behind it: the request that should be refused at once
   waits for a whole cycle. `_try_acquire`'s docstring claims check and acquire are atomic.
2. **A removed item comes back** (`ListSync_resurrected`). The per-item delete is not gated; it
   marks the row removed while the poll awaits `get_status`, and the poll then writes `requested`
   or `available` from its stale copy.
3. **An outage met during a removal is not seen** (`ListSync_outage`). `_delete_seer_request` catches
   every exception, so the latch does not trip and the cycle goes on calling Seer.
4. **An unmonitored file is deleted** (`Languagarr_unmonitored`). `_revalidate` re-reads the file and
   its series but not its episodes. A file whose episodes were unmonitored after the scan is
   deleted and searched for, which its docstring excludes; the worker does ask for the episodes.
5. **A unit is searched before its delay** (`Findarr_early`). When a search is still pending as its delay
   ends, the unit is searched again; the older outcome then sets `next_eligible_at` from its own time,
   and the unit is due for the third time at once. `backoff.py` promises a wait after each search.
6. **A renamed category folder is moved whole** (`CleanarrFiles_renamed`). Once SABnzbd's configuration no longer names a folder as
   a category folder, the folder is an entry of its own that nobody refers to, and it goes to quarantine
   together with the entries in it that are referred to.
7. **Root folders on two mounts do not fall back** (`Deletarr_mounts`). `manifest.py` says the scan falls back to the heuristics
   when the root folders share no prefix; it runs against an empty manifest and proposes every folder. With a category folder as
   the only root the prefix is that folder, titles are looked for in the wrong place, and tracked files are deleted (`Deletarr_category`).
8. **A disabled control resumes what it did not pause** (`Bandwidth_others`). Switching the control off
   resumes SABnzbd whoever paused it; the README says it leaves alone what it did not pause.
9. **The key pointer leaves the pool** (`Trending_pointer`). A lookup that awaits OMDb while the pool
   becomes smaller stores an index of the old pool. Later lookups ask nobody until the next UTC day
   or the next edit of the keys. The comment at the pointer says that it is always in bounds.
10. **A title is looked up twice** (`Trending_split`). `_rating_targets` says it groups rows by title identity "so each
   title is looked up once". It groups by id, and a title one feed shows under its IMDb id and another under its TMDB id,
   with no row that has both, is two jobs of one batch; both are charged.
11. **A grab of others is credited to a search** (`Findarr_credited`). `outcomes.py` says that a grab between a command's start and end
   means the search grabbed a release. Its window ends two minutes later, for the reason its comment gives, and so an RSS grab just
   after a search that found nothing makes it "grabbed" and its back-off the shortest.
12. **A reset leaves a delay behind** (`Findarr_reset`). `reset_state` clears every unit's delay and back-off, but a run reads the
   retry state of a mode once, before its searches: a unit it searches after a reset waits the doubled delay of the count that was cleared.

### Observations no document contradicts

* *Languagarr*: a crash between a reviewed delete and its search leaves a pending row; the next
  batch finds the file gone, takes the row for resolved and drops it. A row that is cleared while a batch
  works on it and queued again is searched for twice within the retry window.
* *Findarr*: a reset while a search is awaited is undone for that unit, whose row the answer inserts again (with a count of zero).
* *Deletarr*: a junk folder inside a managed folder is proposed also when it holds tracked files (the
  delete then refuses it while the Arr answers). A delete without an Arr answer, or in heuristic mode, has no tracked
  files to spare. A library path changed to a directory above the old one between scan and delete
  makes the manifest speak of other paths than the results do.
* *Bandwidth*: the limiter's failed clear is never tried again; qBittorrent offline counts as idle; manual
  pauses are forgotten by a restart.
* *Trending*: a slow success may move the pointer back; a batch that runs over midnight charges the day
  it began on; a page read fills the store but not its mirror; titles nobody resolves take places in every batch.

## 4. Proofs

Each component's theorems are in its `…Proofs` module. They hold for any tasks, lists, titles, files, apps,
downloads and bounds, from the named assumption of the component alone (`SyncGateAssumption`, `ListSyncAssumption`, …:
disjoint kinds of tasks, bounds that are naturals, orders that are lists without repetitions, settings in the ranges
their normalisers enforce). Five theorems have a hypothesis of their own, stated in the theorem and explained below.
`PROJECT.json` lists the theorems and which run checks the same property.

**`SeqFilterProofs`**: `AmongProperties`, `AmongInjective`. What a filtered list holds is a fact by induction on its
length. The library's induction takes an operator as its parameter, so it is replaced by the least prefix that would be
an exception: `LeastNatural` gives every non-empty set of naturals a least element, from the library's
theorem that `<` is well-founded. The same lemma gives the greatest id, the list a finite set can be written as and the number a set has.

**`SyncGateProofs`**: `SpecTypeOK`, `SpecMutualExclusion`, `SpecNoLostWakeup`, `SpecServedInOrder`. Mutual exclusion is not
inductive, because `Resume` claims the lock without looking. What makes it safe is
`WokenIsFirst`: a completed future is the first of the deque and exists on a free lock only. With
`RunningHoldsLock` (a running task holds the lock) and `NoLostWakeup` the invariant is inductive; the
proof has one lemma per action, over two lemmas about sequences (removing an element; waking the first).
`SpecServedInOrder` is the refinement: `Line` writes the abstract queue out as the owners of the
futures whose tasks still wait, and each step is a `Take`, `Enter`, `Grant`, `Leave` or `Release` of `FifoGate` or changes neither
`Holder` nor `Line`. It needs `LineInv`: no task owns two futures, and each owner is waiting or being
cancelled. A task whose cancellation has begun has left the abstract queue already; its `Unwind` is a stutter.

**`ListSyncProofs`**: `SpecTypeOK`, `SpecOneCycle`, `SpecTrippedCycleIsQuiet`, `SpecOnlyListedRequested`.
`OneCycle` is not inductive, because a shared routine returns to `loc[p].after`: were that "idle" for a
poll, the poll would fall out of its cycle and keep the gate. `PlacesAgree` says, for each place, what
the local variables hold there: which return addresses are possible, that the snapshots of a refresh and the list of a poll
exclude each other, that a tripped latch is only found between items, that a request is for an item the
cycle has read, that sweeps and deletes never reach the poll's places. The proof has a lemma for
each way a task moves (`Goto`, `Await`, `Continue`, `BeginRemoval`, a reply, the start and end of a
cycle), one per action on top of these, and one for the data of each kind of step.

The four that relate the table to Seer's and Trakt's records rest on these, each with an invariant of its own:

* `SpecNoDuplicateRequest` (`AskInv`): while a poll is on its way from "unknown" to `create_request`, the
  title has no live request of the program. Only a poll could make one, and `OneCycle` says there is no other.
  A live request is one Seer knows the title by (`KnownWhenLive`), so a poll that finds one never sets out to ask.
* `SpecDeclineRespected` (`InVain`), for instances without requests of users: on that way the title has
  no live request at all, and no record at all once `latest_request_declined` has said no, because the newest of records
  that are all dead was declined (`DeclinedLast`). With users' requests it is false: one may be made and declined between the two calls.
* `SpecRemovedIsOffTrakt` (`OffTrakt`), for instances without users who put items back: a removal that is past its Trakt
  step leaves the item off the list, whoever else removes it meanwhile. `RowsChange` names every step that writes a row.
* `SpecRemovedLeavesNoRequest` (`SoundInv`), for instances without sweeps and deletes: the copy `cur` a task works on and
  the snapshots of a refresh name the request of the row, or the row is gone; where a removal looks for an unknown id the
  copy has none, and where it deletes, the id is still to come or Seer has no record of it. A sweep that overlaps a poll makes it false: it may mark the
  item removed while the poll is about to request it.

**`LanguagarrProofs`**: `SpecOneAtATime`, `SpecSearchedWasAsked`, `SpecSearchedWasMonitored`. `GateInv` adds to `OneAtATime` that the queue holds exactly the waiting tasks, each
once (otherwise the task let in could still be in the queue). `SearchedWasAsked` needs
`AnswerIsTrue`: a "yes" a task holds at a search means Sonarr took it, which a lost answer cannot fake.
`SearchedWasMonitored` needs `EpisodesRead`, the same for the episodes of a file, and
`OnlyDeletersDelete`, because a delete goes on to a search without asking for episodes.

**`BandwidthProofs`**: `SpecIInv`, `SpecMirrorTrue`, `SpecManualPauseHolds`, `SpecLimitIsCurrent`. The switch is stored before
its request takes the lock, so the mirror differs from it for a while. `MirrorCatchesUp` says when: only with a tick that
waits for the lock, or one at work that read the switch as it is now. `OnlyHolderInside` makes the holder the
only task between its first and last await; `LocalsCurrent` says which of its locals are still those of the state.

**`TrendingProofs`**: `SpecIInv`, `SpecPaidOnce`, `SpecWithinBudget`, `SpecBudgetKept`. Two starters and four lookups share the day's
budget. `OneRun` says a backfill that works excludes another, `OwnTitles` that no two jobs of a batch are for one title,
`StillDue` that a job not done is for a title whose rating is still old. `SpecPaidOnce` is
about jobs whose ids some row links, and about a title that is one job in its run: two unlinked ids in one batch are paid for twice (finding 10). `Within(B)` counts what is charged and what the open
jobs may still charge. It is stated for any `B` that is no less than the budget of each pool one can configure, because a batch
is cut to the pool of its start; `SpecBudgetKept` has pools of one size, and with pools that shrink
the property is false: what was spent may exceed the smaller budget.

**`FindarrProofs`**: `SpecIInv`, `SpecOutcomeOnOwnRow`, `SpecVerdictTrue`, `SpecCapKept`, `SpecRetryKept`, `SpecResetStays`. `RowInv`: the rows of the
log and those a run read back are in the order of their ids and belong to the commands they name, and what is read back stays
pending until that run resolves it; a command whose answer is awaited is the last and has no row yet (`InFlight`). `VerdictInv`: what a
command grabbed is in the grab history within its window, the grace included, and an outcome is given only
to a command that has ended, as it ended. `CapInv` counts the log of the hour together with what the run has still reserved (`Reserved`: its capacity was read
before the lists were fetched); the awaited command (`Awaited`) keeps its reserved place until it is logged, and is not one of those the program lost.
`SpecResetStays` says what a reset achieves: retry state comes back only with the answer to a search, and with a count of zero. What a run read back before the
reset, or resolves later, brings nothing back. `RetryInv`: a unit's delay holds in the table or in what the run read of it, except where another
search of the unit was pending when it was sent. Without that exception it is `RetryDelayKept`, which finding 5 refutes.
`Repeats` pairs a search with every later one of its unit, not only with the next.

**`CleanarrProofs`**: `SpecInv`, `SpecTypeOK`, `SpecStrikesEarned`, `SpecCapKept`, `SpecAlreadyGoneTrue`, `SpecRemovalEarned`, `SpecOnlyFailingStruck`,
`SpecOutageFreezes`, `SpecReportedOnce`. `Ledgers`: a download has one row in the ledger and one in the list to remove,
through every join of the list read before with the rows struck now. `ChoiceInv`: a row chosen for removal was struck in this run, has the
strikes, is not ignored by an answered click, and names a record that is in the queue unless the download left
during the run. The last is what makes a row without its record "already gone". `ReportInv` counts reports of a dry run against
rows marked `logged` and the deaths between the two writes.

**Model-checked only**:

* Liveness (`WaiterServed`, `RequestedEventually`, `RemovedEventually`, `OutcomeKnown`, `Settles`, `FeedsCurrent`,
  `RatedAgainAndAgain`, and of the instances beside the list `PendingWorkedOff`, `EveryRunEnds`, `FailingHandled`): fairness is out of the prover's reach.
* `CleanarrFiles` and `Deletarr`, of which nothing is proved yet.
* `TypeOK` and `BatchIsOurs` of Languagarr, which need the order the library's sort gives `todo` and `order`;
  `OnlyAvailableRemoved`, `RemovedIsFinal` and `GateRefined` of the list sync.

## 5. What is not modelled

* Dashboard, status checker, scheduler, posters, anime ids, metrics: caches and counters nothing else
  depends on, or a wrapper of a library.
* The Trakt device authorisation and the token refresh: the models take a Trakt call that fails for want
  of a token as one that fails.
* The settings store but for the values the models read, and the normalisers of its input; the typed
  getters return what was stored.
* Pure I/O and conversion: HTTP clients beyond the calls above, webhooks, logging, migrations, the
  React frontend, scripts and CI.
* In the list sync: two lists of different owners with one slug (the table, `owner_for` and the
  refresh know lists by slug only), pagination of a list read, and an item without a Trakt id, which is skipped.
* In Languagarr: what the languages of a file are parsed to, several episodes or files of one series, a
  changed language setting (a file may change its verdict instead), and the retry window's length.
* In Findarr: the paging of the Arrs' wanted lists, custom formats beyond "below the cutoff or not".
* In Cleanarr: the paging of SABnzbd's history and the Arrs' queues (an item that moves between two
  pages may be skipped although the read counts as complete), health warnings, dry runs of the file passes.
* In Deletarr: what the patterns make of names, symbolic links to folders, changes of the disk within a walk.
* In Trending: search, adding a title, the library overlay and the poster cache.
* The length of the list sync's back-off (one hour doubled up to seven days) is reduced to "held, then due".

## 6. Plan

1. *Done*: all modules of section 2 with their runs; the theorems of section 4.
2. Proofs next, in this order: `CleanarrFiles` (`ImportingSpared`, `OrphanWasFree`, `OriginKept`), `Deletarr` (`TrackedSpared`,
   `EmptyLosesNothing`, `PendingKept`), `GateRefined` of the list sync, `BatchIsOurs` of Languagarr.
3. `DashboardCache` (single flight), `StatusChecker` (checks that overlap), `TraktTokens`.
