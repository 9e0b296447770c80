# Verification of asana_extractor

TLA+ models of the extractor, TLC configurations that check them on small
instances, and TLAPS proofs of the properties that matter most for every value
of the constants. Paths are relative to the repository; the package is
`src/asana_extractor/`.

## 1. Inventory

| Component | State it keeps | Operations | What makes it hard |
|---|---|---|---|
| `TokenBucket` (rate_limiter.py) | `_tokens`, `_last_refill` | `acquire`, `reset_tokens` | sleepers compete for one token; refill in pieces; reset while callers sleep |
| `WorkspaceRateLimiterRegistry` | a bucket per workspace | `get_limiter` | none beyond the sharing |
| `RateLimiter429State` | `_consecutive_429s`, `_pause_until` | `wait_if_paused`, `record_429`, `record_success` | pauses overlap and overwrite each other; the counter is shared by interleaved calls |
| `GlobalRequestSemaphore` | an `asyncio.Semaphore` of 50 | enter, leave | taken recursively by a retry; shared by all workspaces |
| `RateLimitedClient` | the above, per workspace task | `get`, each page of `paginated_get` | a fixed order of waits, checked once and used later |
| `AsanaClient` (client.py) | HTTP session | `_request` with tenacity | up to three attempts per token |
| `ExtractionScheduler` | `_running`, `_shutdown_event`, `cycle_task` | `run`, `run_once`, `_run_cycle`, `stop` | a flag stands for a task; shutdown races the cycle and its timeout |
| `WorkspaceOrchestrator` | workspace semaphore | `run`, `_run_workspace` | concurrent workspaces; failure of any part |
| extractors | counts, warnings, `project_gids` of one extraction | `extract_workspace`, `extract_all`, `extract` | concurrent walks over pages while Asana is edited; partial failure; a coroutine nobody waits for |
| state.py | `.extraction_state.json` | load, save, delete | a timestamp that stands for "everything before this is on disk" |
| `EntityWriter` | entity files | `write_entity` | crashes and errors between the steps |
| tenant.py, config.py, secrets.py, models.py, logging.py, exceptions.py | none | pure functions and data | `list_tenants` can raise or exit in every cycle |

How they interact: `main` builds the orchestrator and the scheduler. The
scheduler creates a task per cycle, which lists the tenants and awaits
`orchestrator.run`. That gathers one `_run_workspace` per tenant, at most
`max_concurrent_workspaces` at a time, each with a `RateLimitedClient` of its
own (bucket, 429 state) and the one request semaphore of the orchestrator. In a
workspace users and projects are extracted together, then the tasks of all
projects. Every page goes through pause check, semaphore, bucket and HTTP, and
every entity through the writer; at the end the state file is saved. Everything
runs in one thread: coroutines switch only where one suspends.

`PROJECT.json` lists every component with its status, and under `hazards`
each place where this is hard to test, with the properties that watch it.

## 2. Modules

| Module | Stands for |
|---|---|
| `TokenBucketOps` | arithmetic of the bucket, in parts of a token |
| `TokenBucket` | `TokenBucket` with the coroutines that call it |
| `EagerBucket` | abstract specification of the bucket for its users: a bucket refilled at every tick |
| `RateLimitedClient` | client, semaphore, 429 state and the attempts of `_request` |
| `Scheduler` | `ExtractionScheduler` and the tasks of its cycles |
| `SpacedCycles` | abstract specification of the scheduler: one cycle at a time, an interval apart |
| `Extraction` | orchestrator, extractors and state file against a changing Asana |
| `Replica` | abstract specification of incremental extraction: current, due and missed tasks, and which of them a warning names |
| `Walks` | one `extract_workspace()`, page by page |
| `AtomicWriter` | the write protocol of `write_entity` and `save_state` |
| `AtomicFile` | abstract specification of a write: one step to every reader, inside the call |
| `*Proofs` | theorems about the module they are named after |
| `MC*` | instances for TLC |

**TokenBucket.** `acquire()` awaits nothing under its lock, so one turn of its
loop is one step: `Take` or `Sleep`. `Acquire` is the first turn and `Wake` any
later one; a sleeper may wake late and has no claim on its token. Floats become
whole numbers: a token is `Unit` parts and `Rate` parts come per tick.
`BeginCycle` and `NewClient` are the scheduler and the orchestrator as the bucket
sees them: cycles begin at least `Interval` apart, and in each the workspace gets
a client, hence a full bucket, once its turn at the workspace semaphore comes.
`grants`, `before`, `epoch` and `served` are history. `EagerBucket` has neither
clock nor elapsed time; `TokenBucket` implements it with `Available`, what the
bucket would hand out at this instant, as refinement mapping.

**RateLimitedClient.** One process per coroutine, with `pc` saying where it is
suspended: `paused` (the sleep of `wait_if_paused`), `queued` (the semaphore),
`throttled` (the bucket), `sending` (HTTP), `backoff` (tenacity), `cooling` (the
sleep of `record_429`). What does not suspend belongs to the step before: a free
slot and a full bucket lead from `BeginCall` straight to `sending`.
`retry[c]` says that the coroutine is in the recursive attempt, and then it has
the slot of its first attempt besides the one it may hold now. Outcomes of
`_request` are the disjuncts of `Answer`. `Close(w)` is `__aexit__` of a
workspace's client. It may come while coroutines of the workspace are still in
their calls, since `gather` raises without waiting for the sibling
(extractors.py:605): they keep their place in the queue, their pause and their
slots, and whatever they would send afterwards fails (`FailUnsent`). The bucket
of a workspace is an eager one here; `PaidFor` says that each step moves it as
`EagerBucket` allows in use and that whoever enters HTTP takes a token in that step, so
that the code's bucket, which implements `EagerBucket`, can stand in its place.

**Scheduler.** `loop` is the place in `run()`, `cycle[n]` the fate of the n-th
task. `CycleBegins`, `CycleOfNoTenants`, `CycleRaises` and `CycleExits` are the
first step of `_run_cycle` by the outcome of `list_tenants`. The event loop
serves a new task before the creator's next wake-up, hence the guard `~ Created`.
When `stop()` came before `run()`, `run()` returns with its first cycle created:
the cycle still takes its first step, since it was queued before the event loop
stops, and `CycleCutOff` is `asyncio.run` cancelling it. `grace`, `since` and
`early` are history: the ticks since the drain began, those since the last cycle
was created, counted up to `Interval`, and whether `stop()` came before `run()`,
in which case `NothingLeftBehind` and `GraceRespected` promise nothing. `SpacedCycles` has no loop, flag,
timer or signal, only a cycle that is `busy` or not and the ticks to `wait` until
the next; `Scheduler` implements it with `wait <- Interval - since` and a cycle
being busy from the creation of its task to its end.

**Extraction.** `mark` is the timestamp of the state file, `start` that of the
cycle. `stage` follows `_run_workspace`; `fetch`, `rest` and `page` follow one
walk over the pages of a project, whose answers carry the version a task had
when Asana sent them. Two variables are history, and an edit or a fetch of a task
takes it off both: `warned`, the tasks that a warning of `extract_all` stands for,
because a walk over a listed project of theirs failed and none got to its end
(`GivenUp`); and `overlooked`, the tasks of a workspace whose state was saved while
none of their projects was listed (`Unlisted`). The code says nothing about the
second kind. Asana (`Edit`, `Share`, `AnswerPage`, `Tick`) is external; projects
are shared with the extractor and never taken away from it again.

**Replica.** No cycles, walks or timestamps: a task of the copy is *current*,
*due* (out of date, and the next cycle that sees it will fetch it) or *missed*
(out of date, and no cycle will ask for it before it is edited). Only `Advance`
makes a task missed. A task that has been seen must be reported in that step; one
that has not been seen may be missed with no report, and stays missed when it is
seen later. `Extraction` implements it with `StatusOf` as refinement mapping: `due`
and `missed` differ by whether the timestamp of the workspace has passed the
task's `modified_at`; a task is seen once a project of it has been listed, and
`reported` is `warned`, that is, only what `extract_all` warns of. An edit is
`Change`, the arrival of a page `Fetch`, the end of `ProjectExtractor.extract`
`Discover`, `SaveState` and `SaveFails` are `Advance`, `--full-extraction` is
`StartOver`, and all else stutters.

**Walks.** A coroutine for users, for projects and for each element of
`project_gids`. `asking` is the await in `paginated_get()`, `answered` a page that
has come and is not yet written. `WritePage` is a whole page, since nothing is
awaited between its entities; `WriteFails` leaves those before the failing one on
disk. `seen` stands for `project_gids` by the places of the list, so that a
project listed twice is walked twice. `Phase1Raises`, `Phase1Done` and
`TasksGathered` are the three ways the two `gather` calls go on. The content of a
file is reduced to the `project_gid` that `Task.from_api` puts in it.
`Extraction` has the same operations over many cycles with pages of one task;
`Walks` has the pages, counts, warnings and the users and projects that
`Extraction` abstracts.

**AtomicWriter.** One action per system call, each with its failure, and
`Crash` between any two. `AtomicFile` has a call that begins, takes effect or
not, and ends; `AtomicWriter` implements it with the place of the call reduced to
idle, begun and done (`CallOf`): `os.replace` is the effect, all before it is
invisible.

Every module also holds *fault variants*: operators of the same shape as an
action with one mistake in it. They are not part of any specification; for every
property there is one that the property must catch (`mutants` in `PROJECT.json`).

## 3. Runs

| Run | Shows | Result |
|---|---|---|
| `token_bucket` | type, `WindowBound` over any number of cycles, `NoBurstAfterReset`, implements `EagerBucket` | holds |
| `client` | `SlotsAccounted`, `PauseOwned`, `CountNotAboveStreak`, `EveryCallReturns`, `RetriedAfterPause`, `PaidFor`, no deadlock, with a slot to spare and sessions that close at any moment | holds |
| `client_retry_deadlock` | `RetriedAfterPause` without one | violated |
| `client_send_while_paused` | `NoSendWhilePaused` | violated |
| `client_third_in_a_row` | `ThirdInARowFails` | violated |
| `client_isolation` | `Isolation` | violated |
| `scheduler` | `NoOverlap`, `NothingLeftBehind`, `GraceRespected`, implements `SpacedCycles`, `ShutdownEnds`, `NextCycleFollows` | holds |
| `scheduler_flag` | `RunningMeansInProgress` | violated |
| `extraction` | `CoveredOrLogged`, `OverwrittenIsRefetched`, `WorkspaceSlots`, implements `Replica`, `CycleEnds`, `Converges` | holds |
| `extraction_partial` | `AllOrNothing` | violated |
| `walks` | `NoSilentGaps`, `TotalsAddUp`, `TaskNamesItsProject`, `WalksEnd` | holds |
| `atomic_writer` | `NeverPartial`, `OutcomeTold`, `OldOrNew`, `NoLitter`, implements `AtomicFile` | holds |

The violated ones state what a document of the repository says; `findings` in
`PROJECT.json` quotes the lines and tells what the code does instead.

What `WindowBound` means for the real values: acquire() returns at most
`3 + window / interval` full buckets and the refill of the window: a bucket that
is full when the window begins, the client of a cycle in which the workspace
waited long for its turn, the client of the next cycle, and one more for each
interval. With 10 tokens and 2 tokens a second a minute sees at most
30 + 120 = 150 grants at an interval of 300 s and 50 + 120 = 170 at one of 30 s;
Asana allows about 150 requests (README.md:133). Not every grant becomes a
request: a bucket that outlives its cycle serves only coroutines that were left
behind, whose requests fail on the closed session. That makes it one bucket less
for the requests sent, 160 at an interval of 30 s, and takes a workspace that gets
its turn late in one cycle and early in the next two. Retries by tenacity come on
top (see the hazards).

### Bounds, and why they are enough

- `token_bucket`: 3 callers, so that two sleepers compete while a third arrives;
  `Unit` 3, `Rate` 2 and `Capacity` 7 do not divide each other, so waits round up
  and the cap cuts a refill; 4 ticks, which fill an empty bucket and hold two
  intervals of 2, so that a window sees three clients. The clock stops at `MaxTime`, so deadlock is not checked.
- `client`: two coroutines of one workspace and one of another, and 4 slots for
  them: waiting for the second slot happens while others hold two. One of them
  makes two calls, so that a call follows an error, a pause or a closing.
  `Max429` is the code's 3 and reached, `MaxAttempts` is 2 instead of 3, pauses
  last 0 or 2 ticks so that they overtake each other; a pause of 0 is also what a
  negative Retry-After amounts to. The bucket holds one token.
- `scheduler`: 4 cycles, an interval of 4 and a grace period of 3 ticks, with a
  `stop()` before `run()` among the behaviours.
- `extraction`: two workspaces and one slot; a task in two projects, since one
  walk alone cannot write in the wrong order; two versions and two instants,
  enough to be before or after a cycle start. Cycles, restarts and full
  extractions are unlimited. `Converges` needs no bound on them.
- `walks`: all 36 combinations of lists of users, of projects (none, one twice
  with an entity without a gid between, two), and of tasks with and without a
  second page, with a task that both projects list. `PageSize` is 2. An extraction
  ends, so deadlock is not checked.
- `atomic_writer`: three contents, unlimited writes and crashes.

### Fairness

`asyncio` runs whatever is ready and its clock goes on: weak fairness of each
coroutine's continuation and of `Tick`. HTTP always ends because
`ClientTimeout(total=30)` (client.py) turns silence into a `TimeoutError`: the
continuation of a coroutine that is sending includes its failure. Nothing is
assumed of which answer comes. `Scheduler` assumes nothing of how long a cycle
takes, only that a cancelled one unwinds. In `Extraction` each workspace and each
walk goes on, in whichever way, and the scheduler starts the next cycle
(`NextCycleFollows` of `Scheduler`); no success is assumed. `Converges` has its
premise in the formula: from some point on no walk, workspace or save fails, no
cycle is cut off and no tenant is left out (`Setback`). Edits need no such
premise, though a finite model has finitely many of them. In `Walks` every
coroutine goes on, because a request is answered or raises in the end
(`EveryCallReturns` of `RateLimitedClient`), and so does the one that gathers.

## 4. Proofs

| Theorem | Says |
|---|---|
| `TokenBucketProofs!TypeCorrect`, `WindowBoundHolds`, `NoBurstAfterResetHolds` | the invariants of the bucket (over a window its refill and `3 + window / interval` full buckets), for every rate, capacity, interval and number of callers |
| `TokenBucketProofs!BucketImplementsEagerBucket` | `Spec => Eager!BucketSpec`: refilling on demand is refilling at every tick |
| `TokenBucketOpsProofs!WaitTimeIsEnough`, `RefillComposes` | the computed sleep is long enough; two refills are one over both times |
| `RateLimitedClientProofs!TypeCorrect`, `SlotsAccountedHolds` | types, and the accounting of nested slots |
| `RateLimitedClientProofs!InFlightBounded` | at most `MaxConcurrent` requests in flight |
| `RateLimitedClientProofs!PauseOwnedHolds` | every pause has a sleeper that ends with it and resets the bucket |
| `RateLimitedClientProofs!OnlyRetriesStandStill` | a standstill needs every slot in the hands of a first attempt whose retry waits |
| `RateLimitedClientProofs!PaidForHolds` | the action property: no request without a token, and the buckets are those of `EagerBucket` |
| `RateLimitedClientProofs!CountNotAboveStreakHolds` | the 429 counter never runs ahead |
| `SchedulerProofs!TypeCorrect`, `NoOverlapHolds`, `NothingLeftBehindHolds`, `GraceRespectedHolds` | the safety properties of the scheduler, for every interval, grace period and number of cycles; the last two unless `stop()` came before `run()` |
| `SchedulerProofs!ImplementsSpacedCyclesHolds` | `Spec => Spaced!CyclesSpec` |
| `ExtractionProofs!TypeCorrect`, `WorkspaceSlotsHolds` | types, and the accounting of the workspace slots |
| `ExtractionProofs!CoveredOrLoggedHolds` | the timestamp in a state file can be relied on, but for what a warning names and for projects not yet listed, for any workspaces, projects, shared tasks, number of cycles and lag of the local clock |
| `ExtractionProofs!OverwrittenIsRefetchedHolds` | the action property: an older version only overwrites what is fetched again |
| `ExtractionProofs!ExtractionImplementsReplica` | `Spec => Copy!ReplicaSpec`: what has been seen is missed only with a warning |
| `WalksProofs!TotalsAddUpHolds` | counts and warnings add up to what the walks that did not fail were sent |
| `WalksProofs!WalksTypeOK`, `NoSilentGapsHolds`, `TaskNamesItsProjectHolds` | the result of an extraction names every gap, and shared tasks name a project of theirs, for all listings, page sizes and failures |
| `AtomicWriterProofs!NeverPartialHolds`, `OutcomeToldHolds`, `OldOrNewHolds`, `NoLitterHolds` | the write of a file, for every set of contents and one writer |
| `AtomicWriterProofs!ImplementsAtomicFileHolds` | `Spec => Atomic!FileSpec`, with one writer |

Assumptions are the named ASSUMEs of the modules (naturals, positive limits,
finite sets); for the theorems of `AtomicWriterProofs` also that a file has one
writer (`OneWriter`), which holds because nothing is awaited between the steps of a write.

*Bucket.* `WindowBound` is not inductive: it says nothing of the tokens. The
strengthening relates both: what was granted in a window plus what the bucket
would hold now is at most the capacity plus the refill of the window (and
likewise since the last reset). A grant moves one token from one term to the
other, time adds the same to both sides, and the cap only helps. A new client
adds at most a full bucket, and the number of clients a window has seen is
bounded by the cycles that began in it, of which two are more than an interval
apart at least; that is the second part of the invariant. The refinement of
the eager bucket rests on two facts of arithmetic: refills compose
(`RefillComposes`), so that a tick of the clock refills what would be handed out
by one tick, and a refill over no time changes nothing, so that a caller who only
refilled the bucket and sleeps is a stutter.

*Client.* The types need the accounting, since `permits` stays within its range
only because each slot given back was taken: `TypeOK`, `SlotsAccounted` and
"only a first attempt cools down" are one inductive invariant. Each way into HTTP
moves one slot into an open `async with` block and each way out closes all that
are open, the ways out of a closed session included. `PauseOwned` is proved on
top of it: a coroutine that records a 429 owns the pause it sets until another
one of the workspace replaces it, and a pause that is over owes nothing.
`OnlyRetriesStandStill` reads the accounting at a standstill: who is inside the
semaphore is not in its queue, so only the outer blocks of retries are left to
make up the limit. With more slots than coroutines there are not enough of them,
which is the premise of the run `client`; the code has 50 slots and starts a
coroutine per project (extractors.py:480), so nothing in it grants that premise.
With fewer slots the run `client_retry_deadlock` reaches that state, and the
theorem says that there is no other. `PaidFor` follows the buckets through the step (`Pays`):
whether a coroutine came from a sleep, the queue or a new call, it looks at the
bucket in the very step in which it goes on, and after a pause it finds it empty.

*Scheduler.* `run()` looks at a flag and not at the task. The invariant says that
only the last cycle can be in progress and that the flag is set while it is
(`OnlyTheLast`, `FlagIsSet`); the converse is false, as the run `scheduler_flag`
shows, and not needed. The grace period is `grace + timer = ShutdownTimeout`
during a drain. An early `stop()` leads to `exited` at once (`EarlyIsOver`), so that
it disturbs nothing that run() waits for. The refinement adds `SinceMeasured`: while `run()` waits, the time
since the last cycle and what is left of its timer are at least an interval,
whether the timer was started for that cycle or restarted by a skip. A task is
created only when no cycle is in progress, which the flag alone does not say: a
task that has not begun has not set it (`~ Created`).

*Extraction.* `CoveredOrLogged` speaks of state files, and a state file is written
long after the pages were fetched. The invariant carries the promise through the
cycle: a walk has *settled* every task of its project that is neither to come nor
under way, where settled means up to date, modified since the cycle began, or
passed by an earlier timestamp (`WalksCover`); a page under way is up to date or of a task modified
since then (`PagesFresh`); and the filter of a walk is the timestamp itself
(`SinceIsMark`), so that what the first page leaves out is settled by the promise
of the cycle before. That pages of one cycle never reach the next follows from the
places of walks and workspaces (`Control`). The skew enters only as
`start + Lag <= now`: a local clock that is behind is harmless. One that is ahead
is outside `LagAssumption`, and the promise does not hold for it: an edit between
the true time and the timestamp is never fetched (see the hazards).

*Replica.* When `SaveState` moves the timestamp past a task that is out of date,
none of its walks has settled it, so that it is given up with a warning or is in
no listed project (`WalksSettle`). In the first case it has been seen
(`GivenUpIsSeen`), in the second it has not (`UnlistedIsUnseen`), and this is
`Advance` with the tasks given up. What was listed once stays visible and a page
only brings tasks of its project (`Sight`), so that lists only grow and what is
fetched has been seen. A page that comes late cannot make a missed task of a
current one, because what it overwrites was modified since the cycle began, after
the saved timestamp.

*Walks.* Whatever a walk is past is on disk (`WalkedIsOnDisk`), projects that
their walk is past have a walk of their own (`WalkedIsCollected`), and no walk of
phase 2 has begun before phase 1 is done (`PhasesInOrder`). At the end both walks
of phase 1 are done, so every project has a walk, which is done or whose failure
is named (`FailuresAreNamed`). Overwriting never takes a file away. The totals
need another invariant (`TallyInv`): what a coroutine has counted and warned about
is what its walk is past, and what was returned is the total over the completed
coroutines. `Total` is a cardinality, that of the pairs of a completed coroutine
and a number up to its tally, so that adding one result to another is the
cardinality of a disjoint union and no induction is needed.

*Writer.* One step per place of the call: what the two files hold there
(`Progress`), with a crash possible at each. For the refinement `Progress` says that
what `os.replace` moves is the whole content of this call and of no other, which
is where one writer is needed; that a call which raised had no effect is part of
the mapping, since nothing leads from done to the exception.

Only model-checked: the liveness properties (`CycleEnds`, `Converges`,
`ShutdownEnds`, `NextCycleFollows`, `EveryCallReturns`, `RetriedAfterPause`,
`WalksEnd`), which the prover cannot treat. Every invariant, action property and
refinement that a passing run checks is also a theorem, under the exemptions that
their definitions name.

## 5. Known gaps in the program, and what is not modelled

Two gaps are in the models and exempted by name from the properties that would
fail otherwise:

- A project that is shared with the token after a state was saved: its tasks that
  were modified before the timestamp are filtered out by `modified_since` and stay
  missing, with nothing in the log, until they are edited or `--full-extraction`
  starts over. README.md:163 promises a fetch of changed entities only.
  `CoveredOrLogged` exempts them as `overlooked`, and `Replica` lets
  them be missed unseen.
- `stop()` before `run()`: the first cycle begins after `run()` has returned and is
  cut off without its grace period (`early`), although scheduler.py:185 says that
  `run()` exits after the current cycle completes or after the timeout. Read
  literally no cycle is current when such a `stop()` comes, so it is listed here
  and not as a finding.

Not modelled:

- URLs, headers, TLS, JSON, logging, the settings and their validation: pure data;
  the bounds the settings enforce are assumptions on the constants.
- Names and times in the dataclasses of models.py; the content of an entity is a
  version number in `Extraction` and its project in `Walks`. Note that a name that
  the API returns as null is stored as the text "None" (models.py:75).
- `discover_workspaces()`, `BaseExtractor.extract()` and `AsanaClient.paginated_get()`,
  which nothing in the program calls.
- Cancellation of single coroutines inside the client when a shutdown times out:
  the process ends then. `Extraction` has its effect on the files as `Restart`.
- Edits during the extraction of `Walks`; they are in `Extraction`, where a walk
  returns the tasks its first page decided on, each in a later version.
- The loss of power after a rename that was not synced.
- Two tenants with one workspace: both tasks run in one thread, write the same
  files and save the same timestamp, with a bucket each.
- Deletions: the program never removes the file of an entity.
- `entity_timestamps` and `cycle_count` are written and never used for a decision.

## 6. How the modules fit together

No module has the whole service, whose state space is out of reach. The seams
are properties of one module that are assumptions of another: `NoOverlap` and
`NextCycleFollows` of `Scheduler` are the guard of `StartCycle` and the fairness of
`Extraction`; `CycleEnds` of `Extraction` is the end of a cycle in `Scheduler`;
`EveryCallReturns` of `RateLimitedClient` is the fairness of a walk in `Extraction`
and `Walks`, and holds under the conditions of the run `client`, which the
finding of `client_retry_deadlock` limits: with as many pausing requests as there
are slots, cycles need not end. `Close` of `RateLimitedClient` comes when
`Phase1Raises` or `TasksGathered` of `Walks` happens.

Three seams have an abstract specification of their own, which one side
implements and the other is built on. `SpacedCycles`: `Scheduler` implements it,
and `BeginCycle` of `TokenBucket` comes no sooner than it allows. `EagerBucket`:
`TokenBucket` implements it, and the buckets of `RateLimitedClient` move only as it
allows one client. `AtomicFile`: `AtomicWriter` implements it, so that the writes in `Walks`
and `SaveState` in `Extraction` may be single steps. That the modules composed
along these seams make up the service is an argument of this text and not a
theorem.
