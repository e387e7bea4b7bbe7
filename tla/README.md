# Tourist assistant ("Прогуляй"): TLA+ models

The repository is a web service that builds walking routes for a trip: a Fastify
API (`api-node/`), a Python worker (`worker/`, `services/`, `agents/`), Postgres,
Redis and a React client (`web/`). This directory models the parts whose
correctness depends on order (requests, jobs, locks, rows, files and timers that meet in
Postgres, Redis and on disk without a common transaction), the search that collects the
places of a city, and the rules that make and judge the routes.

## 1. Inventory

| Component | State | Operations | Interacts with | Hard behaviour | Correct when | Module |
| --- | --- | --- | --- | --- | --- | --- |
| Run lifecycle (`runManager.ts`, `repos/graphRuns.ts`, `jobs/enqueue.ts`) | `graph_runs`, Redis key `trip:<id>:build_lock`, list `tourist:queue:build_routes` | start a run, refuse it, fail stale runs, delete the trip | worker by queue, lock and rows; DELETE by rows | check-then-act in several awaits; lock without owner; RPUSH that fails after it succeeded | at most one active run, no leaked lock, no row without an owner, each run executed once | `GraphRuns`, `BuildOnce` |
| Worker (`worker/tasks.py`, `callbacks.py`, `__main__.py`) | the job it executes | `build_routes`, `city_fact`, `poi_fact`, `prepare_osrm`, `prepare_city_pack`, failure callbacks | all queues, rows, versions | crash with a popped job, exceptions in each step and in the handlers | a completed run has a version; a failure is recorded | all five with a queue |
| City fact (`cityFactRecovery.ts`, `city_fact_task`) | `itinerary_versions.program`, `graph_runs.city_fact_status`, `trip:<id>:city_fact_enqueue` | generate, patch, retry, give up | GET program, worker | late jobs, retries, give-ups, rebuilds that copy a pending fact | a version that is settled stays so; pending does not last for ever | `CityFact`, `VersionLog` |
| Versions and feedback (`itemFeedback.ts`, `repos/trips.ts`, `route_feedback.py`, `feedback_prune.py`, `repository.py`) | `itinerary_versions`, `program_item_feedback` | vote, like, pin, unpin, rebuild, prune, patch | API, worker | number race, lost update, limits checked before the write, rows left over from old versions | versions are a log, pins and bans survive a rebuild, a fact is not undone | `TripData`, `VersionLog` |
| Agent graph (`agents/graph.py`, `nodes.py`, `critic.py`, `finalize_helpers.py`) | graph state, `section_artifacts` | research, search, write, review, retry | search, LLM, versions | retry loops; a stored pool that several builds share | the loop ends; the critic accepts what the rules make | `AgentBuild` |
| Route rules (`route_postprocess.py`, `section_quality.py`) | none | choose, extend, diversify, trim and join three routes | agent graph | a later rule undoes what an earlier one established | no disliked place, no duplicate, length limits | `RouteRules` |
| Run quotas (`quotas.ts`, `freeQuotas.ts`, `guestGeocodeQuotas.ts`, `run_quotas.py`) | Redis counters with TTL | consume | startRun, geocoding | INCR, EXPIRE, DECR in separate calls, a crash between two | exactly `limit` per slot | `RunQuota`, `Accounts` |
| Accounts, sessions, settings (`services/auth.ts`, `authSession.ts`, `emailVerify.ts`, `googleOAuth.ts`, `repos/users.ts`) | `users`, `auth_sessions`, `user_settings`, cookie | register, verify, resend, log in and out, Google, settings | all private routes | background touch, read-merge-write of settings, two Google accounts with one address | what ended stays ended, the own-key mode has a key | `Accounts` |
| Guest sessions (`guest.ts`, `guestSession.ts`, `guestQuotas.ts`, `guestCleanup.ts`) | `guest_sessions`, guest `users`, cookie | create trip, start run, claim, cleanup | run lifecycle, accounts | limits counted after the run, claim in five statements, cleanup between them | claimed data stays, every guest is removed | `GuestTrip` |
| OSRM prepare (`osrmPrepare.ts`, `prepare_job.py`, `osrm_nightly_refresh.py`) | `osrm_prepare_jobs`, `users.osrm_prepare_quota_used`, hourly counter and lock in Redis | request, prepare, refund, nightly refresh | worker by queue, rows and lock | duplicate jobs, refunds from two places, a lock with a TTL and no owner | the counter is the number of slots held, one pipeline at a time, every job settles | `OsrmPrepare`, `BuildOnce` |
| POI facts (`repos/poiFacts.ts`, `poi_fact_task`, `poi_fact.py`, `usePoiFact.ts`) | `poi_facts`, the polling card | request, generate, answer, poll | worker | lost job, stale retry against late answer | what is pending has a job, a good text stays | `PoiFacts` |
| Legacy Python run manager (`services/run_manager.py`) | as the run lifecycle | as `runManager.ts` | command line | not modelled | | |
| Place search (`leisure_search.py`, `wikidata/places.py`, `poi_index.py`, `poi_collect.py`, `poi_match.py`, `poi_filters.py`, `landmark_discovery.py`) | the pool being collected, the cached centre | geocode, read the index, ask Wikidata, collect, merge, match names, answer | agent graph, city packs, external services | several loops with different rules for what is too alike; queries that fail without an error; demo points | no repetition, nothing lost without a reason, demo points announced | `PlacePool`, `PlaceSearch` |
| City packs (`city_pack.py`, `pbf_usable.py`, `city_packs.py`, `build_poi_index.py`, `city_pack_prepare*.sh`) | extract, `poi.sqlite`, `meta.json`, row of `city_packs`, `_PREPARE_IN_FLIGHT` | ensure, cut, index, mark, clean up | place search, worker by queue, OSRM pipeline by files | two scripts on the same files, readiness by existence, a check before an open | a ready pack is whole; the mark has a job and goes away | `CityPacks` |
| Geometry, OSRM client, other searches (`planning/`, `search/`) | caches | external services | agent graph | not modelled | | |
| Web client (`web/`) | none | rendering, polling | API | only its polling of pending facts is used | | `CityFact`, `PoiFacts` |

`PROJECT.json` lists the hazards of each with the line where they bite.

The modules compose the components where they share state: `GraphRuns` composes API,
worker and trip deletion; `CityFact` API, worker and client; `TripData` feedback
requests, rebuilds and fact patches; `AgentBuild` the graph with `RouteRules`;
`Accounts` extends `RunQuota` and implements it; `CityPacks` puts the files, the scripts and the jobs
around `PlaceSearch`, which uses the rules of `PlacePool`, and implements it. Two abstract specifications are shared:
`BuildOnce`, which `GraphRuns` and `OsrmPrepare` implement, and `VersionLog`, which `TripData`
and `CityFact` implement.

## 2. What is modelled

### GraphRuns: the life of a run

`GraphRuns` follows one trip. `Request` is a set of calls of `startRun`; each call
goes through the awaits of the function one step at a time (`pc[q]`), since Node
may run another request between any two of them:

    idle -> failStale -> [staleUnlock] -> check -> lock -> insert -> push -> done
                                                                  \-> undoLock -> undoRow -> error

| Variable | Code |
| --- | --- |
| `trip`, `deleter` | row of `trips`; where `DELETE /api/trips/:id` is |
| `pc`, `scope` | position of a request in `startRun`, its scope |
| `row` | `graph_runs`: status, `city_fact_status`, and `stale` for "older than `graphRunStaleSec`" |
| `lock` | `trip:<id>:build_lock`. The code stores "1"; the model keeps who set it, and no action reads more than whether it is set |
| `queue`, `factQueue` | Redis lists |
| `worker`, `job` | position in the main loop and `build_routes_task`; the job |
| `saved`, `lost` | runs with an itinerary version; history of the runs cut short by an error outside any handler or by a crash |

A request creates at most one row, so a run has the name of its request. The
worker is one process with one job at a time (one `worker` service in
`docker-compose.yml`). Exceptions are possible in every step (`Raise`): inside the
`try` block the task's handler runs (`MarkFailed`), then the callback of the main
loop (`CallbackMarkFailed`, `CallbackUnlock`); a handler that raises ends in a
crash. `Crash` loses the popped job, the container restarts the worker. UPDATEs
have no guard on the old status and touch no row of a deleted trip (`UpdateRow`).

Time: a row may grow old whenever its request is over (`startRun` takes less than
the 600 s of `graphRunStaleSec`), and the lock may expire after its hour, which is
longer than a run stays fresh.

`BuildOnce` is the abstract specification: a run waits, executes, is over; never
twice and never two at a time. `GraphRuns` implements it with the refinement
mapping `Phase` (`ExecutedAtMostOnce`).

### CityFact: versions and the fact about the city

`CityFact` follows the versions of one trip, the build and fact jobs of the
worker, and a client that polls `GET /program`. A run is started in one step here
(its races are the subject of `GraphRuns`); a version is its fact status, whether
it has a text and the run that built it. The poll has a step per await
(`ReadProgram`, `FindRun`, `LockRetry`/`GiveUpFact`, `RetryFact`), the worker too.
`llm` is the user's mode; "unusable" is a mode with a key that is missing or cannot
be decrypted, for which `resolve_run_context` raises. `mixed` is history: runs whose
fact was retried for an older version. That happens because the program is read
first, repaired in a subprocess without a timeout, and only then the run to retry is
looked up, without comparing the two.

Left out: several polls at once (the lock of 90 s lets one of them retry), deletion of
the trip, and the text of the fact.

### VersionLog: what the versions of a trip promise

Whoever shows, shares, votes on or rebuilds from a version has read it some time before, so
what counts is that the versions are a log: `Save` adds one behind all others, which is then the
current one; its routes, or the build they come from, never change; its fact is settled once (`Settle`),
when it is saved or later, or never. `CityFact` implements it with the builds of the versions
(`Builds`, `Settled`), `TripData` with their routes (`Shown`, `Ready`): two sides of the same table,
since `CityFact` has the jobs that settle facts and `TripData` the requests that write
versions back (`VersionsAreALog` in both).

### OsrmPrepare: the graph of a city on request

`OsrmPrepare` has many requests, users and cities, one worker and the nightly refresh.
As in `GraphRuns`, a request makes at most one row, and row, job and request share a
name. `enqueueUserOsrmPrepare` has a step per await:

    idle -> findActive -> findLatest -> [rate -> [undoRate]] -> [reserve] -> insert -> push -> done
                      \-> joined                     \-> refused      \-> refused   \-> refund -> error

| Variable | Code |
| --- | --- |
| `ask` | user, city, and whether the quota applies (`resolveOsrmPrepareQuota`, read once at the start, stored as `counts_against_quota`) |
| `pc`, `slot` | position of a request; the hour whose counter has counted it |
| `used`, `enqueues` | `users.osrm_prepare_quota_used`; `osrm_prepare_enqueue:<user>:<hour>` in Redis |
| `status`, `latest`, `queue` | rows, the newest row of each city, `tourist:queue:prepare_osrm` |
| `worker`, `job` | position in `prepare_osrm_task` |
| `lock`, `nightly` | `tourist:lock:osrm_prepare`; `osrm_nightly_refresh.py` between taking and leaving the lock |
| `ready` | cities with a graph on disk |
| `held`, `lost`, `seen` | history: requests with a slot nobody gave back; requests cut short by an error outside any handler or by a crash; the rows of its city when a request searched |

Errors: every query may throw (`Abort`, `CreateFails`, `PipelineFails`, `TaskRaises`), an
RPUSH may throw after Redis has executed it, a DEL of the lock may fail, API and
worker may die at any step. The lock may expire at any time: its two hours are
fixed and the scripts have no timeout.

Left out: refusals before the first query (unknown city, disk, e-mail) change
nothing; progress and texts of a job; the queues of the nightly refresh, which is
here only an owner of the lock that leaves ready cities ready; deletion of a user with
the rows (cascade).

`OsrmPrepare` implements `BuildOnce` with the mapping `Phase` (`PreparedAtMostOnce`): whatever
throws, the job of a request is begun once at most, and no two at a time in this worker.

### GuestTrip: a visitor without an account

One browser with one cookie sends overlapping requests; each SQL statement of a
handler is a step, because none opens a transaction. `req[p]` keeps the rows a
request has read, and its checks (`GuestCanCreateTrip`, `GuestCanStartRun`) look at that
copy as the code does.

    create trip:  idle -> [insertSession] -> insertTrip -> setTrip -> start or reply
    start build:  start -> insertRun -> count -> reply
    claim:        idle -> claimTrips -> claimRuns -> claimSession -> claimUser -> claimReply

`user`, `sess`, `owner` and `run` are rows, with the cascade of `DELETE FROM users` in
`DeleteUsers`; `sweep` is what the running cleanup has selected. A session expires, an
orphan outlives its grace, the build lock expires, a restart cuts the
requests short. Any statement may throw and end its request alone (`StatementFails`), the INSERT
of a build may be followed by a push that fails (`InsertRunUnqueued`), and each leaves a build that
nobody counts. Two variables are history: `run[r].late`, the trip had changed hands since the
request read its owner, and `cut`, the guests of which a claim ended between the trips and the builds.

### TripData: versions and feedback

A route is named by its text, whose hash is the item key. A vote, pin or unpin reads,
writes and patches the latest version in steps of its own (`displace`, `store`; `erase`,
`unmark`). A rebuild takes its snapshot and works (`resolve`), prunes (`prune`, `delete`), inserts
the version under the number it read, and restores the pins (`sync`). A city fact is
patched by read-merge-write in Python. Requests and builders may die between any two steps;
`mixed` remembers that something overlapped or died. The loops over rows are one step each.

### PoiFacts: the text of a place

One row of `poi_facts`, the cards that ask for it and poll, the queue and the workers.
The LLM is asked up to `MaxAsks` times and the best answer counts; Wikipedia is asked by
Wikidata id, else by name. Texts are the kinds the checks tell apart: full, too short,
about the city, fluff, a snippet with its link, a snippet of an earlier release.
A push may throw with or without its effect (`PushFails`); `lost` remembers that a job was lost so,
or with a process that died.

### RouteRules and AgentBuild: how a program is made

`RouteRules` translates the rules that turn a pool of places and a draft of the LLM into
the routes A, B and C, and the critic that judges them. The city is one street, so a place is
a number and a leg a distance; of names only what the rules ask is kept (conflicts,
landmarks, embankments, bridges). `AgentBuild` is the graph around them: researcher,
executor, writer and critic with their retries and LangGraph's limit of steps, for
builds of one trip, each with a snapshot of votes and pins. Any node may raise and fail the build. `store` is the pool that
outlives a build. The rules enter the graph as the constant operator `RoutesFrom`, which the
configuration binds to `ResolveRoutes`, the program's rules. The loops of the rules are folds (`Fold`, `Repeat`, `Collect`) over functions,
so that what holds of every fold is one lemma of the proofs; `Tour` is the table of the walks
of all sets of places.

### RunQuota and Accounts

`RunQuota` is the counter of a bucket and a slot of time: INCR, EXPIRE, DECR as three
steps, keys that expire, a process that dies in between. `Accounts` EXTENDS it: one
account with its row, sessions, settings and requests of every kind, each a row
of database calls. Its `start` request takes the steps of `RunQuota`, and the theorem
`AccountsUseQuota` says that `Accounts` implements `QuotaSpec`.

What `NewRequest` leaves out: requests that are refused at once; a JWT with anything but
`me`; ages of sessions nobody holds; two Google accounts are used in order.

### PlacePool, PlaceSearch and CityPacks

`PlacePool` translates which places a walk may stop at and which two are the same: the
patterns on names, the tags of OpenStreetMap, the kind of a place, the score of Wikidata's second
tier and the conflicts of names and coordinates. Of a name only what the patterns find in it is kept
(`Name`), of tags only the groups the code tells apart.

`PlaceSearch` is one search of the worker. Each loop of the code over candidates is a stage, and
a step considers one candidate; `todo` are those to come, `pool` those collected:

    idle -> begun -> reading -> opening -> pack ----------------> merge -> [again] -> web -> match -> idle
                \-> asking -> strict -> soft -> [relaxed] --------/

An error of the index or of the web search (`ReadFails`, `DiscoverFails`) ends the search as a whole.

| Variable | Code |
| --- | --- |
| `centre` | the answer of `resolve_city_center`, which `lru_cache` keeps, a failure too; "nameless" has no Wikidata id |
| `rows`, `found` | the rows of `poi.sqlite` or of Wikidata; the pool the source gave to the merge |
| `names`, `matches` | phrases from the web, and pairs of a phrase and a place |
| `reply` | the answer: kind, places, those ranked first, and whether it carries a warning |

`CityPacks` adds the pack of one city of the catalogue. `poi.sqlite` has no table, is bare
or made, has rows, and knows who writes it; `is_pack_ready` looks only whether the file and
`meta.json` are there. Two runners take the steps of `city_pack_prepare.sh` on the same files: `"job"`, the
worker's `prepare_city_pack`, and `"refresh"`, the OSRM pipeline, whose lock `city_pack_prepare.sh` does not
ask for. After a failed index the pipeline removes a good extract only if what is kept of the error's text names the
script, which is left open (`EndRefresh`). A file may be unlinked or renamed under its writer (`Closed`, `Leaves`). `inFlight` is the
mark `_PREPARE_IN_FLIGHT`.

What is abstracted. The order of rows is left open, but for the order by score of the second tier. The
switches `POI_USE_WIKIDATA` and `POI_USE_DISCOVERY` are on, their default. The similarity of a phrase and
a place is a number of thousandths, as it is rounded. Updates of the row of `city_packs` that fail are left out, because
nobody but people reads the row; unlinking a file and connecting to the new one is one step; one lock makes
the pipeline of a user and of the night one runner. The script for a city outside the catalogue, and the
download of federal districts, are left out.

## 3. Runs

| Run | Configuration | Shows |
| --- | --- | --- |
| `graph_runs_faults` | 2 requests, all faults, fair | `LockHasReleaser`, `ActiveRunHasOwner`: no lock and no active row without somebody who will end it, except after a crash; `CompletedHasVersion`; `ExecutedAtMostOnce` (refinement of `BuildOnce`); `JobsSettle`; `LockIsFreed` |
| `graph_runs_two_active` | 2 requests, `HealthySpec` | `SingleActiveRun` is violated: two active runs |
| `city_fact` | 2 runs, 1 retry, `OneChangeFairSpec` | `HangExplained`, `FactSettles`, `VersionsAreALog` (refinement of `VersionLog`) |
| `city_fact_free_retry` | 1 run, fixed mode | `FreeFactNeedsNoLlm`, violated: the retry of a free user's fact asks for the LLM |
| `osrm_prepare_faults` | 2 requests of a user, 2 cities, quota 1, limit 1 per hour, 2 hours, all faults, fair | `SlotIsJustified`, `ActiveJobHasOwner`, `HourlyCap`, `TwinsOverlapped`: two active jobs of a city come from requests that overlapped; `PreparedAtMostOnce` (refinement of `BuildOnce`), `JobSettles` |
| `osrm_prepare_orderly` | 3 requests, 2 users, 2 cities, quota 1, `OrderlySpec` | `FreeCityLimit`, `OnePipeline`, with overlapping requests |
| `guest_trip` | 1 guest, 2 trips, 3 builds, 2 requests at once, 1 crash or failing statement, fair | `OverrunIsBounded`, `CleanupSparesLive`, `ClaimedStays`, `GuestsAreRemoved` |
| `trip_data` | 3 routes, 2 places, 2 builders, 2 requests, 3 versions, limits of 1 | `RebuildKeepsPins`, `BansOutliveRebuilds`, `VersionsAreALog` (refinement of `VersionLog`) |
| `poi_facts` | 2 browsers, 2 workers, 3 openings, 3 questions to the LLM, 1 crash or failing push, fair | `PendingIsExplained`, `SettledStays`, `FactsAreResolved` |
| `agent_build` | 9 places, 4 pools, 4 drafts, 4 sets of votes, 2 builds | `BannedStaysOut`, `RoutesAreSound`, `CriticAccepts`, `OnlyRoutesRefused`, `PinsSurvive` |
| `accounts` | 3 requests, 2 at once, 2 Google accounts, 2 slots of time | `QuotaIsExact`, `ByokHasKey`, `EndedStaysEnded` |
| `city_packs` | 5 places of the map, one of them too far, 5 of Wikidata, 3 phrases, limits of 2 and 3, 1 death, fair | `PoolIsSound`, `PoolIsMaximal`, `DemoIsAnnounced`, `ReadyPackIsWhole`, `MarksClear` |

The types of all modules are proved for every instance (section 5), and so are some properties that no run
repeats any more (listed there).

Bounds. Two requests are the smallest number for every race between calls, and each
shared object (row, lock, queue) is touched by pairs; `OrderlySpec` has few
interleavings and affords three in `osrm_prepare_orderly`. Each request runs once, so a behaviour has as many
builds as requests. Two runs in `CityFact` give every pair of scopes in every order,
with a base program for the second; `MaxRetries` bounds the jobs recovery queues
(one retry can meet the original job and the give-up). In `GuestTrip` one guest meets
itself in two tabs; two trips and three builds allow a second trip, a full and a
routes build, and one more that overruns. In `TripData` limits of one are reached by the
second request, and three versions let two rebuilds collide and one follow. In
`PoiFacts` two workers hold an early and a late job. In `AgentBuild` the second
build meets the pool, the pins and the version of the first; `RecursionLimit` is 13 (the
program leaves LangGraph's default) so that searches that miss reach it. In `Accounts` two requests overlap and a third follows, and slots 0 and 1 let a
request be late for its slot. Crashes of `TripData`, `RunQuota` and `Accounts` are not bounded.
In `CityPacks` the places are chosen so that every rule has one that meets it and one that does
not: near namesakes in both sources, a street for walkers, a church without a word of the hints, an address, two
of the second tier of which the better one is where a strict one is; a target of 2 makes three
near each other too many, and a phrase is like two places. One death comes between any two steps of both scripts.
Symmetry is used only in runs without liveness. Deadlock checking is off, but for `city_packs`: when all
requests are over, nothing remains to do.

`OrderlySpec` names what `startRun` relies on for a single active run: requests of
a trip come one at a time, only runs without a job grow old, and an RPUSH that throws
has not pushed. `OneActiveRun` proves that this is enough; without the first, `graph_runs_two_active` shows two active runs. `HealthySpec` (in
`MCGraphRuns`) excludes every fault, so its counterexamples are interleavings only.

The `OrderlySpec` of `OsrmPrepare` does the same for the preparation: an RPUSH that
throws has not pushed (`PushIsReliable`) and the key outlives the work it protects
(`LockOutlivesWork`). The first carries the quota, the second `OnePipeline`; the code enforces
neither, so these two properties say what is left when they hold. That two requests of a city may
overlap is assumed away nowhere: `TwinsOverlapped` holds with all faults.
Its bounds: two requests of one user meet in the quota, in the hourly counter and, for the
same city, in the search for an active job; a quota and a limit of one are reached by
the second; two hours let a refused request give back the count of an hour that
is over. The second user of `OsrmPrepare_orderly.cfg` meets the first in a city.

Fairness. The worker's main loop never ends and its container restarts
(`restart: unless-stopped`): weak fairness of the worker's steps, none of its
exceptions in particular or of its crashes. A request once admitted is driven by the event
loop. Time passes. In `CityFact` a client polls every 2.5 s while the fact is pending
(`useTrip.ts`), so reading the program happens again and again, and it is not always
cut by an error (strong fairness of `ReadProgram`, `FindRun`, `GiveUpFact`);
`OneChangeFairSpec` (in `MCCityFact`) lets the user's mode change only to the one that raises, so
that a user who changes it for ever does not hide what the code does; it also starts the runs in one order
of their names, which are all that tells them apart. In `OsrmPrepare` the scripts of worker and
nightly refresh end, the API finishes the requests it began, and a key with a TTL
expires (weak fairness of `PrepareOsrmTask`, `NightlyEnds`, `Advance`, `LockExpires`).
In `GuestTrip` requests go on, sessions and graces run out and the cleanup's
timer fires (weak fairness of `RequestStep`, `SessionExpires`, `GraceEnds`, `CleanupSelect`,
`CleanupDelete`). In `PoiFacts` handlers, workers and the timer of the poll go on
(weak fairness of `Handler`, `Poll`, `Work`). In `CityPacks` a search goes on, a script ends and `finally` is
reached (weak fairness of `SearchOn`, `ScriptStep("job")`, `EndJob`); BLPOP serves `build_routes` first, so a
job for a pack is taken only if the worker comes to it again and again (strong fairness of `PopJob`); the pipeline
need not do anything. Nothing obliges a user to start, open, close or
delete anything.

## 4. Findings

Two disagreements with what the repository says are runs that expect a violation:

* Two active runs (`runManager.ts:45-50`, `tasks.py:40`): check and lock are separate
  steps and the lock is deleted at the start of the build.
* The retry of a city fact loses the mode (`cityFactRecovery.ts:45`).

The rest was read from the models, as exceptions that a property has to name or as
behaviour nothing forbids.

Runs and city facts
* A trip can be deleted during its build (`trips.ts:259-265`). A run that waits or works for ten
  minutes is failed as "lost" and later comes back as running and completed
  (`graphRuns.ts:112`, `tasks.py:34`).
* A rebuild of the routes copies a pending fact that nothing settles any more; a slow GET
  pairs the fact of a newer run with an older version (the exceptions of `HangExplained`).

OSRM
* The lock of the pipeline lasts two hours, whoever works, and is deleted by whoever ends
  (`prepare_job.py:14`, `:37`): two pipelines at a time.
* A prepare that raises before its `try` (`prepare_job.py:169-175`) is neither failed nor
  refunded: the row stays queued, and as every request joins the queued row of its city,
  the city stays blocked. A failed RPUSH leaves such a row too (`osrmPrepare.ts:138`). No sweep
  looks for old rows of `osrm_prepare_jobs`.

Guests
* The guest limit "1x full" (`README.md:18`, `:770`) can be exceeded by overlapping requests,
  by at most one build per other request (`OverrunIsBounded`).
* A trip created, or a build inserted, for the guest between the statements of a claim is
  deleted with the guest; two claims at once can delete builds the second has not moved;
  a claim that is cut off leaves builds of the claimed trip to the cleanup (`ClaimedStays`
  names these cases). A failed `createGraphRun` leaves the build lock to its TTL. A build whose
  push or whose count throws is never counted (`OverrunIsBounded` speaks of runs without that).

Versions and feedback
* Two rebuilds that collide end in an IntegrityError after the prune has committed: the
  version that stays has lost votes. An unpin during a rebuild is undone by it. Pins beyond ten, and
  a late pin with a case id already taken, are dropped. Two unpins with old copies of the program
  bring a `preserved` flag back.
* A vote deletes all rows of its section with the same `item_index`
  (`itemFeedback.ts:186-193`); rows of earlier versions keep their index, so a vote can delete
  the ban of another stop. The Python patch of a program (`repository.py:497`) can lose a
  concurrent patch of the API, which is one `||`.

POI facts
* A failing task marks its row twice. Of two jobs for one place the late failure overwrites the
  ready row, and a request that read the row before it was ready overwrites it with
  pending. The worker accepts 40 characters where the API calls less than 280 garbage. A lost
  job is queued again only when the card is opened after three minutes.

Places and packs
* A pack is ready when its two files are there (`city_pack.py:51-53`), and the script builds `poi.sqlite`
  only when it is missing (`city_pack_prepare_core.sh:93`). A script that dies between making the file and
  the commit, or a search that opens a file just cleaned up (`poi_index.py:68`), leaves a pack that is ready, empty
  or without its table, and not repaired (`ReadyPackIsWhole` names both cases). An empty index sends each
  search to Wikidata; one without the table makes each search fail.
* The worker's job and the OSRM pipeline cut the same extract without a common lock: each removes the
  other's partial file, and the index may be built from what the other is replacing.
* `is_tagged_leisure_osm` says that tagged places need no Russian keyword in their name
  (`poi_from_tags.py:52`). They need none to enter the index, but `is_leisure_route_poi` asks for one when the
  index is read (`poi_filters.py:230`): a church called only by its saint is indexed and never served.
* A failed geocoding is cached as long as the worker lives (`nominatim.py:252`), and its demo points, in
  Moscow, carry no warning since `poi_sources` is missing (`leisure_search.py:48`, `materials.py:35`).

Agent graph
* The critic stops at `retry_count >= 2`, so one retry happens where `README.md:761` and
  `nodes.py:422` speak of two.
* `finalize_helpers.py:544` uses `get_session_preferences` without importing it: an LLM error
  the code means to recover from fails the build.
* An empty or demo pool overwrites a good stored one, and a rebuild of the routes from an
  empty pool saves three empty routes. A rebuild without a stored pool saves the draft as it is. A
  full build whose search fails uses the pool of an earlier one. A preferred stop is added to route
  C without a check for conflicts; the final step repairs it.
* The builder limits common stops by the size of the pool, the critic by twice the longest route,
  which is all it knows of the pool. For twelve places and more the critic is the milder one
  (`CriticIsMilder`); for eight to eleven it is the stricter as soon as a route has six stops
  (`CriticIsStricter`), and may refuse what the builder took for diverse. It also refuses pinned
  routes without a map link, which a build without a pool can have saved.

Accounts and quotas
* The quota is a window of fixed slots, not the sliding one of `run_quotas.py:1`: twice the limit
  passes around a border. A start that is refused later has used it up. A crash between INCR and
  EXPIRE leaves a key for ever, harmless because slots are not used twice.
* The cookie's `maxAge` is not renewed when the session slides. The touch does not look at the age
  (`authSessions.ts:72-79`): one that is late refreshes a session that has expired since. Overlapping changes of the
  settings can leave the own-key mode without a key or bring a removed key back
  (`ByokHasKey` excepts them). Two Google callbacks at once overwrite a link in spite of the 409.
  Two registrations at once end in a 500. Of two letters sent by overlapping resends the
  earlier is dead; a resend that overlaps a confirmation leaves a token on a verified user. A late
  answer with Set-Cookie logs the browser in again after a logout.

## 5. Proofs

The theorems hold for every value of the constants that meets the named assumptions. Every
invariant and every action property of the passing runs is proved but `CriticAccepts`.
`NoRunAssumption` (a name outside `Request`) is the only one of `GraphRuns`. What is proved
and not checked again by a run: the types of all modules, `DeletedTripHasNoRuns`, `StatusMoves`,
`NeverOvercharged`, `QuotaConserved`, `InFlightHasJob`, `NoNameSettlesForLess`, `LikeCap`, `OnlyMissesExhaust`, and
`LatestIsNewest`, and `SettledStaysSettled` and `FactStays`, which ask of single facts what
`VersionsAreALog` asks of the versions; `SingleActiveRun` under `OrderlySpec`.

`GraphRunsProofs`, about `Spec` (all faults included):

| Theorem | Property |
| --- | --- |
| `Invariance` | `IInv`, the inductive invariant |
| `TypeCorrect`, `LockNeverLeaks`, `RunsHaveOwners`, `CompletedRunsHaveVersions`, `DeletedTripStaysEmpty` | `TypeOK`, `LockHasReleaser`, `ActiveRunHasOwner`, `CompletedHasVersion`, `DeletedTripHasNoRuns` |
| `StatusMovesAsAllowed` | `StatusMoves`, an action property |
| `Refinement` | `ExecutedAtMostOnce`: `GraphRuns` implements `BuildOnce` |

None of the safety properties is inductive alone. `IInv` adds how a job travels:
`Delivered` (a run is in the queue at most once, never while it executes, and only after
its INSERT), `RowFollowsJob` (how far the row of a run can be behind or ahead of its
job), `JobHasVersion` (when the worker has saved). `ActiveRunHasOwner` and
`LockHasReleaser` need the first: the job a request pushed is still somewhere.
`StatusMoves` needs the second, since no UPDATE of `graph_runs` looks at the old status.

Its last part proves `OneActiveRun == OrderlySpec => []SingleActiveRun` with
`OrderlyInv`: one request in `startRun` at a time, a job not yet begun has a fresh
queued row (`JobIsFresh`), a request that undoes its work left no job behind
(`UndoneHasNoJob`), and between the check and the INSERT no run is active
(`LockedIsAlone`). Each conjunct of `Orderly` is used.

Layout: what an UPDATE does to the table is stated once (`RowUpdate`, `StatusUpdate`,
`StaleUpdate`, `AgeUpdate`), what a push or a pop does to the queue in lemmas on sequences;
then one lemma per conjunct of the invariant and per group of actions.

`OsrmPrepareProofs`, about `Spec` of `OsrmPrepare`, from `OsrmAssumption` (finitely many
requests, natural limits), any users and cities:

| Theorem | Property |
| --- | --- |
| `Invariance` | `IInv`, the inductive invariant |
| `TypeCorrect`, `SlotsAreJustified`, `NobodyOvercharged`, `JobsHaveOwners`, `HourlyCapHolds` | `TypeOK`, `SlotIsJustified`, `NeverOvercharged`, `ActiveJobHasOwner`, `HourlyCap` |
| `JobsRunOnce` | `PreparedAtMostOnce`: `OsrmPrepare` implements `BuildOnce` |
| `TwinsComeFromOverlaps` | `TwinsOverlapped` |

Here `IInv` is `TypeOK` and the four properties with `JobHasRow` (a job exists only after
its INSERT), `HeldIsFree` (who holds a slot) and `HourIsCounted`: the Redis counter of an hour
is the number of requests it has counted, and those admitted are within the limit.
`HourlyCap` follows, and without the equation not even the type of the counter is
inductive, since `UndoEnqueue` subtracts. The finite sets of requests enter by
`FiniteSetTheorems`; what a request, the worker and a refund do to the shared variables is
stated once each (`RequestEffect`, `TaskEffect`, `GiveBackEffect`, `ReserveEffect`). `JobsRunOnce` needs one more
invariant, `PushedOnce`: a job is in one place, and its request is past the RPUSH. It is weaker than
`Delivered` below, since after an RPUSH that throws but has pushed the request goes on to refund.
`TwinsComeFromOverlaps` needs two: whatever waits, or may wait, in the queue has a queued row
(`JobIsQueued`), so a row that is failed or succeeded has no job left that could bring it back; and
a request that did not join has seen such rows only (`SearchInv`).

A part of its own is about `OrderlySpec` of `OsrmPrepare`:

| Theorem | Property | Assumption it needs |
| --- | --- | --- |
| `QuotaIsExact`, `FreeCitiesAreLimited` | `QuotaConserved`, `FreeCityLimit` | `PushIsReliable` |
| `PipelinesTakeTurns` | `OnePipeline` | `LockOutlivesWork` |

`QuotaInv` says that a job is in one place, its request being done (`Delivered`), so whoever
refunds finds a slot, and that a request, job or prepared city under the quota has its
slot (`UnspentIsHeld`); the limit follows because prepared cities of the free mode are a
subset of the slots. `LockProtects` says that whoever works has the lock. Both are inductive given `IInv`.

`CityFactProofs`, about `Spec` of `CityFact`, for any runs and `MaxRetries`: `FactTypes`
(`TypeOK`), `HangIsExplained` (`HangExplained`), `SettledStays` (`SettledStaysSettled`). The
heart of the invariant is `Told`: the completed run of the latest version is told of its fact only
after the version is, so while the version is pending so is the row, and a poll can recover it, unless the
run was retried for an older version (`mixed`). That rests on `TaskInv`, `JobInv` and `PollInv` (a job, in
the queue, in the worker's hands or about to be queued by a poll, names a version not older than
that of its run unless the run is mixed), these on `VersionInv` and `RowVersion` (a run saves one
version, and its row names it), these on `QueueInv` and `BuildInv` (one run builds at a time).
`VersionsAlwaysALog` (`VersionsAreALog`) is the refinement of `VersionLog`: only `SaveVersion` of the worker adds
a version and only the patch and the give-up touch one (`VersionWriters`), and each of the two settles a
pending fact or changes nothing (`PatchIsSettle`).

`AccountsProofs` begins with `RunQuota`, from `RunQuotaAssumption` (finitely many requests, natural
limits): `QuotaInvariant` and `QuotaExact` (`QuotaIsExact`). What a counter shows above its grants is owed: at
least one for every request that has yet to DECR, more if some died first (`Owed`); while anything is
owed the limit is spent, so a request that was refused did not find a place. The finite sets enter by
`FiniteSetTheorems`.

Then, about `Spec` of `Accounts`: `AccountsUseQuota` (`Spec => QuotaSpec`: every step is a step of
the quota or leaves its variables alone), and by it `QuotaStaysExact`, although `Accounts` has
many more steps; `AccountTypes` (`TypeOK`); `EndedSessionsStayEnded` (`EndedStaysEnded`: a touch is an
UPDATE, a session issued has a new number, and a request starts a touch only of a session it found alive; a touch
that was started in time may still refresh a session that has expired since, so such a one has not yet ended); `ByokAlwaysHasKey` (`ByokHasKey`), by the
invariant that as long as no changes overlapped, what a request read of the settings is still true
when it writes them, and a save that asks for the own-key mode has seen or brings a key.

`PlacesProofs` begins with `PoiFacts`, from `PoiFactsAssumption` (`Null` is no text): `PoiTypes`, `PendingIsAlwaysExplained`
(`PendingIsExplained`), `GoodTextStays` (`SettledStays`). What a browser, a request, a worker and a
crash may do is stated once each (`BrowserMoves`, `RequestMoves`, `PushFailsMoves`, `WorkerMoves`, `CrashMoves`); with the types
the two properties are kept by each.

Its larger part is about `PlaceSearch` and `CityPacks`, from the assumptions of the three modules (finitely many places
and phrases, natural limits, a target not above the capacity, pairs of two places, and that "набереж" is
a hint as well as an embankment); any names, tags, coordinates, scores, queries and similarities:

| Theorem | Property |
| --- | --- |
| `PacksTypes` | `PacksTypeOK` |
| `PacksSearch` | `CityPacks` implements `SearchSpec`, the search whose index may be anything and vanish at any time |
| `PoolsAreSound`, `PoolsAreMaximal` | `PoolIsSound`, `PoolIsMaximal` |
| `NamesGetTheirBest`, `DemosAreAnnounced` | `NoNameSettlesForLess`, `DemoIsAnnounced` |
| `ReadyPacksAreWhole`, `MarksHaveJobs` | `ReadyPackIsWhole`, `InFlightHasJob` |

The four properties of the search are proved of `SearchSpec` and carried over by `PacksSearch`. `SearchInv` says for each loop
what has become of the candidates it is done with: each is in the pool, or was refused by a rule, or the pool was full
(`Collected`). The heart is that the merge, which starts again with stricter rules than the
collection of Wikidata, loses nothing for good. Near namesakes are only taken while the pool is small, and what the collection
took is acceptable to the pool (`PoolsKept`), so a candidate refused at first is considered again unless the pool has
reached its target, and then refused only for a place that is there. The same invariant shows that a source that gave
something never ends in demo points: the first candidate of a merge meets an empty pool. `Named` keeps for each match that the places
it is less like than another are taken by other names. The proof of `ReadyPackIsWhole` follows the writer of the index through `PacksInv`:
only who made the file fills it, rows come with a commit of all of them (`IndexKnown`), and whoever unlinks or dies leaves a
file whose `by` says so. The finite pools enter by `FiniteSetTheorems`. No run checks `InFlightHasJob`, whose other half, that the mark goes away, is liveness
(`MarksClear`).

`GuestTripProofs`, about `Spec` of `GuestTrip`, from `GuestTripAssumption` (finitely many requests and
builds, ids that differ, limits of at least one as in `guestQuotas.ts:3-4`):

| Theorem | Property |
| --- | --- |
| `GuestTripInvariant`, `BuildsCounted` | `IInv`; `CountInv` and `FreshInv` |
| `GuestTypes`, `OverrunAlwaysBounded` | `TypeOK`, `OverrunIsBounded` |
| `CleanupAlwaysSparesLive`, `ClaimedAlwaysStays` | `CleanupSparesLive`, `ClaimedStays`, action properties |

`InsertInv` (the request that inserts a guest's rows is alone with it, and the guest is fresh) and
`SweepInv` (whom the cleanup has selected does not come back into use before the DELETE) give
`CleanupSparesLive`. `ClaimedStays` needs `LateInv`: a build of a claimed
trip that still belongs to the guest is late, or a claim is between the trips and the builds or was cut off there. That rests on `OwnerInv` (a trip never
goes to another guest) and `RunInv` (a build has a user). `OverrunIsBounded` counts requests:
while a session exists, its counter and the requests yet to count (`Counting`) add up to the builds
started, and a request passes the limit only if that request, those ahead of it and those counting fit among
`Reqs` (`RoomForOne`); a session starts at zero since its guest is known to one request only (`FreshInv`).

`TripDataProofs`, about `Spec` of `TripData`, from `TripDataAssumption` (finitely many requests and
builders, natural limits, routes and stops without `Null`; any routes, places and votes):

| Theorem | Property |
| --- | --- |
| `TripDataInvariant`, `TripDataTypes` | `IInv`; `TypeOK` |
| `LatestAlwaysNewest`, `LikesAreCapped` | `LatestIsNewest`, `LikeCap` |
| `RebuildsKeepPins`, `BansAlwaysOutlive`, `FactsAlwaysStay` | `RebuildKeepsPins`, `BansOutliveRebuilds`, `FactStays`, action properties |
| `VersionsAlwaysALog` | `VersionsAreALog`: `TripData` implements `VersionLog` |

Here the number of a version is its place (`VersInv`), which is how a rebuild that inserts under the
number it read before finds that number taken: of the builders that read the same maximum, one
saves. `LikesInv` counts, like `OverrunIsBounded`, the likes of the stored rows and those a request has
checked and not yet written (`Coming`). `AloneInv` says that as long as nothing overlapped whoever is at
work is alone and what it has read is still true, and `BansInv` follows the disliked stops of such
a rebuild. `RoomInv` leaves every rebuild room for its version. The refinement of `VersionLog` has to
show that no write of an old copy undoes the routes of a version: a request and the fact job write the
version they have read and the copy they have of it (`ReadsStay`, `FactStaysOrReads`), and the routes of
copy and version never differ (`ReadInv`), since each write changes flags or the fact only (`RoutesKept`).

`AgentBuildProofs`, about `Spec` of `AgentBuild` with the rules of `RouteRules`, from `PlacesAssumption`
(finitely many places at different positions) and `AgentBuildAssumption` (drafts are
sequences of cases, pools are sets of places, natural bounds), with the hypothesis `RunsTheRules`: the
parameter `RoutesFrom` of the graph is `ResolveRoutes`, as the configuration binds it. Any street, any conflicts of names,
any landmarks, any drafts and votes:

| Theorem | Property |
| --- | --- |
| `AgentBuildInvariant`, `AgentBuildTypes` | `IInv`; `TypeOK` |
| `BannedNeverOnRoute`, `RoutesAlwaysSound` | `BannedStaysOut`, `RoutesAreSound` |
| `RefusalsAreAboutRoutes` | `OnlyRoutesRefused` |
| `RoundsNeverExhaust`, `PinsAlwaysSurvive` | `OnlyMissesExhaust`, `PinsSurvive`, action properties |
| `CriticIsMilder`, `CriticIsStricter` | the two limits of common stops, compared for all pools and routes |

The two properties of routes are theorems about the rules: `ResolvedAnswers` says that `ResolveRoutes`,
whatever the draft, the pins and the votes are, gives three routes of the sets in `Clean` (places of
the pool without conflicting names and without disliked ones) if the pool has a landmark. On the
way neither holds: a window may be made of any places (the last resort of `_pick_window`), a
liked place is added unchecked. So the operators inside `PickWindow` keep only that places are of the pool and each is visited
once, `PickWindow` and the ranking of a draft end without conflicts (`Fine`), and `Strip` at the end of `Finalize` takes
disliked stops away. Since leaving stops out never creates a conflict, all lemmas speak of a `Family`
of sets closed under it, one lemma per operator, and the two cases are instances. Beneath them are the
lemmas on folds (`FoldStays`: a set closed under the body contains the fold; `FoldGoes`, `RepeatFills`: a loop
that adds an element in each round has all of them at the end, hence a walk visits each place of its
set once). The library's theorems about induction and folds cannot be instantiated by the
provers; these lemmas use a least counterexample instead.

`Counting` bounds the loop of the critic: `steps <= 4 * retries + 2 * misses` and the
way from the researcher to the present node (`Ahead`). `Answered` carries what `Write` computed to the
critic, which reads the same pool and the same votes. `PinsInv` carries the pins from the version a build
started with to the program under review.

`RefusalsAreAboutRoutes` goes through the critic's rules one by one. `TrioOf`, which `ResolvedAnswers` has
of the three routes, says that they have their letters in order and a link exactly when they have stops;
`TwinsAreAlike` and `TrioIsInOrder` take that through the pinned routes joined before them, so that
letters, number, links and twin cases are never the reason. The comparison of the limits is arithmetic on
`PairLimit` and `CriticLimit` (`LimitsForPools`), which are monotonic in how alike two routes may be (`AlikeAtLeast`).

Only model-checked: liveness (`JobsSettle`, `LockIsFreed`, `FactSettles`, `JobSettles`,
`GuestsAreRemoved`, `FactsAreResolved`, `MarksClear`), since proofs about fairness and ENABLED are out of the
prover's reach; and `CriticAccepts`, which depends on the lengths of the routes: it holds of the
streets checked and says nothing of others.

## 6. Not modelled

* Nominatim, Wikidata and the web search themselves, whose answers `PlaceSearch` chooses; geometry on a map and the OSRM client;
  the text about a place or a city. `AgentBuild` chooses its pools freely: it is not composed with `PlaceSearch`.
* Prompts, the parsing of LLM text and the wording of sections; `ensure_route_materials` restoring a pool and
  `repair_program_routes` change nothing in the abstraction.
* The legacy Python run manager, the same protocol as `runManager.ts` for the command line.
* The queues of the nightly refresh, the download of federal districts, packs of cities outside the catalogue; city onboarding.
* Captcha, audit log, OAuth redirects, exports, geocoding and lists, which change nothing the others read.
* Rendering in the web client, deployment and the evaluation suite.
