# spotiflac-lidarr-proxy: a TLA+ verification project

spotiflac-lidarr-proxy pretends to be a SABnzbd download client and a Newznab
indexer so that Lidarr can download music through SpotiFLAC.  What can go wrong
in it is mostly concurrency: every HTTP request and every download runs in a
goroutine of its own, they share a SQLite table, a registry of workers, a
semaphore, circuit breakers and a gate, and the process is restarted often.
This directory models that core, checks it with TLC and proves every safety
property of the passing runs with TLAPS, for every size of system; liveness is
left to TLC.

## 1. The system

| Component | State it keeps | Operations | Hard behaviour |
|---|---|---|---|
| Job store (`internal/queue`) | the `jobs` table: active queue and history in one table | Add, Update, Delete, MoveToQueue, MoveToHistory, List, PruneHistory, RecoverStuckJobs | one statement is atomic, a handler is several; `Update` writes whole copies back |
| Job API handlers (`internal/api/sabnzbd`) | a private copy of one job each | addurl, pause, resume, delete, retry, change_cat, history delete, pause_all, resume_all | copies go stale; batch loops hold many copies |
| Worker and registry (`handler.go`) | `inFlight`, `running`, `sem`, `requeues`, one `jobRun` per worker | dispatchNzoID, runJob, retireJob, processDownload, CancelJob | a job must have one worker; slots must come back; wake-ups must not be lost |
| Attempt chain (`handler.go`, `failure.go`) | one `jobOutcome` per pass | parks, attempts and retries, fallback chain, requeue or fail | everything it looked at may change while it waits |
| Upstream break gate (`upstream_break.go`) | one deadline | extend, waitContext | shared by all jobs |
| Circuit breaker (`internal/breaker`) | failure count and opening time per service | Allow, RetryAfter, RecordFailure, RecordSuccess, Reset, Status | late results |
| Server start-up (`cmd/server`) | - | recover, resume, listen | restart in any state |
| Backend stream (`backend_wait.go`, `client.go`, `progress.go`) | a process, two pipes, two channels, four goroutines | streamBackend, parseProgress, runCLIBackend, AbortActive, attemptDownload | channels closed under a sender, a process that outlives its pipe |
| Community verification (`internal/api/verify`, `verify_relay.go`, `client.go`) | one pending challenge, a map of recorded callbacks | Set, Clear, handleCallback, solveVerification, fslRequest, relay | one slot for many challenges; a solver and a person at one challenge |
| Session renewal (`client.go`) | a mutex and a stamp | EnsureCommunitySession | every queued job asks at once; a killed solver leaves descendants |
| Tidal URL resolver and hifi adapter (`client.go`, `hifi_adapter.go`) | the cached verdict, one adapter per upstream | resolveTidalAPIURL, probes, startHiFiAdapter, ResolveTrackURL | a stale or half-true verdict; tickets that stay pending |
| Newznab indexer (`internal/indexer`, `internal/api/newznab`) | none | search, filter, paging, NZB round trip | Lidarr's own state depends on titles, dates and names surviving it |
| Authentication middleware (`internal/api/middleware.go`) | none | APIKeyAuth | the groups' prefixes overlap |
| Storage, configuration, health, metrics | none that control depends on | | I/O and formatting |
| Python wrapper, patches, solver scripts | in other processes | | |

A request handler writes the row and calls `dispatchNzoID`; that registers a
`jobRun` and starts a worker, or asks the registered one to run again.  The
worker reloads the row, registers its cancel func in `running`, waits for the
gate, the circuits and a slot, runs the attempts, writes the outcome and moves
the row to history, or puts the job back and asks itself to run again.  Before
its first wait the worker makes sure of a community session; before each CLI run
a Tidal API is resolved; a CLI run that is challenged reaches the operator and
the callback endpoints through the verification components.  The indexer feeds
Lidarr the releases that come back as jobs.

What makes each part correct:

* store and handlers: a job in history has an outcome and keeps it; a finished
  job gets there; nothing writes an outdated copy over it;
* worker and registry: at most one worker per job, no job left Queued without
  one, no entry without one, every slot given back once, a cancel func cancels
  its own pass;
* attempt chain: an open circuit never fails a job, an announced break is
  honoured, every pass ends, requeues are bounded;
* breaker: its views agree, a cooldown is never prolonged, only service
  failures open it;
* backend stream: an attempt ends although descendants hold the pipe, no output
  and no reason is lost while the handler listens, no backend is left behind;
* verification: a grant reaches the CLI run that asked for it and nobody else;
* session renewal: one solver at a time, only when needed, and no job is kept
  waiting by it for ever;
* resolver and adapter: dead mirrors are probed once in a while, not once per
  job; what a run is given is what was probed; every track request is answered;
* indexer: the pages add up to the search, no release asked for disappears,
  and what failed is not grabbed again;
* middleware: what Lidarr needs before it has a key is open, nothing else is.

## 2. Modules

| Module | Models |
|---|---|
| `JobStore` | the table; one operator per SQL statement of `internal/queue` |
| `JobLifecycle` | handlers, registry, workers, slots, restart; extends `JobStore` |
| `MCJobLifecycle` | TLC instances of it |
| `JobLifecycleProofs` | its inductive invariant and the theorems about every operation |
| `JobLidarrProofs` | the theorems about additions and deletions |
| `Breaker` | `internal/breaker`, every method |
| `BreakerProofs` | its theorems |
| `AttemptChain` | processDownload from admission to outcome; extends `Breaker` |
| `PassContract` | abstract: what the rest of the handler relies on about a pass |
| `MCAttemptChain` | TLC instances of `AttemptChain` |
| `AttemptChainProofs` | its theorems, and that it implements `PassContract` and the breaker |
| `BackendStream` | the attempts of one job: process, pipe, parser, channels, cascade, abort |
| `BackendStreamProofs` | its theorems |
| `Verification` | challenges, pending slot, recorded callbacks, solver, both endpoints |
| `MCVerification` | the settings TLC looks at |
| `VerificationProofs` | its theorems |
| `Ages` | the age of a stamp, shared by the next three |
| `SessionRenewal` | EnsureCommunitySession and the solver |
| `TidalResolver` | candidates, probes, cache, adapters |
| `HiFiAdapter` | one track request: envelope, ticket, polling |
| `AttemptStart` | composes the three: what a job does before audio can flow |
| `MCAttemptStart` | TLC instances of it |
| `AttemptStartProofs` | its theorems |
| `ReleaseFeed` | pure operators: search line to feed item, link over NZB to job |
| `ApiRoutes` | pure operators: the relay's route, groups, keys and dispatchers under `/api` |
| `LidarrSession` | composes the two with Lidarr: paging, grabbing, blocklisting |
| `MCLidarrSession` | what the backends print and Lidarr asks for |
| `LidarrSessionProofs` | their theorems |

### JobStore and JobLifecycle

A row keeps `url`, `status`, `is_history` and `recover_count`: the columns on
which control depends.  A step is one access to shared state: one SQL
statement, one operation of a `sync.Map`, one channel operation.  A handler is
written as the sequence of its accesses (`handlePause == <<"get",
"cancelDownload", "update">>`); `prog[p]` holds what is left of it, and a step
that returns early drops the rest.  `cjob[p]` is the handler's copy of the job,
so an `Update` writes whatever the handler read earlier, as the code does.

A worker is a `jobRun` with its goroutine; `wpc` says where in
`runJob`/`processDownload` it is.  What the backends do is left open: a running
job completes, fails or is requeued at any time.  `Restart` may happen in any
state: memory is lost, `queue.New` sweeps the table, and `Main` runs
`ResumeQueuedJobs` to its end before requests are served.

Left out: SQL errors, the columns nothing branches on, and `del_files`.

### Breaker and AttemptChain

Time is discrete and only what the code compares is counted: the time since a
circuit opened up to `Cooldown`, what is left of the break window, and what is
left of a park.  A goroutine may be delayed for any time.  An attempt is one
step with any outcome of `Outcomes`: it completes, or fails in one of the
classes `classifyFailure` and `noRetryPattern` tell apart; `"killed"` is what a
backend reports when the job's own context stopped it.  `concludeFailedAttempts`
follows the code's two cooldown branches one after the other, with the counter
they share.  The fallback chain is the set of places it has left to try, taken
in order from the first.

### BackendStream

A stream is one call of `streamBackend`: stream `a` is the CLI run of attempt
`a`, stream `-a` its Python phase.  The first attempt may have one whenever there
is an interpreter (`WithPython`, `client.go:536-556`); retries and fallbacks have
one only if the module was not found (`~HasPythonBackend`), as they use
`DownloadCLI` otherwise (`handler.go:564-576`, `605-608`).  Each stream has a process that
prints lines, may exit in any way at any time and may leave a descendant that
holds the write end of its pipe; a parser that moves lines from the pipe over
the scanner's buffer into the channel, or into the sink; and a goroutine that
waits for the process or the context, drains and closes.  The handler reads the
channels of the attempt under way, aborts what `activeCmds` names when it
failed, and goes on without waiting for the old stream.  `ContextDone` may strike
at any time: it stands for the phase deadline, for a cancellation and for the
job's end.  The grace periods are not counted.  They end only when the parser
cannot move: the pipe is empty and held open, or the channel is full and its
consumer has left.  A parser that is merely slow, or a handler that takes more
than two seconds for one event, is therefore assumed to be faster than a grace.
The code has one place where that may fail: the event loop posts a notification
about a challenge with a timeout of ten seconds (`handler.go:1194-1198`,
`verify/notify.go`), and a backend that exits meanwhile, with the channel full,
may be drained before the handler is back.  `NothingLostWhileRead` says nothing of
that case.
stderr is drained the same way and carries no control; it is left out.

`AttemptChain` sees an attempt as one step with any outcome; `EverythingEnds` is
what justifies that such a step always comes.

### Verification

A challenge stands for the CLI run that made it, its state parameter and its
callback.  The parser records the callback (`solveVerification`) before it
publishes the event; the handler shows the link (`HandleVerificationRequired`)
or has left (`LoseEvent`).  A browser that passes the challenge arrives at the
endpoint the settings name (`resolveRelayURL`); `handleCallback` is three steps,
because a newer challenge may be set between reading the expected callback and
clearing it, and the relay is two.  `Stray` requests come from anyone, with any
callback and state.  The two endpoints' timeouts and status codes are left out.

### AttemptStart

Time is the age of stamps, cut off at the limit the code compares it with.  A
solver ends when its shell ends, and the shell may leave descendants that hold
its output (`"orphaned"`), for which `CombinedOutput` waits.  A probe answers
anything at any time.  `tidalMu` is held from `CheckCache` to `EndWalk`; with a
single URL there is no lock and no cache.  The adapter goes on with a ticket
when the CLI has gone, and nobody sees what becomes of it.  The decoding of
manifests is reduced to whether one URL comes out.

### ReleaseFeed, ApiRoutes, LidarrSession

A name is one of its spellings: `Normalized` gives the letters and digits that
`normalizeForMatch` leaves of each, and `Within` says which normal form contains
which.  The exclude pattern is a set of markers per spelling, for it looks at
titles as they are printed (`variant.go:89-105`), while releases are compared by
their normal forms (`releaseKey`).  A download link and an NZB are the fields they carry: sizes and counts
of zero are left out and read back as zero.  Lidarr is external, modelled from
what the code relies on: it follows a download by its name, blocklists by title
and date, and stops paging at the total.  `ApiRoutes` keeps what decides about a
request: method, path, `mode`, `t` and `apikey`, in query or form; that
middleware runs by prefix, in the order of registration, is the router's.  The
routes are those of `/api/verify-relay`, open by design, and of the three groups.
A filter is the sequence of the elements at the positions it keeps
(`ElementsAt`), which says the same as a loop that appends and can be reasoned
about without an induction.

## 3. Runs

| Run | What it shows |
|---|---|
| `life_lidarr` | addurl and delete, which Lidarr sends (its third request, the history delete of `history.go:13-16`, is in `life_api`), from two clients over two jobs, one slot, one requeue, two restarts: no stranded job, no dead registration, a Downloading row is being downloaded, history holds outcomes only and they are final |
| `life_api` | every other operation too, two clients and up to three workers over one job: one worker per job, slots accounted for, cancel funcs belong to their pass, workers never write to history |
| `life_settles` | liveness of the first instance with one client: every job settles |
| `chain_slot` | one slot, a fallback, all outcomes, two attempts: `OpenCircuitNeverFails`, `CooldownStopsChain`, `ParkIsWithdrawn` |
| `chain_concludes` | two slots, requeue budgets of one and two, one job whose own service is unsupported: `MeetsContract` (refinement of `PassContract`), `EveryJobConcludes`, `OnlyServiceFailuresOpen`, `NeverProlonged`, `ViewsAgree` |
| `verification` | two challenges, two browsers, a stray request, four settings: `ForwardsOnlyToAnnounced`, `GrantGoesToItsChallenge`, `RefusedOnlyAfterSolverFailed`, and `PassedIsGranted` under fairness |
| `prepare` | two workers, two upstreams, a solver or not, one URL or a list: `OneSolver`, `RenewalsAreNeeded`, `WalkedOncePerWindow`, `GivenAsProbed`, and `EveryStartConcludes` under fairness |
| `indexer` | two searches over everything two backends may print, paged by 1, 2 or not at all, filtered, grabbed, failed, and one request of any shape from somebody else: `PagesCoverFeed`, `EveryReleaseOffered` (but for what `Swallowed` names), `NoGrabLoop`, `ServedWithoutKey` |
| `stream` | a Python phase with its CLI or two attempts, three lines, channels of one event: `NothingLostWhileRead`, `FailureHasReason`, `PhasesDoNotOverlap`, and `EverythingEnds` under fairness |

The stronger properties of `life_lidarr` do not survive every operation: the
runs below, and the list under Known limits, show how pause and retry break them,
and history delete `NoStrandedJob`.  `life_api` checks what survives every operation.

| Violation | What it shows |
|---|---|
| `bug_lost_wakeup` | a retry that found the registry entry just before its worker retired is lost (`NoStrandedJob`) |
| `bug_break_window` | a job waiting for its slot sends requests during a break announced meanwhile (`QuietDuringBreak`) |
| `bug_unread_output` | an error overtakes the events in a full channel, the handler leaves, and the channel is closed under the blocked parser, which panics (`AllOutputRead`) |

### Bounds

`MaxJobs`, `MaxCrashes`, `Workers`, `Clients` bound a run; `MaxRecoveries`,
`MaxRequeues`, `MaxUnattempted`, `MaxCooldowns`, `Threshold` and `MaxAttempts`
are the code's constants, made small.  Two clients and one job give every race
between two handlers and a worker; a second job adds competition for the slot.
Three workers are one more than the registry should ever allow for that job.
The two requeue budgets of `chain_concludes` differ, so that a job may have spent
the one and have the other left; a budget of one each suffices for `chain_slot`.
With two restarts and `MaxRecoveries = 1` the sweep of `life_lidarr` both requeues
a row and gives one up.  In the chain runs one failure opens a circuit
(`Threshold = 1`), so that two jobs can open all of them; `BreakerProofs` covers
every threshold.  In `chain_slot` the cap of the park lies beyond the cooldown, and
`Breaks` contains a shorter and a longer break.  In `stream`, `MaxLines` counts the
lines of all backends together: three are the least with which an error and an
event overtake each other with the channel (`EventCap = 1`, 32 in the code) full,
and `MaxStreams = 2` allows Python with its CLI or two attempts, the first of
which may end with its Python phase.  `stream` has the module installed
(`HasPythonBackend`): Python phases in retries multiply its states beyond reach
with three lines.  They are covered by `BackendStreamProofs`, for every number of
lines, but for `EverythingEnds`; that TLC confirms with them for two lines.  The
passing runs list at most one page of jobs
(`PageSize`); the safety theorems hold for every page size.

In `verification` two challenges and two browsers are the least with which a newer
challenge replaces the one whose callback is being handled; one stray request is
enough to show that its content does not matter.  In `prepare`, sessions are
written that are too short (1 is not more than `sessionSkew`) or outlive the
interval; intervals and TTLs of two ticks let a stamp be fresh, about to expire and
expired; `AttemptStartProofs` covers all of them.  In `indexer` the backends print
lists of up to three lines over an album, a track of it with a guest credit, a
live album, and a single, and a track of no album: each filter has something to
keep and to drop, and there are more releases than fit a page.  The live album
has a track that spells it without the marker, and may have a plain spelling of
its own; one artist is asked for by a name of neither letters nor digits.  `MaxSearches = 2`
is the least with which a failed release may come back.

Symmetry is used only in runs without liveness, over workers, clients or jobs
that the configuration does not tell apart.

`JobLifecycle` and `AttemptChain` never deadlock: clients may always send
another request, and the clock always ticks.  `BackendStream` stops when its job is
over, so its runs do not check for deadlock; `EverythingEnds` says more.
`Verification` and `LidarrSession` stop when the challenges or searches are used
up; `AttemptStart` never does.

### Fairness

`JobLifecycle`: a goroutine that can move does (weak fairness of each handler
and worker).  Senders blocked on `h.sem` are queued by the Go runtime, so a
worker that is offered a slot again and again gets one (strong fairness of
`TakeSlot`).  A pass ends because every attempt is bounded by two
`SPF_JOB_TIMEOUT`s, and the circuits are not found open again every single time
a job has its slot: the park lasts at most `maxCircuitPark`, after which the
circuit is reset (strong fairness of `beginDownload` or `failJob`; `AttemptChain`
models the park itself).  Requests and crashes are never forced.
`AttemptChain`: time passes, goroutines run, and `h.sem` is fair.
`Verification`: goroutines run and the solver's request has a deadline; nobody
has to pass a challenge.  `AttemptStart`: time passes, goroutines run, deadlines
are kept and `sync.Mutex` serves its waiters, which it does since its starvation
mode (strong fairness of `RenewNext` and `LockTidal`).  Descendants of a solver
need not end: `EveryCallReturns` has that as its hypothesis.
`BackendStream`: every goroutine runs (weak fairness of the parser, the stream, the
collector and the handler) and the phase deadline expires; nothing is assumed of
the backends.

## 4. Proofs

Every safety invariant and every action property of the passing runs is a
theorem, for all values of the constants unless a hypothesis is named below.
Each argument is an inductive invariant that TLC checked on a small instance
before it was proved.  The assumptions on constants are the `ASSUME`s of the
modules, which TLC evaluates in every run: bounds are naturals, jobs and workers
are finite sets, and the values that stand for "none" are told apart from the
others.

### Jobs

`JobLifecycleProofs` proves `Spec => []SafetyInv` for every number of jobs,
clients, workers, slots, pages and restarts, and from it

* `TypeCorrect`: types, in particular `sem \in 0..MaxConcurrent`;
* `OneWorkerPerJob`: `AtMostOneWorker`;
* `NoWriteToHistory`: `WorkerNeverInHistory`;
* `NoSlotLeak`: `SlotsAccountedFor`;
* `CancelIsOwn`: `CancelReachesOwnPass`.

None of these is inductive alone.  That a job has one worker follows from the
registry: a live worker is the one its job's entry names (`Registered`), and an
entry is only replaced when there is none.  That a worker's row is not in
history needs that only the job's own worker archives it, hence one worker per
job; that a cancel func belongs to its pass needs both.  Handlers hold job ids
(`NamesJob`), so that every write is to a row of the table.  The proof has one
lemma per group of actions (`RequestSafe`, `HandleSafe`, `PassSafe`,
`WriteSafe`, `RetireSafe`, `RestartSafe`), on lemmas about the table's
operators, the handler programs and the count of slot holders.

`JobLidarrProofs` proves what `life_lidarr` checks.  Its hypotheses are about
the operations clients use, because other operations do break the properties
(Known limits):

* under `LidarrOnly` (addurl, delete, history delete), `LidarrInv` gives
  `RegistryHoldsNoDead`: `RegisteredIsAlive`.  An id is dispatched once in the
  life of a process, by addurl or by the sweep of start-up and never by both
  (`DispatchedOnce`, `SweptOnce`, `Unborn`, `MainAlone`), hence nobody asks a
  worker to run again but itself when it requeues its job (`RerunIsOwn`), hence
  it leaves no entry behind when it retires;
* under the same hypothesis `OutcomeInv` (what a worker is about to archive is
  an outcome) gives `HistoryHoldsOutcomes`, `DownloadsAreRun` and the action
  property `OutcomesAreFinal`;
* under `QueueOnly` (addurl, delete) `StrandInv` gives `NoJobIsStranded`: a
  queued row is held by its worker, by the request that inserted it, or is still
  ahead of the sweep (`QueuedIsTended`), and a worker is cancelled only by a
  delete that goes on to remove the row (`CancelledIsDeleted`).  History delete
  is excluded because it cancels the worker of a queued job without touching its
  row.  The theorem is `Spec /\ []OnePage => []NoStrandedJob`, `OnePage` being
  that what a restart finds fits on one page of its sweep: with a smaller page TLC
  finds `NoStrandedJob` violated, as rows move up to a page already read.

### A pass and its breaker

`BreakerProofs` proves, for every threshold and cooldown, `BreakerTypeCorrect`,
`ViewsAlwaysAgree` and the action property `CooldownNeverProlonged`.

`AttemptChainProofs`, for any number of jobs, services, fallbacks and slots:

* `ChainTypeCorrect`, with `SlotsAlwaysAccounted`: `sem` counts the jobs at the
  places where a slot is held, which bounds it by `MaxConcurrent`;
* `ChainKeepsToBreaker`: the chain implements `BreakerSpec`, step by step, so
  that the breaker's theorems hold of it (`ChainViewsAgree`,
  `ChainNeverProlongs`);
* `ParkAlwaysWithdrawn`, inductive with the types;
* `OnlyServiceFailuresOpenCircuits`: the step that opens a circuit is a failed
  attempt at that service, of a class that is the service's fault;
* `CooldownAlwaysStopsChain`: what a pass was told of a cooldown stays until it
  is concluded (`AnnouncementKept`);
* `OpenCircuitFailsNoJob`, for `MaxConcurrent = 1`: the holder of the only slot is
  the only one to drive the breaker, so that a circuit which admits it at its
  second look still does when its turn in the chain comes (`CircuitFound`).  With
  two slots TLC finds it violated: a failed attempt of the other job opens the
  circuit in between, and a job with no requeue left fails without an attempt;
* `ChainMeetsContract`: the chain implements `PassContract`.  `Init` maps to its
  `Init`, and every step of a job to a step of the contract or to a stutter
  (`StageOf` maps the place, the counters map to themselves).

### The backends of a job

`BackendStreamProofs` proves `StreamInv` for any number of attempts, lines and
events.  Its parts are the stages of one stream (`InStage`: which of process,
pipe, parser, channels and collector may still act), that no attempt after the
current one has begun and none before it is missing (`NoneEarly`,
`AllLaunched`), that no grace period has run out while the handler reads
(`NothingGivenUp`), that in every attempt the Python phase is closed before the
CLI begins (`PythonFirst`), and what is known when the fallback reason is given
(`LastResort`).  From it `StreamTypeCorrect`, `NoOutputLost`, `ReasonsAreKept` and
`PhasesAreApart`.

### Verification

`VerificationProofs` proves `RelayInv`: every pending challenge, recorded
callback and solver stems from an announcement (`Announced`, `Recorded`), and
every request in flight is a stray one or a genuine one with its own challenge
(`Requested`).  From it `VerificationTypeCorrect`, `OnlyAnnouncedListeners`,
`GrantsAreNotMixed` and `RefusalsAreTheSolvers`, for any number of challenges,
browsers and strays.

### Before an attempt

`AttemptStartProofs`, for any number of workers and upstreams, every interval,
TTL and session and all answers of mirrors and solvers:

* `OneSolverAtATime` and `RenewalsAlwaysNeeded`: whoever has a solver holds the
  mutex (`RenewalInv`), which in turn rests on a renewal ending only when its own
  solver's output is closed; the second also that the stamp under the mutex is
  that of the last solver of anyone;
* `StartTypeCorrect`: indices stay within the candidates (`ResolverInv`);
* `ListWalkedOncePerWindow`: a walking worker holds `tidalMu`, if there is a
  list, and the verdict's age is that of the last walk, successful or not
  (`WalkInv`);
* `EveryRunGivenAsProbed`: a walk has been told of every candidate behind it that
  it is dead, and the cache is what the last finished walk was told
  (`VerdictInv`).  Lists that name a mirror twice are covered: the verdict is
  about its first occurrence, which exists by the library's least-element lemma.

### Search, grab and keys

`LidarrSessionProofs`.  The filters are operators on the places of a list
(`ElementsAt`), so that what they keep and in which order follows from a
bijection of finite sets (`PlacesAreTaken`, `FilterKeeps`) and needs no
induction.

* `PagesAlwaysCoverFeed` and `ReleasesAreOffered`, from `FeedInv`: what Lidarr has
  of the feed is as much of one backend's results as it has asked for.  The
  second is about releases by normal form and markers by spelling, and has the
  exception `Swallowed`: every album of the release, but not the track itself, is
  spelled as a variant nobody asked for;
* `GrabsNeverLoop`, from `GrabInv`: a release that was grabbed is blocked or its
  job is still followed.  Its hypothesis `URLsAreReleases` says of the URLs the
  backends print that `IsValidSpotifyURL` accepts them and that each has one
  artist and title.  Were one URL spelled in two ways, addurl would answer the
  second grab with the job of the first, under a title Lidarr does not follow;
* `NothingMoreWithoutKey`, by cases of the relay's route and the three groups.

### Only model-checked

The liveness properties `EveryJobSettles`, `EveryJobConcludes`,
`EverythingEnds`, `PassedIsGranted` and `EveryStartConcludes`: they rest on
fairness and ENABLED, which are out of the prover's reach.  The three violation
runs are counterexamples on an instance, and need no proof.  Nothing here needs
induction over data; where a least number is needed it comes from the
well-foundedness of the naturals, stated without an operator parameter.

## 5. Known limits of the code

Besides the three violation runs, modelling showed these disagreements between
code and comments; the first ones can be reproduced by giving `MCJobLifecycle`,
`MCAttemptChain` or `BackendStream` the operations named and the obvious
invariant, and the last ones are read off the source.

* Pausing a running download cancels its context; the attempt fails, and
  `concludeFailedAttempts` writes Failed over Paused and archives the job
  (`handler.go:736`), though `batch.go:32-33` calls the cancellation "what
  pausing means".
* The outcome and the move to history are two statements (`handler.go:1263`); a
  crash between them leaves a Completed or Failed row in the queue that neither
  `RecoverStuckJobs` nor `ResumeQueuedJobs` looks at.
* `activeCmds` has one entry per output directory, and the stream of a failed
  attempt that is still draining deletes its successor's (`client.go:728`); when
  that one fails too, `AbortActive` finds nothing and its backend keeps running
  (`client.go:421-425` says why it must not).
* `verify_relay.go:165-167` says a genuine callback always names a recorded
  listener; when the headless solver fails, its record is deleted
  (`client.go:1174-1177`) while a person may still be at the challenge.  This is
  why `RefusedOnlyAfterSolverFailed` has its exception.
* `handleCallback` clears whatever is pending when it gets there
  (`verify/handler.go:73`), also a newer challenge, whose own callback is then
  answered "no verification is currently pending".
* `SPF_SESSION_RENEW_TIMEOUT_S` kills the shell only; a browser it left behind
  that holds the output keeps `EnsureCommunitySession` and `renewMu` waiting
  (`client.go:1419`), and with it every job, though `docs/OPERATIONS.md:188-191`
  calls the run bounded.
* Titles that are equal after normalisation may carry different markers: an album
  "X (Live)" suppresses a track of "X Live" (`spotify.go:77-92`), and is then
  dropped by the exclude filter, so that neither is offered.  This is why
  `EveryReleaseOffered` has the exception `Swallowed`.
* A page is a new search, and Python may answer one page and the CLI the next
  (`client.go:993-1004`); `PagesCoverFeed` is about one backend only.
* `docs/OPERATIONS.md:210` says /metrics needs no authentication; by default it
  asks for the key (`cmd/server/main.go:238`).

* Retry after delete: a worker whose row is gone exits even if a re-run was
  asked of it, and leaves its registry entry behind (`handler.go:291-294`), so
  the next dispatch of that id asks a worker that does not exist.
* Pause racing completion writes `Paused` over a row that is already in
  history: `UPDATE` has no `is_history` predicate (`queue.go:273-286`), while
  `docs/API.md:60` lists `Completed` and `Failed` only.
* Pausing a job that is still Queued does not reach its worker, which later
  overwrites the pause (`sabnzbd/queue.go:198`).
* A delete between `queue.Get` (`handler.go:290`) and `running.Store`
  (`handler.go:480`) cancels nothing; the worker downloads for a deleted row.
* A history delete naming a job in the queue cancels its worker and leaves the
  row Queued (`history.go:107-108`).
* `ResumeQueuedJobs` and `listAllActive` page by OFFSET over a set that shrinks
  while they page, and can skip rows (`handler.go:342`, `batch.go:18`).
* Two concurrent addurl requests for one URL create two jobs (`addurl.go:45-92`).
* After a cooldown one failed trial does not re-open a circuit: `Allow` reset the
  count (`breaker.go:50-53` says it will).
* Both requeue budgets share one counter: five announced breaks exhaust the
  budget of hand-backs without an attempt (`handler.go:744-751`).
* `tryFallbackService` overwrites `job.Service`, and a requeued job starts its
  next pass from the fallback (`handler.go:910`).
* One parked job that leaves clears the park record while others are still
  parked; they publish it again at their next poll (`handler.go:1064`).
* A completed job's deferred `releaseCtx` (`handler.go:534`) ends the context its
  backend runs under, which kills it although it may still be writing;
  `client.go:425-426` says a finishing backend is never cut off mid-flush.
* `drainPipe`'s deadline discards what is still in the pipe, since Go looks at an
  expired deadline before it reads (`backend_wait.go:135-137` says it does not).
* `docs/OPERATIONS.md:59` says a job may be requeued three times; the constant
  is 20 (`handler.go:789`).

## 6. Not modelled, and the plan

The order of work, most important first:

1. done: `JobStore`, `JobLifecycle`, their safety proof;
2. done: `Breaker`, `AttemptChain`, `PassContract`;
3. done: `BackendStream`;
4. done: `Verification`;
5. done: `SessionRenewal`, `TidalResolver`, `HiFiAdapter`, `AttemptStart`;
6. done: `ReleaseFeed`, `ApiRoutes`, `LidarrSession`;
7. done: every safety property of the passing runs is a theorem (section 4);
8. next: an abstract job, with its life from queued to outcome, that
   `JobLifecycle` implements under `LidarrOnly`; `NoJobIsStranded` for a sweep of
   several pages as long as no job it has started ends during it; `OpenCircuitNeverFails` for
   more than one slot, with the circuits of other jobs as its exception.

Storage, health and metrics are I/O or formatting with no state of their own;
configuration is read once and appears as constants and settings.  The choice to
skip Python while a session is valid (`skipPythonPhase`) is one of the ways an
attempt of `BackendStream` may begin, in retries too.  Of the indexer, t=search and t=details
(the former is t=music without its fallback query, the latter one unfiltered
search), the wording of feeds and the regular expressions are left out; of the
middleware, `APIKeyOnly` and the request log.  The Python wrapper, the patches
and the solver scripts run in other processes; an attempt's outcomes stand for
them.
