# A TLA+ model of muld

muld is a C++20 download engine. This directory holds TLA+ specifications of
its concurrent core, TLC configurations that check them on small instances,
and proofs that TLAPS checks for every instance. Paths below are relative to
the repository (`src/...`, `include/...`, `tests/...`).

## 1. The system

| part | state it keeps | operations | talks to |
|---|---|---|---|
| `DownloadEngine` (`src/download_engine.*`) | `state_`, connection counters, `pendingWork_`, chunk counts, `writer_`, the `.muld` image, the token bucket | `Start`/`Resume`, `Pause`, `Cancel`, `Fail`, `Store`, `NotifyConnectionOpen/Close`, `NotifyChunkReceived`, `GetNextWorkItem`, `PlanNewWorkers`, `SetDesiredConnections`, `ShouldReleaseConnection`, `AcquireReadBudget`, `SetSpeedLimit` | called by workers, callers and the controller; calls back through `DownloadCallbacks` and `start_download_` |
| `DownloadWorker` (`src/downloader.cpp`) | the work item and offset of one connection | connect, request, stream to disk, reconnect, fail | engine |
| `ThreadPool` (`src/threadpool.h`) | task queue, `stop_` | `Enqueue`, `Terminate`, thread loop | runs `DownloadWorker` |
| `MuldDownloadManager` (`src/muld_download_manager.cpp`) | pending requests, jobs, duplicate indexes | `Download`, `Load`, `Terminate`, `WaitAll`, dispatcher loop, `ConnectionControlLoop`, `EnqueueTasks` | creates engines, attaches them to handlers, ticks the controller |
| `ConnectionController` (`src/connection_controller.cpp`) | per job: moving averages, cooldown, probe | `Tick`, `Remove` | manager |
| `DownloadHandler` (`src/download_handler.cpp`) | desired and observed state, error, progress, `engine` | `AttachEngine`, `FailBeforeEngineStart`, `Pause`, `Resume`, `Cancel`, `SetSpeedLimit`, `WaitUntilFinished` | engine, user callbacks |
| job image (`src/job_image.h`) | the `.muld` file | write, update in place, read | engine, `Load` |
| chunk planning (manager, engine constructor) | none | connection bounds, number and boundaries of chunks | engine |
| URL parser, file-info probe, CLIs | none shared | | |

### What is hard, and what correct means

Pool threads, application threads, the dispatcher and the controller share the
engine with atomics and a few mutexes, each of which protects one small piece.

* **Engine.** Work is handed out without a lock from a vector that `Resume`
  rebuilds; completion is a race of `fetch_add`s, a compare-and-swap and a
  plain store; clean-up of the files is decided by whoever is last. Correct:
  no chunk has two writers, no chunk is forgotten or counted twice, what the
  image says is on disk, `Completed` means the server's file, canceled jobs
  leave nothing behind, and started jobs end.
* **Counters.** Slots are granted by two kinds of threads and returned by a
  third, and `Resume` spins until they are all back. Correct: they are exact.
* **Workers.** The connection may break or be refused at every step, and a
  worker may be told to leave at every step.
* **Handler.** Calls may come before, during and after `AttachEngine`, and
  callbacks arrive after the change they report, in any order.
* **Image.** The process may die between any two writes, the disk may refuse one,
  and before the next session the server's file may change or the user remove the
  output. Correct: no session counts a byte that is not in the output file or is
  of another version, a crash loses little, and a removed image stays removed.
* **Rate limit.** The limit may change while workers wait for tokens, by several
  threads at once. Correct: what is granted stays within the limit, and nobody
  waits for ever.
* **Manager.** One thread works through the requests of all the others, calls
  their callbacks, and has to end when the manager is destroyed. Correct: each
  request is answered, no check that fails leaves a trace, nobody waits for a
  mutex it holds.
* **Planning.** Unsigned sizes are divided, rounded and multiplied. Correct: the
  chunks are the file.
* **Controller.** Several jobs compete for one pool.

`PROJECT.json` lists under `hazards` the places in the code where each of these
bites.

## 2. Modules

| module | what it is |
|---|---|
| `DownloadJob` | the promise of one job: its phase and the chunks it has fetched |
| `DownloadEngine` | one job with its pool threads, callers and the controller thread, step by step |
| `MCDownloadEngine` | TLC instances of `DownloadEngine` |
| `DownloadEngineProofs` | theorems about `DownloadEngine` |
| `ConnectionController` | the tick of the controller over all the jobs of a manager |
| `MCConnectionController` | its TLC instance |
| `ConnectionControllerProofs` | theorems about `ConnectionController` |
| `DownloadHandler` | one handler, the dispatcher that attaches its engine, and a waiting thread |
| `MCDownloadHandler` | its TLC instance |
| `DownloadHandlerProofs` | theorems about `DownloadHandler` |
| `JobImage` | the output file and the `.muld` image of one job, over several sessions |
| `MCJobImage` | its TLC instances |
| `JobImageProofs` | theorems about `JobImage` |
| `TokenBucket` | the rate limit of one job: workers, clock, threads that set it |
| `MCTokenBucket` | its TLC instances |
| `TokenBucketProofs` | theorems about `TokenBucket` |
| `DownloadManager` | requests, dispatcher, pool and destructor of one manager |
| `DownloadManagerProofs` | theorems about `DownloadManager` |
| `ChunkPlan` | operators: connections and chunks of a file |
| `MCDownloadManager` | the TLC instance of `DownloadManager`, and small cases of `ChunkPlan` |
| `ChunkPlanProofs` | theorems about `ChunkPlan` |
| `SumTheorems` | lemmas about induction and finite sums, for the controller and the image |

The models meet at the engine. `DownloadEngine` takes any decision of the
controller and any call of an application; `ConnectionController` takes any
order of starts and stops of its jobs; `DownloadHandler` takes any change of
state the engine's `SetState` allows; `JobImage` takes any order in which workers
receive and store; `TokenBucket` takes any stop and resume; `DownloadManager`
takes any outcome of a check and any end of a job. Each keeps of its neighbours
what it sees of them.

The modules hold operators named `X_Y` with the comment "Variant (not the
code)". They are plausible mistakes in operator `X`; with one of them in the
place of `X` a property of a run must fail, which shows that the property
says something about that piece of code. Nothing else uses them.

### DownloadEngine

A step is one access to shared memory with the local work around it. The
control points of a pool thread (`wpc`) follow the code:

| point | code |
|---|---|
| `idle` | the pool thread waits for a task (`Open` takes it and enters `NotifyConnectionOpen`) |
| `begin` | the compare-and-swap `Queued` to `Downloading`; then the host is resolved |
| `loop`, `take` | `ShouldReleaseConnection`, `GetNextWorkItem` |
| `check`, `status` | `ShouldReleaseConnection` inside the item; state test, request, response |
| `read`, `recv` | `StreamBodyToDisk`: state test and token; `http::read`, write |
| `notify`, `store`, `count` | `NotifyChunkReceived`: the count, the periodic `Store`, `nDownloadedChunks_` |
| `complete`, `force`, `final`, `cleanup` | the compare-and-swap to `Completed`, the override of `Paused`/`Failed`, `Store`, `CleanupArtifacts(false)` |
| `fail`, `failstore` | `Fail` |
| `close`, `leave`, `last`, `reap` | `NotifyConnectionClose` |

A caller (`upc`) is inside `Resume` (`drain`, `rebuild`, `plan`, `admit`),
`Cancel` (`quiesce`, `discard`) or `Terminate` (`tstore`, `tpause`); the
controller (`cpc`) between its sample, decision, plan and admission.

Abstractions, and why they lose nothing the properties see:

* A chunk is `ChunkUnits` units, a unit is what one read delivers; `file` says
  which units hold the server's bytes. A request without Range support starts
  at byte 0 of the file whatever the offset (`src` against `off` in a work item).
* Whether a read pushes the bytes since the last store over 10 MB is left open:
  after every unit a `Store` may follow.
* `Store` reads the counts of all chunks in one step. The code reads them one
  by one, each atomically; a count read earlier is smaller, and every property
  that mentions the image gets weaker with smaller counts.
* `SetDesiredConnections` exchanges `desiredConnections_` and then adds to
  `releaseBudget_`; `PlanNewWorkers` loads, then compares and swaps. Each is
  one step: the only thread that lowers `desiredConnections_` is the controller,
  so the order in which the other threads see the two halves adds no outcome.
* Calls that `SetState` refuses change nothing and are left out.
* `Start` and `Resume` are the same code.
* Speed, ETA and callbacks do not feed back into the job.
* Undefined behaviour ends a behaviour of the model: `fault = "null"` when the
  code goes through `writer_` after it was reset, `fault = "race"` when
  `BuildPendingWork` overlaps another user of `pendingWork_`. Invariants hold up
  to that point; whether the point can be reached is a property of its own.

### ConnectionController

`Tick` is `ConnectionController::Tick` with the part of `ConnectionControlLoop`
that builds the snapshot and applies the decisions: `Climb` is the loop over
the inputs, `Trim` the reduction to `global_capacity_`, and the state of jobs
that are not in the snapshot is erased. `WakeUp` is the end of the wait for the
next tick. `Activate` and `Deactivate` are what starts, resumes, pauses,
completions and failures do to the set of active jobs.

* `ema_wait_ratio` is kept as a class, with the moves between classes that
  `kWaitAlpha` allows: it cannot fall from high to low in one sample, and the
  first sample after 0 is not high. `ema_throughput` is reduced to the only
  question asked of it, whether a probe gained 8 %.
* The order in which the trim visits jobs of one class is any order.
* `gains`, `move` and `cut` are history for the properties; nothing reads them.

### DownloadHandler

A step is a region under the handler's mutex, a call of the engine that follows
it, or one report of the engine. The engine is its state, its speed limit and
whether all chunks are counted.

| action | code |
|---|---|
| `Ask`, `Pass` | `Pause`, `Resume`, `Cancel`: under the lock, and the engine's call after it |
| `SetSpeedLimit`, `PassLimit` | the two halves of `SetSpeedLimit` |
| `ReadWishes`, `Publish`, `ApplyWish` | `AttachEngine`: the loads, the region under the lock, the call after it |
| `FailBeforeEngineStart` | the function of that name |
| `ReportState`, `WakeWaiters`, `ReportError` | `on_state_change` or `on_finish`, `notify_all`, `on_error`, in the order in which the thread that changed the state makes them |
| `EnterWorker`, `Finish`, `ForceFinish`, `FailWorker`, `LeaveWorker` | what pool threads do to the state |
| `CallWait`, `WaitForEngine`, `WaitInEngine` | `WaitUntilFinished`: the wait for an engine, then the engine's |

* `missed` is history: which wishes, state or limit, were last asked for while the
  dispatcher was inside `AttachEngine`.
* The drain loop inside `Resume` is left out: a caller comes back at once. The
  caller has more behaviours in the model than in the code.
* A notification wakes a waiter in the step that makes the state visible;
  between the two a waiter could only see the new state and return.
* The application's own callbacks do nothing. An `on_error` that calls the library
  is in `DownloadManager`.

### JobImage

A session is one life of the process. `Download` or `Load` begins it; `Crash` ends
it at any step, and so does a `Store` that goes through the writer after its reset
(`StoreWithoutWriter`). `ServerChanges` and `RemoveOutput` happen between sessions.

| action | code |
|---|---|
| `Download`, `Load` | the engine's two constructors, after `ReadImageFromDisk`, `MatchesStoredFile` and the test that the output is there |
| `SetValidators` | the call of that name, after `AttachEngine` has perhaps started the job |
| `Receive`, `Notify`, `Account`, `Count` | the write, `UpdateReceived`, the bytes since the last store, `nDownloadedChunks_` |
| `BeginStore`, `FinishStore`, `StoreFails` | `StoreUnlocked` under `disk_mtx_`: the counts are read and the file truncated; the writes; a disk that takes only a part of them |
| `Cleanup`, `Reap` | `CleanupArtifacts(false)`, `CleanupArtifacts(true)` |
| `Pause`, `Cancel`, `Fail`, `Terminate`, `TerminatePause` | what they change in the state, and the `Store`s they make |

* `image.form` says whether a reader accepts the file: "torn" stands for every
  file that ends before its chunk table does. `WriteImageToDisk` truncates, so a
  rewrite goes through "torn"; `UpdateImageChunksOnDisk` keeps the file whole and a
  crash leaves the first rows new and the others old (`Updated`).
* `imageIndex_` is `indexed`. A process that has loaded a job has an image but no
  index, so that its first `Store` is a rewrite (`InPlace`).
* The states of workers are as far apart as the two files can tell; the list, the
  connections and the races for completion are in `DownloadEngine`.
* Every version of the server's file has the same length. A length that differs
  makes `Load` refuse, which changes nothing on disk; refusals are stutters here.
* `SetValidators` writes strings that a `Store` may read at the same time; the
  model has the old or the new value.
* Writes survive the process, as they do in the system's page cache. A failure of
  the machine is not modelled: the code never asks for a flush to the medium.
* `owed`, `terminated`, `blind` and `orphan` are history for the properties. `blind`:
  the image goes back to a `Load` that had no validator on both sides. It stays with
  the image when a `Download` makes a new job beside it, and goes when a job that was
  not loaded writes the image anew.

### TokenBucket

| action | code |
|---|---|
| `Enter` | the test of the state in `StreamBodyToDisk`, before the request for a budget |
| `Ask`, `Turn`, `Sleep`, `TimeOut` | `AcquireReadBudget`: the early return without a limit, one turn of the loop with `RefillRateTokens`, and the wait that gives `rate_mtx_` back and ends by itself |
| `StoreLimit`, `ApplyLimit` | the two halves of `SetSpeedLimit` |
| `Stop`, `Resume` | what pauses, cancels, fails or completes the job; the start of new workers |

* A tick of the clock is short against the 200 ms of the burst, the limit is in
  bytes per tick, and the tokens, a double in the code, are whole at every tick.
* `wait_until` ends after at most the time of a byte; here at any time.
* `Stop` notifies in the step that changes the state. A worker between its test and
  its wait does not hear it (`sleepy`), which is the interesting case; one that
  tests later sees the state.
* `last` and `allowance` are history: an ideal bucket, full when the limit is set.
  `RateHolds` says that the code never grants what the ideal one would not.
* What the waiting times do to the controller is in `ConnectionController`.

### DownloadManager

A request is made once, by `Download` or `Load`; its `status` is that of its
handler and then of its engine. The dispatcher's point `dpc` follows
`DownloadDispatcherLoop`: for a `Load` `image`, `index`, `probe`, `identity`, `file`,
`create`, `register`, `attach`; for a `Download` `fetch` and then from `create` on.
A failure goes through `callback`, where `on_error` runs, with (`locked`) or without
`jobs_mtx_`; `nested` is a call of `Download` or `Load` from there, between its two
halves.

* Each check succeeds, fails, or throws where nothing in the loop catches it, which
  ends the process (`aborted`).
* An engine is `Initialized`, `Active`, `Paused` or `Over`. A worker leaves with the
  job over or not.
* `jobs_` keeps every engine, so the weak pointers of `jobs_index_` never expire.
* The mutexes other than `jobs_mtx_` are held for one step and left out.
* The destructor begins when no application thread is inside the manager, which is
  what C++ asks of its caller. The dispatcher leaves its loop only with an empty
  queue; the pool drops its tasks, and a task queued after that is never run.

### ChunkPlan

The arithmetic of the dispatcher and of the engine's constructor, with sizes in a
machine word: additions and the last chunk's `fileSize_ - 1` are modulo `Word`. The
number of chunks is an `int` in the dispatcher and a `size_t` in the engine: `AsInt`
and `AsSize` are the two conversions, and a count of 2^31 or more comes out as another
number (`IntLimit`), 0 among them. The product `i * chunk_size` needs no reduction as
long as the file is at most half a word, which is what the theorem assumes and no
file exceeds.

## 3. Runs

| run | instance | shows |
|---|---|---|
| `engine_safety` | 2 threads, 2 callers, 2 chunks of 2 units, 3 calls, 1 tick, 1 fault, new and loaded jobs; `Resume`, `Pause`, `Cancel` | assignment, counting, resume points, conservation of work, clean-up, integrity of the completed file, and that the engine implements `DownloadJob` |
| `engine_accounting` | 2 threads, 1 caller, 2 chunks of 1 unit, 3 calls, 2 ticks, 1 fault; every call and fault, decisions 1 and 2 | types and the counters, also when every kind of call and failure is tried, `Resume` after `Cancel` and a failing name resolution among them |
| `engine_liveness` | 2 threads, 1 caller, 2 chunks, `Resume` and `Cancel`, 1 tick, 1 fault | a started job ends; the drain loop ends, and keeps the workers of before away from the rebuild |
| `engine_lost_item` | controller may lower the connections | **violated**: the released worker drops its item |
| `engine_plain_resume` | server without Range, `Pause`, `Resume` | **violated**: shifted bytes in a completed file |
| `controller` | 2 jobs, one loaded (limit 3) and one slow (limit 4), 4 threads | bounds, capacity, who pays for it, damping, and convergence |
| `handler` | 2 threads, 1 caller, 2 calls, 2 limits, `Download` and `Load`; calls before, inside and after `AttachEngine` | what was last asked for outside `AttachEngine` takes effect, failures are seen, the waiting thread returns |
| `image` | 2 threads, 2 chunks of 2 units, 2 sessions, 1 call, 1 refused write, a server whose file changes once; a store after every unit | image and job count only what is in the file and of one version, the loss of a crash, what `Terminate` stored, no image after the clean-up |
| `image_rewrite_crash` | no disk fault, a store after two units | **violated**: a crash while the image is written anew leaves none |
| `bucket` | 2 workers, 2 setters, limits 0, 1 and 3, 2 calls, reads of 2, a burst of 2 ticks | the bucket and the rate stay within the limit; workers of a stopped job leave; tokens reach some worker |
| `bucket_unlimited` | 1 worker, 1 setter, 1 call | **violated**: lifting the limit leaves a waiting worker waiting |
| `manager` | a `Download` and two `Load`s of one image, 1 application thread, 2 pool threads, 3 redirects | no self-deadlock, no trace of a refused `Load`, no duplicate by `Load`, every request settles, the destructor returns |

`manager` also evaluates `ChunkPlan` (assumptions of `MCDownloadManager`): every file
of up to 32 bytes with a word of 64 and an `int` below 8, every bound of connections,
and the empty file, whose only chunk is finished before it begins. It also evaluates
what becomes of a count that is not an `int` (`CountMayBeLost`): no chunk at all, by
whose number the engine would divide, or nearly as many as there are numbers in a
word.

Why the bounds are enough: for the engine, two threads are what a race over one
chunk, the last chunk or the last connection needs; two chunks make "the last one" and "another
one" differ; two units make a chunk that is partly received; three calls are
start, stop and start again (or start, stop, cancel); one fault is one broken
connection, after which the code is in the same place as before. The deadlock
check is off because a job that is completed, paused or canceled rests.

For the controller, two jobs are what competition and an order of the trim
need, and bounds of 3 and 4 over 4 threads let the wishes add up to 7, so that
the trim visits each job more than once. For the handler, two calls make
start, stop and start again, because `Download` starts the job by itself; two
threads make reports that overtake each other.

For the image, two sessions are what a crash and a load after it need, two threads
what a store under the writes of another one needs, and one refused write, one
call and one change of the server's file each meet every step of the rest. A
third session adds one case, the image that is left when its output is removed,
another job makes the file anew and the image is loaded after it (`orphan`):
the theorems of `JobImageProofs` have it. The bucket's limits are chosen so that
one burst is the buffer and the other one is more, and two setters overtake each
other. For the manager, three requests are a duplicate by each of the two indexes
and one request that waits behind them; a third redirect is the one that is not
followed.

Fairness of `engine_liveness`: a thread that is inside the code keeps
running. For a pool thread that includes that a read ends, with data, an
interruption or an error; the code sets no timeout, so a server that keeps a
connection open and silent stalls it for ever, and the model does not claim
otherwise. Nobody has to call and no tick has to come. Network faults are
bounded: a worker reconnects without limit, so a server that drops every
connection keeps the job `Downloading`.

Fairness of `controller`: the loop wakes up every `CONNECTION_CONTROL_TICK`, and
a tick that is due ends. Jobs need not start or stop. The premises of `BacksOff`
and `SoleJobFills` say how the jobs behave from some time on.

Fairness of `bucket` and `bucket_unlimited`: time passes, a thread that is inside the
code goes on, and whoever finds `rate_mtx_` free again and again gets it (strong
fairness of `Turn` and `ApplyLimit`: waits under this mutex are of a few
instructions). Nobody has to call or to stop the job.

Fairness of `manager`: the dispatcher, the controller and the destructor go on with
what they have begun, workers leave at some time (paused jobs do, and the others
end), and a caller that finds `jobs_mtx_` free again and again gets it. A retry from
`on_error` is never owed.

Fairness of the handler's run: a thread makes the reports, the wake-ups and the
call of the engine it has begun, and the dispatcher goes on with the request.
Nobody has to call, and the job need not end: `WaitReturns` speaks of jobs that
are over for good.

What these runs leave out on purpose: `engine_safety` has no lowering of the
connections (it loses work, see `engine_lost_item`) and no failing name
resolution (a worker that failed this way stores after another one has
completed the job, fault `null`). `engine_liveness` has no `Pause`: a last chunk
that arrives while a resumed job is `Queued` completes nothing, and the job
stays `Downloading`.
`RebuildAfterDrain` speaks of behaviours without a tick: a tick of the controller
between the drain loop and the rebuild schedules a worker that reads the list while
it is rebuilt (fault `race`). `WriterOutlivesCompletion` allows that the writer is
reset by a late reap of a canceled job; a `Resume` and a second `Cancel` can make
that happen under a new connection (fault `null`).

`RequestTakesEffect` leaves out a wish that was last asked for inside `AttachEngine`
(`missed`). The dispatcher decides from a `desired_state` that it read before the
engine was visible, and what comes later may be refused by an engine that is
`Initialized`. There the property does not hold: without this hypothesis TLC finds, in
five steps, a `Resume` of a loaded job that falls between the load of `desired_state`
and the publication; the handler then says `Queued` and the engine is never started. A
`Pause`, a `Cancel` or a limit is lost in the same way, and the job runs on.
`tests/test_terminate_load.cpp:75` calls `Resume` right after `Load` and then waits for
the end; it succeeds because the call comes before the dispatcher, which first asks
the server for the file, has reached `AttachEngine`.

`WaitReturns` leaves out a `Pause` and a `Cancel` before the engine exists: nobody wakes
a thread that waits for a job that was paused then, and after the `Cancel` the engine
stays `Initialized` and a waiting thread waits on. The repository does not say what
`WaitUntilFinished` does there.

`manager` answers only the failures of a `Download` from `on_error` (`RetryKinds`):
every failure of a `Load` after its entry in `loaded_images_` runs the callback inside
`jobs_mtx_`, and a callback that calls the library then waits for its own thread.
`OneVersion` says nothing of a job that goes back to a `Load` without a validator on both
sides (`blind`) or to an image whose output was removed (`orphan`), and
`LossBounded` leaves out the time of a rewrite, which `image_rewrite_crash` shows.

`RequestTakesEffect` is about one calling thread: of two threads that make
opposite requests either may reach the engine last.

## 4. Proofs

Every safety property that a passing run checks, the refinement of `DownloadJob` and
the action properties of the controller and the bucket among them, is a theorem:
the run shows it on the instance of section 3, the theorem for all values of the
constants that satisfy the assumptions of the modules (`SizesAssumption` and the
like, which TLC evaluates in the runs) and the hypotheses named below. Each is
proved from an inductive invariant. The bounds of the models (`MaxCalls`,
`MaxSessions`, ...) are any numbers.

### The engine

`DownloadEngineProofs` proves, for any finite and non-empty pool, any number of
callers, chunks, units and connections, any client, fault and decision:

* `TypeCorrect`: `Spec => []TypeOK`;
* `AccountingCorrect`: `Spec => []ConnectionAccounting`. `scheduledConnections_`
  counts the pool threads that hold a slot or the tasks that will, and
  `nConnections_` the threads between `NotifyConnectionOpen` and
  `NotifyConnectionClose`. It follows that the `< 0` repair of line 159 of
  `download_engine.cpp` never applies and that the drain loop of `Resume` waits
  for exactly the workers that are there;
* `AssignmentCorrect`: `Spec => []ExclusiveAssignment`. No chunk has two
  writers, and none that has one waits in the work list;
* `ReapCorrect`: `Spec => []CanceledIsReaped`;
* `RebuildCorrect`: `RebuildAfterDrain`, for one caller.

The inductive invariant of the first two is `AccountingInv == TypeOK /\ ConnectionAccounting`.
Neither half is inductive alone: that `nConnections_ - 1` is a natural number
needs that it counts the thread that closes. The two sets are named
(`SlotHolders`, `Connected`). A step of a worker inside its connection changes
neither, which one lemma says for all of them at once (`SameRoles`); only
`Open`, `Close` and `Leave` move a thread in or out, and each changes one
cardinality by one. `AdmitWorkers` is the only place where slots are granted.

`AssignmentInv` adds to it `HeldInside`, that a worker holds no chunk where it
has left its item, and `ExclusiveAssignment` itself. A step of a worker keeps the
items, drops one or takes one from the list (`Keeps`, `Drops`, `Takes`), and each
of the three preserves the assignment. The rebuild puts chunks back in the list
that somebody may have held before; it is the accounting that says nobody holds
one when `scheduledConnections_` is 0. A rebuild while it is not 0 is a data race
and ends the behaviour (fault `race`), so the theorem speaks of the
behaviours without one.

`ReapInv` adds who is on the way to the removal: a canceled job whose files are there
has a connection that is open, a thread between its last decrement and the
removal, or a caller inside `Cancel`. `DrainInv` says that before the first tick
nobody is scheduled while a `Resume` is past its drain loop. Two callers can both be
there, and the workers of the first one meet the rebuild of the second one, so that
`RebuildCorrect` is about one.

With a server that supports ranges (`Ranged`; without it the run
`engine_plain_resume` shows the contrary):

* `ResumeCorrect`: `ResumePointSound`, from `DataInv`. Its parts relate, for each
  worker by its control point, the offset of its item, the count of its chunk and the
  place in the body it reads (`Positions`); the items that wait and the counts
  (`Listed`); counts, file and image (`Backed`);
* `CountCorrect`: `CompletionCountExact`, from `CountInv`, which adds that the counted
  chunks and those of the workers that have yet to count make up the finished ones, and
  that one thread at most completes the job;
* `CompletedCorrect`: `CompletedFileIntact` follows from the two;
* `EngineImplementsJob`: `Spec => JobRefinement`. `JobStep` goes through the actions: a
  step changes the state as the life cycle allows, or adds a chunk, or changes
  nothing of the job. That a job completes only with all chunks is the count of `CountInv`;
* `WorkCorrect`: `WorkConserved`, if the controller takes no connection away
  (`OnlyAdds`; otherwise `engine_lost_item`), from `WorkInv`: outside of a `Resume`
  nobody is told to leave, and each missing chunk waits or is held;
* `WriterCorrect`: `WriterOutlivesCompletion`, without `Terminate` and without failing
  name resolutions (`NoLateStore`). Both make a `Store` that does not
  look at the state first, and which may come when the completion has reset the writer.

### The image

`JobImageProofs` proves, for any finite set of workers, any chunks, units and
servers, and any number of sessions, calls and refused writes:

* `TypeCorrect`: `Spec => []TypeOK`;
* `ImageCorrect`: `Spec => []ImageSound`. What the image or a running job counts is
  in the output file, whatever the sessions before did;
* `NothingComesBackHolds`: `Spec => []NothingComesBack`. After the files of a job
  were removed, no `Store` makes the image again;
* `TerminateKeeps`: `Spec => []TerminatePersists`;
* `VersionsStayApart`: `OneVersion`, if the validators tell the versions of the server's
  file apart wherever there is something to compare (`Distinguishes`);
* `LossIsBounded`: `Spec => []LossBounded`.

The inductive invariant `Inv` is a conjunction of named parts. `Shape` gives the
types that the steps need; `Quiet` says that nothing is under way while no session
runs; `Inside` and `Locked` say who may be inside a store, that a job whose files are
removed has nobody there, and that a store has read no more than the job counts;
`Held` says that the byte a worker has written and not yet counted is in the file,
just above the count of its chunk, and that no two workers hold one chunk;
`ImageBacked` and `JobBacked` are the two halves of `ImageSound`, each of which needs
the other: an image is written from the job's counts, and a job loaded from an image.
The proof showed why `orphan` must not be reset when the image is removed: a job that
was loaded from such an image goes on counting.

`Persist` adds that an image this process has written, on a disk that took every
write, is whole and updated in place (`Recorded`), and what is owed to the last
`Terminate` at each of its points (`Owing`).

`Version` says that an image the history does not exclude counts units of one version and
has that version's validators or none (`ImageOfVersion`), and within a session the
server's version now (`ImageOfSession`). An attempt to prove it with an earlier `blind`,
which every `Download` reset, failed at a `Load` after such a `Download`: the old image is
still there. TLC then found the four sessions that lead to it, and `blind` was corrected.

`Loss` follows the bytes from the count to the image. While a `Store` is under way, the job
is ahead of what it read only by units that are not accounted yet, since `disk_mtx_` keeps
their workers out. Otherwise it is ahead of the image by at most
`nReceivedBytesFromLastStore_` and those units; and, as every unit that reaches the limit
of `NeedsStore` sends its worker to a `Store`, by at most `StoreEvery - 1` and the workers
at those two points. `Tally` says that `nDownloadedChunks_` is the number of chunks that
are finished and no worker's.

### The token bucket

`TokenBucketProofs` proves, for any workers, setters, limits and clock:

* `TypeCorrect`: the types, in particular that tokens never become negative;
* `BurstCorrect`: `Spec => []TokensWithinBurst`;
* `RateCorrect`: `Spec => []RateHolds`.

Between the two halves of a `SetSpeedLimit` neither holds, so `BucketInv` speaks of
`Settled` states: there the tokens, with what the clock owes the bucket since the last
refill, are at most the allowance of the ideal bucket (`Covered`), which a refill at any
time then preserves. `LastAsked` says that the setter who stored the limit last cuts the
bucket by that limit; one that was overtaken cuts by its own and restarts the clock,
which can only make the bucket poorer.

### The controller

`ConnectionControllerProofs` proves, for any finite set of jobs, any pool and bounds, and
whatever the averages are:

* `TypeCorrect`: `Spec => []TypeOK`. The decisions stay within each job's bounds;
* `CapacityHolds`: `Spec => CapacityRespected`. The trim takes all of the excess, or all
  there is above one connection for each job, in the visits the loop makes;
* `NoFlutter`: `Spec => Damped`, from `ControlInv`, which says what a probe or a cut
  leaves in the job's state;
* `PayersInOrder`: `Spec => []TrimFollowsWait`.

The trim is a recursive function over visits. A fact about it is the set of pairs of a
visit and the wishes after it; `VisitByVisit` says that if the set contains the
beginning and the pair after each of its pairs, it contains the end. The step is one
turn of the loop in the code.

### The handler

`DownloadHandlerProofs` proves, for any threads, callers, limits and calls:

* `TypeCorrect`: the types; no request reaches the engine before it is published
  (`HandlerInv`);
* `FailuresReported`: `Spec => []FailureIsReported`. A failed engine has its error set or a
  thread that is about to report it, and no report drops one (`FailInv`);
* `RequestsTakeEffect`: `RequestTakesEffect`, for one caller (`OneCaller`, see section
  3), who may also call inside `AttachEngine`. `EffectInv` says that what is under way
  is the last wish, and so is what the dispatcher has read unless the history has noted
  a request since; the two kinds of wishes are followed apart, because a limit asked for
  inside `AttachEngine` must not excuse a state.

### The manager

`DownloadManagerProofs` proves, for any requests, paths, images, pool and redirects:

* `TypeCorrect`: the types, with who is `current` at each point (`ManagerInv`);
* `CallbacksReturn`: `NoSelfDeadlock`, if `on_error` calls the library only for a failed
  `Download`. `LockInv`: a callback inside `jobs_mtx_` is one of a `Load`;
* `RefusalLeavesNoTrace`: `Spec => []RefusedLoadLeavesNoTrace`. `TraceInv` gives
  `loaded_images_` at every point: the images of the loaded jobs and, from its entry to
  the end of the request, that of the current one;
* `LoadsExclude`: `Spec => []LoadsAreExclusive`. `ExclusiveInv`: from the test of the
  identity to the registration nobody else registers the file.

### The plan

`ChunkPlanProofs` proves `PlanDividesFile`, for any file of at least one byte and at
most half a word whose number of chunks is an `int`: the chunks follow each other without gap or overlap, none is empty
and none is finished before it begins. Its core is that dividing the file anew by the
number of chunks gives pieces so even that the last one still has a byte. The hypothesis about the count is
needed, since the dispatcher casts it; `CountFitsInt` says that every file of fewer than
2^31 chunks of the smallest size, 2 PB, satisfies it.
`ConnectionsInBounds` bounds the numbers of connections by the pool and by each other.

### Induction and sums

`SumTheorems` holds what the controller and the image need of sums over finite sets:
that they exist, what one more element adds (`SumRemove`), and what a change of one value
changes (`SumChange`). It rests on `SetInduction`: a set of numbers that contains
0 and with each number the next one contains them all. It is proved from the
pigeonhole principle for finite sets, because a theorem that takes the induction
predicate as a parameter is more than the provers can instantiate.

### What is only model-checked

The liveness properties: `EventuallySettles`, `DrainTerminates`, `BacksOff`,
`SoleJobFills`, `WaitReturns`, `StoppedWorkersLeave`, `SomebodyReads`, `RequestsSettle`
and `DestructorReturns`. They rest on fairness and so on `ENABLED`, which the
provers do not handle.

## 5. Plan

1. **Proofs**: the faults themselves (`fault = "race"`, `fault = "null"`) as theorems
   about when they cannot happen, of which `RebuildCorrect` and `WriterCorrect` are two
   cases; the safety lemmas behind the liveness properties.
2. **Model**: the hazards in `PROJECT.json` that no property covers.

### Not modelled

* **The HTTP exchange of the probe** (`FetchFileInfo`): one request and one answer per
  hop, without state that outlives it. The model has its outcomes; which headers make
  which outcome is a table that tests can go through.
* **URL parsing** (`url.cpp`): a pure parser of characters.
* **Progress figures** (speed, estimated time): nothing decides by them except the
  controller, whose input is any value.
* **The command-line programs**: display and arguments on top of the public interface.
* **Sockets and TLS**: an answer, an interruption or a failure. The code sets no
  timeouts, so there is none to model.
* **A failure of the machine**: the code does not ask for data to reach the medium, and
  nothing could be promised.
