-------------------------- MODULE DownloadManager --------------------------
(***************************************************************************)
(* MuldDownloadManager: requests of application threads, the dispatcher    *)
(* that turns them into jobs or failures, the pool that runs the jobs'     *)
(* tasks, and the destructor.  An engine is here only its state; what goes *)
(* on inside a job is in DownloadEngine, what Terminate stores in JobImage,*)
(* and the decisions of the controller in ConnectionController.            *)
(***************************************************************************)
EXTENDS Integers, FiniteSets, Sequences, SequencesExt

CONSTANTS
    Requests,      \* each is made once, by Download or by Load
    Kind, File,    \* what a request is, and the identity key of its job
    Path,          \* the image a Load names
    Callers,       \* application threads
    Threads,       \* pool threads
    MaxRedirects,  \* MAX_REDIRECT_ALLOW
    Connections,   \* the tasks a job is given at once
    RetryKinds     \* on_error of these requests calls the library again

ASSUME RequestsAssumption ==
    /\ IsFiniteSet(Requests)
    /\ Kind \in [Requests -> {"Download", "Load"}]
    /\ RetryKinds \subseteq {"Download", "Load"}

ASSUME SizesAssumption ==
    /\ IsFiniteSet(Threads) /\ Threads # {}
    /\ MaxRedirects \in Nat \ {0} /\ Connections \in Nat \ {0}

VARIABLES
    status,       \* of each request: its handler, then its engine
    pending,      \* pending_requests_
    handlers,     \* handler_
    jobs,         \* jobs_, in the order of registration
    loadedImages, \* loaded_images_
    dpc, current, \* where the dispatcher is, and its request
    hops,         \* redirect_count
    locked,       \* the dispatcher runs on_error inside jobs_mtx_
    stopping,     \* stop_dispatcher_ and stop_controller_
    controller,   \* the controller thread is there
    tasks,        \* the queue of the pool
    running,      \* what each pool thread runs
    poolStop,     \* stop_ of the pool
    caller,       \* what each application thread does
    dtor          \* how far the destructor is

None == "none"

queue == <<pending, handlers>>
dispatcher == <<dpc, current, hops, locked>>
pool == <<tasks, running, poolStop>>
registry == <<jobs, loadedImages>>
shutdown == <<stopping, controller, dtor>>
vars == <<status, queue, registry, dispatcher, shutdown, pool, caller>>

Loads == {r \in Requests : Kind[r] = "Load"}
Engines == {"Registered", "Initialized", "Active", "Paused", "Over"}
Idle == [op |-> "idle", of |-> {}]

Init ==
    /\ status = [r \in Requests |-> "new"]
    /\ pending = <<>> /\ handlers = {}
    /\ jobs = <<>> /\ loadedImages = {}
    /\ dpc = "wait" /\ current = None /\ hops = 0 /\ locked = FALSE
    /\ stopping = FALSE /\ controller = TRUE /\ dtor = "no"
    /\ tasks = <<>> /\ poolStop = FALSE
    /\ running = [t \in Threads |-> None]
    /\ caller = [c \in Callers |-> Idle]

\* notify_one on pending_cv_.
Notified(pc) == IF pc = "asleep" THEN "wait" ELSE pc

----------------------------------------------------------------------------
(* Application threads.                                                    *)

\* The first half of Download and Load: the request is queued.
Push(r) ==
    /\ status[r] = "new"
    /\ status' = [status EXCEPT ![r] = "pending"]
    /\ pending' = Append(pending, r)

Call(c, r) ==
    /\ dtor = "no" /\ caller[c] = Idle
    /\ Push(r)
    /\ caller' = [caller EXCEPT ![c] = [op |-> "register", of |-> {r}]]
    /\ dpc' = IF Kind[r] = "Load" THEN Notified(dpc) ELSE dpc
    /\ UNCHANGED <<handlers, registry, current, hops, locked, shutdown, pool>>

\* The second half: the handler is kept, under jobs_mtx_.  Load has notified the
\* dispatcher before, Download does it now.
Register(c) ==
    /\ caller[c].op = "register" /\ ~locked
    /\ handlers' = handlers \union caller[c].of
    /\ caller' = [caller EXCEPT ![c] = Idle]
    /\ dpc' = IF caller[c].of \subseteq Loads THEN dpc ELSE Notified(dpc)
    /\ UNCHANGED <<status, pending, registry, current, hops, locked, shutdown, pool>>

\* WaitAll copies handler_ and waits for each of them.
WaitAll(c) ==
    /\ dtor = "no" /\ caller[c] = Idle /\ ~locked
    /\ handlers # {}
    /\ caller' = [caller EXCEPT ![c] = [op |-> "waitall", of |-> handlers]]
    /\ UNCHANGED <<status, queue, registry, dispatcher, shutdown, pool>>

Finished(r) == status[r] \in {"Failed", "Paused", "Over"}

WaitAllReturns(c) ==
    /\ caller[c].op = "waitall"
    /\ \A r \in caller[c].of : Finished(r)
    /\ caller' = [caller EXCEPT ![c] = Idle]
    /\ UNCHANGED <<status, queue, registry, dispatcher, shutdown, pool>>

\* Terminate copies jobs_ ...
Terminate(c) ==
    /\ dtor = "no" /\ caller[c] = Idle /\ ~locked
    /\ jobs # <<>>
    /\ caller' = [caller EXCEPT ![c] = [op |-> "terminate", of |-> Range(jobs)]]
    /\ UNCHANGED <<status, queue, registry, dispatcher, shutdown, pool>>

\* ... and pauses them one after the other; only an active engine can be paused.
TerminateJob(c) ==
    /\ caller[c].op = "terminate"
    /\ \E r \in caller[c].of :
        /\ status' = [status EXCEPT ![r] = IF @ = "Active" THEN "Paused" ELSE @]
        /\ LET rest == caller[c].of \ {r}
           IN  caller' = [caller EXCEPT ![c] =
                   IF rest = {} THEN Idle ELSE [op |-> "terminate", of |-> rest]]
    /\ UNCHANGED <<queue, registry, dispatcher, shutdown, pool>>

\* start_download_, that is EnqueueTasks.  A pool that has stopped takes tasks as
\* well, and never runs them.
EnqueueTasks(r, n) == tasks' = tasks \o [i \in 1..n |-> r]

\* A loaded job waits for a Resume by its handler.
StartLoaded(r) ==
    /\ dtor = "no" /\ status[r] = "Initialized"
    /\ status' = [status EXCEPT ![r] = "Active"]
    /\ EnqueueTasks(r, Connections)
    /\ UNCHANGED <<queue, registry, dispatcher, shutdown, running, poolStop, caller>>

----------------------------------------------------------------------------
(* The dispatcher.                                                         *)

\* Variant (not the code): the dispatcher stops at once.
MayStop_Early == stopping

\* The loop ends when there is nothing left to do.
MayStop == stopping /\ pending = <<>>

DispatcherExits ==
    /\ dpc = "wait" /\ MayStop
    /\ dpc' = "gone"
    /\ UNCHANGED <<status, queue, registry, current, hops, locked, shutdown, pool,
                   caller>>

Sleep ==
    /\ dpc = "wait" /\ ~stopping /\ pending = <<>>
    /\ dpc' = "asleep"
    /\ UNCHANGED <<status, queue, registry, current, hops, locked, shutdown, pool,
                   caller>>

Take ==
    /\ dpc = "wait" /\ pending # <<>> /\ ~MayStop
    /\ current' = Head(pending) /\ pending' = Tail(pending)
    /\ dpc' = IF Kind[Head(pending)] = "Load" THEN "image" ELSE "fetch"
    /\ hops' = 0
    /\ UNCHANGED <<status, handlers, registry, locked, shutdown, pool, caller>>

Go(here, there) ==
    /\ dpc = here
    /\ dpc' = there
    /\ UNCHANGED <<status, queue, jobs, current, locked, shutdown, pool, caller>>

\* FailBeforeEngineStart, up to the call of on_error.
Fail(here, inside) ==
    /\ dpc = here
    /\ status' = [status EXCEPT ![current] = "Failed"]
    /\ dpc' = "callback" /\ locked' = inside
    /\ UNCHANGED <<queue, jobs, current, hops, shutdown, pool, caller>>

\* An exception nothing catches ends the process.
Throw(here) ==
    /\ Go(here, "aborted")
    /\ UNCHANGED <<loadedImages, hops>>

\* on_error calls Download or Load: it may find jobs_mtx_ taken by its own thread.
Retry ==
    /\ dpc = "callback" /\ Kind[current] \in RetryKinds
    /\ \E r \in Requests : Push(r) /\ current' = r
    /\ dpc' = "nested"
    /\ UNCHANGED <<handlers, registry, hops, locked, shutdown, pool, caller>>

RetryRegisters ==
    /\ dpc = "nested" /\ ~locked
    /\ handlers' = handlers \union {current}
    /\ dpc' = "return"
    /\ UNCHANGED <<status, pending, registry, current, hops, locked, shutdown, pool,
                   caller>>

\* on_error is back: the mutex, if it is held, is released.
CallbackReturns ==
    /\ dpc \in {"callback", "return"}
    /\ dpc' = "wait" /\ current' = None /\ locked' = FALSE
    /\ UNCHANGED <<status, queue, registry, hops, shutdown, pool, caller>>

\* Load: ReadImageFromDisk.
ReadImage ==
    \/ Go("image", "index") /\ UNCHANGED <<loadedImages, hops>>
    \/ Fail("image", FALSE) /\ UNCHANGED loadedImages

\* Load: the entry in loaded_images_; a second Load of the image is refused.
IndexImage ==
    /\ dpc = "index"
    /\ IF Path[current] \in loadedImages
       THEN Fail("index", TRUE) /\ UNCHANGED loadedImages
       ELSE /\ Go("index", "probe")
            /\ loadedImages' = loadedImages \union {Path[current]}
            /\ UNCHANGED hops

\* Variant (not the code): the entry stays.
Forget_Nothing == loadedImages

Forget == loadedImages \ {Path[current]}

\* A Load is refused after its entry was made.
Refuse(here) ==
    /\ Fail(here, TRUE)
    /\ loadedImages' = Forget

\* ResolveValidatedFileInfo and MatchesStoredFile.
ProbeImage ==
    \/ Go("probe", "identity") /\ UNCHANGED <<loadedImages, hops>>
    \/ Refuse("probe")

\* Variant (not the code): the registered jobs are not looked at.
Duplicate_Never == FALSE

\* jobs_ keeps every engine, so that an entry of jobs_index_ never expires.
Duplicate == \E r \in Range(jobs) : File[r] = File[current]

CheckIdentity ==
    /\ dpc = "identity"
    /\ IF Duplicate THEN Refuse("identity")
       ELSE Go("identity", "file") /\ UNCHANGED <<loadedImages, hops>>

\* The output file is there and has the right length; asking for it may throw.
CheckFile ==
    \/ Go("file", "create") /\ UNCHANGED <<loadedImages, hops>>
    \/ Refuse("file")
    \/ Throw("file")

\* Variant (not the code): one failure path of Download holds jobs_mtx_, too.
FetchFails_Locked == Fail("fetch", TRUE) /\ UNCHANGED loadedImages

\* FetchFileInfo fails, or the scheme is not supported.
FetchFails == Fail("fetch", FALSE) /\ UNCHANGED loadedImages

\* Variant (not the code): the last answer is followed, too.
MayFollow_Last == hops < MaxRedirects

\* The loop over redirect_count is not at its end.
MayFollow == hops + 1 < MaxRedirects

\* Download: FetchFileInfo, and again after a redirect; an address that cannot be
\* parsed throws.
Fetch ==
    \/ Go("fetch", "create") /\ UNCHANGED <<loadedImages, hops>>
    \/ MayFollow /\ Go("fetch", "fetch") /\ hops' = hops + 1
        /\ UNCHANGED loadedImages
    \/ FetchFails
    \/ Throw("fetch")

\* The constructor of the engine opens the output file.  Only Download catches
\* what it throws.
CreateEngine ==
    /\ dpc = "create"
    /\ \/ Go("create", "register") /\ UNCHANGED <<loadedImages, hops>>
       \/ Kind[current] = "Download" /\ Fail("create", FALSE)
            /\ UNCHANGED loadedImages
       \/ Kind[current] = "Load" /\ Throw("create")

RegisterJob ==
    /\ dpc = "register"
    /\ jobs' = Append(jobs, current)
    /\ status' = [status EXCEPT ![current] = "Registered"]
    /\ dpc' = "attach"
    /\ UNCHANGED <<queue, loadedImages, current, hops, locked, shutdown, pool, caller>>

\* AttachEngine starts what Download asked for.
AttachEngine ==
    /\ dpc = "attach"
    /\ IF Kind[current] = "Download"
       THEN /\ status' = [status EXCEPT ![current] = "Active"]
            /\ EnqueueTasks(current, Connections)
       ELSE /\ status' = [status EXCEPT ![current] = "Initialized"]
            /\ UNCHANGED tasks
    /\ dpc' = "wait" /\ current' = None
    /\ UNCHANGED <<queue, registry, hops, locked, shutdown, running, poolStop, caller>>

DispatcherStep ==
    \/ DispatcherExits \/ Sleep \/ Take
    \/ RetryRegisters \/ CallbackReturns
    \/ ReadImage \/ IndexImage \/ ProbeImage \/ CheckIdentity \/ CheckFile
    \/ Fetch \/ CreateEngine \/ RegisterJob \/ AttachEngine

----------------------------------------------------------------------------
(* The pool and the controller.                                            *)

\* A pool thread takes a task, unless the pool has stopped.
TakeTask(t) ==
    /\ running[t] = None /\ ~poolStop /\ tasks # <<>>
    /\ running' = [running EXCEPT ![t] = Head(tasks)]
    /\ tasks' = Tail(tasks)
    /\ UNCHANGED <<status, queue, registry, dispatcher, shutdown, poolStop, caller>>

\* A worker leaves: the job is over, or goes on without it.
EndTask(t) ==
    /\ running[t] \in Requests
    /\ \E s \in {status[running[t]], "Over"} :
        /\ s # status[running[t]] => status[running[t]] = "Active"
        /\ status' = [status EXCEPT ![running[t]] = s]
    /\ running' = [running EXCEPT ![t] = None]
    /\ UNCHANGED <<queue, registry, dispatcher, shutdown, tasks, poolStop, caller>>

ThreadExits(t) ==
    /\ running[t] = None /\ poolStop
    /\ running' = [running EXCEPT ![t] = "gone"]
    /\ UNCHANGED <<status, queue, registry, dispatcher, shutdown, tasks, poolStop,
                   caller>>

\* ConnectionControlLoop gives an active job another task.
ControllerTick ==
    /\ controller /\ ~stopping
    /\ \E r \in Range(jobs) :
        /\ status[r] = "Active"
        /\ r \notin Range(tasks)
        /\ EnqueueTasks(r, 1)
    /\ UNCHANGED <<status, queue, registry, dispatcher, shutdown, running, poolStop,
                   caller>>

ControllerExits ==
    /\ controller /\ stopping
    /\ controller' = FALSE
    /\ UNCHANGED <<status, queue, registry, dispatcher, stopping, dtor, pool, caller>>

----------------------------------------------------------------------------
(* The destructor, once no application thread is inside the manager.       *)

\* Variant (not the code): nobody tells the dispatcher.
StopNotifies_Nobody == UNCHANGED dpc

StopNotifies == dpc' = Notified(dpc)

Destroy ==
    /\ dtor = "no" /\ \A c \in Callers : caller[c] = Idle
    /\ dtor' = "join"
    /\ stopping' = TRUE
    /\ StopNotifies
    /\ UNCHANGED <<status, queue, registry, current, hops, locked, controller, pool,
                   caller>>

\* Both threads are joined, then the members go, from the last to the first: the
\* pool stops ...
StopPool ==
    /\ dtor = "join" /\ dpc = "gone" /\ ~controller
    /\ dtor' = "pool"
    /\ poolStop' = TRUE
    /\ UNCHANGED <<status, queue, registry, dispatcher, stopping, controller, tasks,
                   running, caller>>

\* ~ThreadPool joins its threads.
PoolJoined == \A t \in Threads : running[t] = "gone"

\* ... and is joined, and the jobs go with jobs_.
FreeJobs ==
    /\ dtor = "pool" /\ PoolJoined
    /\ dtor' = "done"
    /\ UNCHANGED <<status, queue, registry, dispatcher, stopping, controller, pool,
                   caller>>

----------------------------------------------------------------------------

CallerStep(c) == Register(c) \/ WaitAllReturns(c) \/ TerminateJob(c)
ThreadStep(t) == TakeTask(t) \/ EndTask(t) \/ ThreadExits(t)
DestructorStep == StopPool \/ FreeJobs

Alive == dpc # "aborted"

Next ==
    Alive /\
    \/ \E c \in Callers :
        \/ \E r \in Requests : Call(c, r)
        \/ WaitAll(c) \/ Terminate(c) \/ CallerStep(c)
    \/ \E r \in Requests : StartLoaded(r)
    \/ DispatcherStep \/ Retry
    \/ \E t \in Threads : ThreadStep(t)
    \/ ControllerTick \/ ControllerExits
    \/ Destroy \/ DestructorStep

Spec == Init /\ [][Next]_vars

\* Threads go on with what they have begun, workers leave at some time, and a
\* thread that finds jobs_mtx_ free again and again gets it.
Fairness ==
    /\ WF_vars(Alive /\ DispatcherStep)
    /\ WF_vars(Alive /\ ControllerExits)
    /\ WF_vars(Alive /\ DestructorStep)
    /\ \A c \in Callers : SF_vars(Alive /\ CallerStep(c))
    /\ \A t \in Threads : WF_vars(Alive /\ ThreadStep(t))

FairSpec == Spec /\ Fairness
----------------------------------------------------------------------------
(* Properties.                                                             *)

Statuses == {"new", "pending", "Failed"} \union Engines

TypeOK ==
    /\ status \in [Requests -> Statuses]
    /\ pending \in Seq(Requests) /\ handlers \subseteq Requests
    /\ jobs \in Seq(Requests) /\ loadedImages \subseteq {Path[r] : r \in Loads}
    /\ dpc \in {"wait", "asleep", "image", "index", "probe", "identity", "file",
                "fetch", "create", "register", "attach", "callback", "nested",
                "return", "gone", "aborted"}
    /\ current \in Requests \union {None}
    /\ hops \in 0..(MaxRedirects - 1)
    /\ locked \in BOOLEAN /\ stopping \in BOOLEAN /\ controller \in BOOLEAN
    /\ dtor \in {"no", "join", "pool", "done"}
    /\ tasks \in Seq(Requests) /\ poolStop \in BOOLEAN
    /\ running \in [Threads -> Requests \union {None, "gone"}]
    /\ caller \in [Callers -> [op : {"idle", "register", "waitall", "terminate"},
                               of : SUBSET Requests]]

\* The thread that runs on_error never waits for the mutex it holds, as long as
\* only the failures of a Download are answered by calling the library.
NoSelfDeadlock == ~(dpc = "nested" /\ locked)

\* Between two requests loaded_images_ names the images of loaded jobs and no
\* other: whichever check refused a Load, the image can be loaded later.
RefusedLoadLeavesNoTrace ==
    dpc \in {"wait", "asleep", "gone"} =>
        loadedImages = {Path[r] : r \in Range(jobs) \intersect Loads}

\* A Load never adds a second job for a file, by whatever path and after whatever
\* Download; a Download may.
LoadsAreExclusive ==
    \A i, j \in DOMAIN jobs :
        i < j /\ File[jobs[i]] = File[jobs[j]] => Kind[jobs[j]] = "Download"

\* Every request that was queued becomes a job or a failure, also when the
\* destructor has begun, unless the process dies of an exception.
RequestsSettle ==
    \A r \in Requests :
        status[r] = "pending" ~> (status[r] # "pending" \/ ~Alive)

\* The destructor comes back, since workers leave and the dispatcher empties its
\* queue.
DestructorReturns == (dtor = "join") ~> (dtor = "done" \/ ~Alive)
=============================================================================
