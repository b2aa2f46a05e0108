--------------------------- MODULE DownloadEngine ---------------------------
(***************************************************************************)
(* One download job: the DownloadEngine, the pool threads that run         *)
(* DownloadWorker on it, the application threads that call Resume, Pause,  *)
(* Cancel and Terminate, and the thread of ConnectionControlLoop.          *)
(*                                                                         *)
(* An atomic step is one access to shared memory (an atomic, a             *)
(* lock-protected region, a file operation) together with the thread-local *)
(* work around it.  A file is a set of chunks, a chunk is ChunkUnits units,*)
(* a unit is what one http::read delivers.  The bytes themselves are       *)
(* abstracted to "this unit of the file on disk holds the server's bytes". *)
(*                                                                         *)
(* The code has two kinds of undefined behaviour on this job, and `fault`  *)
(* records the first one reached: "null" is a call through writer_ after   *)
(* CleanupArtifacts reset it, "race" is BuildPendingWork running while     *)
(* another thread uses pendingWork_.  Nothing is said of what follows, so  *)
(* no step is taken after a fault.                                         *)
(***************************************************************************)
EXTENDS Integers, FiniteSets

CONSTANTS
    Workers,         \* the threads of the pool, max_threads_ of them
    Callers,         \* application threads that hold the job's handler
    NChunks,         \* nChunks_
    ChunkUnits,      \* http::reads that fill a chunk
    MaxConnections,  \* maxConnections_
    Ranged,          \* ranged_: the server honours Range requests
    InitialImages,   \* received counts the job may be created with
    ClientOps,       \* the calls the application makes
    FaultKinds,      \* the network faults that may happen
    Decisions,       \* desired connections the controller may decide on
    MaxCalls,        \* bound: calls made by all the callers
    MaxTicks,        \* bound: ticks of the controller
    MaxFaults        \* bound: network faults

Chunks == 1..NChunks
Units == 0..(ChunkUnits - 1)

States == {"Initialized", "Queued", "Downloading", "Paused",
           "Completed", "Canceled", "Failed"}

ASSUME SizesAssumption ==
    /\ NChunks \in Nat \ {0}
    /\ ChunkUnits \in Nat \ {0}
    /\ MaxConnections \in Nat \ {0}

ASSUME ThreadsAssumption == IsFiniteSet(Workers) /\ Workers # {}

\* A job on a server without Range support has one chunk and one connection.
ASSUME RangeAssumption ==
    /\ Ranged \in BOOLEAN
    /\ ~Ranged => NChunks = 1 /\ MaxConnections = 1

ASSUME EnvironmentAssumption ==
    /\ InitialImages \subseteq [Chunks -> 0..ChunkUnits]
    /\ ClientOps \subseteq {"Resume", "ResumeCanceled", "Pause", "Cancel",
                            "Terminate"}
    /\ FaultKinds \subseteq {"resolve", "request", "interrupt", "fatal"}
    /\ Decisions \subseteq Nat

ASSUME BoundsAssumption ==
    MaxCalls \in Nat /\ MaxTicks \in Nat /\ MaxFaults \in Nat

VARIABLES
    state,         \* state_
    scheduled,     \* scheduledConnections_
    nConnections,  \* nConnections_
    desired,       \* desiredConnections_
    releaseBudget, \* releaseBudget_
    queue,         \* tasks of this job waiting in the thread pool
    backlog,       \* pendingWork_ from nextWorkItem_ on
    rangeStart,    \* range_start of each chunk's work item
    nDownloaded,   \* nDownloadedChunks_
    received,      \* received_ of each ChunkInfo
    file,          \* the units of each chunk that are right on disk
    image,         \* the chunk table of the .muld file
    writerOpen,    \* writer_ is set, and artifactsCleaned_ is not
    outputFile,    \* the output file exists
    wpc,           \* where each pool thread is
    item,          \* the work item each pool thread holds
    upc,           \* where each caller is
    cpc,           \* where the controller thread is
    fault,         \* the undefined behaviour that was reached
    calls, ticks, faults

counters == <<scheduled, nConnections, desired, releaseBudget, queue>>
progress == <<backlog, rangeStart, nDownloaded, received>>
disk == <<file, image, writerOpen, outputFile>>
spent == <<calls, ticks, faults>>
vars == <<state, counters, progress, disk, wpc, item, upc, cpc, fault, spent>>

WorkerSteps == {"idle", "begin", "loop", "take", "check", "status", "read",
                "recv", "notify", "store", "count", "complete", "force",
                "final", "cleanup", "fail", "failstore", "close", "leave",
                "last", "reap"}
CallerSteps == {"idle", "drain", "rebuild", "plan", "admit", "quiesce",
                "discard", "tstore", "tpause"}
ControllerSteps == {"idle", "decide", "plan", "admit"}

NoImage == <<>>
\* chunk 0 is no chunk: chunks are numbered from 1 here.
Items == [chunk : {0} \union Chunks, off : Nat, src : Nat]
Work(c, o, s) == [chunk |-> c, off |-> o, src |-> s]
NoItem == Work(0, 0, 0)

Smaller(a, b) == IF a < b THEN a ELSE b
Larger(a, b) == IF a < b THEN b ELSE a

\* ChunkInfo::IsFinished for the counts in table r.
FinishedIn(r) == {c \in Chunks : r[c] >= ChunkUnits}

Active == state \in {"Queued", "Downloading"}

----------------------------------------------------------------------------
(* SetState: the states each target may be reached from.                   *)

\* Variant (not the code): a completed job may be resumed.
ResumeFrom_Completed == {"Initialized", "Paused", "Failed", "Completed"}

ResumeFrom == {"Initialized", "Paused", "Failed"} \union
              (IF "ResumeCanceled" \in ClientOps THEN {"Canceled"} ELSE {})
PauseFrom == {"Downloading", "Queued"}
FailFrom == {"Downloading", "Queued"}
CancelFrom == {"Downloading", "Queued", "Paused", "Failed"}

----------------------------------------------------------------------------
(* The job is new, or was created from an image whose chunks are counted.  *)

Init ==
    /\ state = "Initialized"
    /\ scheduled = 0 /\ nConnections = 0 /\ queue = 0
    /\ desired \in 1..MaxConnections
    /\ releaseBudget = Larger(Smaller(2, MaxConnections) - desired, 0)
    /\ received \in InitialImages
    /\ backlog = {}
    /\ rangeStart = [c \in Chunks |-> 0]
    /\ nDownloaded = Cardinality(FinishedIn(received))
    /\ file = [c \in Chunks |-> {u \in Units : u < received[c]}]
    /\ image = IF \A c \in Chunks : received[c] = 0 THEN NoImage ELSE received
    /\ writerOpen = TRUE /\ outputFile = TRUE
    /\ wpc = [w \in Workers |-> "idle"]
    /\ item = [w \in Workers |-> NoItem]
    /\ upc = [u \in Callers |-> "idle"]
    /\ cpc = "idle"
    /\ fault = "none"
    /\ calls = 0 /\ ticks = 0 /\ faults = 0

----------------------------------------------------------------------------
(* What the threads share.                                                 *)

WorkerAt(w, here, there) ==
    /\ wpc[w] = here
    /\ wpc' = [wpc EXCEPT ![w] = there]

CallerAt(u, here, there) ==
    /\ upc[u] = here
    /\ upc' = [upc EXCEPT ![u] = there]

\* A network fault of one of the given kinds happens.
Suffer(kinds) ==
    /\ FaultKinds \intersect kinds # {}
    /\ faults < MaxFaults
    /\ faults' = faults + 1
    /\ UNCHANGED <<calls, ticks>>

\* Store: write the chunk table to the .muld file; its path is read through
\* writer_.
Store ==
    IF writerOpen
    THEN image' = received /\ UNCHANGED <<file, writerOpen, outputFile, fault>>
    ELSE fault' = "null" /\ UNCHANGED disk

\* CleanupArtifacts, the first time it is called; later calls return early.
CleanupArtifacts(removeOutput) ==
    /\ writerOpen' = FALSE
    /\ image' = IF writerOpen THEN NoImage ELSE image
    /\ outputFile' = IF writerOpen /\ removeOutput THEN FALSE ELSE outputFile
    /\ UNCHANGED file

\* Variant (not the code): the slots already taken are not subtracted.
AdmitWorkers_Regrant ==
    LET granted == Smaller(desired, Cardinality(Workers))
    IN  /\ scheduled' = scheduled + granted
        /\ queue' = queue + granted
        /\ UNCHANGED <<nConnections, desired, releaseBudget>>

\* Variant (not the code): no test that there is something to grant.
AdmitWorkers_NoFloor ==
    LET granted == Smaller(desired - scheduled, Cardinality(Workers))
    IN  /\ scheduled' = scheduled + granted
        /\ queue' = queue + granted
        /\ UNCHANGED <<nConnections, desired, releaseBudget>>

\* The compare-and-swap loop of PlanNewWorkers, and the Enqueue of EnqueueTasks
\* for every connection it grants.
AdmitWorkers ==
    LET granted == Smaller(desired - scheduled, Cardinality(Workers))
    IN  IF granted > 0
        THEN /\ scheduled' = scheduled + granted
             /\ queue' = queue + granted
             /\ UNCHANGED <<nConnections, desired, releaseBudget>>
        ELSE UNCHANGED counters

Rebuilding == {u \in Callers : upc[u] = "rebuild"}

----------------------------------------------------------------------------
(* The pool thread: DownloadWorker and DownloadWorkerImpl.                 *)

\* The pool hands over a task; ConnectionGuard opens the connection.
Open(w) ==
    /\ queue > 0
    /\ WorkerAt(w, "idle", "begin")
    /\ queue' = queue - 1
    /\ nConnections' = nConnections + 1
    /\ UNCHANGED <<state, scheduled, desired, releaseBudget, progress, disk,
                   item, upc, cpc, fault, spent>>

\* NotifyConnectionOpen's compare-and-swap; then the host is resolved.
Begin(w) ==
    /\ state' = IF state = "Queued" THEN "Downloading" ELSE state
    /\ \/ WorkerAt(w, "begin", "loop") /\ UNCHANGED spent
       \/ WorkerAt(w, "begin", "fail") /\ Suffer({"resolve"})
    /\ UNCHANGED <<counters, progress, disk, item, upc, cpc, fault>>

\* ShouldReleaseConnection at the head of the loop over work items.
ReleaseOrTake(w) ==
    /\ IF releaseBudget > 0
       THEN WorkerAt(w, "loop", "close") /\ releaseBudget' = releaseBudget - 1
       ELSE WorkerAt(w, "loop", "take") /\ UNCHANGED releaseBudget
    /\ item' = [item EXCEPT ![w] = NoItem]
    /\ UNCHANGED <<state, scheduled, nConnections, desired, queue, progress,
                   disk, upc, cpc, fault, spent>>

\* Variant (not the code): nextWorkItem_ is read but not advanced.
TakeItem_NoAdvance(w) ==
    /\ Rebuilding = {}
    /\ \/ /\ backlog = {}
          /\ WorkerAt(w, "take", "close")
          /\ UNCHANGED item
       \/ \E c \in backlog :
          /\ \A d \in backlog : c <= d
          /\ WorkerAt(w, "take", "check")
          /\ item' = [item EXCEPT ![w] = Work(c, rangeStart[c], 0)]
    /\ UNCHANGED <<state, counters, progress, disk, upc, cpc, fault, spent>>

\* GetNextWorkItem.  It races with a BuildPendingWork in progress.
TakeItem(w) ==
    /\ IF Rebuilding # {}
       THEN /\ WorkerAt(w, "take", "take")
            /\ fault' = "race"
            /\ UNCHANGED <<backlog, item>>
       ELSE /\ UNCHANGED fault
            /\ \/ /\ backlog = {}
                  /\ WorkerAt(w, "take", "close")
                  /\ UNCHANGED <<backlog, item>>
               \/ \E c \in backlog :
                  /\ \A d \in backlog : c <= d
                  /\ WorkerAt(w, "take", "check")
                  /\ backlog' = backlog \ {c}
                  /\ item' = [item EXCEPT ![w] = Work(c, rangeStart[c], 0)]
    /\ UNCHANGED <<state, counters, rangeStart, nDownloaded, received, disk,
                   upc, cpc, spent>>

\* ShouldReleaseConnection in the loop over one item.  The item is dropped: it
\* does not go back to pendingWork_.
ReleaseOrCheck(w) ==
    /\ IF releaseBudget > 0
       THEN /\ WorkerAt(w, "check", "close")
            /\ releaseBudget' = releaseBudget - 1
            /\ item' = [item EXCEPT ![w] = NoItem]
       ELSE WorkerAt(w, "check", "status") /\ UNCHANGED <<releaseBudget, item>>
    /\ UNCHANGED <<state, scheduled, nConnections, desired, queue, progress,
                   disk, upc, cpc, fault, spent>>

\* Variant (not the code): the range of a new request starts at the chunk's
\* first byte.
Request_FromStart(w) ==
    /\ WorkerAt(w, "status", IF state = "Downloading" THEN "read" ELSE "close")
    /\ item' = [item EXCEPT ![w] = IF state = "Downloading"
                                   THEN [@ EXCEPT !.src = 0] ELSE NoItem]
    /\ UNCHANGED <<state, counters, progress, disk, upc, cpc, fault, spent>>

\* Leave when the job is no longer Downloading; else connect, send the request
\* and validate the response.  A Range request starts at the offset wanted, any
\* other at the first byte of the file.
Request(w) ==
    /\ \/ /\ state # "Downloading"
          /\ WorkerAt(w, "status", "close")
          /\ item' = [item EXCEPT ![w] = NoItem]
          /\ UNCHANGED spent
       \/ /\ state = "Downloading"
          /\ WorkerAt(w, "status", "read")
          /\ LET it == item[w]
             IN  item' = [item EXCEPT ![w] = Work(it.chunk, it.off,
                                               IF Ranged THEN it.off ELSE 0)]
          /\ UNCHANGED spent
       \/ /\ state = "Downloading"
          /\ WorkerAt(w, "status", "fail")
          /\ Suffer({"request"})
          /\ UNCHANGED item
    /\ UNCHANGED <<state, counters, progress, disk, upc, cpc, fault>>

\* Variant (not the code): an interrupted chunk is left for the next item.
GiveUp_Next == IF Ranged THEN "loop" ELSE "fail"

\* Where a body that ended early sends the worker: back to the loop over the
\* item, or to Fail when the rest of the chunk cannot be asked for.
GiveUp == IF Ranged THEN "check" ELSE "fail"

\* StreamBodyToDisk before each read: the state is looked at (also by
\* AcquireReadBudget, which returns 0 when the job is no longer Downloading).
Read(w) ==
    /\ WorkerAt(w, "read", IF state = "Downloading" THEN "recv" ELSE GiveUp)
    /\ UNCHANGED <<state, counters, progress, disk, item, upc, cpc, fault, spent>>

\* http::read returns: a unit, written at the current offset whatever the
\* state is by now; an interrupted body; or an error that throws.
Receive(w) ==
    /\ \/ /\ writerOpen
          /\ WorkerAt(w, "recv", "notify")
          /\ LET it == item[w]
             IN  /\ file' = [file EXCEPT ![it.chunk] =
                                IF it.src = it.off
                                THEN @ \union ({it.off} \intersect Units)
                                ELSE @ \ {it.off}]
                 /\ item' = [item EXCEPT ![w] =
                                Work(it.chunk, it.off + 1, it.src + 1)]
          /\ UNCHANGED <<fault, spent>>
       \/ /\ ~writerOpen
          /\ WorkerAt(w, "recv", "recv")
          /\ fault' = "null"
          /\ UNCHANGED <<file, item, spent>>
       \/ /\ WorkerAt(w, "recv", GiveUp)
          /\ Suffer({"interrupt"})
          /\ UNCHANGED <<file, item, fault>>
       \/ /\ WorkerAt(w, "recv", "fail")
          /\ Suffer({"fatal"})
          /\ UNCHANGED <<file, item, fault>>
    /\ UNCHANGED <<state, counters, progress, image, writerOpen, outputFile,
                   upc, cpc>>

\* The body is done when it delivered its last unit: then the next work item.
Resting(w) == IF item[w].src = ChunkUnits THEN "loop" ELSE "read"

\* Where NotifyChunkReceived goes after the chunk's count is known.
AfterCount(w, r) ==
    IF r[item[w].chunk] >= ChunkUnits THEN "count" ELSE Resting(w)

\* NotifyChunkReceived, first part.  How much has to arrive before the image
\* is stored (10 MB) has no relation to the size of a unit, so a Store may
\* follow any unit.
Notify(w) ==
    LET c == item[w].chunk
        r == [received EXCEPT ![c] = @ + 1]
    IN  /\ \/ WorkerAt(w, "notify", "store")
           \/ WorkerAt(w, "notify", AfterCount(w, r))
        /\ received' = r
        /\ UNCHANGED <<state, counters, backlog, rangeStart, nDownloaded, disk,
                       item, upc, cpc, fault, spent>>

PeriodicStore(w) ==
    /\ WorkerAt(w, "store", AfterCount(w, received))
    /\ Store
    /\ UNCHANGED <<state, counters, progress, item, upc, cpc, spent>>

\* Variant (not the code): the last chunk is told one too early.
CountChunk_Early(w) ==
    /\ WorkerAt(w, "count", IF nDownloaded + 1 >= NChunks - 1 THEN "complete"
                                                              ELSE Resting(w))
    /\ nDownloaded' = nDownloaded + 1
    /\ UNCHANGED <<state, counters, backlog, rangeStart, received, disk, item,
                   upc, cpc, fault, spent>>

\* Variant (not the code): the last chunk is told one too late.
CountChunk_Late(w) ==
    /\ WorkerAt(w, "count", IF nDownloaded = NChunks THEN "complete"
                                                     ELSE Resting(w))
    /\ nDownloaded' = nDownloaded + 1
    /\ UNCHANGED <<state, counters, backlog, rangeStart, received, disk, item,
                   upc, cpc, fault, spent>>

\* The fetch_add on nDownloadedChunks_: the last chunk completes the job.
CountChunk(w) ==
    /\ WorkerAt(w, "count", IF nDownloaded = NChunks - 1 THEN "complete"
                                                         ELSE Resting(w))
    /\ nDownloaded' = nDownloaded + 1
    /\ UNCHANGED <<state, counters, backlog, rangeStart, received, disk, item,
                   upc, cpc, fault, spent>>

\* The compare-and-swap to Completed.  From Paused and Failed the state is
\* overridden by a later plain store; from any other state nothing is done.
Complete(w) ==
    /\ \/ /\ state = "Downloading"
          /\ WorkerAt(w, "complete", "final")
          /\ state' = "Completed"
       \/ /\ state \in {"Paused", "Failed"}
          /\ WorkerAt(w, "complete", "force")
          /\ UNCHANGED state
       \/ /\ state \notin {"Downloading", "Paused", "Failed"}
          /\ WorkerAt(w, "complete", Resting(w))
          /\ UNCHANGED state
    /\ UNCHANGED <<counters, progress, disk, item, upc, cpc, fault, spent>>

ForceComplete(w) ==
    /\ WorkerAt(w, "force", "final")
    /\ state' = "Completed"
    /\ UNCHANGED <<counters, progress, disk, item, upc, cpc, fault, spent>>

FinalStore(w) ==
    /\ WorkerAt(w, "final", "cleanup")
    /\ Store
    /\ UNCHANGED <<state, counters, progress, item, upc, cpc, spent>>

FinalCleanup(w) ==
    /\ WorkerAt(w, "cleanup", Resting(w))
    /\ CleanupArtifacts(FALSE)
    /\ UNCHANGED <<state, counters, progress, item, upc, cpc, fault, spent>>

\* Fail: refused unless the job is active; otherwise the progress is stored.
Fail(w) ==
    /\ IF state \in FailFrom
       THEN /\ WorkerAt(w, "fail", "failstore")
            /\ state' = "Failed"
            /\ UNCHANGED item
       ELSE /\ WorkerAt(w, "fail", "close")
            /\ item' = [item EXCEPT ![w] = NoItem]
            /\ UNCHANGED state
    /\ UNCHANGED <<counters, progress, disk, upc, cpc, fault, spent>>

FailStore(w) ==
    /\ WorkerAt(w, "failstore", "close")
    /\ item' = [item EXCEPT ![w] = NoItem]
    /\ Store
    /\ UNCHANGED <<state, counters, progress, upc, cpc, spent>>

\* Variant (not the code): a worker that failed keeps its slot.
Close_KeepsSlot(w) ==
    /\ WorkerAt(w, "close", "leave")
    /\ scheduled' = IF state = "Failed" THEN scheduled ELSE Larger(scheduled - 1, 0)
    /\ UNCHANGED <<state, nConnections, desired, releaseBudget, queue, progress,
                   disk, item, upc, cpc, fault, spent>>

\* NotifyConnectionClose: the slot is returned (a negative count is reset to
\* 0), then the connection.  Who closes the last one of a canceled job reaps
\* its files.
Close(w) ==
    /\ WorkerAt(w, "close", "leave")
    /\ scheduled' = Larger(scheduled - 1, 0)
    /\ UNCHANGED <<state, nConnections, desired, releaseBudget, queue, progress,
                   disk, item, upc, cpc, fault, spent>>

Leave(w) ==
    /\ WorkerAt(w, "leave", IF nConnections = 1 THEN "last" ELSE "idle")
    /\ nConnections' = nConnections - 1
    /\ UNCHANGED <<state, scheduled, desired, releaseBudget, queue, progress,
                   disk, item, upc, cpc, fault, spent>>

LastLeaves(w) ==
    /\ WorkerAt(w, "last", IF state = "Canceled" THEN "reap" ELSE "idle")
    /\ UNCHANGED <<state, counters, progress, disk, item, upc, cpc, fault, spent>>

Reap(w) ==
    /\ WorkerAt(w, "reap", "idle")
    /\ CleanupArtifacts(TRUE)
    /\ UNCHANGED <<state, counters, progress, item, upc, cpc, fault, spent>>

WorkerStep(w) ==
    /\ fault = "none"
    /\ \/ Open(w) \/ Begin(w) \/ ReleaseOrTake(w) \/ TakeItem(w)
       \/ ReleaseOrCheck(w) \/ Request(w) \/ Read(w) \/ Receive(w)
       \/ Notify(w) \/ PeriodicStore(w) \/ CountChunk(w) \/ Complete(w)
       \/ ForceComplete(w) \/ FinalStore(w) \/ FinalCleanup(w)
       \/ Fail(w) \/ FailStore(w)
       \/ Close(w) \/ Leave(w) \/ LastLeaves(w) \/ Reap(w)

----------------------------------------------------------------------------
(* The application's calls.  A call SetState refuses returns at once and   *)
(* changes nothing; it is not modelled.                                    *)

Call(u, op, there) ==
    /\ op \in ClientOps
    /\ calls < MaxCalls
    /\ CallerAt(u, "idle", there)
    /\ calls' = calls + 1
    /\ UNCHANGED <<ticks, faults>>

\* Resume and Start are the same code.
Resume(u) ==
    /\ Call(u, "Resume", "drain")
    /\ state \in ResumeFrom
    /\ state' = "Queued"
    /\ UNCHANGED <<counters, progress, disk, wpc, item, cpc, fault>>

\* Variant (not the code): Resume does not wait for the previous workers.
Drained_AtOnce(u) ==
    /\ CallerAt(u, "drain", "rebuild")
    /\ releaseBudget' = 0
    /\ UNCHANGED <<state, scheduled, nConnections, desired, queue, progress,
                   disk, wpc, item, cpc, fault, spent>>

\* The loop that waits for the previous workers, and the reset of the budget.
Drained(u) ==
    /\ scheduled = 0
    /\ CallerAt(u, "drain", "rebuild")
    /\ releaseBudget' = 0
    /\ UNCHANGED <<state, scheduled, nConnections, desired, queue, progress,
                   disk, wpc, item, cpc, fault, spent>>

\* Variant (not the code): the next range starts one past the bytes received.
Rebuild_SkipsOne(u) ==
    /\ scheduled = 0 /\ Rebuilding = {u}
    /\ CallerAt(u, "rebuild", "plan")
    /\ backlog' = Chunks \ FinishedIn(received)
    /\ rangeStart' = [c \in Chunks |-> IF received[c] = 0 THEN 0
                                        ELSE received[c] + 1]
    /\ nDownloaded' = Cardinality(FinishedIn(received))
    /\ UNCHANGED <<state, counters, received, disk, wpc, item, cpc, fault, spent>>

\* Variant (not the code): the chunks already finished are not counted again.
Rebuild_Forgets(u) ==
    /\ scheduled = 0 /\ Rebuilding = {u}
    /\ CallerAt(u, "rebuild", "plan")
    /\ backlog' = Chunks \ FinishedIn(received)
    /\ rangeStart' = received
    /\ nDownloaded' = 0
    /\ UNCHANGED <<state, counters, received, disk, wpc, item, cpc, fault, spent>>

\* BuildPendingWork.  It takes no lock: a worker scheduled by now, or another
\* caller in the same code, makes it a data race.
Rebuild(u) ==
    /\ IF scheduled # 0 \/ Rebuilding # {u}
       THEN /\ CallerAt(u, "rebuild", "rebuild")
            /\ fault' = "race"
            /\ UNCHANGED progress
       ELSE /\ CallerAt(u, "rebuild", "plan")
            /\ backlog' = Chunks \ FinishedIn(received)
            /\ rangeStart' = received
            /\ nDownloaded' = Cardinality(FinishedIn(received))
            /\ UNCHANGED <<received, fault>>
    /\ UNCHANGED <<state, counters, disk, wpc, item, cpc, spent>>

\* start_download_: the state test of PlanNewWorkers, then its admission.
CallerPlan(u) ==
    /\ CallerAt(u, "plan", IF Active THEN "admit" ELSE "idle")
    /\ UNCHANGED <<state, counters, progress, disk, wpc, item, cpc, fault, spent>>

CallerAdmit(u) ==
    /\ CallerAt(u, "admit", "idle")
    /\ AdmitWorkers
    /\ UNCHANGED <<state, progress, disk, wpc, item, cpc, fault, spent>>

Pause(u) ==
    /\ Call(u, "Pause", "idle")
    /\ state \in PauseFrom
    /\ state' = "Paused"
    /\ UNCHANGED <<counters, progress, disk, wpc, item, cpc, fault>>

\* Cancel sets the state, then removes the files if no connection is open.
Cancel(u) ==
    /\ Call(u, "Cancel", "quiesce")
    /\ state \in CancelFrom
    /\ state' = "Canceled"
    /\ UNCHANGED <<counters, progress, disk, wpc, item, cpc, fault>>

\* Variant (not the code): the cleanup is left to the workers.
Quiesce_ToWorkers(u) ==
    /\ CallerAt(u, "quiesce", "idle")
    /\ UNCHANGED <<state, counters, progress, disk, wpc, item, cpc, fault, spent>>

Quiesce(u) ==
    /\ CallerAt(u, "quiesce", IF nConnections = 0 THEN "discard" ELSE "idle")
    /\ UNCHANGED <<state, counters, progress, disk, wpc, item, cpc, fault, spent>>

Discard(u) ==
    /\ CallerAt(u, "discard", "idle")
    /\ CleanupArtifacts(TRUE)
    /\ UNCHANGED <<state, counters, progress, wpc, item, cpc, fault, spent>>

IsFinished ==
    \/ nDownloaded = NChunks
    \/ state \in {"Canceled", "Paused", "Completed", "Failed"}

\* MuldDownloadManager::Terminate on this job: test, Store, Pause.
Terminate(u) ==
    /\ Call(u, "Terminate", "tstore")
    /\ ~IsFinished
    /\ UNCHANGED <<state, counters, progress, disk, wpc, item, cpc, fault>>

TerminateStore(u) ==
    /\ CallerAt(u, "tstore", "tpause")
    /\ Store
    /\ UNCHANGED <<state, counters, progress, wpc, item, cpc, spent>>

TerminatePause(u) ==
    /\ CallerAt(u, "tpause", "idle")
    /\ state' = IF state \in PauseFrom THEN "Paused" ELSE state
    /\ UNCHANGED <<counters, progress, disk, wpc, item, cpc, fault, spent>>

CallerStep(u) ==
    /\ fault = "none"
    /\ \/ Drained(u) \/ Rebuild(u) \/ CallerPlan(u) \/ CallerAdmit(u)
       \/ Quiesce(u) \/ Discard(u) \/ TerminateStore(u) \/ TerminatePause(u)

CallerBegins(u) ==
    /\ fault = "none"
    /\ Resume(u) \/ Pause(u) \/ Cancel(u) \/ Terminate(u)

----------------------------------------------------------------------------
(* ConnectionControlLoop, for this job.                                    *)

ControllerAt(here, there) == cpc = here /\ cpc' = there

\* The snapshot: jobs that are not active are left out of this tick.
Sample ==
    /\ Active
    /\ ticks < MaxTicks
    /\ ControllerAt("idle", "decide")
    /\ ticks' = ticks + 1
    /\ UNCHANGED <<state, counters, progress, disk, wpc, item, upc, fault,
                   calls, faults>>

\* SetDesiredConnections with the controller's decision, clamped to the
\* bounds; every connection less is a release some worker must make.
SetDesiredConnections ==
    /\ ControllerAt("decide", "plan")
    /\ \E d \in Decisions :
        LET clamped == Larger(1, Smaller(d, MaxConnections))
        IN  /\ desired' = clamped
            /\ releaseBudget' = releaseBudget + Larger(desired - clamped, 0)
    /\ UNCHANGED <<state, scheduled, nConnections, queue, progress, disk, wpc,
                   item, upc, fault, spent>>

ControllerPlan ==
    /\ ControllerAt("plan", IF Active THEN "admit" ELSE "idle")
    /\ UNCHANGED <<state, counters, progress, disk, wpc, item, upc, fault, spent>>

ControllerAdmit ==
    /\ ControllerAt("admit", "idle")
    /\ AdmitWorkers
    /\ UNCHANGED <<state, progress, disk, wpc, item, upc, fault, spent>>

ControllerStep ==
    /\ fault = "none"
    /\ SetDesiredConnections \/ ControllerPlan \/ ControllerAdmit

----------------------------------------------------------------------------

Next ==
    \/ \E w \in Workers : WorkerStep(w)
    \/ \E u \in Callers : CallerStep(u) \/ CallerBegins(u)
    \/ fault = "none" /\ Sample
    \/ ControllerStep

\* Threads that are inside the code keep running (http::read has an answer or
\* a dropped connection in the end).  Nobody has to call, and no tick has to
\* come.
Fairness ==
    /\ \A w \in Workers : WF_vars(WorkerStep(w))
    /\ \A u \in Callers : WF_vars(CallerStep(u))
    /\ WF_vars(ControllerStep)

Spec == Init /\ [][Next]_vars
FairSpec == Spec /\ Fairness
----------------------------------------------------------------------------
(* Properties.                                                             *)

TypeOK ==
    /\ state \in States
    /\ scheduled \in Nat /\ nConnections \in Nat /\ queue \in Nat
    /\ desired \in 1..MaxConnections
    /\ releaseBudget \in Nat
    /\ backlog \in SUBSET Chunks
    /\ rangeStart \in [Chunks -> Nat]
    /\ nDownloaded \in Nat
    /\ received \in [Chunks -> Nat]
    /\ file \in [Chunks -> SUBSET Units]
    /\ image \in {NoImage} \union [Chunks -> Nat]
    /\ writerOpen \in BOOLEAN /\ outputFile \in BOOLEAN
    /\ wpc \in [Workers -> WorkerSteps]
    /\ item \in [Workers -> Items]
    /\ upc \in [Callers -> CallerSteps]
    /\ cpc \in ControllerSteps
    /\ fault \in {"none", "null", "race"}
    /\ calls \in Nat /\ ticks \in Nat /\ faults \in Nat

\* Workers that hold a slot of scheduledConnections_, and open connections.
SlotHolders == {w \in Workers : wpc[w] \notin {"idle", "leave", "last", "reap"}}
Connected == {w \in Workers : wpc[w] \notin {"idle", "last", "reap"}}

\* scheduledConnections_ is exactly the tasks in the pool's queue plus the
\* workers that have not given their slot back, nConnections_ is exactly the
\* connections that are open, and no interleaving of PlanNewWorkers (run by
\* the controller and by callers) with NotifyConnectionClose grants more slots
\* than maxConnections_.  Resume's drain loop and Cancel rest on it.
ConnectionAccounting ==
    /\ scheduled = queue + Cardinality(SlotHolders)
    /\ nConnections = Cardinality(Connected)
    /\ scheduled <= MaxConnections

\* No two workers ever write the same chunk, and a chunk that is being written
\* is not waiting in pendingWork_ for someone else: what GetNextWorkItem and
\* the drain loop of Resume are there for.
ExclusiveAssignment ==
    \A w \in Workers : item[w].chunk # 0 =>
        /\ item[w].chunk \notin backlog
        /\ \A v \in Workers \ {w} : item[v].chunk # item[w].chunk

\* Every byte below a chunk's received count is the server's and is on disk,
\* and so is every byte below a count in the .muld file: data is written before
\* it is counted, and counted before it is stored.  A Resume, or a Load after a
\* crash, that starts from those counts skips nothing.
ResumePointSound ==
    \A c \in Chunks : \A k \in Units :
        /\ k < received[c] => k \in file[c]
        /\ image # NoImage /\ k < image[c] => k \in file[c]

\* Workers that completed their chunk's bytes and have yet to count the chunk.
Uncounted == {w \in Workers :
                /\ wpc[w] \in {"store", "count"}
                /\ item[w].chunk \in FinishedIn(received)}

\* nDownloadedChunks_ is the number of finished chunks, up to the workers that
\* are between the last byte of a chunk and its fetch_add: a chunk is never
\* counted twice, across any number of pauses, failures and rebuilds.
CompletionCountExact ==
    nDownloaded + Cardinality(Uncounted) = Cardinality(FinishedIn(received))

\* While the job is Downloading and no Resume is rebuilding the list, a chunk
\* that is not finished is in the list or in the hands of a worker that will
\* not leave before it is finished ("Keep downloading until this chunk is
\* perfectly finished").
WorkConserved ==
    (state = "Downloading" /\ \A u \in Callers : upc[u] \notin {"drain", "rebuild"})
    => Chunks \ FinishedIn(received) \subseteq
         backlog \union {item[w].chunk : w \in Workers}

\* Cancel and the last NotifyConnectionClose each test what the other wrote:
\* whatever their order, when both are over somebody removed the files.
CanceledIsReaped ==
    /\ state = "Canceled"
    /\ \A w \in Workers : wpc[w] = "idle"
    /\ \A u \in Callers : upc[u] \notin {"quiesce", "discard"}
    => ~outputFile /\ image = NoImage /\ ~writerOpen

\* A completed job is never written or stored again: if writer_ is used after
\* its reset, the reset was that of a Cancel, which removes the output file.
WriterOutlivesCompletion == fault = "null" => ~outputFile

\* Resume rebuilds pendingWork_ only when no worker of before can touch it ("Wait
\* for previous worker generation to fully drain").  That is what the drain loop
\* gives to a single caller; a tick of the controller may schedule a new worker
\* between the loop and the rebuild.
RebuildAfterDrain == ticks = 0 => fault # "race"

\* What a job that reports Completed wrote is the server's file, whatever
\* pauses, failures and resumes came before ("reliable, resumable HTTP/HTTPS
\* file downloads").
CompletedFileIntact ==
    state = "Completed" => \A c \in Chunks : file[c] = Units

\* The job follows the lifecycle of DownloadJob.
Job == INSTANCE DownloadJob WITH
           Chunk <- Chunks, phase <- state, fetched <- FinishedIn(received)
JobRefinement == Job!Spec

\* A job that was started or resumed ends, or is stopped by its user.
Settled == state \in {"Completed", "Failed", "Paused", "Canceled"}
EventuallySettles == Active ~> (Settled \/ fault # "none")

\* Resume's wait for the previous workers ends.
DrainTerminates ==
    \A u \in Callers : upc[u] = "drain" ~> (upc[u] # "drain" \/ fault # "none")

=============================================================================
