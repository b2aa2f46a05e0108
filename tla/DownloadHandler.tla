-------------------------- MODULE DownloadHandler --------------------------
(***************************************************************************)
(* The DownloadHandler an application holds, before and after the          *)
(* dispatcher gives it an engine, and a thread in WaitUntilFinished.       *)
(*                                                                         *)
(* The engine is reduced to its state, which the threads change through    *)
(* SetState, and to the callbacks AttachEngine installed: whoever changed  *)
(* the state reports it afterwards, without a lock, so reports may arrive  *)
(* late and in another order.  DownloadEngine has the rest of the engine.  *)
(* A region under mtx is one step; the two loads AttachEngine makes before *)
(* it are another.  The application's own callbacks do nothing here.       *)
(***************************************************************************)
EXTENDS Integers, FiniteSets

CONSTANTS
    Workers,     \* pool threads that may work on this job
    Callers,     \* application threads that use the handler
    Dispatcher,  \* the thread of DownloadDispatcherLoop
    Limits,      \* speed limits the application may set
    ClientOps,   \* the requests the application makes
    MaxCalls     \* bound: requests made by all the callers

Threads == Workers \union Callers \union {Dispatcher}

ASSUME ThreadsAssumption ==
    /\ Workers \intersect Callers = {}
    /\ Dispatcher \notin Workers \union Callers

ASSUME ClientAssumption ==
    /\ Limits # {}
    /\ ClientOps \subseteq {"Queued", "Paused", "Canceled", "SetSpeedLimit"}
    /\ MaxCalls \in Nat

VARIABLES
    engine,      \* state_ of the engine, "none" before it is published
    handler,     \* shared_->state
    wanted,      \* shared_->desired_state
    error,       \* shared_->error holds an error
    limit,       \* shared_->desired_speed_limit_bps
    engineLimit, \* speedLimitBps_ of the engine
    finished,    \* nDownloadedChunks_ = nChunks_
    dispatcher,  \* where the dispatcher is with this request
    seen,        \* what AttachEngine read: the wanted state and the limit
    request,     \* the request a caller still has to pass to the engine
    inside,      \* the workers that have a connection of this job
    report,      \* what each thread still has to do after its change of state
    waiter,      \* where the thread in WaitUntilFinished is
    missed,      \* history: the wishes last made inside AttachEngine
    calls

wishes == <<wanted, limit>>
handlerVars == <<handler, wanted, error, limit>>
engineVars == <<engine, engineLimit, finished>>
attachment == <<dispatcher, seen>>
clients == <<request, missed, calls>>
vars == <<handlerVars, engineVars, attachment, clients, inside, report, waiter>>

JobStates == {"Initialized", "Queued", "Downloading", "Paused", "Completed",
              "Canceled", "Failed"}
Terminal == {"Completed", "Failed", "Canceled", "Paused"}
Attached == engine # "none"

\* What a caller has on its stack between the lock and the call of the engine.
NoRequest == [op |-> "none"]
Requests == [op : {"none", "Queued", "Paused", "Canceled"}]
              \union [op : {"SetSpeedLimit"}, limit : Limits]

\* SetState: the states a target may be reached from.
From(target) ==
    CASE target = "Queued"      -> {"Initialized", "Paused", "Canceled", "Failed"}
      [] target = "Downloading" -> {"Queued"}
      [] target = "Paused"      -> {"Downloading", "Queued"}
      [] target = "Canceled"    -> {"Downloading", "Queued", "Paused", "Failed"}
      [] target = "Failed"      -> {"Downloading", "Queued"}

\* Download asks for the start before it queues the request, Load does not.
Init ==
    /\ engine = "none"
    /\ handler \in {"Queued", "Initialized"}
    /\ wanted = handler
    /\ error = FALSE
    /\ limit \in Limits
    /\ engineLimit = limit
    /\ finished = FALSE
    /\ dispatcher = "fetch"
    /\ seen = [state |-> "Initialized", limit |-> limit]
    /\ request = [c \in Callers |-> NoRequest]
    /\ inside = {}
    /\ report = [t \in Threads |-> "none"]
    /\ waiter = "out"
    /\ missed = {}
    /\ calls = 0

----------------------------------------------------------------------------
(* Changes of state and their reports.                                     *)

\* SetState(target) on thread t; the thread reports what it changed.
SetState(t, target) ==
    /\ engine \in From(target)
    /\ engine' = target
    /\ report' = [report EXCEPT ![t] = target]

Refused(target) == engine \notin From(target) /\ UNCHANGED <<engine, report>>

\* notify_all on the handler's wait_cv, and on the engine's.
WakeHandlerWaiters ==
    waiter' = IF waiter = "asleep" THEN "enter" ELSE waiter
WakeEngineWaiters ==
    waiter' = IF waiter = "asleep in engine" THEN "in engine" ELSE waiter

\* Variant (not the code): the state callback wakes nobody.
ReportState_Silent(t) ==
    /\ report[t] \in JobStates
    /\ handler' = report[t]
    /\ report' = [report EXCEPT ![t] = IF @ = "Failed" THEN "error" ELSE "none"]
    /\ UNCHANGED <<engineVars, wishes, error, attachment, clients, inside,
                   waiter>>

\* on_state_change, or on_finish for Completed: the handler takes over the
\* state and wakes its waiters if it is a terminal one.
ReportState(t) ==
    /\ report[t] \in JobStates
    /\ handler' = report[t]
    /\ IF report[t] \in Terminal THEN WakeHandlerWaiters ELSE UNCHANGED waiter
    /\ report' = [report EXCEPT ![t] =
                    CASE @ = "Failed" -> "wake, then error"
                      [] @ \in {"Paused", "Canceled", "Completed"} -> "wake"
                      [] OTHER -> "none"]
    /\ UNCHANGED <<engineVars, wishes, error, attachment, clients, inside>>

\* Variant (not the code): Fail ends with its notify_all.
WakeWaiters_Last(t) ==
    /\ report[t] \in {"wake", "wake, then error"}
    /\ WakeEngineWaiters
    /\ report' = [report EXCEPT ![t] = "none"]
    /\ UNCHANGED <<engineVars, handlerVars, attachment, clients, inside>>

\* The notify_all at the end of Pause, Cancel, the completion and Fail, which
\* goes on with its error.
WakeWaiters(t) ==
    /\ report[t] \in {"wake", "wake, then error"}
    /\ WakeEngineWaiters
    /\ report' = [report EXCEPT ![t] = IF @ = "wake" THEN "none" ELSE "error"]
    /\ UNCHANGED <<engineVars, handlerVars, attachment, clients, inside>>

\* on_error.
ReportError(t) ==
    /\ report[t] = "error"
    /\ error' = TRUE
    /\ handler' = "Failed"
    /\ WakeHandlerWaiters
    /\ report' = [report EXCEPT ![t] = "none"]
    /\ UNCHANGED <<engineVars, wishes, attachment, clients, inside>>

----------------------------------------------------------------------------
(* The dispatcher.                                                         *)

\* FailBeforeEngineStart.
FailBeforeEngineStart ==
    /\ dispatcher = "fetch"
    /\ dispatcher' = "done"
    /\ error' = TRUE
    /\ handler' = "Failed" /\ wanted' = "Failed"
    /\ WakeHandlerWaiters
    /\ UNCHANGED <<engineVars, limit, seen, clients, inside, report>>

\* AttachEngine: the wishes are read ...
ReadWishes ==
    /\ dispatcher = "fetch"
    /\ dispatcher' = "publish"
    /\ seen' = [state |-> wanted, limit |-> limit]
    /\ UNCHANGED <<engineVars, handlerVars, clients, inside, report, waiter>>

\* Variant (not the code): the engine keeps the limit it was made with.
Publish_NoLimit ==
    /\ dispatcher = "publish"
    /\ dispatcher' = "apply"
    /\ engine' = "Initialized"
    /\ UNCHANGED <<handlerVars, engineLimit, finished, seen, clients, inside,
                   report, waiter>>

\* ... then the engine is published with the limit that was read (nobody who
\* waits for the engine is woken) ...
Publish ==
    /\ dispatcher = "publish"
    /\ dispatcher' = "apply"
    /\ engine' = "Initialized"
    /\ engineLimit' = seen.limit
    /\ UNCHANGED <<handlerVars, finished, seen, clients, inside, report,
                   waiter>>

\* ... and then it is given the wanted state that was read.
ApplyWish ==
    /\ dispatcher = "apply"
    /\ dispatcher' = "done"
    /\ IF seen.state \in {"Canceled", "Paused", "Queued"}
       THEN SetState(Dispatcher, seen.state) \/ Refused(seen.state)
       ELSE UNCHANGED <<engine, report>>
    /\ UNCHANGED <<handlerVars, engineLimit, finished, seen, clients, inside,
                   waiter>>

DispatcherStep == FailBeforeEngineStart \/ ReadWishes \/ Publish \/ ApplyWish

----------------------------------------------------------------------------
(* The application's calls.                                                *)

Attaching == dispatcher \in {"publish", "apply"}

MayCall(c, op) ==
    /\ op \in ClientOps
    /\ request[c] = NoRequest /\ report[c] = "none"
    /\ calls < MaxCalls
    /\ calls' = calls + 1

\* A request for a wish is noted in the history if it falls into AttachEngine.
Note(wish) ==
    missed' = IF Attaching THEN missed \union {wish} ELSE missed \ {wish}

\* Variant (not the code): without an engine the wish is not recorded.
Ask_Forgets(c, target) ==
    /\ MayCall(c, target) /\ Note("state")
    /\ IF Attached
       THEN /\ wanted' = target
            /\ request' = [request EXCEPT ![c] = [op |-> target]]
            /\ UNCHANGED <<handler, waiter>>
       ELSE /\ handler' = target
            /\ IF target = "Canceled" THEN WakeHandlerWaiters ELSE UNCHANGED waiter
            /\ UNCHANGED <<wanted, request>>
    /\ UNCHANGED <<engineVars, error, limit, attachment, inside, report>>

\* Variant (not the code): the engine is called whether it is there or not.
Ask_Unchecked(c, target) ==
    /\ MayCall(c, target) /\ Note("state")
    /\ wanted' = target
    /\ request' = [request EXCEPT ![c] = [op |-> target]]
    /\ UNCHANGED <<engineVars, handler, error, limit, attachment, inside,
                   report, waiter>>

\* Pause, Resume (target Queued) and Cancel of the handler: the part under the
\* lock.  Without an engine the call ends here, and only Cancel wakes waiters.
Ask(c, target) ==
    /\ MayCall(c, target) /\ Note("state")
    /\ wanted' = target
    /\ IF Attached
       THEN /\ request' = [request EXCEPT ![c] = [op |-> target]]
            /\ UNCHANGED <<handler, waiter>>
       ELSE /\ handler' = target
            /\ IF target = "Canceled" THEN WakeHandlerWaiters ELSE UNCHANGED waiter
            /\ UNCHANGED request
    /\ UNCHANGED <<engineVars, error, limit, attachment, inside, report>>

\* The call of the engine after the lock was released.
Pass(c) ==
    /\ request[c].op \in {"Queued", "Paused", "Canceled"}
    /\ SetState(c, request[c].op) \/ Refused(request[c].op)
    /\ request' = [request EXCEPT ![c] = NoRequest]
    /\ UNCHANGED <<handlerVars, engineLimit, finished, attachment, inside,
                   waiter, missed, calls>>

SetSpeedLimit(c) ==
    /\ MayCall(c, "SetSpeedLimit") /\ Note("limit")
    /\ limit' \in Limits
    /\ request' = [request EXCEPT ![c] =
                     IF Attached THEN [op |-> "SetSpeedLimit", limit |-> limit']
                     ELSE NoRequest]
    /\ UNCHANGED <<engineVars, handler, wanted, error, attachment, inside,
                   report, waiter>>

PassLimit(c) ==
    /\ request[c].op = "SetSpeedLimit"
    /\ engineLimit' = request[c].limit
    /\ request' = [request EXCEPT ![c] = NoRequest]
    /\ UNCHANGED <<engine, handlerVars, finished, attachment, inside, report,
                   waiter, missed, calls>>

----------------------------------------------------------------------------
(* The workers, as far as they change the state.                           *)

Rested(w) == report[w] = "none"

\* NotifyConnectionOpen, of a task scheduled since the first start.
EnterWorker(w) ==
    /\ Rested(w) /\ w \notin inside
    /\ engine \notin {"none", "Initialized"}
    /\ inside' = inside \union {w}
    /\ SetState(w, "Downloading") \/ Refused("Downloading")
    /\ UNCHANGED <<handlerVars, engineLimit, finished, attachment, clients,
                   waiter>>

\* The last chunk of the job: from Downloading by compare-and-swap; over Paused
\* or Failed by a store that follows the test; nothing in the other states.
Finish(w) ==
    /\ Rested(w) /\ w \in inside
    /\ ~finished /\ finished' = TRUE
    /\ CASE engine = "Downloading"
              -> /\ engine' = "Completed"
                 /\ report' = [report EXCEPT ![w] = "Completed"]
         [] engine \in {"Paused", "Failed"}
              -> /\ report' = [report EXCEPT ![w] = "force"]
                 /\ UNCHANGED engine
         [] OTHER -> UNCHANGED <<engine, report>>
    /\ UNCHANGED <<handlerVars, engineLimit, attachment, clients, inside,
                   waiter>>

ForceFinish(w) ==
    /\ report[w] = "force"
    /\ engine' = "Completed"
    /\ report' = [report EXCEPT ![w] = "Completed"]
    /\ UNCHANGED <<handlerVars, engineLimit, finished, attachment, clients,
                   inside, waiter>>

FailWorker(w) ==
    /\ Rested(w) /\ w \in inside
    /\ SetState(w, "Failed")
    /\ UNCHANGED <<handlerVars, engineLimit, finished, attachment, clients,
                   inside, waiter>>

\* NotifyConnectionClose: the last one of a canceled job wakes the waiters again.
LeaveWorker(w) ==
    /\ Rested(w) /\ w \in inside
    /\ inside' = inside \ {w}
    /\ IF inside' = {} /\ engine = "Canceled" THEN WakeEngineWaiters ELSE UNCHANGED waiter
    /\ UNCHANGED <<engineVars, handlerVars, attachment, clients, report>>

WorkerStep(w) ==
    EnterWorker(w) \/ Finish(w) \/ ForceFinish(w) \/ FailWorker(w) \/ LeaveWorker(w)

----------------------------------------------------------------------------
(* WaitUntilFinished of the handler, then of its engine.                   *)

CallWait ==
    /\ waiter = "out"
    /\ waiter' = "enter"
    /\ UNCHANGED <<engineVars, handlerVars, attachment, clients, inside,
                   report>>

WaitForEngine ==
    /\ waiter = "enter"
    /\ waiter' = IF Attached THEN "in engine"
                 ELSE IF handler \in Terminal THEN "returned" ELSE "asleep"
    /\ UNCHANGED <<engineVars, handlerVars, attachment, clients, inside,
                   report>>

IsFinished == finished \/ engine \in Terminal

WaitInEngine ==
    /\ waiter = "in engine"
    /\ waiter' = IF IsFinished THEN "returned" ELSE "asleep in engine"
    /\ UNCHANGED <<engineVars, handlerVars, attachment, clients, inside,
                   report>>

----------------------------------------------------------------------------

ThreadStep(t) == ReportState(t) \/ WakeWaiters(t) \/ ReportError(t)

Next ==
    \/ \E t \in Threads : ThreadStep(t)
    \/ DispatcherStep
    \/ \E c \in Callers, op \in {"Queued", "Paused", "Canceled"} : Ask(c, op)
    \/ \E c \in Callers : SetSpeedLimit(c) \/ Pass(c) \/ PassLimit(c)
    \/ \E w \in Workers : WorkerStep(w)
    \/ CallWait \/ WaitForEngine \/ WaitInEngine

Spec == Init /\ [][Next]_vars

\* Threads that are inside the code keep running; nobody has to call, and the
\* download need not end.
Fairness ==
    /\ \A t \in Threads : WF_vars(ThreadStep(t))
    /\ WF_vars(DispatcherStep)
    /\ \A c \in Callers : WF_vars(Pass(c) \/ PassLimit(c))
    /\ \A w \in Workers : WF_vars(ForceFinish(w))
    /\ WF_vars(WaitForEngine \/ WaitInEngine)

FairSpec == Spec /\ Fairness

----------------------------------------------------------------------------
(* Properties.                                                             *)

\* Types; and who is about to call the engine holds one.
TypeOK ==
    /\ engine \in JobStates \union {"none"}
    /\ handler \in JobStates /\ wanted \in JobStates
    /\ error \in BOOLEAN
    /\ limit \in Limits /\ engineLimit \in Limits /\ finished \in BOOLEAN
    /\ dispatcher \in {"fetch", "publish", "apply", "done"}
    /\ seen \in [state : JobStates, limit : Limits]
    /\ request \in [Callers -> Requests]
    /\ inside \subseteq Workers
    /\ report \in [Threads -> JobStates \union
                     {"none", "wake", "wake, then error", "error", "force"}]
    /\ waiter \in {"out", "enter", "asleep", "in engine", "asleep in engine",
                   "returned"}
    /\ missed \subseteq {"state", "limit"}
    /\ calls \in 0..MaxCalls
    /\ ~Attached => inside = {} /\ \A c \in Callers : request[c] = NoRequest

\* No call, attachment or report is under way.
Quiet ==
    /\ ~Attaching
    /\ \A c \in Callers : request[c] = NoRequest
    /\ \A t \in Threads : report[t] = "none"

\* Once nothing is under way, an engine does what the application asked for
\* last, and runs at the speed it asked for last: it was started if it was to be
\* started or resumed, and is not active if it was to be paused or canceled.  The
\* last request came before the dispatcher entered AttachEngine, or after it left;
\* others may have fallen into AttachEngine before.  A last request inside it may
\* be lost (missed).  (One thread makes the requests: of two, either may be the
\* last.)
RequestTakesEffect ==
    Quiet /\ Attached =>
        /\ "state" \notin missed =>
               /\ wanted = "Queued" => engine # "Initialized"
               /\ wanted \in {"Paused", "Canceled"} =>
                      engine \notin {"Queued", "Downloading"}
        /\ "limit" \notin missed => engineLimit = limit

\* A failure, before or after the start, always reaches HasError and is not
\* lost to a report that comes later.
FailureIsReported ==
    Quiet /\ (engine = "Failed" \/ (~Attached /\ dispatcher = "done")) => error

\* WaitUntilFinished returns once the job is over for good, whether the thread
\* went to sleep before or after the engine was attached.
Over == IF Attached THEN engine \in Terminal ELSE handler \in {"Failed", "Canceled"}
WaitReturns ==
    <>[]Over => <>[](waiter \in {"out", "returned"})
=============================================================================
