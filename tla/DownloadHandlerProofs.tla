----------------------- MODULE DownloadHandlerProofs -----------------------
(***************************************************************************)
(* What DownloadHandler promises, for any pool, any callers and limits:    *)
(* types, that a failure is always reported and, for one caller, that its  *)
(* last request outside AttachEngine takes effect.                         *)
(***************************************************************************)
EXTENDS DownloadHandler, TLAPS

Reports == JobStates \union {"none", "wake", "wake, then error", "error", "force"}

\* The engine is there from Publish on, and nobody works for it before.
Published ==
    /\ dispatcher = "apply" => Attached
    /\ ~Attached => /\ inside = {} /\ \A c \in Callers : request[c] = NoRequest
                    /\ \A t \in Threads : report[t] = "none"

\* Who is about to change the state has nothing left to report.
Free ==
    /\ \A c \in Callers : request[c] # NoRequest => report[c] = "none"
    /\ dispatcher # "done" => report[Dispatcher] = "none"

HandlerInv == TypeOK /\ Published /\ Free

----------------------------------------------------------------------------
(* Types.                                                                  *)

LEMMA Members ==
    /\ Dispatcher \in Threads /\ Workers \subseteq Threads /\ Callers \subseteq Threads
    /\ Dispatcher \notin Workers /\ Dispatcher \notin Callers
    /\ Workers \intersect Callers = {}
BY ThreadsAssumption DEF Threads

LEMMA HandlerInit == Init => HandlerInv
<1> SUFFICES ASSUME Init PROVE HandlerInv
    OBVIOUS
<1>1. NoRequest \in Requests
    BY DEF NoRequest, Requests
<1>2. TypeOK
  <2>1. seen \in [state : JobStates, limit : Limits]
      BY DEF Init, JobStates
  <2>2. request \in [Callers -> Requests] /\ report \in [Threads -> Reports]
      BY <1>1 DEF Init, Reports
  <2>3. calls \in 0..MaxCalls
      BY ClientAssumption DEF Init
  <2>4. handler \in JobStates /\ ~Attached /\ \A c \in Callers : request[c] = NoRequest
      BY DEF Init, JobStates, Attached
  <2> QED BY <2>1, <2>2, <2>3, <2>4 DEF Init, TypeOK, Reports
<1>3. Published /\ Free
    BY DEF Init, Published, Free, Attached, Threads
<1> QED BY <1>2, <1>3 DEF HandlerInv

\* A thread that has nothing to report changes the state, or finds it refused.
LEMMA StateChange ==
    ASSUME HandlerInv, NEW t \in Threads, NEW target \in JobStates \ {"Initialized", "Completed"},
           SetState(t, target) \/ Refused(target)
    PROVE  /\ engine' \in JobStates \union {"none"} /\ report' \in [Threads -> Reports]
           /\ Attached' <=> Attached
           /\ \A u \in Threads \ {t} : report'[u] = report[u]
           /\ engine' # engine => Attached /\ engine' = target /\ report'[t] = target
BY DEF HandlerInv, TypeOK, SetState, Refused, Attached, Reports, JobStates, From

LEMMA ReportStep ==
    ASSUME HandlerInv, NEW t \in Threads, ThreadStep(t)
    PROVE  HandlerInv'
<1>0. TypeOK /\ Published /\ Free
    BY DEF HandlerInv
<1>1. CASE ReportState(t)
  <2>1. report' \in [Threads -> Reports] /\ \A u \in Threads : report[u] = "none" => report'[u] = "none"
      BY <1>0, <1>1 DEF TypeOK, ReportState, Reports, JobStates
  <2>2. /\ UNCHANGED <<engine, engineLimit, finished, wanted, limit, error, dispatcher, seen,
                       request, missed, calls, inside>>
        /\ handler' \in JobStates
      BY <1>1 DEF ReportState, engineVars, wishes, attachment, clients
  <2>3. waiter' \in {waiter, "enter"}
      BY <1>1 DEF ReportState, WakeHandlerWaiters
  <2>4. TypeOK'
      BY <1>0, <2>1, <2>2, <2>3 DEF TypeOK, Reports, Attached
  <2> QED BY <1>0, <2>1, <2>2, <2>4, Members DEF HandlerInv, Published, Free, Attached
<1>2. CASE WakeWaiters(t)
  <2>1. report' \in [Threads -> Reports] /\ \A u \in Threads : report[u] = "none" => report'[u] = "none"
      BY <1>0, <1>2 DEF TypeOK, WakeWaiters, Reports
  <2>2. UNCHANGED <<engine, engineLimit, finished, handler, wanted, limit, error, dispatcher,
                    seen, request, missed, calls, inside>>
      BY <1>2 DEF WakeWaiters, engineVars, handlerVars, attachment, clients
  <2>3. waiter' \in {waiter, "in engine"}
      BY <1>2 DEF WakeWaiters, WakeEngineWaiters
  <2>4. TypeOK'
      BY <1>0, <2>1, <2>2, <2>3 DEF TypeOK, Reports, Attached
  <2> QED BY <1>0, <2>1, <2>2, <2>4, Members DEF HandlerInv, Published, Free, Attached
<1>3. CASE ReportError(t)
  <2>1. report' \in [Threads -> Reports] /\ \A u \in Threads : report[u] = "none" => report'[u] = "none"
      BY <1>0, <1>3 DEF TypeOK, ReportError, Reports
  <2>2. /\ UNCHANGED <<engine, engineLimit, finished, wanted, limit, dispatcher,
                       seen, request, missed, calls, inside>>
        /\ error' = TRUE /\ handler' = "Failed"
      BY <1>3 DEF ReportError, engineVars, wishes, attachment, clients
  <2>3. waiter' \in {waiter, "enter"}
      BY <1>3 DEF ReportError, WakeHandlerWaiters
  <2>4. error' \in BOOLEAN /\ handler' \in JobStates /\ (Attached' <=> Attached)
      BY <2>2 DEF JobStates, Attached
  <2>5. TypeOK'
      BY <1>0, <2>1, <2>2, <2>3, <2>4 DEF TypeOK, Reports
  <2> QED BY <1>0, <2>1, <2>2, <2>5, Members DEF HandlerInv, Published, Free, Attached
<1> QED BY <1>1, <1>2, <1>3 DEF ThreadStep

LEMMA DispatcherKeeps == HandlerInv /\ DispatcherStep => HandlerInv'
<1> SUFFICES ASSUME HandlerInv, DispatcherStep PROVE HandlerInv'
    OBVIOUS
<1>0. TypeOK /\ Published /\ Free
    BY DEF HandlerInv
<1>1. CASE FailBeforeEngineStart
  <2>1. waiter' \in {waiter, "enter"}
      BY <1>1 DEF FailBeforeEngineStart, WakeHandlerWaiters
  <2>2. /\ UNCHANGED <<engine, engineLimit, finished, limit, seen, request, missed, calls, inside,
                       report>>
        /\ dispatcher' = "done" /\ error' = TRUE /\ handler' = "Failed" /\ wanted' = "Failed"
      BY <1>1 DEF FailBeforeEngineStart, engineVars, clients
  <2>3. Attached' <=> Attached
      BY <2>2 DEF Attached
  <2>4. TypeOK'
      BY <1>0, <2>1, <2>2, <2>3 DEF TypeOK, JobStates
  <2> QED BY <1>0, <2>2, <2>3, <2>4 DEF HandlerInv, Published, Free
<1>2. CASE ReadWishes
    BY <1>0, <1>2 DEF ReadWishes, engineVars, handlerVars, wishes, clients, HandlerInv, TypeOK,
                      Published, Free, Attached
<1>3. CASE Publish
  <2>1. UNCHANGED <<handler, wanted, error, limit, finished, seen, request, missed, calls, inside,
                    report, waiter>>
      BY <1>3 DEF Publish, handlerVars, wishes, clients
  <2>2. dispatcher = "publish" /\ dispatcher' = "apply" /\ engine' = "Initialized"
        /\ engineLimit' = seen.limit
      BY <1>3 DEF Publish
  <2>3. Attached'
      BY <2>2 DEF Attached
  <2>4. seen.limit \in Limits
      BY <1>0 DEF TypeOK
  <2>5. error' \in BOOLEAN /\ finished' \in BOOLEAN
      BY <1>0, <2>1 DEF TypeOK
  <2>6. /\ engine' \in JobStates \union {"none"} /\ engineLimit' \in Limits
        /\ dispatcher' \in {"fetch", "publish", "apply", "done"}
      BY <2>2, <2>4 DEF JobStates
  <2>7. TypeOK'
      BY <1>0, <2>1, <2>3, <2>5, <2>6 DEF TypeOK
  <2> QED BY <1>0, <2>1, <2>2, <2>3, <2>7 DEF HandlerInv, Published, Free
<1>4. CASE ApplyWish
  <2>1. UNCHANGED <<handler, wanted, error, limit, engineLimit, finished, seen, request, missed, calls,
                    inside, waiter>>
      BY <1>4 DEF ApplyWish, handlerVars, wishes, clients
  <2>2. /\ engine' \in JobStates \union {"none"} /\ report' \in [Threads -> Reports]
        /\ Attached' <=> Attached
        /\ \A u \in Threads \ {Dispatcher} : report'[u] = report[u]
    <3>1. CASE UNCHANGED <<engine, report>>
      <4>1. Attached' <=> Attached
          BY <3>1 DEF Attached
      <4> QED BY <1>0, <3>1, <4>1 DEF TypeOK, Reports
    <3>2. CASE /\ seen.state \in {"Canceled", "Paused", "Queued"}
               /\ SetState(Dispatcher, seen.state) \/ Refused(seen.state)
      <4>1. seen.state \in JobStates \ {"Initialized", "Completed"}
          BY <3>2 DEF JobStates
      <4> QED BY <3>2, <4>1, StateChange, Members
    <3> QED BY <1>4, <3>1, <3>2 DEF ApplyWish
  <2>3. dispatcher' = "done"
      BY <1>4 DEF ApplyWish
  <2>4. TypeOK'
      BY <1>0, <2>1, <2>2, <2>3 DEF TypeOK, Reports, Attached
  <2>5. Attached
      BY <1>0, <1>4 DEF ApplyWish, Published
  <2> QED BY <1>0, <2>1, <2>2, <2>3, <2>4, <2>5, Members DEF HandlerInv, Published, Free
<1> QED BY <1>1, <1>2, <1>3, <1>4 DEF DispatcherStep

LEMMA CallerKeeps ==
    ASSUME HandlerInv, NEW c \in Callers,
           \/ \E op \in {"Queued", "Paused", "Canceled"} : Ask(c, op)
           \/ SetSpeedLimit(c) \/ Pass(c) \/ PassLimit(c)
    PROVE  HandlerInv'
<1>0. TypeOK /\ Published /\ Free
    BY DEF HandlerInv
<1>1. ASSUME NEW op, MayCall(c, op)
      PROVE  calls' \in 0..MaxCalls /\ request[c] = NoRequest /\ report[c] = "none"
  <2>1. calls < MaxCalls /\ calls' = calls + 1 /\ request[c] = NoRequest /\ report[c] = "none"
      BY <1>1 DEF MayCall
  <2>2. calls \in 0..MaxCalls /\ MaxCalls \in Nat
      BY <1>0, ClientAssumption DEF TypeOK
  <2> QED BY <2>1, <2>2
<1>2. NoRequest \in Requests
    BY DEF NoRequest, Requests
<1>noted. ASSUME NEW wish \in {"state", "limit"}, Note(wish)
      PROVE  missed' \subseteq {"state", "limit"}
    BY <1>0, <1>noted DEF Note, TypeOK
<1>3. CASE \E op \in {"Queued", "Paused", "Canceled"} : Ask(c, op)
  <2>1. PICK op \in {"Queued", "Paused", "Canceled"} : Ask(c, op)
      BY <1>3
  <2>2. MayCall(c, op) /\ wanted' = op
        /\ UNCHANGED <<engine, engineLimit, finished, error, limit, dispatcher, seen, inside,
                       report>>
      BY <2>1 DEF Ask, engineVars, attachment
  <2>3. handler' \in {handler, op} /\ waiter' \in {waiter, "enter"}
      BY <2>1 DEF Ask, WakeHandlerWaiters
  <2>4. \/ Attached /\ request' = [request EXCEPT ![c] = [op |-> op]]
        \/ request' = request
      BY <2>1 DEF Ask
  <2>5. [op |-> op] \in Requests
      BY <2>1 DEF Requests
  <2>6. /\ request' \in [Callers -> Requests]
        /\ \A d \in Callers : request'[d] # NoRequest => request[d] # NoRequest \/ d = c
        /\ (~Attached => request' = request)
      BY <1>0, <2>4, <2>5 DEF TypeOK
  <2>7. op \in JobStates
      BY <2>1 DEF JobStates
  <2>8. Attached' <=> Attached
      BY <2>2 DEF Attached
  <2>9. missed' \subseteq {"state", "limit"}
      BY <1>noted, <2>1 DEF Ask
  <2>10. TypeOK'
      BY <1>0, <1>1, <2>2, <2>3, <2>6, <2>7, <2>8, <2>9 DEF TypeOK
  <2> QED BY <1>0, <1>1, <2>2, <2>6, <2>8, <2>10 DEF HandlerInv, Published, Free
<1>4. CASE SetSpeedLimit(c)
  <2>1. /\ MayCall(c, "SetSpeedLimit") /\ limit' \in Limits
        /\ request' = [request EXCEPT ![c] =
                         IF Attached THEN [op |-> "SetSpeedLimit", limit |-> limit']
                         ELSE NoRequest]
        /\ UNCHANGED <<engine, engineLimit, finished, handler, wanted, error, dispatcher, seen,
                       inside, report, waiter>>
      BY <1>4 DEF SetSpeedLimit, engineVars, attachment
  <2>2. [op |-> "SetSpeedLimit", limit |-> limit'] \in Requests
      BY <2>1 DEF Requests
  <2>3. /\ request' \in [Callers -> Requests]
        /\ \A d \in Callers : request'[d] # NoRequest => request[d] # NoRequest \/ d = c
        /\ (~Attached => \A d \in Callers : request'[d] = request[d])
      BY <1>0, <1>1, <1>2, <2>1, <2>2 DEF TypeOK
  <2>4. Attached' <=> Attached
      BY <2>1 DEF Attached
  <2>5. missed' \subseteq {"state", "limit"}
      BY <1>4, <1>noted DEF SetSpeedLimit
  <2>6. TypeOK'
      BY <1>0, <1>1, <2>1, <2>3, <2>4, <2>5 DEF TypeOK
  <2> QED BY <1>0, <1>1, <2>1, <2>3, <2>4, <2>6 DEF HandlerInv, Published, Free
<1>5. CASE Pass(c)
  <2>1. /\ request[c].op \in {"Queued", "Paused", "Canceled"}
        /\ SetState(c, request[c].op) \/ Refused(request[c].op)
        /\ request' = [request EXCEPT ![c] = NoRequest]
        /\ UNCHANGED <<handler, wanted, error, limit, engineLimit, finished, dispatcher, seen,
                       inside, waiter, missed, calls>>
      BY <1>5 DEF Pass, handlerVars, wishes, attachment
  <2>2. /\ engine' \in JobStates \union {"none"} /\ report' \in [Threads -> Reports]
        /\ Attached' <=> Attached
        /\ \A u \in Threads \ {c} : report'[u] = report[u]
    <3>1. request[c].op \in JobStates \ {"Initialized", "Completed"}
        BY <2>1 DEF JobStates
    <3> QED BY <2>1, <3>1, StateChange, Members
  <2>3. /\ request' \in [Callers -> Requests] /\ request'[c] = NoRequest
        /\ \A d \in Callers \ {c} : request'[d] = request[d]
      BY <1>0, <1>2, <2>1 DEF TypeOK
  <2>4. TypeOK'
      BY <1>0, <2>1, <2>2, <2>3 DEF TypeOK, Reports
  <2>5. Free'
      BY <1>0, <2>1, <2>2, <2>3, Members DEF Free
  <2>6. Attached
      BY <1>0, <2>1 DEF Published, NoRequest
  <2> QED BY <1>0, <2>1, <2>2, <2>4, <2>5, <2>6 DEF HandlerInv, Published
<1>6. CASE PassLimit(c)
  <2>1. /\ request[c].op = "SetSpeedLimit" /\ engineLimit' = request[c].limit
        /\ request' = [request EXCEPT ![c] = NoRequest]
        /\ UNCHANGED <<engine, handler, wanted, error, limit, finished, dispatcher, seen,
                       inside, report, waiter, missed, calls>>
      BY <1>6 DEF PassLimit, handlerVars, wishes, attachment
  <2>2. engineLimit' \in Limits
    <3>1. request[c] \in Requests
        BY <1>0 DEF TypeOK
    <3> QED BY <2>1, <3>1 DEF Requests
  <2>3. /\ request' \in [Callers -> Requests] /\ request'[c] = NoRequest
        /\ \A d \in Callers \ {c} : request'[d] = request[d]
      BY <1>0, <1>2, <2>1 DEF TypeOK
  <2>4. Attached' <=> Attached
      BY <2>1 DEF Attached
  <2>5. TypeOK'
      BY <1>0, <2>1, <2>2, <2>3, <2>4 DEF TypeOK
  <2> QED BY <1>0, <2>1, <2>3, <2>4, <2>5 DEF HandlerInv, Published, Free
<1> QED BY <1>3, <1>4, <1>5, <1>6

\* What a worker changes at most.
LEMMA WorkerChanges ==
    ASSUME HandlerInv, NEW w \in Workers, WorkerStep(w)
    PROVE  /\ UNCHANGED <<handler, wanted, error, limit, engineLimit, dispatcher, seen, request,
                          missed, calls>>
           /\ engine' \in JobStates \union {"none"} /\ report' \in [Threads -> Reports]
           /\ finished' \in BOOLEAN /\ inside' \subseteq Workers
           /\ waiter' \in {waiter, "in engine"}
           /\ Attached /\ Attached'
           /\ \A u \in Threads \ {w} : report'[u] = report[u]
           /\ \/ engine' \in {engine, "Downloading", "Completed"}
              \/ engine' = "Failed" /\ report'[w] = "Failed"
           /\ engine' = "Downloading" => engine \in {"Downloading", "Queued"}
           /\ report[w] \in {"none", "force"} \/ report' = report
<1>0. TypeOK /\ Published /\ Free /\ w \in Threads
    BY Members DEF HandlerInv
<1>1. CASE EnterWorker(w)
  <2>1. UNCHANGED <<handler, wanted, error, limit, engineLimit, finished, dispatcher, seen,
                    request, missed, calls, waiter>> /\ report[w] = "none"
      BY <1>1 DEF EnterWorker, Rested, handlerVars, wishes, attachment, clients
  <2>2. Attached /\ inside' = inside \union {w}
        /\ (SetState(w, "Downloading") \/ Refused("Downloading"))
      BY <1>1 DEF EnterWorker, Attached
  <2>3. "Downloading" \in JobStates \ {"Initialized", "Completed"}
      BY DEF JobStates
  <2>4. /\ engine' \in JobStates \union {"none"} /\ report' \in [Threads -> Reports]
        /\ Attached' <=> Attached
        /\ \A u \in Threads \ {w} : report'[u] = report[u]
        /\ engine' # engine => engine' = "Downloading"
      BY <1>0, <2>2, <2>3, StateChange
  <2>5. engine' = "Downloading" => engine \in {"Downloading", "Queued"}
      BY <2>2 DEF SetState, Refused, From
  <2> QED BY <1>0, <2>1, <2>2, <2>4, <2>5 DEF TypeOK
<1>2. CASE Finish(w)
  <2>1. /\ UNCHANGED <<handler, wanted, error, limit, engineLimit, dispatcher, seen,
                       request, missed, calls, inside, waiter>>
        /\ report[w] = "none" /\ w \in inside /\ finished' = TRUE
      BY <1>2 DEF Finish, Rested, handlerVars, wishes, attachment, clients
  <2>2. \/ engine = "Downloading" /\ engine' = "Completed"
            /\ report' = [report EXCEPT ![w] = "Completed"]
        \/ engine' = engine /\ report' = [report EXCEPT ![w] = "force"]
        \/ engine' = engine /\ report' = report
      BY <1>2 DEF Finish
  <2>3. Attached /\ Attached'
      BY <1>0, <2>1, <2>2 DEF Published, Attached
  <2> QED BY <1>0, <2>1, <2>2, <2>3 DEF TypeOK, Reports, JobStates
<1>3. CASE ForceFinish(w)
  <2>1. /\ UNCHANGED <<handler, wanted, error, limit, engineLimit, finished, dispatcher, seen,
                       request, missed, calls, inside, waiter>>
        /\ report[w] = "force" /\ engine' = "Completed"
        /\ report' = [report EXCEPT ![w] = "Completed"]
      BY <1>3 DEF ForceFinish, handlerVars, wishes, attachment, clients
  <2>2. Attached /\ Attached'
      BY <1>0, <2>1 DEF Published, Attached
  <2> QED BY <1>0, <2>1, <2>2 DEF TypeOK, Reports, JobStates
<1>4. CASE FailWorker(w)
  <2>1. /\ UNCHANGED <<handler, wanted, error, limit, engineLimit, finished, dispatcher, seen,
                       request, missed, calls, inside, waiter>>
        /\ report[w] = "none" /\ w \in inside /\ SetState(w, "Failed")
      BY <1>4 DEF FailWorker, Rested, handlerVars, wishes, attachment, clients
  <2>2. engine' = "Failed" /\ report' = [report EXCEPT ![w] = "Failed"]
      BY <2>1 DEF SetState
  <2>3. Attached /\ Attached'
      BY <1>0, <2>1, <2>2 DEF Published, Attached
  <2> QED BY <1>0, <2>1, <2>2, <2>3 DEF TypeOK, Reports, JobStates
<1>5. CASE LeaveWorker(w)
  <2>1. /\ UNCHANGED <<engine, finished, handler, wanted, error, limit, engineLimit, dispatcher,
                       seen, request, missed, calls, report>>
        /\ w \in inside /\ inside' = inside \ {w} /\ waiter' \in {waiter, "in engine"}
      BY <1>5 DEF LeaveWorker, WakeEngineWaiters, engineVars, handlerVars, wishes, attachment,
                  clients
  <2>2. Attached /\ Attached'
      BY <1>0, <2>1 DEF Published, Attached
  <2> QED BY <1>0, <2>1, <2>2 DEF TypeOK, Reports
<1> QED BY <1>1, <1>2, <1>3, <1>4, <1>5 DEF WorkerStep

LEMMA WorkerKeeps == ASSUME HandlerInv, NEW w \in Workers, WorkerStep(w) PROVE HandlerInv'
<1>0. TypeOK /\ Published /\ Free
    BY DEF HandlerInv
<1>1. Published'
    BY <1>0, WorkerChanges DEF Published
<1>2. TypeOK'
    BY <1>0, <1>1, WorkerChanges DEF TypeOK, Reports, Published
<1>3. Free'
    BY <1>0, WorkerChanges, Members DEF Free
<1> QED BY <1>1, <1>2, <1>3 DEF HandlerInv

LEMMA WaitKeeps == HandlerInv /\ (CallWait \/ WaitForEngine \/ WaitInEngine) => HandlerInv'
<1> SUFFICES ASSUME HandlerInv, CallWait \/ WaitForEngine \/ WaitInEngine PROVE HandlerInv'
    OBVIOUS
<1>1. UNCHANGED <<engine, engineLimit, finished, handler, wanted, error, limit, dispatcher, seen,
                  request, missed, calls, inside, report>>
    BY DEF CallWait, WaitForEngine, WaitInEngine, engineVars, handlerVars, wishes, attachment,
           clients
<1>2. waiter' \in {"enter", "in engine", "returned", "asleep", "asleep in engine"}
    BY DEF CallWait, WaitForEngine, WaitInEngine
<1>3. Attached' <=> Attached
    BY <1>1 DEF Attached
<1>4. TypeOK'
    BY <1>1, <1>2, <1>3 DEF HandlerInv, TypeOK
<1> QED BY <1>1, <1>3, <1>4 DEF HandlerInv, Published, Free

LEMMA HandlerNext == HandlerInv /\ [Next]_vars => HandlerInv'
<1> SUFFICES ASSUME HandlerInv, [Next]_vars PROVE HandlerInv'
    OBVIOUS
<1>1. CASE UNCHANGED vars
  <2>1. UNCHANGED <<engine, engineLimit, finished, handler, wanted, error, limit, dispatcher,
                    seen, request, missed, calls, inside, report, waiter>>
      BY <1>1 DEF vars, handlerVars, wishes, engineVars, attachment, clients
  <2>2. Attached' <=> Attached
      BY <2>1 DEF Attached
  <2>3. TypeOK'
      BY <2>1, <2>2 DEF HandlerInv, TypeOK
  <2> QED BY <2>1, <2>2, <2>3 DEF HandlerInv, Published, Free
<1> QED BY <1>1, ReportStep, DispatcherKeeps, CallerKeeps, WorkerKeeps, WaitKeeps DEF Next

\* Types; and no call reaches the engine before AttachEngine has published it
\* (Pause, Resume, Cancel and SetSpeedLimit of the handler).
THEOREM TypeCorrect == Spec => []TypeOK
<1>1. HandlerInv => TypeOK
    BY DEF HandlerInv
<1> QED BY <1>1, HandlerInit, HandlerNext, PTL DEF Spec

----------------------------------------------------------------------------
(* Failures are reported.                                                  *)

\* A thread is on its way from the failure to on_error.
Reporting == \E t \in Threads : report[t] \in {"Failed", "wake, then error", "error"}

\* A failure is reported or on its way; a request that will not get an engine has
\* its error already.
FailInv ==
    /\ engine = "Failed" => error \/ Reporting
    /\ dispatcher = "done" /\ ~Attached => error

\* Nobody drops a failure that is on its way.
LEMMA ReportsStay ==
    ASSUME HandlerInv, engine = "Failed" => error \/ Reporting,
           NEW t \in Threads, report[t] \notin {"Failed", "wake, then error", "error"},
           \A u \in Threads \ {t} : report'[u] = report[u],
           error => error',
           engine' = "Failed" => engine = "Failed" \/ report'[t] = "Failed"
    PROVE  engine' = "Failed" => error' \/ Reporting'
BY DEF Reporting

LEMMA FailNext == HandlerInv /\ FailInv /\ [Next]_vars => FailInv'
<1> SUFFICES ASSUME HandlerInv, FailInv, [Next]_vars PROVE FailInv'
    OBVIOUS
<1>0. TypeOK /\ Published /\ Free
    BY DEF HandlerInv
<1>1. ASSUME UNCHANGED <<engine, error, report, dispatcher>> PROVE FailInv'
    BY <1>1 DEF FailInv, Reporting, Attached
<1>2. ASSUME NEW t \in Threads, ThreadStep(t) PROVE FailInv'
  <2>1. engine' = engine /\ dispatcher' = dispatcher /\ (error => error')
    <3>1. CASE ReportState(t)
        BY <3>1 DEF ReportState, engineVars, attachment
    <3>2. CASE WakeWaiters(t)
        BY <3>2 DEF WakeWaiters, engineVars, handlerVars, attachment
    <3>3. CASE ReportError(t)
        BY <3>3 DEF ReportError, engineVars, attachment
    <3> QED BY <1>2, <3>1, <3>2, <3>3 DEF ThreadStep
  <2>2. \A u \in Threads \ {t} : report'[u] = report[u]
      BY <1>0, <1>2 DEF ThreadStep, ReportState, WakeWaiters, ReportError, TypeOK
  <2>3. report[t] = "Failed" => report'[t] = "wake, then error"
      BY <1>0, <1>2 DEF ThreadStep, ReportState, WakeWaiters, ReportError, TypeOK
  <2>4. report[t] = "wake, then error" => report'[t] = "error"
      BY <1>0, <1>2 DEF ThreadStep, ReportState, WakeWaiters, ReportError, TypeOK, JobStates
  <2>5. report[t] = "error" => error'
      BY <1>0, <1>2 DEF ThreadStep, ReportState, WakeWaiters, ReportError, TypeOK, JobStates
  <2>6. Reporting => error' \/ Reporting'
      BY <2>2, <2>3, <2>4, <2>5 DEF Reporting
  <2>7. (Attached' <=> Attached)
      BY <2>1 DEF Attached
  <2> QED BY <2>1, <2>6, <2>7 DEF FailInv
<1>3. CASE DispatcherStep
  <2>1. CASE FailBeforeEngineStart
      BY <2>1 DEF FailBeforeEngineStart, FailInv
  <2>2. CASE ReadWishes
      BY <2>2 DEF ReadWishes, engineVars, handlerVars, FailInv, Attached, Reporting
  <2>3. CASE Publish
      BY <2>3 DEF Publish, FailInv
  <2>4. CASE ApplyWish
    <3>1. Attached /\ report[Dispatcher] = "none" /\ Dispatcher \in Threads
        BY <1>0, <2>4, Members DEF ApplyWish, Published, Free
    <3>2. (error => error') /\ dispatcher' = "done"
        BY <2>4 DEF ApplyWish, handlerVars
    <3>3. CASE UNCHANGED <<engine, report>>
        BY <3>1, <3>2, <3>3 DEF FailInv, Attached, Reporting
    <3>4. CASE /\ seen.state \in {"Canceled", "Paused", "Queued"}
               /\ SetState(Dispatcher, seen.state) \/ Refused(seen.state)
      <4>1. seen.state \in JobStates \ {"Initialized", "Completed"}
          BY <3>4 DEF JobStates
      <4>2. /\ Attached'
            /\ \A u \in Threads \ {Dispatcher} : report'[u] = report[u]
            /\ engine' # engine => engine' = seen.state
          BY <3>1, <3>4, <4>1, StateChange
      <4>3. engine' = "Failed" => engine = "Failed"
          BY <3>4, <4>2
      <4>4. engine' = "Failed" => error' \/ Reporting'
          BY <3>1, <3>2, <4>2, <4>3, ReportsStay DEF FailInv
      <4> QED BY <4>2, <4>4 DEF FailInv
    <3> QED BY <2>4, <3>3, <3>4 DEF ApplyWish
  <2> QED BY <1>3, <2>1, <2>2, <2>3, <2>4 DEF DispatcherStep
<1>4. ASSUME NEW c \in Callers, Pass(c) PROVE FailInv'
  <2>1. /\ request[c].op \in {"Queued", "Paused", "Canceled"} /\ dispatcher' = dispatcher
        /\ SetState(c, request[c].op) \/ Refused(request[c].op)
        /\ error => error'
      BY <1>4 DEF Pass, handlerVars, attachment
  <2>2. c \in Threads /\ report[c] = "none"
      BY <1>0, <2>1, Members DEF Free, NoRequest
  <2>3. request[c].op \in JobStates \ {"Initialized", "Completed"}
      BY <2>1 DEF JobStates
  <2>4. /\ Attached' <=> Attached
        /\ \A u \in Threads \ {c} : report'[u] = report[u]
        /\ engine' # engine => engine' = request[c].op
      BY <2>1, <2>2, <2>3, StateChange
  <2>5. engine' = "Failed" => engine = "Failed"
      BY <2>1, <2>4
  <2>6. engine' = "Failed" => error' \/ Reporting'
      BY <2>1, <2>2, <2>4, <2>5, ReportsStay DEF FailInv
  <2> QED BY <2>1, <2>4, <2>6 DEF FailInv
<1>5. ASSUME NEW w \in Workers, WorkerStep(w) PROVE FailInv'
  <2>1. w \in Threads
      BY Members
  <2>2. /\ UNCHANGED <<error, dispatcher>>
        /\ \A u \in Threads \ {w} : report'[u] = report[u]
        /\ Attached'
        /\ \/ engine' \in {engine, "Downloading", "Completed"}
           \/ engine' = "Failed" /\ report'[w] = "Failed"
        /\ report[w] \in {"none", "force"} \/ report' = report
      BY <1>5, WorkerChanges
  <2>3. engine' = "Failed" => error' \/ Reporting'
    <3>1. CASE report[w] \in {"none", "force"}
        BY <2>1, <2>2, <3>1, ReportsStay DEF FailInv
    <3>2. CASE report' = report
        BY <2>1, <2>2, <3>2 DEF FailInv, Reporting
    <3> QED BY <2>2, <3>1, <3>2
  <2> QED BY <2>2, <2>3 DEF FailInv
<1>6. CASE \/ \E c \in Callers, op \in {"Queued", "Paused", "Canceled"} : Ask(c, op)
           \/ \E c \in Callers : SetSpeedLimit(c) \/ PassLimit(c)
           \/ CallWait \/ WaitForEngine \/ WaitInEngine
  <2>1. UNCHANGED <<engine, error, report, dispatcher>>
      BY <1>6 DEF Ask, SetSpeedLimit, PassLimit, CallWait, WaitForEngine, WaitInEngine,
                  engineVars, handlerVars, attachment
  <2> QED BY <1>1, <2>1
<1>7. CASE UNCHANGED vars
    BY <1>1, <1>7 DEF vars, engineVars, handlerVars, attachment
<1> QED BY <1>2, <1>3, <1>4, <1>5, <1>6, <1>7 DEF Next

\* Every failure, before or after the engine is there, reaches HasError, and no
\* later report takes it away (FailBeforeEngineStart, Fail's two callbacks).
THEOREM FailuresReported == Spec => []FailureIsReported
<1>1. Init => FailInv
    BY DEF Init, FailInv
<1>2. HandlerInv /\ FailInv => FailureIsReported
    BY DEF HandlerInv, FailInv, FailureIsReported, Quiet, Reporting
<1> QED BY <1>1, <1>2, HandlerInit, HandlerNext, FailNext, PTL DEF Spec

----------------------------------------------------------------------------
(* The last request takes effect.                                          *)

\* One thread makes the requests.
OneCaller == \A c, d \in Callers : c = d

StateOps == {"Queued", "Paused", "Canceled"}

\* What a caller carries to the engine is the last wish.
Carried ==
    \A c \in Callers :
        /\ request[c].op \in StateOps => request[c].op = wanted
        /\ request[c].op = "SetSpeedLimit" => request[c].limit = limit

\* What AttachEngine has read is the last wish until it is applied, unless a
\* request has fallen in between; nothing else makes one of that kind.
Noticed ==
    dispatcher \in {"publish", "apply"} =>
        /\ "state" \notin missed =>
               seen.state = wanted /\ \A c \in Callers : request[c].op \notin StateOps
        /\ "limit" \notin missed =>
               seen.limit = limit /\ \A c \in Callers : request[c].op # "SetSpeedLimit"

\* Somebody is about to give the engine what is wanted.
Coming ==
    dispatcher = "apply" \/ \E c \in Callers : request[c].op = wanted

StateGiven ==
    /\ wanted = "Queued" => engine # "Initialized" \/ Coming
    /\ wanted \in {"Paused", "Canceled"} =>
           engine \notin {"Queued", "Downloading"} \/ Coming

LimitGiven == engineLimit = limit \/ \E c \in Callers : request[c].op = "SetSpeedLimit"

EffectInv ==
    /\ Carried /\ Noticed
    /\ dispatcher = "fetch" => ~Attached
    /\ Attached /\ "state" \notin missed => StateGiven
    /\ Attached /\ "limit" \notin missed => LimitGiven

\* A request the engine refuses finds it where the request would not take effect.
LEMMA Given ==
    ASSUME HandlerInv, Attached, NEW t \in Threads,
           NEW target \in {"Queued", "Paused", "Canceled"},
           SetState(t, target) \/ Refused(target)
    PROVE  /\ Attached'
           /\ target = "Queued" => engine' # "Initialized"
           /\ target \in {"Paused", "Canceled"} => engine' \notin {"Queued", "Downloading"}
<1>1. target \in JobStates \ {"Initialized", "Completed"}
    BY DEF JobStates
<1>2. Attached'
    BY <1>1, StateChange
<1>3. CASE SetState(t, target)
    BY <1>2, <1>3 DEF SetState
<1>4. CASE Refused(target)
    BY <1>2, <1>4 DEF Refused, From
<1> QED BY <1>3, <1>4

\* Neither a request nor a wish changes, nor who is about to fulfil it.
LEMMA EffectSame ==
    ASSUME EffectInv,
           UNCHANGED <<wanted, limit, engineLimit, dispatcher, seen, request, missed>>,
           Attached' <=> Attached,
           engine' = "Initialized" => engine = "Initialized",
           engine' \in {"Queued", "Downloading"} => engine \in {"Queued", "Downloading"}
    PROVE  EffectInv'
<1>1. Coming' <=> Coming
    BY DEF Coming
<1>2. Carried' /\ Noticed'
    BY DEF EffectInv, Carried, Noticed
<1>3. (StateGiven => StateGiven') /\ (LimitGiven => LimitGiven')
    BY <1>1 DEF StateGiven, LimitGiven
<1> QED BY <1>2, <1>3 DEF EffectInv

LEMMA EffectDispatcher == HandlerInv /\ EffectInv /\ DispatcherStep => EffectInv'
<1> SUFFICES ASSUME HandlerInv, EffectInv, DispatcherStep PROVE EffectInv'
    OBVIOUS
<1>0. TypeOK /\ Published
    BY DEF HandlerInv
<1>1. CASE FailBeforeEngineStart
  <2>1. dispatcher = "fetch" /\ dispatcher' = "done" /\ UNCHANGED <<engine, request>>
      BY <1>1 DEF FailBeforeEngineStart, engineVars, clients
  <2>2. ~Attached /\ ~Attached'
      BY <2>1 DEF EffectInv, Attached
  <2>3. Carried'
      BY <1>0, <2>1, <2>2 DEF Published, Carried, NoRequest, StateOps
  <2> QED BY <2>1, <2>2, <2>3 DEF EffectInv, Noticed
<1>2. CASE ReadWishes
  <2>1. /\ dispatcher = "fetch" /\ dispatcher' = "publish"
        /\ UNCHANGED <<engine, request, wanted, limit>>
        /\ seen' = [state |-> wanted, limit |-> limit]
      BY <1>2 DEF ReadWishes, engineVars, handlerVars, wishes, clients
  <2>2. ~Attached /\ ~Attached'
      BY <2>1 DEF EffectInv, Attached
  <2>3. \A c \in Callers : request'[c] = NoRequest
      BY <1>0, <2>1, <2>2 DEF Published
  <2>4. Carried' /\ Noticed'
      BY <2>1, <2>3 DEF Carried, Noticed, NoRequest, StateOps
  <2> QED BY <2>1, <2>2, <2>4 DEF EffectInv
<1>3. CASE Publish
  <2>1. /\ dispatcher = "publish" /\ dispatcher' = "apply"
        /\ engine' = "Initialized" /\ engineLimit' = seen.limit
        /\ UNCHANGED <<request, wanted, limit, seen, missed>>
      BY <1>3 DEF Publish, handlerVars, wishes, clients
  <2>2. Carried' /\ Noticed' /\ Coming'
      BY <2>1 DEF EffectInv, Carried, Noticed, Coming
  <2>3. "limit" \notin missed' => engineLimit' = limit'
      BY <2>1 DEF EffectInv, Noticed
  <2> QED BY <2>1, <2>2, <2>3 DEF EffectInv, StateGiven, LimitGiven
<1>4. CASE ApplyWish
  <2>1. /\ dispatcher = "apply" /\ dispatcher' = "done"
        /\ UNCHANGED <<request, wanted, limit, engineLimit, seen, missed>>
      BY <1>4 DEF ApplyWish, handlerVars, wishes, clients
  <2>2. Attached
      BY <1>0, <2>1 DEF Published
  <2>3. ASSUME "state" \notin missed
        PROVE  /\ wanted = "Queued" => engine' # "Initialized"
               /\ wanted \in {"Paused", "Canceled"} => engine' \notin {"Queued", "Downloading"}
    <3>1. seen.state = wanted
        BY <2>1, <2>3 DEF EffectInv, Noticed
    <3>2. CASE wanted \in {"Queued", "Paused", "Canceled"}
      <4>1. SetState(Dispatcher, wanted) \/ Refused(wanted)
          BY <1>4, <3>1, <3>2 DEF ApplyWish
      <4> QED BY <2>2, <3>2, <4>1, Given, Members
    <3>3. CASE wanted \notin {"Queued", "Paused", "Canceled"}
        BY <3>3
    <3> QED BY <3>2, <3>3
  <2>4. "state" \notin missed' => StateGiven'
      BY <2>1, <2>3 DEF StateGiven
  <2>5. "limit" \notin missed' => LimitGiven'
      BY <2>1, <2>2 DEF EffectInv, LimitGiven
  <2>6. Carried' /\ Noticed'
      BY <2>1 DEF EffectInv, Carried, Noticed
  <2> QED BY <2>1, <2>4, <2>5, <2>6 DEF EffectInv
<1> QED BY <1>1, <1>2, <1>3, <1>4 DEF DispatcherStep

\* What the only caller asks for is under way to the engine, if that is there; inside
\* AttachEngine it is noted in the history.
LEMMA EffectAsk ==
    ASSUME OneCaller, HandlerInv, EffectInv, NEW c \in Callers, NEW op \in StateOps, Ask(c, op)
    PROVE  EffectInv'
<1>0. TypeOK /\ Published /\ Callers = {c}
    BY DEF HandlerInv, OneCaller
<1>1. /\ request[c] = NoRequest /\ wanted' = op
      /\ UNCHANGED <<engine, engineLimit, limit, dispatcher, seen>>
    BY DEF Ask, MayCall, engineVars, attachment
<1>2. /\ Attached => request' = [request EXCEPT ![c] = [op |-> op]]
      /\ ~Attached => request' = request
    BY DEF Ask
<1>3. /\ Attached => request'[c].op = op
      /\ request'[c].op \in {op, "none"} /\ op # "SetSpeedLimit"
  <2>1. DOMAIN request = Callers
      BY <1>0 DEF TypeOK
  <2> QED BY <1>1, <1>2, <2>1 DEF NoRequest, StateOps
<1>4. missed' = IF Attaching THEN missed \union {"state"} ELSE missed \ {"state"}
    BY DEF Ask, Note
<1>5. Attached' <=> Attached
    BY <1>1 DEF Attached
<1>6. Carried'
    BY <1>0, <1>1, <1>3 DEF Carried, StateOps
<1>7. Attached => StateGiven'
    BY <1>1, <1>3 DEF Coming, StateGiven
<1>8. Attached /\ "limit" \notin missed' => LimitGiven'
  <2>1. Attached /\ "limit" \notin missed => engineLimit = limit
      BY <1>0, <1>1 DEF EffectInv, LimitGiven, NoRequest
  <2> QED BY <1>1, <1>4, <2>1 DEF LimitGiven
<1>9. Noticed'
  <2>1. SUFFICES ASSUME dispatcher \in {"publish", "apply"} PROVE Noticed'
      BY <1>1 DEF Noticed
  <2>2. "state" \in missed' /\ ("limit" \in missed' <=> "limit" \in missed)
      BY <1>4, <2>1 DEF Attaching
  <2>3. "limit" \notin missed => seen.limit = limit
      BY <2>1 DEF EffectInv, Noticed
  <2>4. \A u \in Callers : request'[u].op # "SetSpeedLimit"
      BY <1>0, <1>3
  <2> QED BY <1>1, <2>2, <2>3, <2>4 DEF Noticed
<1> QED BY <1>1, <1>5, <1>6, <1>7, <1>8, <1>9 DEF EffectInv

LEMMA EffectLimit ==
    ASSUME OneCaller, HandlerInv, EffectInv, NEW c \in Callers, SetSpeedLimit(c)
    PROVE  EffectInv'
<1>0. TypeOK /\ Published /\ Callers = {c}
    BY DEF HandlerInv, OneCaller
<1>1. /\ request[c] = NoRequest
      /\ request' = [request EXCEPT ![c] =
                       IF Attached THEN [op |-> "SetSpeedLimit", limit |-> limit']
                       ELSE NoRequest]
      /\ UNCHANGED <<engine, engineLimit, wanted, dispatcher, seen>>
    BY DEF SetSpeedLimit, MayCall, engineVars, attachment
<1>2. missed' = IF Attaching THEN missed \union {"limit"} ELSE missed \ {"limit"}
    BY DEF SetSpeedLimit, Note
<1>3. /\ Attached => request'[c] = [op |-> "SetSpeedLimit", limit |-> limit']
      /\ ~Attached => request'[c] = NoRequest
    BY <1>0, <1>1 DEF TypeOK
<1>4. Attached' <=> Attached
    BY <1>1 DEF Attached
<1>5. request'[c].op \notin StateOps
    BY <1>3 DEF NoRequest, StateOps
<1>6. Carried'
    BY <1>0, <1>3 DEF Carried, NoRequest, StateOps
<1>7. Attached => LimitGiven'
    BY <1>3 DEF LimitGiven
<1>8. Attached /\ "state" \notin missed' => StateGiven'
  <2>1. request[c].op # wanted
    <3>1. wanted \in JobStates
        BY <1>0 DEF TypeOK
    <3> QED BY <1>1, <3>1 DEF NoRequest, JobStates
  <2>2. Coming => Coming'
      BY <1>0, <1>1, <2>1 DEF Coming
  <2>3. "state" \notin missed' => "state" \notin missed
      BY <1>2
  <2> QED BY <1>1, <2>2, <2>3 DEF EffectInv, StateGiven
<1>9. Noticed'
  <2>1. SUFFICES ASSUME dispatcher \in {"publish", "apply"} PROVE Noticed'
      BY <1>1 DEF Noticed
  <2>2. "limit" \in missed' /\ ("state" \in missed' <=> "state" \in missed)
      BY <1>2, <2>1 DEF Attaching
  <2>3. "state" \notin missed => seen.state = wanted
      BY <2>1 DEF EffectInv, Noticed
  <2>4. \A u \in Callers : request'[u].op \notin StateOps
      BY <1>0, <1>5
  <2> QED BY <1>1, <2>2, <2>3, <2>4 DEF Noticed
<1> QED BY <1>1, <1>4, <1>6, <1>7, <1>8, <1>9 DEF EffectInv

LEMMA EffectPass ==
    ASSUME OneCaller, HandlerInv, EffectInv, NEW c \in Callers, Pass(c)
    PROVE  EffectInv'
<1>0. TypeOK /\ Published /\ c \in Threads /\ Callers = {c}
    BY Members DEF HandlerInv, OneCaller
<1>1. /\ request[c].op \in StateOps
      /\ SetState(c, request[c].op) \/ Refused(request[c].op)
      /\ request' = [request EXCEPT ![c] = NoRequest]
      /\ UNCHANGED <<wanted, limit, engineLimit, dispatcher, seen, missed>>
    BY DEF Pass, handlerVars, wishes, attachment, StateOps
<1>2. request[c].op = wanted /\ request[c] # NoRequest
    BY <1>1 DEF EffectInv, Carried, NoRequest, StateOps
<1>3. Attached
    BY <1>0, <1>2 DEF Published
<1>4. /\ Attached'
      /\ wanted = "Queued" => engine' # "Initialized"
      /\ wanted \in {"Paused", "Canceled"} => engine' \notin {"Queued", "Downloading"}
    BY <1>0, <1>1, <1>2, <1>3, Given DEF StateOps
<1>5. "limit" \notin missed => engineLimit = limit
    BY <1>0, <1>1, <1>3 DEF EffectInv, LimitGiven, StateOps
<1>6. request'[c] = NoRequest
    BY <1>0, <1>1 DEF TypeOK
<1>7. Carried'
    BY <1>0, <1>6 DEF Carried, NoRequest, StateOps
<1>8. Noticed' /\ dispatcher # "fetch"
    BY <1>0, <1>1, <1>3, <1>6 DEF EffectInv, Noticed, NoRequest, StateOps
<1> QED BY <1>1, <1>4, <1>5, <1>7, <1>8 DEF EffectInv, StateGiven, LimitGiven

LEMMA EffectPassLimit ==
    ASSUME OneCaller, HandlerInv, EffectInv, NEW c \in Callers, PassLimit(c)
    PROVE  EffectInv'
<1>0. TypeOK /\ Published /\ Callers = {c}
    BY DEF HandlerInv, OneCaller
<1>1. /\ request[c].op = "SetSpeedLimit" /\ engineLimit' = request[c].limit
      /\ request' = [request EXCEPT ![c] = NoRequest]
      /\ UNCHANGED <<engine, wanted, limit, dispatcher, seen, missed>>
    BY DEF PassLimit, handlerVars, wishes, attachment
<1>2. engineLimit' = limit'
    BY <1>1 DEF EffectInv, Carried
<1>3. request'[c] = NoRequest /\ request[c] # NoRequest
  <2>1. request'[c] = NoRequest
      BY <1>0, <1>1 DEF TypeOK
  <2>2. NoRequest.op = "none"
      BY DEF NoRequest
  <2> QED BY <1>1, <2>1, <2>2
<1>4. Attached /\ Attached'
    BY <1>0, <1>1, <1>3 DEF Published, Attached
<1>5. Coming => Coming'
  <2>1. wanted \in JobStates
      BY <1>0 DEF TypeOK
  <2> QED BY <1>0, <1>1, <2>1 DEF Coming, JobStates
<1>6. Carried'
    BY <1>0, <1>3 DEF Carried, NoRequest, StateOps
<1>7. Noticed'
    BY <1>0, <1>1, <1>3 DEF EffectInv, Noticed, NoRequest, StateOps
<1>8. StateGiven => StateGiven'
    BY <1>1, <1>5 DEF StateGiven
<1> QED BY <1>1, <1>2, <1>4, <1>6, <1>7, <1>8 DEF EffectInv, LimitGiven

LEMMA EffectNext == OneCaller /\ HandlerInv /\ EffectInv /\ [Next]_vars => EffectInv'
<1> SUFFICES ASSUME OneCaller, HandlerInv, EffectInv, [Next]_vars PROVE EffectInv'
    OBVIOUS
<1>1. ASSUME UNCHANGED <<engine, wanted, limit, engineLimit, dispatcher, seen, request, missed>>
      PROVE  EffectInv'
  <2>1. Attached' <=> Attached
      BY <1>1 DEF Attached
  <2> QED BY <1>1, <2>1, EffectSame
<1>2. ASSUME NEW t \in Threads, ThreadStep(t) PROVE EffectInv'
  <2>1. UNCHANGED <<engine, wanted, limit, engineLimit, dispatcher, seen, request, missed>>
    <3>1. CASE ReportState(t)
        BY <3>1 DEF ReportState, engineVars, wishes, attachment, clients
    <3>2. CASE WakeWaiters(t)
        BY <3>2 DEF WakeWaiters, engineVars, handlerVars, wishes, attachment, clients
    <3>3. CASE ReportError(t)
        BY <3>3 DEF ReportError, engineVars, wishes, attachment, clients
    <3> QED BY <1>2, <3>1, <3>2, <3>3 DEF ThreadStep
  <2> QED BY <1>1, <2>1
<1>3. ASSUME NEW w \in Workers, WorkerStep(w) PROVE EffectInv'
  <2>1. /\ UNCHANGED <<wanted, limit, engineLimit, dispatcher, seen, request, missed>>
        /\ Attached /\ Attached'
        /\ engine' \in {engine, "Downloading", "Completed", "Failed"}
        /\ engine' = "Downloading" => engine \in {"Downloading", "Queued"}
      BY <1>3, WorkerChanges
  <2> QED BY <2>1, EffectSame
<1>4. CASE CallWait \/ WaitForEngine \/ WaitInEngine
  <2>1. UNCHANGED <<engine, wanted, limit, engineLimit, dispatcher, seen, request, missed>>
      BY <1>4 DEF CallWait, WaitForEngine, WaitInEngine, engineVars, handlerVars, wishes,
                  attachment, clients
  <2> QED BY <1>1, <2>1
<1>5. CASE \E c \in Callers, op \in {"Queued", "Paused", "Canceled"} : Ask(c, op)
    BY <1>5, EffectAsk DEF StateOps
<1>6. CASE \E c \in Callers : SetSpeedLimit(c) \/ Pass(c) \/ PassLimit(c)
    BY <1>6, EffectLimit, EffectPass, EffectPassLimit
<1>7. CASE UNCHANGED vars
    BY <1>1, <1>7 DEF vars, engineVars, handlerVars, wishes, attachment, clients
<1> QED BY <1>2, <1>3, <1>4, <1>5, <1>6, <1>7, EffectDispatcher DEF Next

\* Once nothing is under way the engine does what its one caller asked for last,
\* before AttachEngine or after it, whatever was asked for inside it (the wishes
\* AttachEngine reads, Pause, Resume, Cancel, SetSpeedLimit).
THEOREM RequestsTakeEffect == OneCaller => (Spec => []RequestTakesEffect)
<1> SUFFICES ASSUME OneCaller PROVE Spec => []RequestTakesEffect
    OBVIOUS
<1>1. Init => EffectInv
    BY DEF Init, EffectInv, Carried, Noticed, NoRequest, Attached, StateOps
<1>2. HandlerInv /\ EffectInv => RequestTakesEffect
  <2> SUFFICES ASSUME HandlerInv, EffectInv, Quiet PROVE RequestTakesEffect
      BY DEF RequestTakesEffect
  <2>1. wanted \in JobStates
      BY DEF HandlerInv, TypeOK
  <2>2. ~Coming
      BY <2>1 DEF Quiet, Attaching, Coming, NoRequest, JobStates
  <2>3. \A c \in Callers : request[c].op # "SetSpeedLimit"
      BY DEF Quiet, NoRequest
  <2> QED BY <2>2, <2>3 DEF EffectInv, StateGiven, LimitGiven, RequestTakesEffect
<1>3. HandlerInv /\ EffectInv /\ [Next]_vars => EffectInv'
    BY EffectNext
<1> QED BY <1>1, <1>2, <1>3, HandlerInit, HandlerNext, PTL DEF Spec
=============================================================================
