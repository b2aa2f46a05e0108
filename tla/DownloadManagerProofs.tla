----------------------- MODULE DownloadManagerProofs -----------------------
(***************************************************************************)
(* Theorems about DownloadManager, for any requests, callers and threads.  *)
(***************************************************************************)
EXTENDS DownloadManager, TLAPS

----------------------------------------------------------------------------
(* Sequences of requests.                                                  *)

\* What is added to a sequence is added to its range.
LEMMA RangeOfAppend ==
    ASSUME NEW S, NEW s \in Seq(S), NEW x \in S
    PROVE  /\ Append(s, x) \in Seq(S) /\ Range(Append(s, x)) = Range(s) \union {x}
           /\ Range(s) \subseteq S
  <1>1. /\ Append(s, x) \in Seq(S) /\ DOMAIN Append(s, x) = 1..(Len(s) + 1)
        /\ Append(s, x)[Len(s) + 1] = x /\ Len(s) \in Nat
        /\ \A i \in 1..Len(s) : Append(s, x)[i] = s[i]
        /\ DOMAIN s = 1..Len(s) /\ \A i \in 1..Len(s) : s[i] \in S
    OBVIOUS
  <1>2. \A y \in Range(Append(s, x)) : y \in Range(s) \union {x}
    BY <1>1 DEF Range
  <1>3. \A y \in Range(s) \union {x} : y \in Range(Append(s, x))
    BY <1>1 DEF Range
  <1>4. Range(s) \subseteq S
    BY <1>1 DEF Range
  <1> QED
    BY <1>1, <1>2, <1>3, <1>4

\* Taking the first element, and adding copies of one at the end.
LEMMA QueueTypes ==
    ASSUME NEW S, NEW s \in Seq(S)
    PROVE  /\ s # <<>> => Head(s) \in S /\ Tail(s) \in Seq(S)
           /\ \A x \in S, n \in Nat : s \o [i \in 1..n |-> x] \in Seq(S)
  <1>1. s # <<>> => Head(s) \in S /\ Tail(s) \in Seq(S)
    OBVIOUS
  <1>2. ASSUME NEW x \in S, NEW n \in Nat PROVE s \o [i \in 1..n |-> x] \in Seq(S)
    <2>1. [i \in 1..n |-> x] \in Seq(S)
      OBVIOUS
    <2> QED
      BY <2>1
  <1> QED
    BY <1>1, <1>2

----------------------------------------------------------------------------
(* Types, and the request the dispatcher works on.                         *)

\* The dispatcher has a request from Take until on_error or AttachEngine is over,
\* the checks of Load are made for a Load, and those of Download for a Download.
Checking == {"image", "index", "probe", "identity", "file"}
Working == Checking \union {"fetch", "create", "register", "attach", "callback",
                            "nested", "return"}
CurrentInv ==
    /\ dpc \in Working => current \in Requests
    /\ dpc \in Checking => current \in Loads
    /\ dpc = "fetch" => current \notin Loads

ManagerInv == TypeOK /\ CurrentInv

LEMMA ManagerInit == Init => ManagerInv
  <1> SUFFICES ASSUME Init PROVE ManagerInv
    OBVIOUS
  <1>1. 0 \in 0..(MaxRedirects - 1)
    BY SizesAssumption
  <1>2. /\ status \in [Requests -> Statuses]
        /\ running \in [Threads -> Requests \union {None, "gone"}]
        /\ caller \in [Callers -> [op : {"idle", "register", "waitall", "terminate"},
                                   of : SUBSET Requests]]
    BY DEF Init, Statuses, Idle
  <1>3. <<>> \in Seq(Requests)
    OBVIOUS
  <1>4. TypeOK
    BY <1>1, <1>2, <1>3 DEF Init, TypeOK
  <1> QED
    BY <1>4 DEF Init, ManagerInv, CurrentInv, Working, Checking

\* What application threads do.
LEMMA CallerTypes ==
    ASSUME ManagerInv, NEW c \in Callers,
           \/ \E r \in Requests : Call(c, r)
           \/ WaitAll(c) \/ Terminate(c) \/ CallerStep(c)
    PROVE  ManagerInv'
  <1> USE DEF ManagerInv, queue, dispatcher, pool, registry, shutdown
  <1>1. ASSUME NEW r \in Requests, Call(c, r) PROVE ManagerInv'
    <2>1. pending' \in Seq(Requests)
      BY <1>1, RangeOfAppend DEF Call, Push, TypeOK
    <2> QED
      BY <1>1, <2>1
      DEF Call, Push, TypeOK, Statuses, Notified, CurrentInv, Working, Checking
  <1>2. CASE Register(c)
    BY <1>2 DEF Register, TypeOK, Notified, Idle, CurrentInv, Working, Checking
  <1>3. CASE WaitAll(c) \/ WaitAllReturns(c)
    BY <1>3 DEF WaitAll, WaitAllReturns, TypeOK, Idle, CurrentInv
  <1>4. CASE Terminate(c)
    <2>1. Range(jobs) \subseteq Requests
      BY DEF TypeOK, Range
    <2> QED
      BY <1>4, <2>1 DEF Terminate, TypeOK, CurrentInv
  <1>5. CASE TerminateJob(c)
    <2>1. PICK r \in caller[c].of :
            /\ status' = [status EXCEPT ![r] = IF @ = "Active" THEN "Paused" ELSE @]
            /\ caller' = [caller EXCEPT ![c] =
                   IF caller[c].of \ {r} = {} THEN Idle
                   ELSE [op |-> "terminate", of |-> caller[c].of \ {r}]]
      BY <1>5 DEF TerminateJob
    <2>2. status' \in [Requests -> Statuses]
      BY <2>1 DEF TypeOK, Statuses, Engines
    <2>3. caller' \in [Callers -> [op : {"idle", "register", "waitall", "terminate"},
                                   of : SUBSET Requests]]
      BY <2>1 DEF TypeOK, Idle
    <2> QED
      BY <1>5, <2>2, <2>3 DEF TerminateJob, TypeOK, CurrentInv
  <1> QED
    BY <1>1, <1>2, <1>3, <1>4, <1>5 DEF CallerStep

\* What the dispatcher does.
LEMMA DispatcherTypes ==
    ASSUME ManagerInv, DispatcherStep \/ Retry
    PROVE  ManagerInv'
  <1> USE DEF ManagerInv, queue, dispatcher, pool, registry, shutdown
  <1> TypeOK /\ CurrentInv
    OBVIOUS
  <1> DEFINE There == {"wait", "asleep", "image", "index", "probe", "identity",
                       "file", "fetch", "create", "register", "attach", "callback",
                       "nested", "return", "gone", "aborted"}
             Images == {Path[r] : r \in Loads}
  <1>1. ASSUME NEW here, NEW there \in There, Go(here, there),
               loadedImages' \subseteq Images, hops' \in 0..(MaxRedirects - 1),
               there \in Working => here \in Working,
               there \in Checking => here \in Checking,
               there = "fetch" => here = "fetch"
        PROVE  ManagerInv'
    BY <1>1 DEF Go, TypeOK, CurrentInv
  <1>2. ASSUME NEW here \in Working, NEW inside \in BOOLEAN, Fail(here, inside),
               loadedImages' \subseteq Images
        PROVE  ManagerInv'
    BY <1>2 DEF Fail, TypeOK, Statuses, CurrentInv, Working, Checking
  <1>3. loadedImages \subseteq Images /\ hops \in 0..(MaxRedirects - 1)
    BY DEF TypeOK
  <1>4. CASE DispatcherExits \/ Sleep \/ CallbackReturns
    BY <1>4
    DEF DispatcherExits, Sleep, CallbackReturns, TypeOK, CurrentInv, Working, Checking
  <1>5. CASE Take
    <2>1. Head(pending) \in Requests /\ Tail(pending) \in Seq(Requests)
      BY <1>5, QueueTypes DEF Take, TypeOK
    <2>2. 0 \in 0..(MaxRedirects - 1)
      BY SizesAssumption
    <2> QED
      BY <1>5, <2>1, <2>2
      DEF Take, TypeOK, CurrentInv, Working, Checking, Loads
  <1>6. CASE Retry
    <2>1. PICK r \in Requests : Push(r) /\ current' = r
      BY <1>6 DEF Retry
    <2>2. pending' \in Seq(Requests)
      BY <2>1, RangeOfAppend DEF Push, TypeOK
    <2> QED
      BY <1>6, <2>1, <2>2
      DEF Retry, Push, TypeOK, Statuses, CurrentInv, Working, Checking
  <1>7. CASE RetryRegisters
    BY <1>7 DEF RetryRegisters, TypeOK, CurrentInv, Working, Checking
  <1>8. CASE ReadImage
    BY <1>1, <1>2, <1>3, <1>8 DEF ReadImage, Working, Checking
  <1>9. CASE IndexImage
    <2>1. current \in Loads
      BY <1>9 DEF IndexImage, CurrentInv, Checking
    <2> QED
      BY <1>1, <1>2, <1>3, <1>9, <2>1 DEF IndexImage, Working, Checking
  <1>10. CASE ProbeImage
    BY <1>1, <1>2, <1>3, <1>10 DEF ProbeImage, Refuse, Forget, Working, Checking
  <1>11. CASE CheckIdentity
    BY <1>1, <1>2, <1>3, <1>11 DEF CheckIdentity, Refuse, Forget, Working, Checking
  <1>12. CASE CheckFile
    BY <1>1, <1>2, <1>3, <1>12 DEF CheckFile, Refuse, Forget, Throw, Working, Checking
  <1>13. CASE Fetch
    <2>1. MayFollow => hops + 1 \in 0..(MaxRedirects - 1)
      BY <1>3, SizesAssumption DEF MayFollow
    <2> QED
      BY <1>1, <1>2, <1>3, <1>13, <2>1 DEF Fetch, FetchFails, Throw, Working, Checking
  <1>14. CASE CreateEngine
    BY <1>1, <1>2, <1>3, <1>14 DEF CreateEngine, Throw, Working, Checking
  <1>15. CASE RegisterJob
    <2>1. current \in Requests /\ jobs' \in Seq(Requests)
      BY <1>15, RangeOfAppend DEF RegisterJob, TypeOK, CurrentInv, Working
    <2> QED
      BY <1>15, <2>1
      DEF RegisterJob, TypeOK, Statuses, Engines, CurrentInv, Working, Checking
  <1>16. CASE AttachEngine
    <2>1. current \in Requests /\ tasks \in Seq(Requests) /\ Connections \in Nat
      BY <1>16, SizesAssumption DEF AttachEngine, TypeOK, CurrentInv, Working
    <2>2. tasks' = tasks \/ tasks' = tasks \o [i \in 1..Connections |-> current]
      BY <1>16 DEF AttachEngine, EnqueueTasks
    <2>3. tasks' \in Seq(Requests)
      BY <2>1, <2>2, QueueTypes
    <2> QED
      BY <1>16, <2>1, <2>3
      DEF AttachEngine, TypeOK, Statuses, Engines, CurrentInv, Working, Checking
  <1> QED
    BY <1>4, <1>5, <1>6, <1>7, <1>8, <1>9, <1>10, <1>11, <1>12, <1>13, <1>14, <1>15, <1>16
    DEF DispatcherStep

\* What pool threads, the controller, the destructor and handlers do.
LEMMA OthersTypes ==
    ASSUME ManagerInv,
           \/ \E r \in Requests : StartLoaded(r)
           \/ \E t \in Threads : ThreadStep(t)
           \/ ControllerTick \/ ControllerExits \/ Destroy \/ DestructorStep
    PROVE  ManagerInv'
  <1> USE DEF ManagerInv, queue, dispatcher, pool, registry, shutdown
  <1>1. ASSUME NEW r \in Requests, StartLoaded(r) PROVE ManagerInv'
    <2>1. tasks' \in Seq(Requests)
      BY <1>1, QueueTypes, SizesAssumption DEF StartLoaded, EnqueueTasks, TypeOK
    <2> QED
      BY <1>1, <2>1 DEF StartLoaded, TypeOK, Statuses, Engines, CurrentInv
  <1>2. ASSUME NEW t \in Threads, TakeTask(t) PROVE ManagerInv'
    <2>1. Head(tasks) \in Requests /\ Tail(tasks) \in Seq(Requests)
      BY <1>2, QueueTypes DEF TakeTask, TypeOK
    <2> QED
      BY <1>2, <2>1 DEF TakeTask, TypeOK, CurrentInv
  <1>3. ASSUME NEW t \in Threads, EndTask(t) \/ ThreadExits(t) PROVE ManagerInv'
    <2>1. running' \in [Threads -> Requests \union {None, "gone"}]
      BY <1>3 DEF EndTask, ThreadExits, TypeOK
    <2>2. status' \in [Requests -> Statuses]
      BY <1>3 DEF EndTask, ThreadExits, TypeOK, Statuses, Engines
    <2> QED
      BY <1>3, <2>1, <2>2 DEF EndTask, ThreadExits, TypeOK, CurrentInv
  <1>4. CASE ControllerTick
    <2>1. tasks' \in Seq(Requests)
      <3>1. PICK r \in Range(jobs) : EnqueueTasks(r, 1)
        BY <1>4 DEF ControllerTick
      <3>2. r \in Requests
        BY DEF TypeOK, Range
      <3> QED
        BY <3>1, <3>2, QueueTypes DEF EnqueueTasks, TypeOK
    <2> QED
      BY <1>4, <2>1 DEF ControllerTick, TypeOK, CurrentInv
  <1>5. CASE ControllerExits
    BY <1>5 DEF ControllerExits, TypeOK, CurrentInv
  <1>6. CASE StopPool
    BY <1>6 DEF StopPool, TypeOK, CurrentInv
  <1>7. CASE FreeJobs
    BY <1>7 DEF FreeJobs, TypeOK, CurrentInv
  <1>8. CASE Destroy
    BY <1>8 DEF Destroy, StopNotifies, Notified, TypeOK, CurrentInv, Working, Checking
  <1> QED
    BY <1>1, <1>2, <1>3, <1>4, <1>5, <1>6, <1>7, <1>8 DEF ThreadStep, DestructorStep

LEMMA ManagerNext == ManagerInv /\ [Next]_vars => ManagerInv'
  <1> SUFFICES ASSUME ManagerInv, [Next]_vars PROVE ManagerInv'
    OBVIOUS
  <1>1. CASE Next
    BY <1>1, CallerTypes, DispatcherTypes, OthersTypes DEF Next
  <1>2. CASE UNCHANGED vars
    BY <1>2
    DEF vars, queue, dispatcher, pool, registry, shutdown, ManagerInv, TypeOK, CurrentInv
  <1> QED
    BY <1>1, <1>2

\* The variables have their types: among them, at most MAX_REDIRECT_ALLOW answers
\* are asked for, and loaded_images_ holds images of Loads only.
THEOREM TypeCorrect == Spec => []TypeOK
  <1>1. Spec => []ManagerInv
    BY ManagerInit, ManagerNext, PTL DEF Spec
  <1>2. ManagerInv => TypeOK
    BY DEF ManagerInv
  <1> QED
    BY <1>1, <1>2, PTL

----------------------------------------------------------------------------
(* What the dispatcher relies on between two of its steps.                 *)

\* Whoever else moves leaves its request, its lock and the registry alone, and
\* at most wakes it.
OthersLeave ==
    /\ UNCHANGED <<jobs, loadedImages, current, locked>>
    /\ dpc' = dpc \/ (dpc = "asleep" /\ dpc' = "wait")

LEMMA OnlyTheDispatcher ==
    ASSUME [Next]_vars
    PROVE  OthersLeave \/ DispatcherStep \/ Retry
  <1> USE DEF OthersLeave, queue, dispatcher, pool, registry, shutdown
  <1>1. ASSUME NEW c \in Callers, NEW r \in Requests, Call(c, r) PROVE OthersLeave
    BY <1>1 DEF Call, Notified
  <1>2. ASSUME NEW c \in Callers, WaitAll(c) \/ Terminate(c) \/ CallerStep(c)
        PROVE  OthersLeave
    BY <1>2
    DEF WaitAll, Terminate, CallerStep, Register, WaitAllReturns, TerminateJob, Notified
  <1>3. ASSUME NEW r \in Requests, StartLoaded(r) PROVE OthersLeave
    BY <1>3 DEF StartLoaded
  <1>4. ASSUME NEW t \in Threads, ThreadStep(t) PROVE OthersLeave
    BY <1>4 DEF ThreadStep, TakeTask, EndTask, ThreadExits
  <1>5. CASE ControllerTick \/ ControllerExits \/ Destroy \/ DestructorStep
    BY <1>5
    DEF ControllerTick, ControllerExits, Destroy, StopNotifies, Notified,
        DestructorStep, StopPool, FreeJobs
  <1>6. CASE UNCHANGED vars
    BY <1>6 DEF vars
  <1> QED
    BY <1>1, <1>2, <1>3, <1>4, <1>5, <1>6 DEF Next

----------------------------------------------------------------------------
(* The mutex that on_error runs under.                                     *)

\* jobs_mtx_ is held while on_error runs only for a Load.
LockInv ==
    /\ dpc = "callback" /\ locked => current \in Loads
    /\ NoSelfDeadlock

\* As long as only the failures of a Download are answered by calling the
\* library, the dispatcher never waits for the mutex it holds itself, whatever
\* it is asked and whichever check fails.
THEOREM CallbacksReturn == RetryKinds \subseteq {"Download"} => (Spec => []NoSelfDeadlock)
  <1> SUFFICES ASSUME RetryKinds \subseteq {"Download"} PROVE Spec => []NoSelfDeadlock
    OBVIOUS
  <1>1. Init => ManagerInv /\ LockInv
    BY ManagerInit DEF Init, LockInv, NoSelfDeadlock
  <1>2. ManagerInv /\ LockInv /\ [Next]_vars => (ManagerInv /\ LockInv)'
    <2> SUFFICES ASSUME ManagerInv, LockInv, [Next]_vars PROVE LockInv'
      BY ManagerNext
    <2> USE DEF LockInv, NoSelfDeadlock, queue, dispatcher
    <2>1. CASE OthersLeave
      BY <2>1 DEF OthersLeave
    <2>2. CASE DispatcherExits \/ Sleep \/ Take \/ CallbackReturns \/ RegisterJob \/ AttachEngine
      BY <2>2 DEF DispatcherExits, Sleep, Take, CallbackReturns, RegisterJob, AttachEngine
    <2>3. CASE Retry
      <3>1. ~locked
        BY <2>3 DEF Retry, Loads
      <3> QED
        BY <2>3, <3>1 DEF Retry
    <2>4. CASE RetryRegisters
      BY <2>4 DEF RetryRegisters
    <2>5. ASSUME NEW here, NEW there, Go(here, there), there \notin {"callback", "nested"}
          PROVE  LockInv'
      BY <2>5 DEF Go
    <2>6. ASSUME NEW here, NEW inside \in BOOLEAN, Fail(here, inside),
                 inside => here \in Checking
          PROVE  LockInv'
      BY <2>6 DEF Fail, ManagerInv, CurrentInv
    <2>7. CASE ReadImage \/ IndexImage \/ ProbeImage \/ CheckIdentity \/ CheckFile
      BY <2>5, <2>6, <2>7
      DEF ReadImage, IndexImage, ProbeImage, CheckIdentity, CheckFile, Refuse,
          Throw, Checking
    <2>8. CASE Fetch \/ CreateEngine
      BY <2>5, <2>6, <2>8 DEF Fetch, FetchFails, CreateEngine, Throw
    <2> QED
      BY <2>1, <2>2, <2>3, <2>4, <2>7, <2>8, OnlyTheDispatcher DEF DispatcherStep
  <1> QED
    BY <1>1, <1>2, PTL DEF Spec, LockInv

----------------------------------------------------------------------------
(* The two indexes that refuse a second job.                               *)

LoadedJobs == {Path[r] : r \in Range(jobs) \intersect Loads}

\* From its entry in loaded_images_ to its job or its refusal, a Load has a name
\* there that no loaded job has.
Reserving ==
    \/ dpc \in {"probe", "identity", "file"}
    \/ dpc \in {"create", "register"} /\ current \in Loads

TraceInv ==
    /\ Reserving => /\ loadedImages = LoadedJobs \union {Path[current]}
                    /\ Path[current] \notin LoadedJobs
    /\ ~Reserving /\ dpc # "aborted" => loadedImages = LoadedJobs

LEMMA TraceNext == ManagerInv /\ TraceInv /\ [Next]_vars => TraceInv'
  <1> SUFFICES ASSUME ManagerInv, TraceInv, [Next]_vars PROVE TraceInv'
    OBVIOUS
  <1> USE DEF queue, dispatcher, registry
  <1>1. UNCHANGED jobs => LoadedJobs' = LoadedJobs
    BY DEF LoadedJobs
  <1>2. CASE OthersLeave
    BY <1>1, <1>2 DEF OthersLeave, TraceInv, Reserving
  <1>3. CASE DispatcherExits \/ Sleep \/ Take \/ CallbackReturns \/ Retry \/ RetryRegisters
    BY <1>1, <1>3
    DEF DispatcherExits, Sleep, Take, CallbackReturns, Retry, RetryRegisters,
        TraceInv, Reserving
  <1>4. CASE AttachEngine
    BY <1>1, <1>4 DEF AttachEngine, TraceInv, Reserving
  <1>5. ASSUME NEW here, Throw(here) PROVE TraceInv'
    BY <1>5 DEF Throw, Go, TraceInv, Reserving
  <1>6. ASSUME NEW here \in {"probe", "identity", "file"}, Refuse(here) PROVE TraceInv'
    BY <1>1, <1>6 DEF Refuse, Fail, Forget, TraceInv, Reserving
  <1>7. CASE ReadImage
    BY <1>1, <1>7 DEF ReadImage, Go, Fail, TraceInv, Reserving
  <1>8. CASE IndexImage
    BY <1>1, <1>8 DEF IndexImage, Go, Fail, TraceInv, Reserving
  <1>9. CASE ProbeImage
    BY <1>1, <1>6, <1>9 DEF ProbeImage, Go, TraceInv, Reserving
  <1>10. CASE CheckIdentity
    BY <1>1, <1>6, <1>10 DEF CheckIdentity, Go, TraceInv, Reserving
  <1>11. CASE CheckFile
    <2>1. CASE Go("file", "create") /\ UNCHANGED <<loadedImages, hops>>
      <3>1. current \in Loads
        BY <2>1 DEF Go, ManagerInv, CurrentInv, Checking
      <3> QED
        BY <1>1, <2>1, <3>1 DEF Go, TraceInv, Reserving
    <2> QED
      BY <1>5, <1>6, <1>11, <2>1 DEF CheckFile
  <1>12. CASE Fetch
    <2>1. CASE Go("fetch", "create") /\ UNCHANGED <<loadedImages, hops>>
      <3>1. current \notin Loads
        BY <2>1 DEF Go, ManagerInv, CurrentInv
      <3>2. ~Reserving /\ ~Reserving' /\ dpc # "aborted"
        BY <2>1, <3>1 DEF Go, Reserving, Loads
      <3>3. loadedImages' = loadedImages /\ UNCHANGED jobs
        BY <2>1 DEF Go
      <3> QED
        BY <1>1, <3>2, <3>3 DEF TraceInv
    <2>2. CASE FetchFails \/ (Go("fetch", "fetch") /\ UNCHANGED loadedImages)
      BY <1>1, <2>2 DEF FetchFails, Fail, Go, TraceInv, Reserving
    <2> QED
      BY <1>5, <1>12, <2>1, <2>2 DEF Fetch
  <1>13. CASE CreateEngine
    <2>1. CASE Kind[current] = "Download" /\ Fail("create", FALSE) /\ UNCHANGED loadedImages
      BY <1>1, <2>1 DEF Fail, TraceInv, Reserving, Loads
    <2>2. CASE Go("create", "register") /\ UNCHANGED <<loadedImages, hops>>
      BY <1>1, <2>2 DEF Go, TraceInv, Reserving
    <2> QED
      BY <1>5, <1>13, <2>1, <2>2 DEF CreateEngine
  <1>14. CASE RegisterJob
    <2>1. current \in Requests /\ jobs \in Seq(Requests)
      BY <1>14 DEF RegisterJob, ManagerInv, TypeOK, CurrentInv, Working
    <2>2. Range(jobs') = Range(jobs) \union {current}
      BY <1>14, <2>1, RangeOfAppend DEF RegisterJob
    <2>3. LoadedJobs' = LoadedJobs \union (IF current \in Loads THEN {Path[current]} ELSE {})
      BY <2>2 DEF LoadedJobs
    <2> QED
      BY <1>14, <2>3 DEF RegisterJob, TraceInv, Reserving
  <1> QED
    BY <1>2, <1>3, <1>4, <1>7, <1>8, <1>9, <1>10, <1>11, <1>12, <1>13, <1>14,
       OnlyTheDispatcher
    DEF DispatcherStep

\* Between two requests loaded_images_ names the images of the loaded jobs and no
\* other, for any requests and paths: whichever check refuses a Load, at whatever
\* point, the image can be loaded later.
THEOREM RefusalLeavesNoTrace == Spec => []RefusedLoadLeavesNoTrace
  <1>1. Init => ManagerInv /\ TraceInv
    BY ManagerInit DEF Init, TraceInv, Reserving, LoadedJobs, Range
  <1>2. Spec => [](ManagerInv /\ TraceInv)
    BY <1>1, ManagerNext, TraceNext, PTL DEF Spec
  <1>3. TraceInv => RefusedLoadLeavesNoTrace
    BY DEF TraceInv, Reserving, RefusedLoadLeavesNoTrace, LoadedJobs
  <1> QED
    BY <1>2, <1>3, PTL

\* A Load that passed the check of its identity still has no double, because
\* nobody but the dispatcher registers a job.
ExclusiveInv ==
    /\ dpc \in {"file", "create", "register"} /\ current \in Loads => ~Duplicate
    /\ LoadsAreExclusive

LEMMA ExclusiveNext == ManagerInv /\ ExclusiveInv /\ [Next]_vars => ExclusiveInv'
  <1> SUFFICES ASSUME ManagerInv, ExclusiveInv, [Next]_vars PROVE ExclusiveInv'
    OBVIOUS
  <1> USE DEF queue, dispatcher, registry
  <1>1. ASSUME UNCHANGED jobs,
               dpc' \in {"file", "create", "register"} /\ current' \in Loads => ~Duplicate'
        PROVE  ExclusiveInv'
    BY <1>1 DEF ExclusiveInv, LoadsAreExclusive
  <1>2. CASE UNCHANGED <<jobs, current>> /\
             (dpc' \in {"file", "create", "register"} => dpc' = dpc \/ dpc \in {"file", "create"})
    BY <1>1, <1>2 DEF ExclusiveInv, Duplicate
  <1>3. CASE OthersLeave
    BY <1>2, <1>3 DEF OthersLeave
  <1>4. CASE DispatcherExits \/ Sleep \/ RetryRegisters
    BY <1>2, <1>4 DEF DispatcherExits, Sleep, RetryRegisters
  <1>5. CASE Take \/ CallbackReturns \/ Retry \/ AttachEngine
    BY <1>1, <1>5 DEF Take, CallbackReturns, Retry, AttachEngine
  <1>6. CASE ReadImage \/ IndexImage \/ ProbeImage
    BY <1>2, <1>6 DEF ReadImage, IndexImage, ProbeImage, Refuse, Go, Fail
  <1>7. CASE CheckIdentity
    BY <1>1, <1>7 DEF CheckIdentity, Refuse, Go, Fail, Duplicate
  <1>8. CASE CheckFile
    BY <1>2, <1>8 DEF CheckFile, Refuse, Throw, Go, Fail
  <1>9. CASE Fetch
    <2>1. dpc = "fetch" /\ UNCHANGED <<jobs, current>> /\ dpc' \in {"create", "fetch", "callback", "aborted"}
      BY <1>9 DEF Fetch, FetchFails, Throw, Go, Fail
    <2>2. current \notin Loads
      BY <2>1 DEF ManagerInv, CurrentInv
    <2> QED
      BY <1>1, <2>1, <2>2
  <1>10. CASE CreateEngine
    BY <1>2, <1>10 DEF CreateEngine, Throw, Go, Fail
  <1>11. CASE RegisterJob
    <2>1. current \in Requests /\ jobs \in Seq(Requests)
      BY <1>11 DEF RegisterJob, ManagerInv, TypeOK, CurrentInv, Working
    <2>2. /\ DOMAIN jobs = 1..Len(jobs) /\ DOMAIN jobs' = 1..(Len(jobs) + 1)
          /\ jobs'[Len(jobs) + 1] = current /\ Len(jobs) \in Nat
          /\ \A i \in 1..Len(jobs) : jobs'[i] = jobs[i]
      BY <1>11, <2>1 DEF RegisterJob
    <2>3. ASSUME NEW i \in DOMAIN jobs', NEW j \in DOMAIN jobs', i < j,
                 File[jobs'[i]] = File[jobs'[j]]
          PROVE  Kind[jobs'[j]] = "Download"
      <3>1. CASE j \in DOMAIN jobs
        BY <2>2, <2>3, <3>1 DEF ExclusiveInv, LoadsAreExclusive
      <3>2. CASE j = Len(jobs) + 1
        <4>1. jobs'[i] \in Range(jobs) /\ jobs'[j] = current
          BY <2>2, <2>3, <3>2 DEF Range
        <4>2. Duplicate
          BY <2>3, <4>1 DEF Duplicate
        <4>3. current \notin Loads
          BY <1>11, <4>2 DEF RegisterJob, ExclusiveInv
        <4> QED
          BY <2>1, <4>1, <4>3, RequestsAssumption DEF Loads
      <3> QED
        BY <2>2, <3>1, <3>2
    <2>4. LoadsAreExclusive'
      BY <2>3 DEF LoadsAreExclusive
    <2> QED
      BY <1>11, <2>4 DEF RegisterJob, ExclusiveInv
  <1> QED
    BY <1>3, <1>4, <1>5, <1>6, <1>7, <1>8, <1>9, <1>10, <1>11, OnlyTheDispatcher
    DEF DispatcherStep

\* A Load never adds a second job for a file, whatever was downloaded or loaded
\* before, by whatever path, and whoever calls at the same time.
THEOREM LoadsExclude == Spec => []LoadsAreExclusive
  <1>1. Init => ManagerInv /\ ExclusiveInv
    BY ManagerInit DEF Init, ExclusiveInv, LoadsAreExclusive
  <1>2. Spec => [](ManagerInv /\ ExclusiveInv)
    BY <1>1, ManagerNext, ExclusiveNext, PTL DEF Spec
  <1>3. ExclusiveInv => LoadsAreExclusive
    BY DEF ExclusiveInv
  <1> QED
    BY <1>2, <1>3, PTL
=============================================================================
