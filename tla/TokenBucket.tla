---------------------------- MODULE TokenBucket ----------------------------
(***************************************************************************)
(* The rate limit of one job: workers take bytes from a bucket that the    *)
(* clock fills, while application threads change the limit and stop the    *)
(* job.  A tick of the clock is short against the 200 ms of the burst, the *)
(* limit is in bytes per tick, and what the code keeps in doubles is whole *)
(* at every tick.                                                          *)
(***************************************************************************)
EXTENDS Integers

CONSTANTS
    Workers,      \* pool threads that read for the job
    Setters,      \* application threads that call SetSpeedLimit
    Limits,       \* speed limits, in bytes per tick; 0 is none
    BufferSize,   \* BUFFER_SIZE, which is the least burst as well
    BurstTicks,   \* the 200 ms, in ticks
    MaxIdle,      \* bound: ticks between two refills
    MaxCalls      \* bound: calls of SetSpeedLimit and Resume

ASSUME RatesAssumption ==
    /\ Limits \subseteq Nat /\ Limits # {}
    /\ BufferSize \in Nat \ {0} /\ BurstTicks \in Nat \ {0}
    /\ MaxIdle \in Nat \ {0} /\ MaxCalls \in Nat

ASSUME SettersAssumption == Setters # {}

VARIABLES
    limit,      \* speedLimitBps_
    tokens,     \* rateTokens_
    elapsed,    \* ticks since rateLastRefill_
    downloading, \* state_ is Downloading
    pc,         \* where each worker is
    asked,      \* the limit each setter has stored and not yet applied
    last,       \* the setter that stored limit
    allowance,  \* what the limit allows to be granted by now
    calls

bucket == <<limit, tokens, elapsed>>
history == <<last, allowance>>
vars == <<bucket, downloading, pc, asked, history, calls>>

None == -1
Least(a, b) == IF a <= b THEN a ELSE b
Burst(l) == IF l * BurstTicks > BufferSize THEN l * BurstTicks ELSE BufferSize

\* The first worker has made the job Downloading.  The allowance is an ideal
\* bucket: full when the limit is set, then filled by the clock alone.
Init ==
    /\ limit \in Limits
    /\ tokens = 0 /\ elapsed = 0
    /\ downloading = TRUE
    /\ pc = [w \in Workers |-> "idle"]
    /\ asked = [s \in Setters |-> None]
    /\ last \in Setters
    /\ allowance = Burst(limit)
    /\ calls = 0

\* rate_mtx_ is held from the refill to the wait.
MutexFree == \A w \in Workers : pc[w] # "sleepy"

At(w, here, there) ==
    /\ pc[w] = here
    /\ pc' = [pc EXCEPT ![w] = there]

Tick ==
    /\ elapsed < MaxIdle
    /\ elapsed' = elapsed + 1
    /\ allowance' = Least(allowance + limit, Burst(limit))
    /\ UNCHANGED <<limit, tokens, downloading, pc, asked, last, calls>>

----------------------------------------------------------------------------
(* A worker.                                                               *)

\* StreamBodyToDisk tests the state before it asks for a budget.
Enter(w) ==
    /\ downloading
    /\ At(w, "idle", "ask")
    /\ UNCHANGED <<bucket, downloading, asked, history, calls>>

\* Without a limit there is nothing to wait for.
Ask(w) ==
    /\ At(w, "ask", IF limit = 0 THEN "read" ELSE "loop")
    /\ UNCHANGED <<bucket, downloading, asked, history, calls>>

\* Variant (not the code): the bucket gains the time since the refill before, too.
Refilled_Twice ==
    IF limit = 0 THEN 0 ELSE Least(tokens + limit * (elapsed + 1), Burst(limit))

\* What RefillRateTokens leaves in the bucket; it cuts only when time has passed.
Refilled ==
    IF limit = 0 THEN 0
    ELSE IF elapsed = 0 THEN tokens
    ELSE Least(tokens + limit * elapsed, Burst(limit))

\* Variant (not the code): the state is tested by the caller alone.
GoesOn_Unasked == TRUE

\* A worker that finds no tokens waits only for a job that is downloading.
GoesOn == downloading

\* Variant (not the code): the worker gets what it asked for.
Allowed_Requested(have) == BufferSize

\* The bytes granted from a bucket that holds some.
Allowed(have) == Least(BufferSize, have)

\* One turn of the loop in AcquireReadBudget.
Turn(w) ==
    /\ MutexFree
    /\ elapsed' = 0
    /\ IF Refilled >= 1
       THEN /\ At(w, "loop", "read")
            /\ tokens' = Refilled - Allowed(Refilled)
            /\ allowance' = allowance - Allowed(Refilled)
       ELSE /\ At(w, "loop", IF GoesOn THEN "sleepy" ELSE "idle")
            /\ tokens' = Refilled
            /\ UNCHANGED allowance
    /\ UNCHANGED <<limit, downloading, asked, last, calls>>

\* The mutex is given back with the wait.
Sleep(w) ==
    /\ At(w, "sleepy", "wait")
    /\ UNCHANGED <<bucket, downloading, asked, history, calls>>

\* Variant (not the code): the worker waits for a notification only.
TimeOut_Never(w) == FALSE /\ UNCHANGED vars

\* wait_until ends by itself, after at most a millisecond or the time of a byte.
TimeOut(w) ==
    /\ At(w, "wait", "loop")
    /\ UNCHANGED <<bucket, downloading, asked, history, calls>>

\* http::read with the granted size, and the write.
Read(w) ==
    /\ At(w, "read", "idle")
    /\ UNCHANGED <<bucket, downloading, asked, history, calls>>

----------------------------------------------------------------------------
(* Application threads.                                                    *)

\* notify_all: a worker that is not waiting yet does not hear it.
NotifyAll == pc' = [w \in Workers |-> IF pc[w] = "wait" THEN "loop" ELSE pc[w]]

\* SetSpeedLimit stores the limit first ...
StoreLimit(s) ==
    /\ calls < MaxCalls
    /\ asked[s] = None
    /\ \E l \in Limits :
        /\ limit' = l
        /\ asked' = [asked EXCEPT ![s] = l]
    /\ last' = s
    /\ calls' = calls + 1
    /\ UNCHANGED <<tokens, elapsed, downloading, pc, allowance>>

\* Variant (not the code): what the bucket holds stays.
Cut_Nothing(l) == tokens

\* What the bucket keeps under a new limit.
Cut(l) == IF l = 0 THEN 0 ELSE Least(tokens, Burst(l))

\* ... and then takes the mutex, restarts the clock and cuts the bucket.
ApplyLimit(s) ==
    /\ asked[s] # None
    /\ MutexFree
    /\ elapsed' = 0
    /\ tokens' = Cut(asked[s])
    /\ asked' = [asked EXCEPT ![s] = None]
    /\ allowance' = IF s = last THEN Burst(limit) ELSE allowance
    /\ NotifyAll
    /\ UNCHANGED <<limit, downloading, last, calls>>

\* Pause, Cancel, Fail, and the completion, with the notification that follows.
Stop ==
    /\ downloading
    /\ downloading' = FALSE
    /\ NotifyAll
    /\ UNCHANGED <<bucket, asked, history, calls>>

\* Resume has waited for the workers of before.
Resume ==
    /\ ~downloading /\ calls < MaxCalls
    /\ \A w \in Workers : pc[w] = "idle"
    /\ downloading' = TRUE
    /\ calls' = calls + 1
    /\ UNCHANGED <<bucket, pc, asked, history>>

----------------------------------------------------------------------------

\* What a worker does inside AcquireReadBudget and with its result.
Acquire(w) == Ask(w) \/ Turn(w) \/ Sleep(w) \/ TimeOut(w) \/ Read(w)

Next ==
    \/ Tick
    \/ \E w \in Workers : Enter(w) \/ Acquire(w)
    \/ \E s \in Setters : StoreLimit(s) \/ ApplyLimit(s)
    \/ Stop \/ Resume

Spec == Init /\ [][Next]_vars

\* Time passes, threads go on with what they have begun, and mutexes are fair: a
\* setter or a worker that finds rate_mtx_ free again and again gets it.
Fairness ==
    /\ WF_vars(Tick)
    /\ \A w \in Workers :
        /\ WF_vars(Enter(w)) /\ WF_vars(Ask(w)) /\ SF_vars(Turn(w))
        /\ WF_vars(Sleep(w)) /\ WF_vars(TimeOut(w)) /\ WF_vars(Read(w))
    /\ \A s \in Setters : SF_vars(ApplyLimit(s))

FairSpec == Spec /\ Fairness
----------------------------------------------------------------------------
(* Properties.                                                             *)

TypeOK ==
    /\ limit \in Limits /\ tokens \in Nat /\ elapsed \in 0..MaxIdle
    /\ downloading \in BOOLEAN
    /\ pc \in [Workers -> {"idle", "ask", "loop", "sleepy", "wait", "read"}]
    /\ asked \in [Setters -> Limits \union {None}]
    /\ last \in Setters /\ allowance \in Int
    /\ calls \in 0..MaxCalls

\* The SetSpeedLimit that stored the limit has applied it.
Settled == asked[last] = None

\* Once SetSpeedLimit has returned, the bucket holds no more than the burst of
\* its limit, and nothing without a limit, although workers may refill it by
\* either limit before and calls of several threads overtake each other.
TokensWithinBurst ==
    Settled => tokens <= IF limit = 0 THEN 0 ELSE Burst(limit)

\* From the return of SetSpeedLimit on, the bytes granted to all the workers in
\* any span of time are at most a burst and what the limit yields in that time.
RateHolds == Settled /\ limit > 0 => allowance >= 0

Waiting(w) == pc[w] \in {"loop", "sleepy", "wait"}

\* A job that stops gets its workers back from the rate limit, which Resume's
\* drain loop waits for, also when the notification comes before the wait.
StoppedWorkersLeave ==
    \A w \in Workers : (~downloading) ~> (downloading \/ ~Waiting(w))

\* Under a limit that stays, waiting workers are not left without tokens for
\* ever: some worker always reads again.
SomebodyReads ==
    <>[](limit > 0) =>
        ((\E w \in Workers : Waiting(w)) ~>
             (~downloading \/ \E w \in Workers : pc[w] = "read"))

\* "0 means unlimited" (muld.h:224): once the limit is lifted nobody waits on.
ZeroIsUnlimited ==
    <>[](limit = 0) => \A w \in Workers : Waiting(w) ~> ~Waiting(w)
=============================================================================
