------------------------ MODULE ConnectionController ------------------------
(***************************************************************************)
(* The hill climbing of ConnectionController::Tick over the jobs of one    *)
(* manager, with the part of ConnectionControlLoop around it: the snapshot *)
(* of active jobs goes in, the decisions are applied with                  *)
(* SetDesiredConnections.                                                  *)
(*                                                                         *)
(* The two moving averages are abstracted.  Of ema_wait_ratio the class    *)
(* matters: "low" (<= kLowWaitThreshold), "high" (>= kHighWaitThreshold)   *)
(* or "mid"; with kWaitAlpha = 0.5 it cannot fall from high to low in one  *)
(* tick, nor rise from its first value, 0, to high.  Of ema_throughput     *)
(* only whether a probe gained kProbeGainThreshold matters.                *)
(***************************************************************************)
EXTENDS Integers, Sequences, FiniteSets, Functions, SequencesExt

CONSTANTS
    Jobs,            \* the jobs of the manager
    Slow,            \* jobs whose speed limit is at most 512 KiB/s
    Loaded,          \* jobs that were loaded from an image
    Capacity,        \* global_capacity_: the threads of the pool
    MaxConnections   \* max_connections of each job

ASSUME CapacityAssumption == Capacity \in Nat \ {0}

\* ComputeMaxConnections never exceeds the threads of the pool.
ASSUME JobsAssumption ==
    /\ IsFiniteSet(Jobs)
    /\ Slow \subseteq Jobs /\ Loaded \subseteq Jobs
    /\ MaxConnections \in [Jobs -> 1..Capacity]

VARIABLES
    due,       \* the loop has woken up and makes a tick
    active,    \* jobs that are Queued or Downloading
    desired,   \* desiredConnections_ of each job
    control,   \* states_: what the controller remembers of each job
    gains,     \* what the throughput would say of a probe at the last tick
    move,      \* history: what the climb did to each job at the last tick
    cut        \* history: what the capacity trim took from it there

vars == <<due, active, desired, control, gains, move, cut>>

MinConnections == 1
UpCooldown == 1

\* Variant (not the code): a decrease sets no cooldown.
DownCooldown_None == 0

DownCooldown == 2

\* A JobState that was erased or never made: its wait average is 0.
Fresh == [wait |-> "zero", cooldown |-> 0, probe |-> FALSE]

\* The classes the average can be in after one more sample.
NextWait(wait) ==
    CASE wait = "zero" -> {"low", "mid"}
      [] wait = "high" -> {"mid", "high"}
      [] OTHER         -> {"low", "mid", "high"}

Rank(wait) == CASE wait = "high" -> 2 [] wait = "mid" -> 1 [] OTHER -> 0

\* ComputeInitialDesiredConnections for a new job; a loaded job starts with the
\* number in its image, clamped.
InitialDesired(j) ==
    IF j \in Loaded THEN 1..MaxConnections[j]
    ELSE IF MaxConnections[j] = 1 \/ j \in Slow THEN {1} ELSE {2}

Init ==
    /\ due = FALSE
    /\ active \in SUBSET Jobs
    /\ desired \in {d \in [Jobs -> 1..Capacity] :
                     \A j \in Jobs : d[j] \in InitialDesired(j)}
    /\ control = [j \in Jobs |-> Fresh]
    /\ gains = [j \in Jobs |-> FALSE]
    /\ move = [j \in Jobs |-> "none"]
    /\ cut = [j \in Jobs |-> 0]

----------------------------------------------------------------------------

Cooled(j) == IF control[j].cooldown > 0 THEN control[j].cooldown - 1 ELSE 0

Proposal(d, cooldown, probe, kind) ==
    [desired |-> d, cooldown |-> cooldown, probe |-> probe, kind |-> kind]

\* Variant (not the code): the average is compared the wrong way round.
Contended_Low(j, wait) == wait = "low" /\ desired[j] > MinConnections

\* The connections of the job contend for a limited budget.
Contended(j, wait) == wait = "high" /\ desired[j] > MinConnections

\* Variant (not the code): the bound of the job is not looked at.
MayProbe_NoBound(j, wait) == Cooled(j) = 0 /\ wait = "low"

MayProbe(j, wait) ==
    Cooled(j) = 0 /\ wait = "low" /\ desired[j] < MaxConnections[j]

\* Variant (not the code): the gain is compared the wrong way round.
Judge_Inverted(j, gain) ==
    IF gain /\ desired[j] > MinConnections
    THEN Proposal(desired[j] - 1, DownCooldown, FALSE, "down")
    ELSE Proposal(desired[j], 0, FALSE, "none")

\* The verdict on the probe of the tick before.
Judge(j, gain) ==
    IF ~gain /\ desired[j] > MinConnections
    THEN Proposal(desired[j] - 1, DownCooldown, FALSE, "down")
    ELSE Proposal(desired[j], 0, FALSE, "none")

\* One job: back off when it waits for tokens, otherwise probe one more
\* connection and keep it if the throughput gained by it.  A probe that reaches
\* the job's maximum is not judged while it is there.
Climb(j, wait, gain) ==
    CASE Contended(j, wait)
           -> Proposal(desired[j] - 1, DownCooldown, FALSE, "down")
      [] ~Contended(j, wait) /\ MayProbe(j, wait)
           -> IF control[j].probe
              THEN Judge(j, gain)
              ELSE Proposal(desired[j] + 1, UpCooldown, TRUE, "up")
      [] OTHER
           -> Proposal(desired[j], Cooled(j), control[j].probe /\ wait = "low", "none")

----------------------------------------------------------------------------
(* The capacity trim.                                                      *)

\* Variant (not the code): the excess is one too small.
TrimOne_OffByOne(d, j) ==
    IF SumFunction(d) > Capacity + 1 /\ d[j] > MinConnections
    THEN [d EXCEPT ![j] = @ - 1] ELSE d

\* One visit of the loop: nothing is taken once the excess is gone, nor from a
\* job at its minimum.
TrimOne(d, j) ==
    IF SumFunction(d) > Capacity /\ d[j] > MinConnections
    THEN [d EXCEPT ![j] = @ - 1] ELSE d

\* The loop over the order, again and again while somebody can be reduced:
\* after Capacity rounds every job is at its minimum.
Trim(d, order) ==
    LET n == Len(order)
        after[k \in 0..(Capacity * n)] ==
            IF k = 0 THEN d ELSE TrimOne(after[k - 1], order[((k - 1) % n) + 1])
    IN  after[Capacity * n]

\* Variant (not the code): the jobs that wait least are reduced first.
TrimOrders_Reversed(jobs, wait) ==
    {order \in SetToSeqs(jobs) :
        \A i, k \in DOMAIN order : i < k => Rank(wait[order[i]]) <= Rank(wait[order[k]])}

\* The sorted order: jobs that wait more come first.  Inside one class the
\* exact averages decide, which are abstracted.
TrimOrders(jobs, wait) ==
    {order \in SetToSeqs(jobs) :
        \A i, k \in DOMAIN order : i < k => Rank(wait[order[i]]) >= Rank(wait[order[k]])}

----------------------------------------------------------------------------

\* The wait for CONNECTION_CONTROL_TICK is over.
WakeUp ==
    /\ ~due /\ due' = TRUE
    /\ UNCHANGED <<active, desired, control, gains, move, cut>>

\* A tick.  The state of jobs that are not active is erased, by Remove and by
\* the pruning of Tick.
Tick ==
    /\ due /\ due' = FALSE
    /\ UNCHANGED active
    /\ \E wait \in [active -> {"low", "mid", "high"}], gain \in [active -> BOOLEAN] :
       /\ \A j \in active : wait[j] \in NextWait(control[j].wait)
       /\ LET climbed == [j \in active |-> Climb(j, wait[j], gain[j])]
              wanted == [j \in active |-> climbed[j].desired]
          IN  \E order \in TrimOrders(active, wait) :
              LET decided == Trim(wanted, order)
              IN  /\ desired' = [j \in Jobs |->
                                   IF j \in active THEN decided[j] ELSE desired[j]]
                  /\ control' = [j \in Jobs |->
                                   IF j \in active
                                   THEN [wait |-> wait[j],
                                         cooldown |-> climbed[j].cooldown,
                                         probe |-> climbed[j].probe]
                                   ELSE Fresh]
                  /\ gains' = [j \in Jobs |-> j \in active /\ gain[j]]
                  /\ move' = [j \in Jobs |->
                                IF j \in active THEN climbed[j].kind ELSE "none"]
                  /\ cut' = [j \in Jobs |->
                               IF j \in active THEN wanted[j] - decided[j] ELSE 0]

\* Jobs become active (started, resumed) and stop being so between ticks.
Activate(j) ==
    /\ j \notin active
    /\ active' = active \union {j}
    /\ UNCHANGED <<due, desired, control, gains, move, cut>>

Deactivate(j) ==
    /\ j \in active
    /\ active' = active \ {j}
    /\ UNCHANGED <<due, desired, control, gains, move, cut>>

Next == WakeUp \/ Tick \/ \E j \in Jobs : Activate(j) \/ Deactivate(j)

Spec == Init /\ [][Next]_vars

\* The loop wakes up every CONNECTION_CONTROL_TICK, and every tick ends (what
\* WF_vars(Tick) would say, a tick being enabled as long as it is due).
FairSpec == Spec /\ WF_vars(WakeUp) /\ []<>(~due)

----------------------------------------------------------------------------
(* Properties.                                                             *)

\* The decisions stay within each job's bounds.
TypeOK ==
    /\ due \in BOOLEAN
    /\ active \subseteq Jobs
    /\ \A j \in Jobs : desired[j] \in MinConnections..MaxConnections[j]
    /\ control \in [Jobs -> [wait : {"zero", "low", "mid", "high"},
                             cooldown : 0..DownCooldown, probe : BOOLEAN]]
    /\ gains \in [Jobs -> BOOLEAN]
    /\ move \in [Jobs -> {"none", "up", "down"}]
    /\ cut \in [Jobs -> Nat]

\* After a tick the active jobs together want no more connections than the pool
\* has threads, unless each of them is at its minimum; a new or resumed job can
\* exceed that until the next tick only.
CapacityRespected ==
    [][due /\ ~due' =>
               \/ SumFunctionOnSet(desired', active) <= Capacity
               \/ \A j \in active : desired'[j] = MinConnections]_vars

\* The controller does not flutter: after a job's connections were probed up,
\* or lowered for waiting or for a probe that failed, the next tick does not
\* raise them ("Immediately after a downscale, cooldown prevents instant
\* re-growth").
Damped ==
    [][\A j \in Jobs : move[j] \in {"up", "down"} => desired'[j] <= desired[j]]_vars

\* Who waits more for tokens gives up at least as many connections to the
\* capacity as who waits less, unless it has none to give.
TrimFollowsWait ==
    \A i, j \in Jobs :
        Rank(control[i].wait) > Rank(control[j].wait)
        => cut[i] >= cut[j] \/ desired[i] = MinConnections

\* A job that keeps waiting for tokens comes down to one connection.
BacksOff ==
    \A j \in Jobs :
        <>[](j \in active /\ control[j].wait = "high")
        => <>[](desired[j] = MinConnections)

\* A job that is alone, does not wait, and gains by every connection gets all
\* the connections it may have.
SoleJobFills ==
    \A j \in Jobs :
        <>[](active = {j} /\ control[j].wait = "low" /\ gains[j])
        => <>[](desired[j] = MaxConnections[j])

=============================================================================
