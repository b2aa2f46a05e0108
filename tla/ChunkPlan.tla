----------------------------- MODULE ChunkPlan -----------------------------
(***************************************************************************)
(* How the dispatcher and the constructor of DownloadEngine divide a file: *)
(* how many connections a job may have and begins with, how many chunks    *)
(* there are, and where each begins and ends.  Sizes are unsigned numbers  *)
(* of one machine word.                                                    *)
(***************************************************************************)
EXTENDS Integers

CONSTANTS
    Word,          \* a size_t is less than this
    IntLimit,      \* an int is less than this, and at least its negative
    MinChunkSize,  \* MIN_CHUNK_SIZE, 1 MB
    MaxChunkSize,  \* MAX_CHUNK_SIZE, 10 MB
    JobCap,        \* PER_JOB_CONNECTION_CAP
    SlowLimit,     \* 512 KB/s, where one connection is enough
    PerConnection  \* kPerConnectionTargetBps

ASSUME PlanAssumption ==
    /\ MinChunkSize \in Nat \ {0} /\ MaxChunkSize \in Nat
    /\ MinChunkSize <= MaxChunkSize /\ MaxChunkSize < Word /\ Word \in Nat
    /\ IntLimit \in Nat \ {0} /\ 2 * IntLimit <= Word
    /\ JobCap \in Nat \ {0}
    /\ SlowLimit \in Nat /\ PerConnection \in Nat \ {0}

Lesser(a, b) == IF a <= b THEN a ELSE b
Greater(a, b) == IF a >= b THEN a ELSE b
RoundUp(a, b) == (a + b - 1) \div b

\* The same in size_t.
RoundUpSize(a, b) == ((a + b - 1) % Word) \div b

----------------------------------------------------------------------------
(* Connections.                                                            *)

ComputeMaxConnections(ranged, limit, capacity) ==
    IF ~ranged \/ capacity <= 1 THEN 1
    ELSE LET cap == Lesser(capacity, JobCap)
             bySpeed == RoundUp(limit, PerConnection) + 1
         IN  IF limit = 0 THEN cap ELSE Lesser(bySpeed, cap)

ComputeInitialDesiredConnections(limit, most) ==
    IF most <= 1 \/ (limit > 0 /\ limit <= SlowLimit) THEN 1 ELSE Lesser(2, most)

\* What Load makes of the number the image holds.
ResumeHint(stored, most) == Lesser(Greater(1, stored), most)

----------------------------------------------------------------------------
(* Chunks.                                                                 *)

ChunkSize(total, most) ==
    Greater(MinChunkSize, Lesser(MaxChunkSize, total \div (most * 4)))

ChunkCount(total, most) == RoundUpSize(total, ChunkSize(total, most))

\* static_cast<int>, and the conversion of an int to size_t.
AsInt(n) == ((n + IntLimit) % (2 * IntLimit)) - IntLimit
AsSize(i) == i % Word

\* The count is an int in the dispatcher and a size_t again in the engine.
NumChunks(total, ranged, most) ==
    IF ranged /\ total > 0 THEN AsSize(AsInt(ChunkCount(total, most))) ELSE 1

\* chunk_size_org: the file divided anew by the number of chunks.
EvenSize(total, n) == RoundUpSize(total, n)

StartRange(total, n, i) == i * EvenSize(total, n)

\* The last chunk takes what is left; in an empty file its end wraps around.
EndRange(total, n, i) ==
    IF i = n - 1 THEN (total - 1) % Word
    ELSE StartRange(total, n, i) + EvenSize(total, n) - 1

\* GetTotalSize of a ChunkInfo.
ChunkTotal(total, n, i) ==
    (EndRange(total, n, i) - StartRange(total, n, i) + 1) % Word

IsFinished(total, n, i, received) == received >= ChunkTotal(total, n, i)

----------------------------------------------------------------------------
(* Properties.                                                             *)

\* The n chunks of a file follow each other without gap or overlap, from the first
\* byte to the last, and none is empty.
Divides(total, n) ==
    /\ StartRange(total, n, 0) = 0
    /\ EndRange(total, n, n - 1) = total - 1
    /\ \A i \in 0..(n - 1) : StartRange(total, n, i) <= EndRange(total, n, i)
    /\ \A i \in 0..(n - 2) : StartRange(total, n, i + 1) = EndRange(total, n, i) + 1

\* No chunk of a file that has a byte is finished before it has received one.
NothingFinishedYet(total, n) ==
    \A i \in 0..(n - 1) : ~IsFinished(total, n, i, 0)
=============================================================================
