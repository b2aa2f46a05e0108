------------------------- MODULE MCDownloadManager -------------------------
(* A small instance of DownloadManager for TLC, with the plan the          *)
(* dispatcher makes for a job.                                             *)
EXTENDS DownloadManager, ChunkPlan, TLC

CONSTANTS d, l1, l2

\* A Download and two Loads of one file, whose image goes by one name.
KindOf == (d :> "Download") @@ (l1 :> "Load") @@ (l2 :> "Load")
FileOf == [r \in Requests |-> "file"]
PathOf == [r \in {l1, l2} |-> "image"]
DownloadsOnly == {"Download"}

\* The theorem PlanDividesFile, for files of up to half a word whose count of
\* chunks is an int.
ASSUME PlansDivide ==
    \A total \in 1..(Word \div 2), ranged \in BOOLEAN, most \in 1..JobCap :
        LET n == NumChunks(total, ranged, most)
        IN  (/\ total + MaxChunkSize <= Word
             /\ ranged => ChunkCount(total, most) < IntLimit)
                => Divides(total, n) /\ NothingFinishedYet(total, n)

\* A count that is not an int may become no chunk at all, by whose number the
\* engine would divide, or nearly as many as there are numbers in a word.
ASSUME CountMayBeLost ==
    LET counts == {NumChunks(total, TRUE, most) :
                       total \in 1..(Word \div 2), most \in 1..JobCap}
    IN  0 \in counts /\ \E n \in counts : n >= Word - IntLimit

\* The theorem ConnectionsInBounds, for small limits and pools.
ASSUME BoundsHold ==
    \A ranged \in BOOLEAN, limit \in 0..(2 * SlowLimit), capacity \in 1..6,
       stored \in 0..6 :
        LET most == ComputeMaxConnections(ranged, limit, capacity)
        IN  /\ most \in 1..capacity
            /\ ComputeInitialDesiredConnections(limit, most) \in 1..most
            /\ ResumeHint(stored, most) \in 1..most

\* The one chunk of an empty file is finished before it begins.
ASSUME EmptyFileIsFinished ==
    \A ranged \in BOOLEAN, most \in 1..JobCap :
        NumChunks(0, ranged, most) = 1 /\ IsFinished(0, 1, 0, 0)
=============================================================================
