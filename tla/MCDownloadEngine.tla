-------------------------- MODULE MCDownloadEngine --------------------------
(* Small instances of DownloadEngine for TLC.                              *)
EXTENDS DownloadEngine, TLC

\* A new job.
NewJob == {[c \in Chunks |-> 0]}

\* A new job, and a job loaded with its first chunk partly received.
NewOrLoaded == NewJob \union {[c \in Chunks |-> IF c = 1 THEN ChunkUnits - 1 ELSE 0]}

\* Pool threads and callers are interchangeable.
ThreadSymmetry == Permutations(Workers) \union Permutations(Callers)
=============================================================================
