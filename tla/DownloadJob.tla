----------------------------- MODULE DownloadJob -----------------------------
(***************************************************************************)
(* What a download job promises to its user: a phase (DownloadState) and   *)
(* the set of chunks it has fetched completely.  How connections, workers  *)
(* and files bring it about is the business of DownloadEngine.             *)
(***************************************************************************)
CONSTANT Chunk

VARIABLES phase, fetched

Init == phase = "Initialized" /\ fetched \subseteq Chunk

Move(from, to) ==
    /\ phase \in from
    /\ phase' = to
    /\ UNCHANGED fetched

Enqueue == Move({"Initialized", "Paused", "Canceled", "Failed"}, "Queued")
Begin == Move({"Queued"}, "Downloading")
Suspend == Move({"Queued", "Downloading"}, "Paused")
Break == Move({"Queued", "Downloading"}, "Failed")
Cancel == Move({"Queued", "Downloading", "Paused", "Failed"}, "Canceled")

\* A chunk arrives.  It may have been asked for before a pause or a cancel.
Fetch ==
    /\ phase \notin {"Initialized", "Completed"}
    /\ \E c \in Chunk \ fetched : fetched' = fetched \union {c}
    /\ UNCHANGED phase

\* Only the complete file completes the job, and nothing follows.  The last
\* chunk overrides a Pause, a failure, and a Cancel or Resume that races with it.
Finish ==
    /\ fetched = Chunk
    /\ Move({"Queued", "Downloading", "Paused", "Canceled", "Failed"}, "Completed")

Next == Enqueue \/ Begin \/ Suspend \/ Break \/ Cancel \/ Fetch \/ Finish

Spec == Init /\ [][Next]_<<phase, fetched>>
=============================================================================
