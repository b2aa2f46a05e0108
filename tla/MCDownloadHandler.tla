------------------------- MODULE MCDownloadHandler -------------------------
(* Small instances of DownloadHandler for TLC.                             *)
EXTENDS DownloadHandler, TLC

\* Pool threads are interchangeable.
WorkerSymmetry == Permutations(Workers)
=============================================================================
