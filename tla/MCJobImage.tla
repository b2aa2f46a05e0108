----------------------------- MODULE MCJobImage -----------------------------
(* Small instances of JobImage for TLC.                                    *)
EXTENDS JobImage, TLC

Sends(etag, lastModified) ==
    [h \in Headers |-> IF h = "etag" THEN etag ELSE lastModified]

\* The file changes once; the server sends only the date of the change.
DatedServer == <<Sends("", "mon"), Sends("", "tue")>>

WorkerSymmetry == Permutations(Workers)
=============================================================================
