--------------------------- MODULE MCTokenBucket ---------------------------
(* Small instances of TokenBucket for TLC.                                 *)
EXTENDS TokenBucket, TLC

\* A slow limit, whose burst is the buffer, and a fast one, whose burst is more.
TwoLimits == {0, 1, 3}
=============================================================================
