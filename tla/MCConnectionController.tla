----------------------- MODULE MCConnectionController -----------------------
(* Small instances of ConnectionController for TLC.                        *)
EXTENDS ConnectionController

CONSTANTS a, b

\* Two jobs: together they may ask for nearly twice what the pool has.
TwoJobs == {a, b}
NearBounds == [j \in TwoJobs |-> IF j = a THEN Capacity - 1 ELSE Capacity]
=============================================================================
