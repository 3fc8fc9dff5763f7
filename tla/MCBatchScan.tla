---------------------------- MODULE MCBatchScan ----------------------------
(* BatchScan within two sets of bounds: two captures and a death of the       *)
(* process, or one capture with either the screen opened again over a worker  *)
(* that still runs or a failed I/O operation.                                 *)
EXTENDS BatchScan

Reopened == INSTANCE BatchScan WITH MaxReopens <- 1, MaxDeaths <- 0, MaxFaults <- 1

NeverReopened == reopens = 0 /\ faults = 0
NeverDied     == screen = 1 + reopens /\ captures <= 1 /\ reopens + faults <= 1

MCNext ==
    \/ NeverReopened /\ Next
    \/ NeverDied /\ Reopened!Next /\ NeverDied'

MCSpec == Init /\ [][MCNext]_vars

=============================================================================
