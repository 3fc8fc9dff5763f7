---------------------------- MODULE OcrLifecycle ----------------------------
(***************************************************************************)
(* What the OCR queue promises about each job, without rows, timestamps,   *)
(* mutexes, recovery or crashes: a job is executed by one holder at a time *)
(* and a bounded number of times, text is accepted only from the attempt   *)
(* that is running and not cancelled, and an accepted or cancelled job is  *)
(* finished for good.  OcrQueue implements this specification.             *)
(***************************************************************************)
EXTENDS Naturals

CONSTANTS Jobs, Limit

VARIABLES
  phase,     \* "Absent", "Queued", "Running", "Recognized", "Unavailable", "Cancelled"
  attempt,   \* executions started so far
  cancel,    \* a cancellation was requested
  accepted   \* <<job, attempt>> pairs whose text became visible

lifecycleVars == <<phase, attempt, cancel, accepted>>

(* A new library is empty; an existing one may hold waiting jobs. *)
Init ==
  /\ phase \in [Jobs -> {"Absent", "Queued"}]
  /\ attempt \in [Jobs -> Nat]
  /\ \A j \in Jobs : phase[j] = "Absent" => attempt[j] = 0
  /\ cancel = [j \in Jobs |-> FALSE]
  /\ accepted = {}

Move(j, from, to) == phase[j] = from /\ phase' = [phase EXCEPT ![j] = to]

Submit(j) ==
  /\ Move(j, "Absent", "Queued")
  /\ UNCHANGED <<attempt, cancel, accepted>>

Start(j) ==
  /\ \A i \in Jobs : phase[i] # "Running"
  /\ attempt[j] < Limit
  /\ Move(j, "Queued", "Running")
  /\ attempt' = [attempt EXCEPT ![j] = @ + 1]
  /\ UNCHANGED <<cancel, accepted>>

Accept(j) ==
  /\ ~cancel[j]
  /\ Move(j, "Running", "Recognized")
  /\ accepted' = accepted \cup {<<j, attempt[j]>>}
  /\ UNCHANGED <<attempt, cancel>>

Requeue(j) ==
  /\ ~cancel[j]
  /\ attempt[j] < Limit
  /\ Move(j, "Running", "Queued")
  /\ UNCHANGED <<attempt, cancel, accepted>>

GiveUp(j) ==
  /\ ~cancel[j]
  /\ Move(j, "Running", "Unavailable")
  /\ UNCHANGED <<attempt, cancel, accepted>>

Revive(j) ==
  /\ attempt[j] < Limit
  /\ Move(j, "Unavailable", "Queued")
  /\ UNCHANGED <<attempt, cancel, accepted>>

RequestCancel(j) ==
  /\ phase[j] = "Running"
  /\ cancel' = [cancel EXCEPT ![j] = TRUE]
  /\ UNCHANGED <<phase, attempt, accepted>>

Withdraw(j) ==
  /\ Move(j, "Queued", "Cancelled")
  /\ cancel' = [cancel EXCEPT ![j] = TRUE]
  /\ UNCHANGED <<attempt, accepted>>

Abandon(j) ==
  /\ Move(j, "Running", "Cancelled")
  /\ UNCHANGED <<attempt, cancel, accepted>>

Next ==
  \E j \in Jobs :
    \/ Submit(j) \/ Start(j) \/ Accept(j) \/ Requeue(j) \/ GiveUp(j)
    \/ Revive(j) \/ RequestCancel(j) \/ Withdraw(j) \/ Abandon(j)

Spec == Init /\ [][Next]_lifecycleVars
=============================================================================
