---------------------------- MODULE OcrJobTable ----------------------------
(***************************************************************************)
(* The ocr_jobs table of the A2D library database and the row transitions  *)
(* that the Rust core applies to it.  The module has no variables: every   *)
(* operator takes the table (a function from job ids to rows) or one row   *)
(* and returns the rows selected or the row written.  OcrQueue (concurrent *)
(* API calls and crashes) and OcrExecutor (the Android worker) are state   *)
(* machines over these operators.                                          *)
(*                                                                         *)
(* Timestamps are integers.  started and completed record only whether     *)
(* the column is NULL: each is written together with updated, from the     *)
(* same clock reading, so its CHECK against created is updated's.          *)
(***************************************************************************)
EXTENDS Integers, FiniteSets

CONSTANTS
  JobIds,       \* finite set of integers: the ids OcrJobId::try_generate may return
  Scans,        \* registered scans
  Kinds,        \* OCR input kinds (Original, Corrected, OcrOptimized)
  Outcomes,     \* the provider outcomes that occur, a subset of AllOutcomes
  MaxActive,    \* MAX_ACTIVE_OCR_JOBS, 64 in the code
  MaxAttempts,  \* MAX_OCR_JOB_ATTEMPTS, 3 in the code
  BaseDelay,    \* BASE_RETRY_DELAY_MS
  MaxDelay,     \* MAX_RETRY_DELAY_MS
  NoTime        \* SQL NULL in next_retry_at_ms

AllOutcomes == {"Detected", "NoTextDetected", "ProviderUnavailable",
                "ProviderFailed", "ResourceUnavailable", "UnsupportedInput",
                "Cancelled"}

ASSUME JobIdsAssumption == JobIds \subseteq Int /\ IsFiniteSet(JobIds)
ASSUME OutcomesAssumption == Outcomes \subseteq AllOutcomes
ASSUME LimitsAssumption ==
  /\ MaxActive \in Nat
  /\ MaxAttempts \in Nat \ {0}
  /\ BaseDelay \in Nat
  /\ MaxDelay \in Nat
ASSUME InputsAssumption == Scans # {} /\ Kinds # {}
ASSUME NoTimeAssumption == NoTime \notin Int

-----------------------------------------------------------------------------
(* Rows *)

SchemaMaxAttempts == 25

(* MAX_OCR_JOB_ATTEMPTS is below the CHECK of migration 0011. *)
ASSUME SchemaAssumption == MaxAttempts <= SchemaMaxAttempts

ActiveStatus == {"Queued", "Running"}
TerminalStatus == {"Recognized", "Unavailable", "Cancelled"}
Status == ActiveStatus \cup TerminalStatus

ErrorCodes == {"none", "OCR_CANCELLED", "OCR_EXECUTION_INTERRUPTED",
               "OCR_PROVIDER_UNAVAILABLE", "OCR_PROVIDER_FAILED",
               "OCR_RESOURCE_UNAVAILABLE", "OCR_UNSUPPORTED_INPUT"}

(* One row; status "Absent" marks an id that names no row yet.  run is the *)
(* id of the last OCR run, 0 for NULL.                                     *)
Row == [status    : Status \cup {"Absent"},
        scan      : Scans,
        kind      : Kinds,
        created   : Int,
        updated   : Int,
        started   : BOOLEAN,
        completed : BOOLEAN,
        attempt   : Nat,
        retryable : BOOLEAN,
        next      : Int \cup {NoTime},
        error     : ErrorCodes,
        run       : Nat,
        cancel    : BOOLEAN]

(* The row enqueue_ocr_job inserts. *)
QueuedRow(s, k, now) ==
  [status |-> "Queued", scan |-> s, kind |-> k, created |-> now,
   updated |-> now, started |-> FALSE, completed |-> FALSE, attempt |-> 0,
   retryable |-> TRUE, next |-> NoTime, error |-> "none", run |-> 0,
   cancel |-> FALSE]

AbsentRow == [QueuedRow(CHOOSE s \in Scans : TRUE, CHOOSE k \in Kinds : TRUE, 0)
                EXCEPT !.status = "Absent"]

(* The CHECK constraints of migration 0011 that a queue transition could   *)
(* fail, without the timestamp ordering ...                                *)
RowShapeOk(row) ==
  /\ row.attempt <= SchemaMaxAttempts
  /\ row.retryable \/ row.next = NoTime
  /\ \/ row.status = "Queued" /\ ~row.started /\ ~row.completed
     \/ row.status = "Running" /\ row.started /\ ~row.completed
     \/ row.status \in TerminalStatus /\ row.completed

(* ... and with it: a write whose clock reading precedes the creation of   *)
(* the row is refused by SQLite and the caller gets an error.              *)
RowOk(row) == RowShapeOk(row) /\ row.updated >= row.created

-----------------------------------------------------------------------------
(* Queries *)

JobsWith(jobs, statuses) == {j \in JobIds : jobs[j].status \in statuses}

ActiveJobs(jobs) == JobsWith(jobs, ActiveStatus)
RunningJobs(jobs) == JobsWith(jobs, {"Running"})

find_active_ocr_job_for_scan(jobs, s) ==
  {j \in ActiveJobs(jobs) : jobs[j].scan = s}

(* ORDER BY created_at_ms, id *)
OlderJob(jobs, i, j) ==
  \/ jobs[i].created < jobs[j].created
  \/ jobs[i].created = jobs[j].created /\ i <= j

(* LIMIT 1 over such an order: the set of the one job that comes first. *)
Oldest(jobs, S) == {i \in S : \A j \in S : OlderJob(jobs, i, j)}

due_ocr_jobs(jobs, now) ==
  {j \in JobsWith(jobs, {"Queued"}) :
     ~jobs[j].cancel /\ (jobs[j].next = NoTime \/ jobs[j].next <= now)}

(* ORDER BY updated_at_ms DESC, created_at_ms DESC, id DESC *)
FresherJob(jobs, i, j) ==
  \/ jobs[i].updated > jobs[j].updated
  \/ jobs[i].updated = jobs[j].updated /\ OlderJob(jobs, j, i)

JobsOfScan(jobs, s) == {j \in JobsWith(jobs, Status) : jobs[j].scan = s}

find_latest_ocr_job_for_scan(jobs, s) ==
  {i \in JobsOfScan(jobs, s) :
     \A j \in JobsOfScan(jobs, s) : FresherJob(jobs, i, j)}

-----------------------------------------------------------------------------
(* Row transitions *)

retryable_reason(outcome) ==
  outcome \in {"ProviderUnavailable", "ProviderFailed", "ResourceUnavailable"}

unavailable_error_code(outcome) ==
  CASE outcome = "ProviderUnavailable" -> "OCR_PROVIDER_UNAVAILABLE"
    [] outcome = "ProviderFailed"      -> "OCR_PROVIDER_FAILED"
    [] outcome = "ResourceUnavailable" -> "OCR_RESOURCE_UNAVAILABLE"
    [] outcome = "UnsupportedInput"    -> "OCR_UNSUPPORTED_INPUT"
    [] OTHER                           -> "OCR_CANCELLED"

(* BASE * 2^min(attempt - 1, 4), capped. *)
retry_delay_ms(attempt) ==
  LET factor == CASE attempt <= 1 -> 1 [] attempt = 2 -> 2 [] attempt = 3 -> 4
                  [] attempt = 4 -> 8 [] attempt >= 5 -> 16
  IN  IF BaseDelay * factor <= MaxDelay THEN BaseDelay * factor ELSE MaxDelay

Settled(row, status, now, error) ==
  [row EXCEPT !.status = status, !.updated = now, !.completed = TRUE,
              !.retryable = FALSE, !.next = NoTime, !.error = error]

(* The operators named Faulty... are plausible bugs of the operator that   *)
(* follows; no specification uses them.                                    *)
FaultyRequeued(row, now, next, error) ==
  [row EXCEPT !.status = "Queued", !.updated = now, !.completed = FALSE,
              !.retryable = TRUE, !.next = next, !.error = error]

Requeued(row, now, next, error) ==
  [row EXCEPT !.status = "Queued", !.updated = now, !.started = FALSE,
              !.completed = FALSE, !.retryable = TRUE, !.next = next,
              !.error = error]

(* claim_next_ocr_job: the claimed row. *)
Claimed(row, now) ==
  [row EXCEPT !.status = "Running", !.updated = now, !.started = TRUE,
              !.completed = FALSE, !.attempt = @ + 1, !.retryable = TRUE,
              !.next = NoTime, !.cancel = FALSE]

FaultyRecoveredPastLimit(row, now) ==
  IF row.cancel
  THEN Settled(row, "Cancelled", now, "OCR_EXECUTION_INTERRUPTED")
  ELSE Requeued(row, now, now, "OCR_EXECUTION_INTERRUPTED")

FaultyRecoveredWithBackoff(row, now) ==
  IF row.cancel
  THEN Settled(row, "Cancelled", now, "OCR_EXECUTION_INTERRUPTED")
  ELSE IF row.attempt < MaxAttempts
  THEN Requeued(row, now, now + retry_delay_ms(row.attempt), "OCR_EXECUTION_INTERRUPTED")
  ELSE Settled(row, "Unavailable", now, "OCR_EXECUTION_INTERRUPTED")

(* recover_interrupted_ocr_jobs: what happens to a row found Running. *)
Recovered(row, now) ==
  IF row.cancel
  THEN Settled(row, "Cancelled", now, "OCR_EXECUTION_INTERRUPTED")
  ELSE IF row.attempt < MaxAttempts
  THEN Requeued(row, now, now, "OCR_EXECUTION_INTERRUPTED")
  ELSE Settled(row, "Unavailable", now, "OCR_EXECUTION_INTERRUPTED")

(* request_ocr_job_cancellation, for the two states it changes. *)
CancelRequested(row, now) ==
  IF row.status = "Queued"
  THEN [Settled(row, "Cancelled", now, "OCR_CANCELLED") EXCEPT !.cancel = TRUE]
  ELSE [row EXCEPT !.updated = now, !.cancel = TRUE]

FaultyTerminalTransition(row, outcome, run, retryable, now) ==
  IF retryable /\ retryable_reason(outcome) /\ row.attempt < MaxAttempts
  THEN [Requeued(row, now, now + retry_delay_ms(row.attempt),
                 unavailable_error_code(outcome)) EXCEPT !.run = run]
  ELSE [Settled(row, "Recognized", now, "none") EXCEPT !.run = run]

(* apply_terminal_queue_transition (and the tail of complete_ocr_job): an  *)
(* accepted outcome with the id of its run.                                *)
TerminalTransition(row, outcome, run, retryable, now) ==
  IF outcome \in {"Detected", "NoTextDetected"}
  THEN [Settled(row, "Recognized", now, "none") EXCEPT !.run = run]
  ELSE IF retryable /\ retryable_reason(outcome) /\ row.attempt < MaxAttempts
  THEN [Requeued(row, now, now + retry_delay_ms(row.attempt),
                 unavailable_error_code(outcome)) EXCEPT !.run = run]
  ELSE [Settled(row, "Unavailable", now, unavailable_error_code(outcome))
          EXCEPT !.run = run]

FaultyCancelBeatsCommit(row, outcome) == outcome = "Cancelled"

(* Cancellation wins over any outcome that has not been committed. *)
CancelBeatsCommit(row, outcome) == row.cancel \/ outcome = "Cancelled"

FaultyValidateStatusOnly(row, attempt) == row.status = "Running"

FaultyValidateAttemptOnly(row, attempt) == row.attempt = attempt

validate_running_claim(row, attempt) ==
  row.status = "Running" /\ row.attempt = attempt

manual_retry_eligible(row) ==
  /\ row.status = "Unavailable"
  /\ row.attempt < MaxAttempts
  /\ row.error \in {"OCR_PROVIDER_UNAVAILABLE", "OCR_PROVIDER_FAILED",
                    "OCR_RESOURCE_UNAVAILABLE"}

(* manual_retry_ocr_job_for_scan keeps the last error as a diagnostic. *)
ManuallyRetried(row, now) ==
  [Requeued(row, now, now, row.error) EXCEPT !.cancel = FALSE]

=============================================================================
