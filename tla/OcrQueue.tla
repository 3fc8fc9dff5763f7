------------------------------ MODULE OcrQueue ------------------------------
(***************************************************************************)
(* The durable OCR queue of a2d-core: enqueue, claim (with recovery of     *)
(* interrupted work), cancel, finalize, manual retry and the older split   *)
(* record/complete pair, called concurrently by any number of threads that *)
(* share one storage mutex, with process crashes and failing calls.        *)
(*                                                                         *)
(* One step is one critical section of the mutex, except for claim, whose  *)
(* section is a sequence of autocommitted UPDATEs that a crash or an error *)
(* may cut short: claim holds the mutex from ClaimBegin to ClaimTake or    *)
(* ClaimReturn.                                                            *)
(*                                                                         *)
(* Every call reads the wall clock before it takes the mutex, and the wall *)
(* clock may be set back; a reading is any member of Times.                *)
(***************************************************************************)
EXTENDS OcrJobTable, Sequences

CONSTANTS
  Callers,      \* threads that may be inside enqueue_ocr_job
  Times,        \* wall clock readings
  LegacyRows,   \* ids that may name rows left Queued by an older build at the limit
  SplitApi,     \* TRUE: callers also use record_ocr_run + complete_ocr_job
  MaxRuns,      \* bound on the rows record_ocr_run adds
  Idle          \* no call in progress

ASSUME LegacyAssumption == LegacyRows \subseteq JobIds
ASSUME TimesAssumption == Times \subseteq Int
ASSUME SplitApiAssumption == SplitApi \in BOOLEAN /\ MaxRuns \in Nat
ASSUME IdleAssumption ==
  Idle \notin (Scans \X Kinds) /\ Idle \notin (Times \X Times)

VARIABLES
  jobs,     \* table ocr_jobs
  runs,     \* table ocr_runs, in insertion order; a run's id is its index
  tickets,  \* <<job, attempt>> pairs that claims returned to live threads
  pending,  \* per caller: <<scan, kind>> between enqueue's two sections, or Idle
  claim     \* <<now, recovery now>> of the claim that holds the mutex, or Idle

vars == <<jobs, runs, tickets, pending, claim>>

(* A run, with the claim that produced it; attempt 0 marks a run that      *)
(* record_ocr_run inserted outside finalization.                           *)
Run == [job : JobIds, attempt : Nat, scan : Scans, kind : Kinds,
        outcome : AllOutcomes]

TypeOK ==
  /\ jobs \in [JobIds -> Row]
  /\ runs \in Seq(Run)
  /\ tickets \subseteq JobIds \X Nat
  /\ pending \in [Callers -> (Scans \X Kinds) \cup {Idle}]
  /\ claim \in (Times \X Times) \cup {Idle}

LegacyRow(s, k) == [QueuedRow(s, k, 0) EXCEPT !.attempt = MaxAttempts]

(* A fresh library, or one that holds legacy rows of different scans. *)
Init ==
  /\ \E legacy \in SUBSET LegacyRows, k \in Kinds :
       \E scanOf \in [legacy -> Scans] :
         /\ \A i, j \in legacy : scanOf[i] = scanOf[j] => i = j
         /\ jobs = [j \in JobIds |-> IF j \in legacy
                                     THEN LegacyRow(scanOf[j], k)
                                     ELSE AbsentRow]
  /\ runs = <<>>
  /\ tickets = {}
  /\ pending = [c \in Callers |-> Idle]
  /\ claim = Idle

MutexFree == claim = Idle

(* update_ocr_job *)
Write(j, row) == RowOk(row) /\ jobs' = [jobs EXCEPT ![j] = row]

-----------------------------------------------------------------------------
(* enqueue_ocr_job *)

(* First section: return the active job of the scan if there is one (which *)
(* changes nothing), else prepare the input and go on without the mutex.   *)
EnqueueCheck(c, s, k) ==
  /\ MutexFree
  /\ pending[c] = Idle
  /\ find_active_ocr_job_for_scan(jobs, s) = {}
  /\ pending' = [pending EXCEPT ![c] = <<s, k>>]
  /\ UNCHANGED <<jobs, runs, tickets, claim>>

(* The operators named Faulty... are plausible bugs of the operator that   *)
(* follows; no specification uses them.                                    *)
FaultyEnqueueNotRechecked(s) == Cardinality(ActiveJobs(jobs)) >= MaxActive

EnqueueRefused(s) ==
  \/ find_active_ocr_job_for_scan(jobs, s) # {}
  \/ Cardinality(ActiveJobs(jobs)) >= MaxActive

(* Second section: the scan and the capacity are checked again before the  *)
(* row is inserted.                                                        *)
EnqueueInsert(c, j, now) ==
  /\ MutexFree
  /\ pending[c] # Idle
  /\ ~EnqueueRefused(pending[c][1])
  /\ jobs[j].status = "Absent"
  /\ Write(j, QueuedRow(pending[c][1], pending[c][2], now))
  /\ pending' = [pending EXCEPT ![c] = Idle]
  /\ UNCHANGED <<runs, tickets, claim>>

(* The existing job is returned, the queue is full, or the call failed. *)
EnqueueReturn(c) ==
  /\ MutexFree
  /\ pending[c] # Idle
  /\ pending' = [pending EXCEPT ![c] = Idle]
  /\ UNCHANGED <<jobs, runs, tickets, claim>>

-----------------------------------------------------------------------------
(* claim_next_ocr_job *)

ClaimBegin(now, recoveryNow) ==
  /\ MutexFree
  /\ claim' = <<now, recoveryNow>>
  /\ UNCHANGED <<jobs, runs, tickets, pending>>

(* recover_interrupted_ocr_jobs commits one row at a time. *)
ClaimRecover ==
  /\ ~MutexFree
  /\ \E j \in Oldest(jobs, RunningJobs(jobs)) :
       Write(j, Recovered(jobs[j], claim[2]))
  /\ UNCHANGED <<runs, tickets, pending, claim>>

FaultyClaimPastLimit ==
  /\ ~MutexFree
  /\ RunningJobs(jobs) = {}
  /\ \E j \in Oldest(jobs, due_ocr_jobs(jobs, claim[1])) :
       /\ Write(j, Claimed(jobs[j], claim[1]))
       /\ tickets' = tickets \cup {<<j, jobs[j].attempt + 1>>}
  /\ claim' = Idle
  /\ UNCHANGED <<runs, pending>>

ClaimTake ==
  /\ ~MutexFree
  /\ RunningJobs(jobs) = {}
  /\ \E j \in Oldest(jobs, due_ocr_jobs(jobs, claim[1])) :
       /\ jobs[j].attempt < MaxAttempts
       /\ Write(j, Claimed(jobs[j], claim[1]))
       /\ tickets' = tickets \cup {<<j, jobs[j].attempt + 1>>}
  /\ claim' = Idle
  /\ UNCHANGED <<runs, pending>>

(* Nothing is due, the oldest due row is at the attempt limit, a CHECK     *)
(* refused an UPDATE, or the storage failed: what was recovered stays.     *)
ClaimReturn ==
  /\ ~MutexFree
  /\ claim' = Idle
  /\ UNCHANGED <<jobs, runs, tickets, pending>>

-----------------------------------------------------------------------------
(* Single-section calls.  A call that returns an error changes nothing.    *)

request_ocr_job_cancellation(j, now) ==
  /\ MutexFree
  /\ jobs[j].status \in ActiveStatus
  /\ Write(j, CancelRequested(jobs[j], now))
  /\ UNCHANGED <<runs, tickets, pending, claim>>

NewRun(j, attempt, outcome) ==
  [job |-> j, attempt |-> attempt, scan |-> jobs[j].scan,
   kind |-> jobs[j].kind, outcome |-> outcome]

(* One transaction: the claim is validated, a cancellation wins, otherwise *)
(* the run is inserted together with the queue transition.  A ticket may   *)
(* be presented late or twice.                                             *)
finalize_ocr_job(j, attempt, outcome, retryable, now) ==
  /\ MutexFree
  /\ <<j, attempt>> \in tickets
  /\ validate_running_claim(jobs[j], attempt)
  /\ IF CancelBeatsCommit(jobs[j], outcome)
     THEN /\ Write(j, Settled(jobs[j], "Cancelled", now, "OCR_CANCELLED"))
          /\ runs' = runs
     ELSE /\ Write(j, TerminalTransition(jobs[j], outcome, Len(runs) + 1,
                                         retryable, now))
          /\ runs' = Append(runs, NewRun(j, attempt, outcome))
  /\ UNCHANGED <<tickets, pending, claim>>

(* The capacity that enqueue enforces is not consulted here. *)
manual_retry_ocr_job_for_scan(s, now) ==
  /\ MutexFree
  /\ find_active_ocr_job_for_scan(jobs, s) = {}
  /\ \E j \in find_latest_ocr_job_for_scan(jobs, s) :
       /\ manual_retry_eligible(jobs[j])
       /\ Write(j, ManuallyRetried(jobs[j], now))
  /\ UNCHANGED <<runs, tickets, pending, claim>>

(* The split pair: a run recorded on its own, then a completion that names *)
(* any run of the same scan and input and carries no attempt number.       *)
record_ocr_run(j, outcome) ==
  /\ SplitApi
  /\ MutexFree
  /\ Len(runs) < MaxRuns
  /\ jobs[j].status # "Absent"
  /\ runs' = Append(runs, NewRun(j, 0, outcome))
  /\ UNCHANGED <<jobs, tickets, pending, claim>>

complete_ocr_job(j, r, retryable, now) ==
  /\ SplitApi
  /\ MutexFree
  /\ jobs[j].status = "Running"
  /\ runs[r].scan = jobs[j].scan /\ runs[r].kind = jobs[j].kind
  /\ IF CancelBeatsCommit(jobs[j], runs[r].outcome)
     THEN Write(j, [Settled(jobs[j], "Cancelled", now, "OCR_CANCELLED")
                      EXCEPT !.run = r])
     ELSE Write(j, TerminalTransition(jobs[j], runs[r].outcome, r, retryable, now))
  /\ UNCHANGED <<runs, tickets, pending, claim>>

(* The process dies: memory is lost, committed rows stay. *)
Crash ==
  /\ tickets' = {}
  /\ pending' = [c \in Callers |-> Idle]
  /\ claim' = Idle
  /\ UNCHANGED <<jobs, runs>>

-----------------------------------------------------------------------------

Enqueue ==
  \E c \in Callers :
    \/ \E s \in Scans, k \in Kinds : EnqueueCheck(c, s, k)
    \/ \E j \in JobIds, now \in Times : EnqueueInsert(c, j, now)
    \/ EnqueueReturn(c)

Claim ==
  \/ \E now \in Times, recoveryNow \in Times : ClaimBegin(now, recoveryNow)
  \/ ClaimRecover
  \/ ClaimTake
  \/ ClaimReturn

Settle ==
  \/ \E j \in JobIds, now \in Times : request_ocr_job_cancellation(j, now)
  \/ \E tk \in tickets, outcome \in Outcomes, retryable \in BOOLEAN, now \in Times :
       finalize_ocr_job(tk[1], tk[2], outcome, retryable, now)
  \/ \E s \in Scans, now \in Times : manual_retry_ocr_job_for_scan(s, now)

Split ==
  \/ \E j \in JobIds, outcome \in Outcomes : record_ocr_run(j, outcome)
  \/ \E j \in JobIds, r \in DOMAIN runs, retryable \in BOOLEAN, now \in Times :
       complete_ocr_job(j, r, retryable, now)

Next == Enqueue \/ Claim \/ Settle \/ Split \/ Crash

Spec == Init /\ [][Next]_vars

-----------------------------------------------------------------------------
(* Properties *)

Text == {"Detected", "NoTextDetected"}

(* A scan never has two active jobs, whatever input kind each caller asked *)
(* for: enqueue checks, releases the mutex, and checks again, and manual   *)
(* retry refuses while an active job exists.                               *)
OneActiveJobPerScan ==
  \A i, j \in ActiveJobs(jobs) : jobs[i].scan = jobs[j].scan => i = j

(* At most one row is Running at any time, crashes and half-finished       *)
(* recoveries included: every claim recovers all interrupted rows first.   *)
OneRunningJob == \A i, j \in RunningJobs(jobs) : i = j

(* Text committed by finalize_ocr_job belongs to a Recognized job, was     *)
(* produced by that job's current attempt and is the job's last run: the   *)
(* run and the queue transition are one transaction, and a stale attempt   *)
(* cannot finalize.                                                        *)
TextOnlyWhenRecognized ==
  \A r \in DOMAIN runs :
    runs[r].attempt > 0 /\ runs[r].outcome \in Text =>
      LET row == jobs[runs[r].job]
      IN  row.status = "Recognized" /\ row.attempt = runs[r].attempt /\ row.run = r

(* A Recognized job points to a stored run that holds text of the same     *)
(* scan and input, on the split path too.                                  *)
RecognizedHasText ==
  \A j \in JobIds : jobs[j].status = "Recognized" =>
    /\ jobs[j].run \in DOMAIN runs
    /\ runs[jobs[j].run].outcome \in Text
    /\ runs[jobs[j].run].scan = jobs[j].scan
    /\ runs[jobs[j].run].kind = jobs[j].kind

(* A claimed attempt commits at most one run, however often and however    *)
(* late its holder reports.                                                *)
OneRunPerAttempt ==
  \A q, r \in DOMAIN runs :
    /\ runs[q].attempt > 0
    /\ runs[q].job = runs[r].job
    /\ runs[q].attempt = runs[r].attempt
    => q = r

(* Whatever the state of the table, no queue transition writes a row shape *)
(* that the CHECK constraints of migration 0011 refuse; only a clock that  *)
(* went backwards can make SQLite refuse a write.                          *)
NoTransitionBlockedBySchema ==
  \A j \in JobIds : LET row == jobs[j] IN
    /\ row.status = "Running" =>
         /\ RowShapeOk(Recovered(row, 0))
         /\ RowShapeOk(CancelRequested(row, 0))
         /\ RowShapeOk(Settled(row, "Cancelled", 0, "OCR_CANCELLED"))
         /\ \A o \in Outcomes, retryable \in BOOLEAN :
              RowShapeOk(TerminalTransition(row, o, 1, retryable, 0))
    /\ row.status = "Queued" =>
         /\ RowShapeOk(CancelRequested(row, 0))
         /\ row.attempt < MaxAttempts => RowShapeOk(Claimed(row, 0))
    /\ manual_retry_eligible(row) => RowShapeOk(ManuallyRetried(row, 0))

(* Once a cancellation of running work is durable, the job can only stay   *)
(* Running with the request or become Cancelled: no result, retry or       *)
(* recovery after it wins.                                                 *)
CancellationWins ==
  [][\A j \in JobIds : jobs[j].status = "Running" /\ jobs[j].cancel =>
       \/ jobs'[j].status = "Running" /\ jobs'[j].cancel
       \/ jobs'[j].status = "Cancelled"]_vars

(* A Recognized or Cancelled row never changes again: a late cancellation  *)
(* cannot rewrite a completed job, and a late result cannot revive a       *)
(* cancelled one.                                                          *)
SettledIsFinal ==
  [][\A j \in JobIds : jobs[j].status \in {"Recognized", "Cancelled"} =>
       jobs'[j] = jobs[j]]_vars

(* An attempt is consumed exactly when a claim starts the job, and never   *)
(* beyond the limit: crash, recovery, manual retry and legacy rows neither *)
(* reset the count nor grant a further attempt.                            *)
AttemptAccounting ==
  [][\A j \in JobIds : jobs[j].status # "Absent" =>
       IF jobs[j].status = "Queued" /\ jobs'[j].status = "Running"
       THEN jobs'[j].attempt = jobs[j].attempt + 1 /\ jobs'[j].attempt <= MaxAttempts
       ELSE jobs'[j].attempt = jobs[j].attempt]_vars

-----------------------------------------------------------------------------
(* Refinement *)

CommittedText ==
  {<<runs[r].job, runs[r].attempt>> :
     r \in {q \in DOMAIN runs : runs[q].attempt > 0 /\ runs[q].outcome \in Text}}

Phase == [j \in JobIds |-> jobs[j].status]
AttemptsStarted == [j \in JobIds |-> jobs[j].attempt]
CancelFlag == [j \in JobIds |-> jobs[j].cancel]

Lifecycle == INSTANCE OcrLifecycle WITH
  Jobs     <- JobIds,
  Limit    <- MaxAttempts,
  phase    <- Phase,
  attempt  <- AttemptsStarted,
  cancel   <- CancelFlag,
  accepted <- CommittedText

(* Every step of the queue, recovery and half-finished claims included, is *)
(* one step of the job lifecycle that callers may rely on, or none.        *)
ImplementsLifecycle == Lifecycle!Spec
=============================================================================
