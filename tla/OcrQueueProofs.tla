--------------------------- MODULE OcrQueueProofs ---------------------------
(***************************************************************************)
(* Machine-checked theorems about OcrQueue, for every set of jobs, scans,  *)
(* callers and clock readings, and every value of the limits.              *)
(***************************************************************************)
EXTENDS OcrQueue, TLAPS

-----------------------------------------------------------------------------
(* Row transitions keep a row a row. *)

LEMMA QueuedRowType ==
  ASSUME NEW s \in Scans, NEW k \in Kinds, NEW now \in Int
  PROVE  QueuedRow(s, k, now) \in Row
BY DEF QueuedRow, Row, Status, ActiveStatus, TerminalStatus, ErrorCodes

LEMMA AbsentRowType ==
  AbsentRow \in Row /\ AbsentRow.status = "Absent" /\ AbsentRow.attempt = 0
<1>1. PICK s \in Scans : s = CHOOSE x \in Scans : TRUE
  BY InputsAssumption
<1>2. PICK k \in Kinds : k = CHOOSE x \in Kinds : TRUE
  BY InputsAssumption
<1>3. QueuedRow(s, k, 0) \in Row
  BY QueuedRowType
<1>4. AbsentRow = [QueuedRow(s, k, 0) EXCEPT !.status = "Absent"]
  BY <1>1, <1>2 DEF AbsentRow
<1>5. QueuedRow(s, k, 0).attempt = 0
  BY DEF QueuedRow
<1> QED BY <1>3, <1>4, <1>5 DEF Row

LEMMA DelayType == ASSUME NEW a \in Nat PROVE retry_delay_ms(a) \in Nat
BY LimitsAssumption DEF retry_delay_ms

LEMMA ErrorCodeType ==
  ASSUME NEW o PROVE unavailable_error_code(o) \in ErrorCodes
BY DEF unavailable_error_code, ErrorCodes

LEMMA SettledType ==
  ASSUME NEW row \in Row, NEW status \in Status, NEW now \in Int,
         NEW error \in ErrorCodes
  PROVE  Settled(row, status, now, error) \in Row
BY DEF Settled, Row

LEMMA RequeuedType ==
  ASSUME NEW row \in Row, NEW now \in Int, NEW next \in Int,
         NEW error \in ErrorCodes
  PROVE  Requeued(row, now, next, error) \in Row
BY DEF Requeued, Row, Status, ActiveStatus

LEMMA ClaimedType ==
  ASSUME NEW row \in Row, NEW now \in Int
  PROVE  Claimed(row, now) \in Row
<1>1. "Running" \in Status
  BY DEF Status, ActiveStatus
<1>2. row.attempt + 1 \in Nat
  BY DEF Row
<1> QED BY <1>1, <1>2 DEF Claimed, Row

LEMMA RecoveredType ==
  ASSUME NEW row \in Row, NEW now \in Int
  PROVE  Recovered(row, now) \in Row
BY SettledType, RequeuedType
   DEF Recovered, Status, TerminalStatus, ErrorCodes

LEMMA CancelRequestedType ==
  ASSUME NEW row \in Row, NEW now \in Int
  PROVE  CancelRequested(row, now) \in Row
<1>1. Settled(row, "Cancelled", now, "OCR_CANCELLED") \in Row
  BY SettledType DEF Status, TerminalStatus, ErrorCodes
<1> QED BY <1>1 DEF CancelRequested, Row

LEMMA TerminalTransitionType ==
  ASSUME NEW row \in Row, NEW outcome, NEW run \in Nat,
         NEW retryable \in BOOLEAN, NEW now \in Int
  PROVE  TerminalTransition(row, outcome, run, retryable, now) \in Row
<1> DEFINE code == unavailable_error_code(outcome)
<1>1. code \in ErrorCodes BY ErrorCodeType
<1>2. now + retry_delay_ms(row.attempt) \in Int BY DelayType DEF Row
<1>3. Settled(row, "Recognized", now, "none") \in Row
  BY SettledType DEF Status, TerminalStatus, ErrorCodes
<1>4. Settled(row, "Unavailable", now, code) \in Row
  BY <1>1, SettledType DEF Status, TerminalStatus
<1>5. Requeued(row, now, now + retry_delay_ms(row.attempt), code) \in Row
  BY <1>1, <1>2, RequeuedType
<1> HIDE DEF code
<1>6. ASSUME NEW r \in Row PROVE [r EXCEPT !.run = run] \in Row
  BY DEF Row
<1> QED BY <1>3, <1>4, <1>5, <1>6 DEF TerminalTransition, code

LEMMA ManuallyRetriedType ==
  ASSUME NEW row \in Row, NEW now \in Int
  PROVE  ManuallyRetried(row, now) \in Row
<1>1. Requeued(row, now, now, row.error) \in Row
  BY RequeuedType DEF Row
<1> QED BY <1>1 DEF ManuallyRetried, Row

-----------------------------------------------------------------------------
(* What each transition does to the fields the invariants speak of. *)

LEMMA SettledFields ==
  ASSUME NEW row \in Row, NEW status, NEW now, NEW error
  PROVE  LET new == Settled(row, status, now, error)
         IN  /\ new.status = status /\ new.scan = row.scan /\ new.kind = row.kind
             /\ new.attempt = row.attempt /\ new.cancel = row.cancel
             /\ new.run = row.run
BY DEF Settled, Row

LEMMA RequeuedFields ==
  ASSUME NEW row \in Row, NEW now, NEW next, NEW error
  PROVE  LET new == Requeued(row, now, next, error)
         IN  /\ new.status = "Queued" /\ new.scan = row.scan /\ new.kind = row.kind
             /\ new.attempt = row.attempt /\ new.cancel = row.cancel
             /\ new.run = row.run
BY DEF Requeued, Row

LEMMA ClaimedFields ==
  ASSUME NEW row \in Row, NEW now
  PROVE  LET new == Claimed(row, now)
         IN  /\ new.status = "Running" /\ new.scan = row.scan /\ new.kind = row.kind
             /\ new.attempt = row.attempt + 1 /\ new.cancel = FALSE
             /\ new.run = row.run
BY DEF Claimed, Row

LEMMA RecoveredFields ==
  ASSUME NEW row \in Row, NEW now
  PROVE  LET new == Recovered(row, now)
         IN  /\ new.status = IF row.cancel THEN "Cancelled"
                             ELSE IF row.attempt < MaxAttempts THEN "Queued"
                             ELSE "Unavailable"
             /\ new.scan = row.scan /\ new.kind = row.kind
             /\ new.attempt = row.attempt /\ new.cancel = row.cancel
             /\ new.run = row.run
BY SettledFields, RequeuedFields DEF Recovered

LEMMA CancelRequestedFields ==
  ASSUME NEW row \in Row, NEW now \in Int
  PROVE  LET new == CancelRequested(row, now)
         IN  /\ new.status = IF row.status = "Queued" THEN "Cancelled" ELSE row.status
             /\ new.scan = row.scan /\ new.kind = row.kind
             /\ new.attempt = row.attempt /\ new.cancel = TRUE
             /\ new.run = row.run
<1> DEFINE s == Settled(row, "Cancelled", now, "OCR_CANCELLED")
<1>1. s \in Row
  BY SettledType DEF Status, TerminalStatus, ErrorCodes
<1>2. /\ s.status = "Cancelled" /\ s.scan = row.scan /\ s.kind = row.kind
      /\ s.attempt = row.attempt /\ s.run = row.run
  BY SettledFields
<1> HIDE DEF s
<1>3. LET new == [s EXCEPT !.cancel = TRUE]
      IN  /\ new.status = "Cancelled" /\ new.scan = row.scan /\ new.kind = row.kind
          /\ new.attempt = row.attempt /\ new.cancel = TRUE /\ new.run = row.run
  BY <1>1, <1>2 DEF Row
<1>4. LET new == [row EXCEPT !.updated = now, !.cancel = TRUE]
      IN  /\ new.status = row.status /\ new.scan = row.scan /\ new.kind = row.kind
          /\ new.attempt = row.attempt /\ new.cancel = TRUE /\ new.run = row.run
  BY DEF Row
<1> QED BY <1>3, <1>4 DEF CancelRequested, s

LEMMA TerminalTransitionFields ==
  ASSUME NEW row \in Row, NEW outcome, NEW run \in Nat,
         NEW retryable \in BOOLEAN, NEW now \in Int
  PROVE  LET new == TerminalTransition(row, outcome, run, retryable, now)
         IN  /\ outcome \in Text => new.status = "Recognized"
             /\ outcome \notin Text =>
                  \/ new.status = "Queued" /\ row.attempt < MaxAttempts
                  \/ new.status = "Unavailable"
             /\ new.scan = row.scan /\ new.kind = row.kind
             /\ new.attempt = row.attempt /\ new.cancel = row.cancel
             /\ new.run = run
<1> DEFINE code == unavailable_error_code(outcome)
           next == now + retry_delay_ms(row.attempt)
           Same(r) == /\ r.scan = row.scan /\ r.kind = row.kind
                      /\ r.attempt = row.attempt /\ r.cancel = row.cancel
<1>1. code \in ErrorCodes BY ErrorCodeType
<1>2. next \in Int BY DelayType DEF Row
<1> HIDE DEF code, next
<1>3. ASSUME NEW r \in Row, Same(r)
      PROVE  /\ Same([r EXCEPT !.run = run])
             /\ [r EXCEPT !.run = run].status = r.status
             /\ [r EXCEPT !.run = run].run = run
  BY <1>3 DEF Row
<1>4. LET r == Settled(row, "Recognized", now, "none")
      IN  r \in Row /\ Same(r) /\ r.status = "Recognized"
  <2>1. "Recognized" \in Status /\ "none" \in ErrorCodes
    BY DEF Status, TerminalStatus, ErrorCodes
  <2> QED BY <2>1, SettledType, SettledFields
<1>5. LET r == Settled(row, "Unavailable", now, code)
      IN  r \in Row /\ Same(r) /\ r.status = "Unavailable"
  BY <1>1, SettledType, SettledFields DEF Status, TerminalStatus
<1>6. LET r == Requeued(row, now, next, code)
      IN  r \in Row /\ Same(r) /\ r.status = "Queued"
  BY <1>1, <1>2, RequeuedType, RequeuedFields
<1> HIDE DEF Same
<1>7. CASE outcome \in Text
  BY <1>3, <1>4, <1>7 DEF TerminalTransition, Text, Same
<1>8. CASE outcome \notin Text
  BY <1>3, <1>5, <1>6, <1>8 DEF TerminalTransition, Text, Same, code, next
<1> QED BY <1>7, <1>8

LEMMA ManuallyRetriedFields ==
  ASSUME NEW row \in Row, NEW now \in Int
  PROVE  LET new == ManuallyRetried(row, now)
         IN  /\ new.status = "Queued" /\ new.scan = row.scan /\ new.kind = row.kind
             /\ new.attempt = row.attempt /\ new.cancel = FALSE
             /\ new.run = row.run
<1> DEFINE r == Requeued(row, now, now, row.error)
<1>1. r \in Row BY RequeuedType DEF Row
<1>2. /\ r.status = "Queued" /\ r.scan = row.scan /\ r.kind = row.kind
      /\ r.attempt = row.attempt /\ r.run = row.run
  BY RequeuedFields
<1> HIDE DEF r
<1>3. ManuallyRetried(row, now) = [r EXCEPT !.cancel = FALSE]
  BY DEF ManuallyRetried, r
<1> QED BY <1>1, <1>2, <1>3 DEF Row

-----------------------------------------------------------------------------
(* The writes of the queue, by the state of the row they start from. *)

Rewrites(j, row) == jobs' = [jobs EXCEPT ![j] = row]

Inserts(j) ==
  /\ jobs[j].status = "Absent"
  /\ \E s \in Scans, k \in Kinds, now \in Int :
       /\ find_active_ocr_job_for_scan(jobs, s) = {}
       /\ Rewrites(j, QueuedRow(s, k, now))

Claims(j) ==
  /\ RunningJobs(jobs) = {}
  /\ jobs[j].status = "Queued"
  /\ ~jobs[j].cancel
  /\ jobs[j].attempt < MaxAttempts
  /\ \E now \in Int : Rewrites(j, Claimed(jobs[j], now))

Recovers(j) ==
  /\ jobs[j].status = "Running"
  /\ \E now \in Int : Rewrites(j, Recovered(jobs[j], now))

Cancels(j) ==
  /\ jobs[j].status \in ActiveStatus
  /\ \E now \in Int : Rewrites(j, CancelRequested(jobs[j], now))

Drops(j) ==
  /\ jobs[j].status = "Running"
  /\ \E row \in Row :
       /\ row.status = "Cancelled"
       /\ row.scan = jobs[j].scan /\ row.kind = jobs[j].kind
       /\ row.attempt = jobs[j].attempt /\ row.cancel = jobs[j].cancel
       /\ Rewrites(j, row)

Finishes(j) ==
  /\ jobs[j].status = "Running"
  /\ ~jobs[j].cancel
  /\ \E outcome \in AllOutcomes, run \in Nat, retryable \in BOOLEAN, now \in Int :
       Rewrites(j, TerminalTransition(jobs[j], outcome, run, retryable, now))

Revives(j) ==
  /\ jobs[j].status = "Unavailable"
  /\ jobs[j].attempt < MaxAttempts
  /\ find_active_ocr_job_for_scan(jobs, jobs[j].scan) = {}
  /\ \E now \in Int : Rewrites(j, ManuallyRetried(jobs[j], now))

(* Writes that accept no provider result. *)
QuietStep(j) == \/ Inserts(j) \/ Claims(j) \/ Recovers(j) \/ Cancels(j)
                \/ Drops(j) \/ Revives(j)

RowStep(j) == QuietStep(j) \/ Finishes(j)

(* What RowStep(j) comes to on the fields of row j. *)
FieldStep(old, new) ==
  \/ old.status = "Absent" /\ new.status = "Queued" /\ new.attempt = 0 /\ ~new.cancel
  \/ /\ old.status # "Absent" /\ new.scan = old.scan /\ new.kind = old.kind
     /\ \/ /\ old.status = "Queued" /\ new.status = "Running"
           /\ old.attempt < MaxAttempts /\ new.attempt = old.attempt + 1
           /\ ~old.cancel /\ ~new.cancel
        \/ /\ new.attempt = old.attempt
           /\ \/ /\ old.status = "Running" /\ ~old.cancel /\ ~new.cancel
                 /\ new.status \in {"Queued", "Recognized", "Unavailable"}
                 /\ new.status = "Queued" => old.attempt < MaxAttempts
              \/ /\ old.status = "Running" /\ new.cancel = old.cancel
                 /\ new.status = "Cancelled"
              \/ old.status = "Running" /\ new.status = "Running" /\ new.cancel
              \/ old.status = "Queued" /\ new.status = "Cancelled" /\ new.cancel
              \/ /\ old.status = "Unavailable" /\ new.status = "Queued" /\ ~new.cancel
                 /\ old.attempt < MaxAttempts

LEMMA RowStepFields ==
  ASSUME TypeOK, NEW j \in JobIds, RowStep(j)
  PROVE  /\ jobs' = [jobs EXCEPT ![j] = jobs'[j]]
         /\ jobs'[j] \in Row
         /\ FieldStep(jobs[j], jobs'[j])
<1> DEFINE old == jobs[j]
<1>1. old \in Row
  BY DEF TypeOK
<1>2. ASSUME NEW row \in Row, Rewrites(j, row), FieldStep(old, row)
      PROVE  /\ jobs' = [jobs EXCEPT ![j] = jobs'[j]]
             /\ jobs'[j] \in Row
             /\ FieldStep(old, jobs'[j])
  BY <1>2 DEF TypeOK, Rewrites
<1>3. CASE Inserts(j)
  <2>1. PICK s \in Scans, k \in Kinds, now \in Int : Rewrites(j, QueuedRow(s, k, now))
    BY <1>3 DEF Inserts
  <2>2. FieldStep(old, QueuedRow(s, k, now))
    BY <1>3 DEF Inserts, FieldStep, QueuedRow
  <2> QED BY <1>2, <2>1, <2>2, QueuedRowType
<1>4. CASE Claims(j)
  <2>1. PICK now \in Int : Rewrites(j, Claimed(old, now))
    BY <1>4 DEF Claims
  <2>2. FieldStep(old, Claimed(old, now))
    BY <1>1, <1>4, ClaimedFields DEF Claims, FieldStep
  <2> QED BY <1>1, <1>2, <2>1, <2>2, ClaimedType
<1>5. CASE Recovers(j)
  <2>1. PICK now \in Int : Rewrites(j, Recovered(old, now))
    BY <1>5 DEF Recovers
  <2>2. FieldStep(old, Recovered(old, now))
    BY <1>1, <1>5, RecoveredFields DEF Recovers, FieldStep, Row
  <2> QED BY <1>1, <1>2, <2>1, <2>2, RecoveredType
<1>6. CASE Cancels(j)
  <2>1. PICK now \in Int : Rewrites(j, CancelRequested(old, now))
    BY <1>6 DEF Cancels
  <2>2. FieldStep(old, CancelRequested(old, now))
    BY <1>1, <1>6, CancelRequestedFields DEF Cancels, FieldStep, ActiveStatus
  <2> QED BY <1>1, <1>2, <2>1, <2>2, CancelRequestedType
<1>7. CASE Drops(j)
  <2>1. PICK row \in Row :
          /\ row.status = "Cancelled"
          /\ row.scan = old.scan /\ row.kind = old.kind
          /\ row.attempt = old.attempt /\ row.cancel = old.cancel
          /\ Rewrites(j, row)
    BY <1>7 DEF Drops
  <2>2. FieldStep(old, row)
    BY <1>7, <2>1 DEF Drops, FieldStep
  <2> QED BY <1>2, <2>1, <2>2
<1>8. CASE Finishes(j)
  <2>1. PICK outcome \in AllOutcomes, run \in Nat, retryable \in BOOLEAN, now \in Int :
          Rewrites(j, TerminalTransition(old, outcome, run, retryable, now))
    BY <1>8 DEF Finishes
  <2> DEFINE new == TerminalTransition(old, outcome, run, retryable, now)
  <2>2. /\ outcome \in Text => new.status = "Recognized"
        /\ outcome \notin Text =>
             \/ new.status = "Queued" /\ old.attempt < MaxAttempts
             \/ new.status = "Unavailable"
        /\ new.scan = old.scan /\ new.kind = old.kind
        /\ new.attempt = old.attempt /\ new.cancel = old.cancel
    BY <1>1, TerminalTransitionFields DEF Text
  <2>3. new \in Row
    BY <1>1, TerminalTransitionType
  <2> HIDE DEF new
  <2>4. FieldStep(old, new)
    BY <1>8, <2>2 DEF Finishes, FieldStep
  <2> QED BY <1>2, <2>1, <2>3, <2>4 DEF new
<1>9. CASE Revives(j)
  <2>1. PICK now \in Int : Rewrites(j, ManuallyRetried(old, now))
    BY <1>9 DEF Revives
  <2>2. FieldStep(old, ManuallyRetried(old, now))
    BY <1>1, <1>9, ManuallyRetriedFields DEF Revives, FieldStep
  <2> QED BY <1>1, <1>2, <2>1, <2>2, ManuallyRetriedType
<1> QED BY <1>3, <1>4, <1>5, <1>6, <1>7, <1>8, <1>9 DEF RowStep, QuietStep

LEMMA NewRunType ==
  ASSUME TypeOK, NEW j \in JobIds, NEW a \in Nat, NEW outcome \in Outcomes
  PROVE  NewRun(j, a, outcome) \in Run
<1>1. jobs[j] \in Row
  BY DEF TypeOK
<1> QED BY <1>1, OutcomesAssumption DEF NewRun, Run, Row

(* Each action of Next rewrites one row as RowStep says, or no row; and a  *)
(* result is accepted together with a new run, but for the split path.     *)
AcceptsResult(j) == Finishes(j) /\ (SplitApi \/ runs' # runs)

LEMMA NextRewritesOneRow ==
  ASSUME TypeOK, Next
  PROVE  jobs' = jobs \/ \E j \in JobIds : QuietStep(j) \/ AcceptsResult(j)
<1> USE TimesAssumption
<1>1. ASSUME NEW c \in Callers, NEW j \in JobIds, NEW now \in Times,
             EnqueueInsert(c, j, now)
      PROVE  Inserts(j)
  BY <1>1 DEF EnqueueInsert, EnqueueRefused, Inserts, Rewrites, Write, TypeOK
<1>2. CASE Enqueue
  BY <1>1, <1>2 DEF Enqueue, EnqueueCheck, EnqueueReturn, QuietStep
<1>3. ASSUME NEW j \in JobIds, ClaimRecover
      PROVE  \E i \in JobIds : Recovers(i)
  BY <1>3 DEF ClaimRecover, Oldest, RunningJobs, JobsWith, Recovers, Rewrites,
              Write, TypeOK, MutexFree
<1>4. ASSUME ClaimTake
      PROVE  \E i \in JobIds : Claims(i)
  BY <1>4 DEF ClaimTake, Oldest, due_ocr_jobs, RunningJobs, JobsWith, Claims,
              Rewrites, Write, TypeOK, MutexFree
<1>5. CASE Claim
  BY <1>3, <1>4, <1>5 DEF Claim, ClaimBegin, ClaimReturn, ClaimRecover, Oldest,
                          RunningJobs, JobsWith, QuietStep
<1>6. ASSUME NEW j \in JobIds, NEW now \in Times, request_ocr_job_cancellation(j, now)
      PROVE  Cancels(j)
  BY <1>6 DEF request_ocr_job_cancellation, Cancels, Rewrites, Write
<1>8. ASSUME NEW tk \in tickets, NEW outcome \in Outcomes, NEW retryable \in BOOLEAN,
             NEW now \in Times, finalize_ocr_job(tk[1], tk[2], outcome, retryable, now)
      PROVE  \E j \in JobIds : QuietStep(j) \/ AcceptsResult(j)
  <2> DEFINE j == tk[1]
  <2>1. j \in JobIds /\ jobs[j].status = "Running"
    BY <1>8 DEF TypeOK, finalize_ocr_job, validate_running_claim
  <2>2. CASE CancelBeatsCommit(jobs[j], outcome)
    <3>1. Rewrites(j, Settled(jobs[j], "Cancelled", now, "OCR_CANCELLED"))
      BY <1>8, <2>2 DEF finalize_ocr_job, Write, Rewrites
    <3>2. Settled(jobs[j], "Cancelled", now, "OCR_CANCELLED") \in Row
      BY <2>1, SettledType DEF TypeOK, Status, TerminalStatus, ErrorCodes
    <3>3. Drops(j)
      BY <2>1, <3>1, <3>2, SettledFields DEF Drops, TypeOK
    <3> QED BY <2>1, <3>3 DEF QuietStep
  <2>3. CASE ~CancelBeatsCommit(jobs[j], outcome)
    <3>1. Rewrites(j, TerminalTransition(jobs[j], outcome, Len(runs) + 1, retryable, now))
      BY <1>8, <2>3 DEF finalize_ocr_job, Write, Rewrites
    <3>2. Len(runs) + 1 \in Nat /\ outcome \in AllOutcomes
      BY OutcomesAssumption DEF TypeOK
    <3>3. Finishes(j)
      BY <2>1, <2>3, <3>1, <3>2 DEF Finishes, CancelBeatsCommit
    <3>4. runs' # runs
      <4>1. runs' = Append(runs, NewRun(j, tk[2], outcome)) /\ runs \in Seq(Run)
        BY <1>8, <2>3 DEF finalize_ocr_job, TypeOK
      <4>2. Len(runs') = Len(runs) + 1 /\ Len(runs) \in Nat
        <5>1. NewRun(j, tk[2], outcome) \in Run
          BY <2>1, NewRunType DEF TypeOK
        <5> QED BY <4>1, <5>1
      <4> QED BY <4>2
    <3> QED BY <2>1, <3>3, <3>4 DEF AcceptsResult
  <2> QED BY <2>2, <2>3
<1>9. ASSUME NEW s \in Scans, NEW now \in Times, manual_retry_ocr_job_for_scan(s, now)
      PROVE  \E j \in JobIds : Revives(j)
  BY <1>9 DEF manual_retry_ocr_job_for_scan, find_latest_ocr_job_for_scan, JobsOfScan,
              JobsWith, manual_retry_eligible, Revives, Rewrites, Write
<1>10. CASE Settle
  BY <1>6, <1>8, <1>9, <1>10 DEF Settle, QuietStep
<1>11. ASSUME NEW j \in JobIds, NEW r \in DOMAIN runs, NEW retryable \in BOOLEAN,
              NEW now \in Times, complete_ocr_job(j, r, retryable, now)
       PROVE  QuietStep(j) \/ AcceptsResult(j)
  <2>1. jobs[j] \in Row /\ jobs[j].status = "Running"
    BY <1>11 DEF TypeOK, complete_ocr_job
  <2>2. r \in Nat /\ runs[r].outcome \in AllOutcomes
    <3>1. runs \in Seq(Run)
      BY DEF TypeOK
    <3>2. r \in 1..Len(runs) /\ runs[r] \in Run
      BY <3>1
    <3> QED BY <3>2 DEF Run
  <2>3. CASE CancelBeatsCommit(jobs[j], runs[r].outcome)
    <3> DEFINE row == Settled(jobs[j], "Cancelled", now, "OCR_CANCELLED")
    <3>1. Rewrites(j, [row EXCEPT !.run = r])
      BY <1>11, <2>3 DEF complete_ocr_job, Write, Rewrites
    <3>2. row \in Row
      BY <2>1, SettledType DEF Status, TerminalStatus, ErrorCodes
    <3>3. /\ row.status = "Cancelled" /\ row.scan = jobs[j].scan /\ row.kind = jobs[j].kind
          /\ row.attempt = jobs[j].attempt /\ row.cancel = jobs[j].cancel
      BY <2>1, SettledFields
    <3> HIDE DEF row
    <3>4. LET new == [row EXCEPT !.run = r]
          IN  /\ new \in Row
              /\ new.status = "Cancelled" /\ new.scan = jobs[j].scan
              /\ new.kind = jobs[j].kind
              /\ new.attempt = jobs[j].attempt /\ new.cancel = jobs[j].cancel
      BY <2>2, <3>2, <3>3 DEF Row
    <3>5. Drops(j)
      BY <2>1, <3>1, <3>4 DEF Drops
    <3> QED BY <3>5 DEF QuietStep
  <2>4. CASE ~CancelBeatsCommit(jobs[j], runs[r].outcome)
    <3>1. Rewrites(j, TerminalTransition(jobs[j], runs[r].outcome, r, retryable, now))
      BY <1>11, <2>4 DEF complete_ocr_job, Write, Rewrites
    <3>2. Finishes(j)
      BY <2>1, <2>2, <2>4, <3>1 DEF Finishes, CancelBeatsCommit
    <3> QED BY <1>11, <3>2 DEF AcceptsResult, complete_ocr_job
  <2> QED BY <2>3, <2>4
<1>12. CASE Split
  BY <1>11, <1>12 DEF Split, record_ocr_run
<1>13. CASE Crash
  BY <1>13 DEF Crash
<1> QED BY <1>2, <1>5, <1>10, <1>12, <1>13 DEF Next

-----------------------------------------------------------------------------
(* Theorems *)

LEMMA InitRows ==
  ASSUME Init, NEW j \in JobIds
  PROVE  /\ jobs \in [JobIds -> Row]
         /\ ~jobs[j].cancel
         /\ \/ jobs[j].status = "Absent" /\ jobs[j].attempt = 0
            \/ jobs[j].status = "Queued" /\ j \in LegacyRows
<1>0. PICK legacy \in SUBSET LegacyRows, k \in Kinds :
        \E scanOf \in [legacy -> Scans] :
          jobs = [i \in JobIds |-> IF i \in legacy THEN LegacyRow(scanOf[i], k)
                                                  ELSE AbsentRow]
  BY DEF Init
<1>1. PICK scanOf \in [legacy -> Scans] :
        jobs = [i \in JobIds |-> IF i \in legacy THEN LegacyRow(scanOf[i], k)
                                                ELSE AbsentRow]
  BY <1>0
<1>2. ASSUME NEW s \in Scans
      PROVE  /\ LegacyRow(s, k) \in Row
             /\ LegacyRow(s, k).status = "Queued"
             /\ ~LegacyRow(s, k).cancel
  <2>1. QueuedRow(s, k, 0) \in Row
    BY QueuedRowType
  <2>2. QueuedRow(s, k, 0).status = "Queued" /\ ~QueuedRow(s, k, 0).cancel
    BY DEF QueuedRow
  <2> QED BY <2>1, <2>2, LimitsAssumption DEF LegacyRow, Row
<1>3. ~AbsentRow.cancel
  BY DEF AbsentRow, QueuedRow
<1> QED BY <1>1, <1>2, <1>3, AbsentRowType

(* Type correctness: the tables, the tickets, the calls between sections   *)
(* and the mutex holder keep their types in every reachable state.         *)
THEOREM TypeInvariant == Spec => []TypeOK
<1>1. Init => TypeOK
  <2> SUFFICES ASSUME Init PROVE TypeOK
    OBVIOUS
  <2>1. jobs \in [JobIds -> Row]
    <3>1. CASE JobIds = {}
      BY <3>1 DEF Init
    <3>2. CASE JobIds # {}
      BY <3>2, InitRows
    <3> QED BY <3>1, <3>2
  <2> QED BY <2>1 DEF Init, TypeOK
<1>2. TypeOK /\ [Next]_vars => TypeOK'
  <2> SUFFICES ASSUME TypeOK, [Next]_vars PROVE TypeOK'
    OBVIOUS
  <2>1. CASE UNCHANGED vars
    BY <2>1 DEF vars, TypeOK
  <2>2. CASE Next
    <3>1. jobs' \in [JobIds -> Row]
      BY <2>2, NextRewritesOneRow, RowStepFields DEF TypeOK, RowStep, AcceptsResult
    <3>2. runs' \in Seq(Run) /\ tickets' \subseteq JobIds \X Nat
      <4>1. CASE Enqueue
        BY <4>1 DEF Enqueue, EnqueueCheck, EnqueueInsert, EnqueueReturn, TypeOK
      <4>2. CASE ClaimTake
        <5>1. PICK j \in JobIds : tickets' = tickets \cup {<<j, jobs[j].attempt + 1>>}
          BY <4>2 DEF ClaimTake, Oldest, due_ocr_jobs, JobsWith
        <5>2. jobs[j].attempt \in Nat
          BY DEF TypeOK, Row
        <5> QED BY <4>2, <5>1, <5>2 DEF ClaimTake, TypeOK
      <4>3. CASE Claim /\ ~ClaimTake
        BY <4>3 DEF Claim, ClaimBegin, ClaimRecover, ClaimReturn, TypeOK
      <4>4. CASE Settle
        <5>1. ASSUME NEW tk \in tickets, NEW outcome \in Outcomes,
                     NEW retryable \in BOOLEAN, NEW now \in Times,
                     finalize_ocr_job(tk[1], tk[2], outcome, retryable, now)
              PROVE  runs' \in Seq(Run) /\ tickets' = tickets
          <6>1. tk[1] \in JobIds /\ tk[2] \in Nat
            BY DEF TypeOK
          <6>2. NewRun(tk[1], tk[2], outcome) \in Run
            BY <6>1, NewRunType
          <6>3. runs \in Seq(Run)
            BY DEF TypeOK
          <6> QED BY <5>1, <6>2, <6>3 DEF finalize_ocr_job
        <5> QED BY <4>4, <5>1 DEF Settle, request_ocr_job_cancellation,
                                  manual_retry_ocr_job_for_scan, TypeOK
      <4>5. CASE Split
        <5>1. ASSUME NEW j \in JobIds, NEW outcome \in Outcomes, record_ocr_run(j, outcome)
              PROVE  runs' \in Seq(Run) /\ tickets' = tickets
          <6>1. NewRun(j, 0, outcome) \in Run
            BY NewRunType
          <6> QED BY <5>1, <6>1 DEF record_ocr_run, TypeOK
        <5> QED BY <4>5, <5>1 DEF Split, complete_ocr_job, TypeOK
      <4>6. CASE Crash
        BY <4>6 DEF Crash, TypeOK
      <4> QED BY <2>2, <4>1, <4>2, <4>3, <4>4, <4>5, <4>6 DEF Next
    <3>3. /\ pending' \in [Callers -> (Scans \X Kinds) \cup {Idle}]
          /\ claim' \in (Times \X Times) \cup {Idle}
      <4>1. CASE Enqueue
        BY <4>1 DEF Enqueue, EnqueueCheck, EnqueueInsert, EnqueueReturn, TypeOK
      <4>2. CASE Claim
        BY <4>2 DEF Claim, ClaimBegin, ClaimRecover, ClaimTake, ClaimReturn, TypeOK
      <4>3. CASE Settle
        BY <4>3 DEF Settle, request_ocr_job_cancellation, finalize_ocr_job,
                    manual_retry_ocr_job_for_scan, TypeOK
      <4>4. CASE Split
        BY <4>4 DEF Split, record_ocr_run, complete_ocr_job, TypeOK
      <4>5. CASE Crash
        BY <4>5 DEF Crash, TypeOK
      <4> QED BY <2>2, <4>1, <4>2, <4>3, <4>4, <4>5 DEF Next
    <3> QED BY <3>1, <3>2, <3>3 DEF TypeOK
  <2> QED BY <2>1, <2>2
<1> QED BY <1>1, <1>2, PTL DEF Spec

LEMMA StepFields ==
  ASSUME TypeOK, [Next]_vars
  PROVE  \/ jobs' = jobs
         \/ \E j \in JobIds :
              /\ RowStep(j)
              /\ jobs' = [jobs EXCEPT ![j] = jobs'[j]]
              /\ jobs'[j] \in Row
              /\ FieldStep(jobs[j], jobs'[j])
BY NextRewritesOneRow, RowStepFields DEF vars, RowStep, AcceptsResult

(* Serial execution: no two rows are Running, in any reachable state, even *)
(* though a claim may be cut short after it recovered only some rows.      *)
THEOREM SerialExecution == Spec => []OneRunningJob
<1>1. Init => OneRunningJob
  BY InitRows DEF OneRunningJob, RunningJobs, JobsWith
<1>2. TypeOK /\ OneRunningJob /\ [Next]_vars => OneRunningJob'
  <2> SUFFICES ASSUME TypeOK, OneRunningJob, [Next]_vars PROVE OneRunningJob'
    OBVIOUS
  <2>1. CASE jobs' = jobs
    BY <2>1 DEF OneRunningJob, RunningJobs, JobsWith
  <2>2. ASSUME NEW j \in JobIds, RowStep(j), jobs' = [jobs EXCEPT ![j] = jobs'[j]],
               FieldStep(jobs[j], jobs'[j])
        PROVE  OneRunningJob'
    <3>1. \A i \in JobIds : i # j => jobs'[i] = jobs[i]
      BY <2>2 DEF TypeOK
    <3>2. CASE Claims(j)
      BY <3>1, <3>2 DEF Claims, OneRunningJob, RunningJobs, JobsWith
    <3>3. CASE ~Claims(j)
      <4>1. jobs'[j].status = "Running" => jobs[j].status = "Running"
        <5>1. CASE Inserts(j)
          BY <2>2, <5>1 DEF Inserts, FieldStep
        <5>2. CASE ~Inserts(j)
          BY <2>2, <3>3, <5>2
             DEF RowStep, QuietStep, Recovers, Cancels, Drops, Finishes, Revives, FieldStep,
                 ActiveStatus, Inserts, Rewrites, TypeOK, CancelRequested, Settled, Row
        <5> QED BY <5>1, <5>2
      <4> QED BY <3>1, <4>1 DEF OneRunningJob, RunningJobs, JobsWith
    <3> QED BY <3>2, <3>3
  <2> QED BY <2>1, <2>2, StepFields
<1> QED BY <1>1, <1>2, TypeInvariant, PTL DEF Spec

(* Scan ownership: a scan never has two active jobs, for every number of   *)
(* callers and input kinds.                                                *)
THEOREM ScanOwnership == Spec => []OneActiveJobPerScan
<1>1. Init => OneActiveJobPerScan
  <2> SUFFICES ASSUME Init, NEW i \in ActiveJobs(jobs), NEW j \in ActiveJobs(jobs),
                      jobs[i].scan = jobs[j].scan
               PROVE  i = j
    BY DEF OneActiveJobPerScan
  <2>0. PICK legacy \in SUBSET LegacyRows, k \in Kinds :
          \E scanOf \in [legacy -> Scans] :
            /\ \A a, b \in legacy : scanOf[a] = scanOf[b] => a = b
            /\ jobs = [a \in JobIds |-> IF a \in legacy THEN LegacyRow(scanOf[a], k)
                                                    ELSE AbsentRow]
    BY DEF Init
  <2>1. PICK scanOf \in [legacy -> Scans] :
          /\ \A a, b \in legacy : scanOf[a] = scanOf[b] => a = b
          /\ jobs = [a \in JobIds |-> IF a \in legacy THEN LegacyRow(scanOf[a], k)
                                                  ELSE AbsentRow]
    BY <2>0
  <2>2. i \in legacy /\ j \in legacy /\ i \in JobIds /\ j \in JobIds
    <3>1. AbsentRow.status = "Absent"
      BY DEF AbsentRow, QueuedRow
    <3> QED BY <2>1, <3>1 DEF ActiveJobs, JobsWith, ActiveStatus
  <2>3. ASSUME NEW s PROVE LegacyRow(s, k).scan = s
    BY DEF LegacyRow, QueuedRow
  <2>4. jobs[i].scan = scanOf[i] /\ jobs[j].scan = scanOf[j]
    BY <2>1, <2>2, <2>3
  <2> QED BY <2>1, <2>2, <2>4
<1>2. TypeOK /\ OneActiveJobPerScan /\ [Next]_vars => OneActiveJobPerScan'
  <2> SUFFICES ASSUME TypeOK, OneActiveJobPerScan, [Next]_vars
               PROVE  OneActiveJobPerScan'
    OBVIOUS
  <2>1. CASE jobs' = jobs
    BY <2>1 DEF OneActiveJobPerScan, ActiveJobs, JobsWith
  <2>2. ASSUME NEW j \in JobIds, RowStep(j), jobs' = [jobs EXCEPT ![j] = jobs'[j]],
               FieldStep(jobs[j], jobs'[j])
        PROVE  OneActiveJobPerScan'
    <3>1. \A i \in JobIds : i # j => jobs'[i] = jobs[i]
      BY <2>2 DEF TypeOK
    <3>2. CASE Inserts(j)
      <4>1. PICK s \in Scans, k \in Kinds, now \in Int :
              /\ find_active_ocr_job_for_scan(jobs, s) = {}
              /\ jobs'[j] = QueuedRow(s, k, now)
        BY <3>2 DEF Inserts, Rewrites, TypeOK
      <4>2. jobs'[j].scan = s
        BY <4>1 DEF QueuedRow
      <4> QED BY <3>1, <4>1, <4>2
              DEF OneActiveJobPerScan, ActiveJobs, JobsWith, find_active_ocr_job_for_scan
    <3>3. CASE Revives(j)
      <4>1. jobs'[j].scan = jobs[j].scan
        BY <2>2, <3>3 DEF Revives, FieldStep
      <4> QED BY <3>1, <3>3, <4>1
              DEF Revives, OneActiveJobPerScan, ActiveJobs, JobsWith,
                  find_active_ocr_job_for_scan
    <3>4. CASE jobs[j].status \in ActiveStatus
      <4>1. jobs'[j].scan = jobs[j].scan
        BY <2>2, <3>4 DEF FieldStep, ActiveStatus
      <4> QED BY <3>1, <3>4, <4>1 DEF OneActiveJobPerScan, ActiveJobs, JobsWith
    <3> QED BY <2>2, <3>2, <3>3, <3>4
            DEF RowStep, QuietStep, Claims, Recovers, Cancels, Drops, Finishes, ActiveStatus
  <2> QED BY <2>1, <2>2, StepFields
<1> QED BY <1>1, <1>2, TypeInvariant, PTL DEF Spec

(* A durable cancellation of running work is never overtaken by a result,  *)
(* a retry or a recovery.                                                  *)
THEOREM CancellationIsDurable == Spec => CancellationWins
<1> DEFINE A == \A j \in JobIds : jobs[j].status = "Running" /\ jobs[j].cancel =>
                  \/ jobs'[j].status = "Running" /\ jobs'[j].cancel
                  \/ jobs'[j].status = "Cancelled"
<1>1. TypeOK /\ [Next]_vars => A
  <2> SUFFICES ASSUME TypeOK, [Next]_vars, NEW i \in JobIds,
                      jobs[i].status = "Running", jobs[i].cancel
               PROVE  \/ jobs'[i].status = "Running" /\ jobs'[i].cancel
                      \/ jobs'[i].status = "Cancelled"
    OBVIOUS
  <2>1. ASSUME NEW j \in JobIds, jobs' = [jobs EXCEPT ![j] = jobs'[j]],
               FieldStep(jobs[j], jobs'[j])
        PROVE  \/ jobs'[i].status = "Running" /\ jobs'[i].cancel
               \/ jobs'[i].status = "Cancelled"
    <3>1. CASE i = j
      BY <2>1, <3>1 DEF FieldStep
    <3>2. CASE i # j
      BY <2>1, <3>2 DEF TypeOK
    <3> QED BY <3>1, <3>2
  <2> QED BY <2>1, StepFields
<1> QED BY <1>1, TypeInvariant, PTL DEF Spec, CancellationWins

(* Recognized and Cancelled rows are immutable.                            *)
THEOREM SettledRowsAreFinal == Spec => SettledIsFinal
<1> DEFINE A == \A j \in JobIds : jobs[j].status \in {"Recognized", "Cancelled"} =>
                  jobs'[j] = jobs[j]
<1>1. TypeOK /\ [Next]_vars => A
  <2> SUFFICES ASSUME TypeOK, [Next]_vars, NEW i \in JobIds,
                      jobs[i].status \in {"Recognized", "Cancelled"}
               PROVE  jobs'[i] = jobs[i]
    OBVIOUS
  <2>1. ASSUME NEW j \in JobIds, jobs' = [jobs EXCEPT ![j] = jobs'[j]],
               FieldStep(jobs[j], jobs'[j])
        PROVE  jobs'[i] = jobs[i]
    <3>1. i # j
      BY <2>1 DEF FieldStep
    <3> QED BY <2>1, <3>1 DEF TypeOK
  <2> QED BY <2>1, StepFields
<1> QED BY <1>1, TypeInvariant, PTL DEF Spec, SettledIsFinal

(* The attempt budget: a job is started at most MaxAttempts times in its   *)
(* life, whatever crashes, retries and legacy rows do.                     *)
THEOREM AttemptBudget == Spec => AttemptAccounting
<1> DEFINE A == \A j \in JobIds : jobs[j].status # "Absent" =>
                  IF jobs[j].status = "Queued" /\ jobs'[j].status = "Running"
                  THEN jobs'[j].attempt = jobs[j].attempt + 1
                       /\ jobs'[j].attempt <= MaxAttempts
                  ELSE jobs'[j].attempt = jobs[j].attempt
<1>1. TypeOK /\ [Next]_vars => A
  <2> SUFFICES ASSUME TypeOK, [Next]_vars, NEW i \in JobIds,
                      jobs[i].status # "Absent"
               PROVE  IF jobs[i].status = "Queued" /\ jobs'[i].status = "Running"
                      THEN jobs'[i].attempt = jobs[i].attempt + 1
                           /\ jobs'[i].attempt <= MaxAttempts
                      ELSE jobs'[i].attempt = jobs[i].attempt
    OBVIOUS
  <2>1. jobs[i].attempt \in Nat
    BY DEF TypeOK, Row
  <2>2. ASSUME NEW j \in JobIds, jobs' = [jobs EXCEPT ![j] = jobs'[j]],
               FieldStep(jobs[j], jobs'[j]), i = j
        PROVE  IF jobs[i].status = "Queued" /\ jobs'[i].status = "Running"
               THEN jobs'[i].attempt = jobs[i].attempt + 1
                    /\ jobs'[i].attempt <= MaxAttempts
               ELSE jobs'[i].attempt = jobs[i].attempt
    BY <2>1, <2>2, LimitsAssumption DEF FieldStep
  <2>3. ASSUME NEW j \in JobIds, jobs' = [jobs EXCEPT ![j] = jobs'[j]], i # j
        PROVE  jobs'[i] = jobs[i]
    BY <2>3 DEF TypeOK
  <2> QED BY <2>2, <2>3, StepFields
<1> QED BY <1>1, TypeInvariant, PTL DEF Spec, AttemptAccounting

-----------------------------------------------------------------------------
(* Runs and jobs *)

(* The committed runs of a job belong to attempts that are over: an older  *)
(* attempt, or the current one of a job that is no longer Running.         *)
RunsOfPastAttempts ==
  \A r \in DOMAIN runs : runs[r].attempt > 0 =>
    LET row == jobs[runs[r].job]
    IN  /\ row.status # "Absent"
        /\ runs[r].attempt <= row.attempt
        /\ runs[r].attempt = row.attempt => row.status # "Running"

RunInv == RunsOfPastAttempts /\ OneRunPerAttempt /\ TextOnlyWhenRecognized

(* A step that commits a run commits the current attempt of a Running, not *)
(* cancelled job together with the end of that attempt.                    *)
CommitsRun(j, run) ==
  /\ jobs[j].status = "Running"
  /\ ~jobs[j].cancel
  /\ run \in Run
  /\ run.job = j
  /\ run.attempt = jobs[j].attempt
  /\ runs' = Append(runs, run)
  /\ jobs' = [jobs EXCEPT ![j] = jobs'[j]]
  /\ jobs'[j].attempt = jobs[j].attempt
  /\ jobs'[j].run = Len(runs) + 1
  /\ jobs'[j].cancel = jobs[j].cancel
  /\ run.outcome \in Text => jobs'[j].status = "Recognized"
  /\ run.outcome \notin Text =>
       \/ jobs'[j].status = "Queued" /\ jobs[j].attempt < MaxAttempts
       \/ jobs'[j].status = "Unavailable"

RecordsRun(run) ==
  run \in Run /\ run.attempt = 0 /\ runs' = Append(runs, run) /\ jobs' = jobs

LEMMA NextCommitsAtMostOneRun ==
  ASSUME TypeOK, [Next]_vars
  PROVE  \/ runs' = runs
         \/ \E run \in Run : RecordsRun(run)
         \/ \E j \in JobIds, run \in Run : CommitsRun(j, run)
<1>1. CASE UNCHANGED vars
  BY <1>1 DEF vars
<1>2. CASE Enqueue
  BY <1>2 DEF Enqueue, EnqueueCheck, EnqueueInsert, EnqueueReturn
<1>3. CASE Claim
  BY <1>3 DEF Claim, ClaimBegin, ClaimRecover, ClaimTake, ClaimReturn
<1>4. ASSUME NEW tk \in tickets, NEW outcome \in Outcomes, NEW retryable \in BOOLEAN,
             NEW now \in Times, finalize_ocr_job(tk[1], tk[2], outcome, retryable, now),
             runs' # runs
      PROVE  \E j \in JobIds, run \in Run : CommitsRun(j, run)
  <2> DEFINE j == tk[1]
             run == NewRun(j, tk[2], outcome)
             row == TerminalTransition(jobs[j], outcome, Len(runs) + 1, retryable, now)
  <2>1. j \in JobIds /\ tk[2] \in Nat /\ jobs[j] \in Row /\ Len(runs) + 1 \in Nat /\ now \in Int
    BY TimesAssumption DEF TypeOK
  <2>2. /\ jobs[j].status = "Running" /\ jobs[j].attempt = tk[2]
        /\ ~jobs[j].cancel
        /\ jobs' = [jobs EXCEPT ![j] = row]
        /\ runs' = Append(runs, run)
    BY <1>4 DEF finalize_ocr_job, validate_running_claim, CancelBeatsCommit, Write
  <2>3. run \in Run
    BY <2>1, NewRunType
  <2>4. run.job = j /\ run.attempt = tk[2] /\ run.outcome = outcome
    BY DEF NewRun
  <2>5. /\ outcome \in Text => row.status = "Recognized"
        /\ outcome \notin Text =>
             \/ row.status = "Queued" /\ jobs[j].attempt < MaxAttempts
             \/ row.status = "Unavailable"
        /\ row.attempt = jobs[j].attempt
        /\ row.cancel = jobs[j].cancel
        /\ row.run = Len(runs) + 1
    BY <2>1, TerminalTransitionFields DEF Text
  <2> HIDE DEF run, row, j
  <2>6. jobs'[j] = row
    BY <2>1, <2>2 DEF TypeOK
  <2>7. CommitsRun(j, run)
    BY <2>2, <2>3, <2>4, <2>5, <2>6 DEF CommitsRun
  <2> QED BY <2>1, <2>3, <2>7
<1>5. CASE Settle
  BY <1>4, <1>5 DEF Settle, request_ocr_job_cancellation, manual_retry_ocr_job_for_scan
<1>6. ASSUME NEW j \in JobIds, NEW outcome \in Outcomes, record_ocr_run(j, outcome)
      PROVE  \E run \in Run : RecordsRun(run)
  <2>1. NewRun(j, 0, outcome) \in Run
    BY NewRunType
  <2>2. NewRun(j, 0, outcome).attempt = 0
    BY DEF NewRun
  <2> QED BY <1>6, <2>1, <2>2 DEF record_ocr_run, RecordsRun
<1>7. CASE Split
  BY <1>6, <1>7 DEF Split, complete_ocr_job
<1>8. CASE Crash
  BY <1>8 DEF Crash
<1> QED BY <1>1, <1>2, <1>3, <1>5, <1>7, <1>8 DEF Next

LEMMA RunInvInit == Init => RunInv
BY DEF Init, RunInv, RunsOfPastAttempts, OneRunPerAttempt, TextOnlyWhenRecognized

LEMMA RunInvStep == TypeOK /\ RunInv /\ [Next]_vars => RunInv'
<1> SUFFICES ASSUME TypeOK, RunInv, [Next]_vars PROVE RunInv'
  OBVIOUS
<1>t. /\ runs \in Seq(Run) /\ DOMAIN runs = 1..Len(runs) /\ Len(runs) \in Nat
      /\ \A r \in DOMAIN runs : runs[r] \in Run
      /\ \A j \in JobIds : jobs[j] \in Row /\ jobs[j].attempt \in Nat
  BY DEF TypeOK, Row
<1>1. ASSUME NEW run \in Run, runs' = Append(runs, run)
      PROVE  /\ DOMAIN runs' = 1..(Len(runs) + 1)
             /\ \A r \in DOMAIN runs : runs'[r] = runs[r]
             /\ runs'[Len(runs) + 1] = run
  BY <1>1, <1>t
<1>2. ASSUME NEW j \in JobIds, FieldStep(jobs[j], jobs'[j]),
             jobs' = [jobs EXCEPT ![j] = jobs'[j]]
      PROVE  /\ \A i \in JobIds : i # j => jobs'[i] = jobs[i]
             /\ jobs[j].status # "Absent" =>
                  /\ jobs'[j].status # "Absent"
                  /\ \/ jobs'[j].attempt = jobs[j].attempt
                        /\ (jobs'[j].status = "Running" => jobs[j].status = "Running")
                     \/ jobs'[j].attempt = jobs[j].attempt + 1
                  /\ jobs[j].status # "Recognized"
  BY <1>2 DEF FieldStep, TypeOK
<1>3. (\E j \in JobIds : /\ FieldStep(jobs[j], jobs'[j])
                         /\ jobs' = [jobs EXCEPT ![j] = jobs'[j]]) \/ jobs' = jobs
  BY StepFields
<1>4. CASE runs' = runs
  <2>1. CASE jobs' = jobs
    BY <1>4, <2>1 DEF RunInv, RunsOfPastAttempts, OneRunPerAttempt, TextOnlyWhenRecognized
  <2>2. ASSUME NEW j \in JobIds, FieldStep(jobs[j], jobs'[j]),
               jobs' = [jobs EXCEPT ![j] = jobs'[j]]
        PROVE  RunInv'
    <3>1. OneRunPerAttempt'
      BY <1>4 DEF RunInv, OneRunPerAttempt
    <3>2. RunsOfPastAttempts'
      BY <1>t, <1>2, <1>4, <2>2 DEF RunInv, RunsOfPastAttempts, Run
    <3>3. TextOnlyWhenRecognized'
      BY <1>t, <1>2, <1>4, <2>2 DEF RunInv, TextOnlyWhenRecognized, Run
    <3> QED BY <3>1, <3>2, <3>3 DEF RunInv
  <2> QED BY <1>3, <2>1, <2>2
<1>5. ASSUME NEW run \in Run, RecordsRun(run)
      PROVE  RunInv'
  <2>1. run.attempt = 0 /\ jobs' = jobs /\ runs' = Append(runs, run)
    BY <1>5 DEF RecordsRun
  <2>2. /\ DOMAIN runs' = 1..(Len(runs) + 1)
        /\ \A r \in DOMAIN runs : runs'[r] = runs[r]
        /\ runs'[Len(runs) + 1] = run
    BY <1>1, <2>1
  <2>3. \A r \in DOMAIN runs' : runs'[r].attempt > 0 => r \in DOMAIN runs /\ runs'[r] = runs[r]
    BY <1>t, <2>1, <2>2
  <2>4. OneRunPerAttempt'
    <3> SUFFICES ASSUME NEW q \in DOMAIN runs', NEW r \in DOMAIN runs',
                        runs'[q].attempt > 0, runs'[q].job = runs'[r].job,
                        runs'[q].attempt = runs'[r].attempt
                 PROVE  q = r
      BY DEF OneRunPerAttempt
    <3> QED BY <2>3 DEF RunInv, OneRunPerAttempt
  <2>5. RunsOfPastAttempts'
    BY <2>1, <2>3 DEF RunInv, RunsOfPastAttempts
  <2>6. TextOnlyWhenRecognized'
    BY <2>1, <2>3 DEF RunInv, TextOnlyWhenRecognized
  <2> QED BY <2>4, <2>5, <2>6 DEF RunInv
<1>6. ASSUME NEW j \in JobIds, NEW run \in Run, CommitsRun(j, run)
      PROVE  RunInv'
  <2> DEFINE n == Len(runs) + 1
  <2>1. /\ jobs[j].status = "Running" /\ run.job = j /\ run.attempt = jobs[j].attempt
        /\ runs' = Append(runs, run)
        /\ jobs' = [jobs EXCEPT ![j] = jobs'[j]]
        /\ jobs'[j].attempt = jobs[j].attempt /\ jobs'[j].run = n
        /\ run.outcome \in Text => jobs'[j].status = "Recognized"
        /\ jobs'[j].status \in {"Queued", "Recognized", "Unavailable"}
    BY <1>6 DEF CommitsRun
  <2>2. /\ DOMAIN runs' = 1..n
        /\ \A r \in DOMAIN runs : runs'[r] = runs[r]
        /\ runs'[n] = run
    BY <1>1, <2>1
  <2>3. \A r \in DOMAIN runs' : r = n \/ r \in DOMAIN runs
    BY <1>t, <2>2
  <2>4. \A r \in DOMAIN runs :
          runs[r].attempt > 0 /\ runs[r].job = j => runs[r].attempt < jobs[j].attempt
    BY <1>t, <2>1 DEF RunInv, RunsOfPastAttempts, Run
  <2>5. \A i \in JobIds : i # j => jobs'[i] = jobs[i]
    BY <2>1 DEF TypeOK
  <2>6. OneRunPerAttempt'
    <3> SUFFICES ASSUME NEW q \in DOMAIN runs', NEW r \in DOMAIN runs',
                        runs'[q].attempt > 0, runs'[q].job = runs'[r].job,
                        runs'[q].attempt = runs'[r].attempt
                 PROVE  q = r
      BY DEF OneRunPerAttempt
    <3>1. CASE q \in DOMAIN runs /\ r \in DOMAIN runs
      BY <2>2, <3>1 DEF RunInv, OneRunPerAttempt
    <3>2. CASE q = n /\ r \in DOMAIN runs
      BY <1>t, <2>1, <2>2, <2>4, <3>2 DEF Run
    <3>3. CASE r = n /\ q \in DOMAIN runs
      BY <1>t, <2>1, <2>2, <2>4, <3>3 DEF Run
    <3> QED BY <2>3, <3>1, <3>2, <3>3
  <2>7. RunsOfPastAttempts'
    <3> SUFFICES ASSUME NEW r \in DOMAIN runs', runs'[r].attempt > 0
                 PROVE  LET row == jobs'[runs'[r].job]
                        IN  /\ row.status # "Absent"
                            /\ runs'[r].attempt <= row.attempt
                            /\ runs'[r].attempt = row.attempt => row.status # "Running"
      BY DEF RunsOfPastAttempts
    <3>1. CASE r = n
      <4>1. runs'[r] = run
        BY <2>2, <3>1
      <4>2. jobs'[j].status # "Absent" /\ jobs'[j].status # "Running"
        BY <2>1
      <4>3. run.attempt = jobs'[j].attempt /\ jobs'[j].attempt \in Nat
        BY <1>t, <2>1
      <4> QED BY <2>1, <4>1, <4>2, <4>3
    <3>2. CASE r \in DOMAIN runs
      <4>1. runs'[r] = runs[r] /\ runs[r].job \in JobIds
        BY <1>t, <2>2, <3>2 DEF Run
      <4>2. LET row == jobs[runs[r].job]
            IN  /\ row.status # "Absent"
                /\ runs[r].attempt <= row.attempt
                /\ runs[r].attempt = row.attempt => row.status # "Running"
        BY <3>2, <4>1 DEF RunInv, RunsOfPastAttempts
      <4>3. CASE runs[r].job = j
        BY <2>1, <4>1, <4>2, <4>3
      <4>4. CASE runs[r].job # j
        BY <2>5, <4>1, <4>2, <4>4
      <4> QED BY <4>3, <4>4
    <3> QED BY <2>3, <3>1, <3>2
  <2>8. TextOnlyWhenRecognized'
    <3> SUFFICES ASSUME NEW r \in DOMAIN runs', runs'[r].attempt > 0,
                        runs'[r].outcome \in Text
                 PROVE  LET row == jobs'[runs'[r].job]
                        IN  /\ row.status = "Recognized"
                            /\ row.attempt = runs'[r].attempt /\ row.run = r
      BY DEF TextOnlyWhenRecognized
    <3>1. CASE r = n
      BY <2>1, <2>2, <3>1
    <3>2. CASE r \in DOMAIN runs
      BY <1>t, <2>1, <2>2, <2>5, <3>2 DEF RunInv, TextOnlyWhenRecognized, Run
    <3> QED BY <2>3, <3>1, <3>2
  <2> QED BY <2>6, <2>7, <2>8 DEF RunInv
<1> QED BY <1>4, <1>5, <1>6, NextCommitsAtMostOneRun

(* Atomic finalization: text committed by finalize_ocr_job is text of the  *)
(* current attempt of a Recognized job.                                    *)
THEOREM AtomicFinalization == Spec => []TextOnlyWhenRecognized
<1>1. RunInv => TextOnlyWhenRecognized
  BY DEF RunInv
<1> QED BY <1>1, RunInvInit, RunInvStep, TypeInvariant, PTL DEF Spec

(* At-most-once results: a late or repeated report of an attempt commits   *)
(* nothing more.                                                           *)
THEOREM AtMostOneRunPerAttempt == Spec => []OneRunPerAttempt
<1>1. RunInv => OneRunPerAttempt
  BY DEF RunInv
<1> QED BY <1>1, RunInvInit, RunInvStep, TypeInvariant, PTL DEF Spec

-----------------------------------------------------------------------------
(* Refinement *)

LEMMA QuietStepAcceptsNothing ==
  ASSUME TypeOK, NEW j \in JobIds, QuietStep(j)
  PROVE  jobs'[j].status # "Recognized"
<1>1. jobs[j] \in Row
  BY DEF TypeOK
<1>2. ASSUME NEW row, Rewrites(j, row) PROVE jobs'[j] = row
  BY <1>2 DEF Rewrites, TypeOK
<1>3. CASE Inserts(j)
  BY <1>2, <1>3 DEF Inserts, QueuedRow
<1>4. CASE Claims(j)
  BY <1>1, <1>2, <1>4, ClaimedFields DEF Claims
<1>5. CASE Recovers(j)
  BY <1>1, <1>2, <1>5, RecoveredFields DEF Recovers
<1>6. CASE Cancels(j)
  <2>1. PICK now \in Int : Rewrites(j, CancelRequested(jobs[j], now))
    BY <1>6 DEF Cancels
  <2> DEFINE new == CancelRequested(jobs[j], now)
  <2>2. new.status = IF jobs[j].status = "Queued" THEN "Cancelled"
                     ELSE jobs[j].status
    BY <1>1, CancelRequestedFields
  <2>3. jobs'[j] = new
    BY <1>2, <2>1
  <2> HIDE DEF new
  <2>4. jobs[j].status # "Recognized"
    BY <1>6 DEF Cancels, ActiveStatus
  <2> QED BY <2>2, <2>3, <2>4
<1>7. CASE Drops(j)
  BY <1>2, <1>7 DEF Drops
<1>8. CASE Revives(j)
  BY <1>1, <1>2, <1>8, ManuallyRetriedFields DEF Revives
<1> QED BY <1>3, <1>4, <1>5, <1>6, <1>7, <1>8 DEF QuietStep

LEMMA AppendExtendsText ==
  ASSUME TypeOK, NEW run \in Run, runs' = Append(runs, run)
  PROVE  CommittedText' = IF run.attempt > 0 /\ run.outcome \in Text
                          THEN CommittedText \cup {<<run.job, run.attempt>>}
                          ELSE CommittedText
<1>1. /\ runs \in Seq(Run) /\ Len(runs) \in Nat /\ DOMAIN runs = 1..Len(runs)
      /\ runs' = Append(runs, run)
  BY DEF TypeOK
<1>2. /\ DOMAIN runs' = DOMAIN runs \cup {Len(runs) + 1}
      /\ \A r \in DOMAIN runs : runs'[r] = runs[r]
      /\ runs'[Len(runs) + 1] = run
      /\ Len(runs) + 1 \notin DOMAIN runs
  BY <1>1
<1>3. ASSUME NEW x
      PROVE  x \in CommittedText' <=>
               \/ x \in CommittedText
               \/ run.attempt > 0 /\ run.outcome \in Text /\ x = <<run.job, run.attempt>>
  BY <1>1, <1>2 DEF CommittedText
<1> QED BY <1>3

(* The part of the state of a job that the lifecycle leaves open: a job    *)
(* that is Running has started, and a request does not outlive its job.    *)
LifecycleInv ==
  \A j \in JobIds :
    /\ jobs[j].status = "Absent" => jobs[j].attempt = 0 /\ ~jobs[j].cancel
    /\ jobs[j].status = "Running" => jobs[j].attempt > 0
    /\ jobs[j].status = "Unavailable" => ~jobs[j].cancel

LEMMA LifecycleInvInit == Init => LifecycleInv
BY InitRows DEF LifecycleInv

LEMMA LifecycleInvStep == TypeOK /\ LifecycleInv /\ [Next]_vars => LifecycleInv'
<1> SUFFICES ASSUME TypeOK, LifecycleInv, [Next]_vars, NEW i \in JobIds
             PROVE  /\ jobs'[i].status = "Absent" => jobs'[i].attempt = 0 /\ ~jobs'[i].cancel
                    /\ jobs'[i].status = "Running" => jobs'[i].attempt > 0
                    /\ jobs'[i].status = "Unavailable" => ~jobs'[i].cancel
  BY DEF LifecycleInv
<1>1. jobs[i].attempt \in Nat
  BY DEF TypeOK, Row
<1>2. jobs'[i] = jobs[i] \/ FieldStep(jobs[i], jobs'[i])
  BY StepFields DEF TypeOK
<1> QED BY <1>1, <1>2 DEF LifecycleInv, FieldStep

(* A step that rewrites one row rewrites one entry of each projection. *)
LEMMA ProjectedStep ==
  ASSUME TypeOK, NEW j \in JobIds, jobs' = [jobs EXCEPT ![j] = jobs'[j]]
  PROVE  /\ Phase' = [Phase EXCEPT ![j] = jobs'[j].status]
         /\ AttemptsStarted' = [AttemptsStarted EXCEPT ![j] = jobs'[j].attempt]
         /\ CancelFlag' = [CancelFlag EXCEPT ![j] = jobs'[j].cancel]
         /\ jobs'[j].attempt = jobs[j].attempt => AttemptsStarted' = AttemptsStarted
         /\ jobs'[j].cancel = jobs[j].cancel => CancelFlag' = CancelFlag
         /\ jobs'[j].status = jobs[j].status => Phase' = Phase
         /\ Phase[j] = jobs[j].status
         /\ AttemptsStarted[j] = jobs[j].attempt
         /\ CancelFlag[j] = jobs[j].cancel
<1>1. jobs \in [JobIds -> Row]
  BY DEF TypeOK
<1>2. \A i \in JobIds : i # j => jobs'[i] = jobs[i]
  BY <1>1
<1> QED BY <1>1, <1>2 DEF Phase, AttemptsStarted, CancelFlag

LEMMA QuietStepIsLifecycleStep ==
  ASSUME TypeOK, LifecycleInv, OneRunningJob', CommittedText' = CommittedText,
         NEW j \in JobIds, jobs' = [jobs EXCEPT ![j] = jobs'[j]], jobs'[j] \in Row,
         FieldStep(jobs[j], jobs'[j]), jobs'[j].status # "Recognized"
  PROVE  Lifecycle!Next
<1> DEFINE old == jobs[j]
           new == jobs'[j]
<1>1. /\ old.cancel \in BOOLEAN /\ new.cancel \in BOOLEAN /\ old.attempt \in Nat
      /\ jobs \in [JobIds -> Row]
  BY DEF TypeOK, Row
<1>2. /\ old.status = "Absent" => old.attempt = 0 /\ ~old.cancel
      /\ old.status = "Unavailable" => ~old.cancel
  BY DEF LifecycleInv
<1>p. /\ Phase' = [Phase EXCEPT ![j] = new.status]
      /\ AttemptsStarted' = [AttemptsStarted EXCEPT ![j] = new.attempt]
      /\ CancelFlag' = [CancelFlag EXCEPT ![j] = new.cancel]
      /\ new.attempt = old.attempt => AttemptsStarted' = AttemptsStarted
      /\ new.cancel = old.cancel => CancelFlag' = CancelFlag
      /\ new.status = old.status => Phase' = Phase
      /\ Phase[j] = old.status
      /\ AttemptsStarted[j] = old.attempt
      /\ CancelFlag[j] = old.cancel
  BY ProjectedStep
<1> HIDE DEF old, new
<1>3. CASE /\ old.status = "Absent" /\ new.status = "Queued"
           /\ new.attempt = 0 /\ ~new.cancel
  <2>1. new.attempt = old.attempt /\ new.cancel = old.cancel
    BY <1>1, <1>2, <1>3
  <2>2. Lifecycle!Submit(j)
    BY <1>3, <1>p, <2>1 DEF Lifecycle!Submit, Lifecycle!Move
  <2> QED BY <2>2 DEF Lifecycle!Next
<1>4. CASE /\ old.status = "Queued" /\ new.status = "Running"
           /\ old.attempt < MaxAttempts /\ new.attempt = old.attempt + 1
           /\ ~old.cancel /\ ~new.cancel
  <2>1. new.cancel = old.cancel
    BY <1>1, <1>4
  <2>2. \A i \in JobIds : Phase[i] # "Running"
    <3>1. \A i \in JobIds : Phase[i] = jobs[i].status
      BY DEF Phase
    <3>2. \A i \in JobIds : i # j => jobs'[i] = jobs[i]
      BY <1>1
    <3>3. \A i \in JobIds : jobs'[i].status = "Running" => i = j
      BY <1>4 DEF OneRunningJob, RunningJobs, JobsWith, new
    <3> QED BY <1>4, <3>1, <3>2, <3>3 DEF old
  <2>3. Lifecycle!Start(j)
    BY <1>4, <1>p, <2>1, <2>2 DEF Lifecycle!Start, Lifecycle!Move
  <2> QED BY <2>3 DEF Lifecycle!Next
<1>5. CASE /\ old.status = "Running" /\ ~old.cancel /\ ~new.cancel
           /\ new.attempt = old.attempt
           /\ new.status = "Queued" /\ old.attempt < MaxAttempts
  <2>1. new.cancel = old.cancel
    BY <1>1, <1>5
  <2>2. Lifecycle!Requeue(j)
    BY <1>5, <1>p, <2>1 DEF Lifecycle!Requeue, Lifecycle!Move
  <2> QED BY <2>2 DEF Lifecycle!Next
<1>6. CASE /\ old.status = "Running" /\ ~old.cancel /\ ~new.cancel
           /\ new.attempt = old.attempt /\ new.status = "Unavailable"
  <2>1. new.cancel = old.cancel
    BY <1>1, <1>6
  <2>2. Lifecycle!GiveUp(j)
    BY <1>6, <1>p, <2>1 DEF Lifecycle!GiveUp, Lifecycle!Move
  <2> QED BY <2>2 DEF Lifecycle!Next
<1>7. CASE /\ old.status = "Running" /\ new.cancel = old.cancel
           /\ new.attempt = old.attempt /\ new.status = "Cancelled"
  <2>1. Lifecycle!Abandon(j)
    BY <1>7, <1>p DEF Lifecycle!Abandon, Lifecycle!Move
  <2> QED BY <2>1 DEF Lifecycle!Next
<1>8. CASE /\ old.status = "Running" /\ new.status = "Running"
           /\ new.attempt = old.attempt /\ new.cancel
  <2>1. new.cancel = TRUE
    BY <1>1, <1>8
  <2>2. Lifecycle!RequestCancel(j)
    BY <1>8, <1>p, <2>1 DEF Lifecycle!RequestCancel
  <2> QED BY <2>2 DEF Lifecycle!Next
<1>9. CASE /\ old.status = "Queued" /\ new.status = "Cancelled"
           /\ new.attempt = old.attempt /\ new.cancel
  <2>1. new.cancel = TRUE
    BY <1>1, <1>9
  <2>2. Lifecycle!Withdraw(j)
    BY <1>9, <1>p, <2>1 DEF Lifecycle!Withdraw, Lifecycle!Move
  <2> QED BY <2>2 DEF Lifecycle!Next
<1>10. CASE /\ old.status = "Unavailable" /\ new.status = "Queued" /\ ~new.cancel
            /\ new.attempt = old.attempt /\ old.attempt < MaxAttempts
  <2>1. new.cancel = old.cancel
    BY <1>1, <1>2, <1>10
  <2>2. Lifecycle!Revive(j)
    BY <1>10, <1>p, <2>1 DEF Lifecycle!Revive, Lifecycle!Move
  <2> QED BY <2>2 DEF Lifecycle!Next
<1> QED
  <2>1. FieldStep(old, new) /\ new.status # "Recognized"
    BY DEF old, new
  <2> QED BY <1>3, <1>4, <1>5, <1>6, <1>7, <1>8, <1>9, <1>10, <2>1 DEF FieldStep

LEMMA CommitIsLifecycleStep ==
  ASSUME TypeOK, LifecycleInv, NEW j \in JobIds, NEW run \in Run, CommitsRun(j, run)
  PROVE  Lifecycle!Next
<1>1. /\ jobs[j].status = "Running" /\ ~jobs[j].cancel
      /\ run.job = j /\ run.attempt = jobs[j].attempt
      /\ jobs' = [jobs EXCEPT ![j] = jobs'[j]]
      /\ jobs'[j].attempt = jobs[j].attempt
      /\ jobs'[j].cancel = jobs[j].cancel
      /\ run.outcome \in Text => jobs'[j].status = "Recognized"
      /\ run.outcome \notin Text =>
           \/ jobs'[j].status = "Queued" /\ jobs[j].attempt < MaxAttempts
           \/ jobs'[j].status = "Unavailable"
  BY DEF CommitsRun
<1>2. run.attempt > 0
  BY <1>1 DEF LifecycleInv
<1>3. CommittedText' = IF run.outcome \in Text
                       THEN CommittedText \cup {<<j, jobs[j].attempt>>}
                       ELSE CommittedText
  <2>1. runs' = Append(runs, run)
    BY DEF CommitsRun
  <2> QED BY <1>1, <1>2, <2>1, AppendExtendsText
<1>p. /\ Phase' = [Phase EXCEPT ![j] = jobs'[j].status]
      /\ AttemptsStarted' = AttemptsStarted /\ CancelFlag' = CancelFlag
      /\ Phase[j] = jobs[j].status
      /\ AttemptsStarted[j] = jobs[j].attempt
      /\ CancelFlag[j] = jobs[j].cancel
  BY <1>1, ProjectedStep
<1>4. CASE run.outcome \in Text
  <2>1. Lifecycle!Accept(j)
    BY <1>1, <1>3, <1>4, <1>p DEF Lifecycle!Accept, Lifecycle!Move
  <2> QED BY <2>1 DEF Lifecycle!Next
<1>5. CASE run.outcome \notin Text /\ jobs'[j].status = "Queued" /\ jobs[j].attempt < MaxAttempts
  <2>1. Lifecycle!Requeue(j)
    BY <1>1, <1>3, <1>5, <1>p DEF Lifecycle!Requeue, Lifecycle!Move
  <2> QED BY <2>1 DEF Lifecycle!Next
<1>6. CASE run.outcome \notin Text /\ jobs'[j].status = "Unavailable"
  <2>1. Lifecycle!GiveUp(j)
    BY <1>1, <1>3, <1>6, <1>p DEF Lifecycle!GiveUp, Lifecycle!Move
  <2> QED BY <2>1 DEF Lifecycle!Next
<1> QED BY <1>1, <1>4, <1>5, <1>6

LEMMA StepIsLifecycleStep ==
  ASSUME SplitApi = FALSE, TypeOK, LifecycleInv, OneRunningJob', [Next]_vars
  PROVE  [Lifecycle!Next]_Lifecycle!lifecycleVars
<1>1. ASSUME jobs' = jobs, CommittedText' = CommittedText
      PROVE  UNCHANGED Lifecycle!lifecycleVars
  BY <1>1 DEF Lifecycle!lifecycleVars, Phase, AttemptsStarted, CancelFlag
<1>2. CASE \E j \in JobIds, run \in Run : CommitsRun(j, run)
  BY <1>2, CommitIsLifecycleStep
<1>3. CASE \E run \in Run : RecordsRun(run)
  BY <1>1, <1>3, AppendExtendsText DEF RecordsRun
<1>4. CASE runs' = runs
  <2>1. CommittedText' = CommittedText
    BY <1>4 DEF CommittedText
  <2>2. CASE jobs' = jobs
    BY <1>1, <2>1, <2>2
  <2>3. ASSUME NEW j \in JobIds, QuietStep(j)
        PROVE  Lifecycle!Next
    <3>1. RowStep(j)
      BY <2>3 DEF RowStep
    <3>2. /\ jobs' = [jobs EXCEPT ![j] = jobs'[j]]
          /\ jobs'[j] \in Row
          /\ FieldStep(jobs[j], jobs'[j])
      BY <3>1, RowStepFields
    <3>3. jobs'[j].status # "Recognized"
      BY <2>3, QuietStepAcceptsNothing
    <3> QED BY <2>1, <3>2, <3>3, QuietStepIsLifecycleStep
  <2> QED BY <1>4, <2>2, <2>3, NextRewritesOneRow DEF AcceptsResult, vars
<1> QED BY <1>2, <1>3, <1>4, NextCommitsAtMostOneRun

(* The queue implements the lifecycle its callers rely on, crashes and     *)
(* half-finished claims included, wherever results are finalized through   *)
(* finalize_ocr_job alone.                                                 *)
THEOREM LifecycleRefinement ==
  ASSUME SplitApi = FALSE
  PROVE  Spec => ImplementsLifecycle
<1>1. Init => Lifecycle!Init
  <2> SUFFICES ASSUME Init PROVE Lifecycle!Init
    OBVIOUS
  <2>1. \A j \in JobIds : /\ jobs[j] \in Row
                          /\ ~jobs[j].cancel
                          /\ jobs[j].status \in {"Absent", "Queued"}
                          /\ jobs[j].status = "Absent" => jobs[j].attempt = 0
    BY InitRows
  <2>2. \A j \in JobIds : jobs[j].attempt \in Nat /\ jobs[j].cancel = FALSE
    BY <2>1 DEF Row
  <2>3. CommittedText = {}
    BY DEF Init, CommittedText
  <2> QED BY <2>1, <2>2, <2>3
          DEF Lifecycle!Init, Phase, AttemptsStarted, CancelFlag
<1>2. TypeOK /\ LifecycleInv /\ OneRunningJob' /\ [Next]_vars
        => [Lifecycle!Next]_Lifecycle!lifecycleVars
  BY StepIsLifecycleStep
<1> QED BY <1>1, <1>2, LifecycleInvInit, LifecycleInvStep, TypeInvariant,
           SerialExecution, PTL
        DEF Spec, ImplementsLifecycle, Lifecycle!Spec

-----------------------------------------------------------------------------
(* The CHECK constraints *)

(* Every row that is there has a shape the schema accepts: Write refuses   *)
(* another, and the rows of an older build were accepted once.             *)
StoredRowsHaveShape ==
  \A j \in JobIds : jobs[j].status # "Absent" => RowShapeOk(jobs[j])

LEMMA SettledShape ==
  ASSUME NEW row \in Row, RowShapeOk(row), NEW status \in TerminalStatus,
         NEW now \in Int, NEW error \in ErrorCodes
  PROVE  RowShapeOk(Settled(row, status, now, error))
BY NoTimeAssumption DEF Settled, Row, RowShapeOk

LEMMA RequeuedShape ==
  ASSUME NEW row \in Row, RowShapeOk(row), NEW now \in Int, NEW next \in Int,
         NEW error \in ErrorCodes
  PROVE  RowShapeOk(Requeued(row, now, next, error))
BY DEF Requeued, Row, RowShapeOk

(* The id of the run and the cancellation flag are not in the constraints. *)
LEMMA ShapeIgnoresRun ==
  ASSUME NEW row \in Row, RowShapeOk(row), NEW run \in Nat
  PROVE  RowShapeOk([row EXCEPT !.run = run])
BY DEF Row, RowShapeOk

LEMMA ShapeIgnoresRequest ==
  ASSUME NEW row \in Row, RowShapeOk(row), NEW cancel \in BOOLEAN
  PROVE  RowShapeOk([row EXCEPT !.cancel = cancel])
BY DEF Row, RowShapeOk


LEMMA TerminalTransitionShape ==
  ASSUME NEW row \in Row, RowShapeOk(row), NEW outcome, NEW run \in Nat,
         NEW retryable \in BOOLEAN, NEW now \in Int
  PROVE  RowShapeOk(TerminalTransition(row, outcome, run, retryable, now))
<1> DEFINE code == unavailable_error_code(outcome)
           next == now + retry_delay_ms(row.attempt)
<1>1. code \in ErrorCodes /\ next \in Int
  BY ErrorCodeType, DelayType DEF Row
<1> HIDE DEF code, next
<1>2. /\ "Recognized" \in Status /\ "Unavailable" \in Status /\ "none" \in ErrorCodes
      /\ "Recognized" \in TerminalStatus /\ "Unavailable" \in TerminalStatus
  BY DEF Status, TerminalStatus, ErrorCodes
<1>3. RowShapeOk([Settled(row, "Recognized", now, "none") EXCEPT !.run = run])
  BY <1>2, SettledType, SettledShape, ShapeIgnoresRun
<1>4. RowShapeOk([Requeued(row, now, next, code) EXCEPT !.run = run])
  BY <1>1, RequeuedType, RequeuedShape, ShapeIgnoresRun
<1>5. RowShapeOk([Settled(row, "Unavailable", now, code) EXCEPT !.run = run])
  BY <1>1, <1>2, SettledType, SettledShape, ShapeIgnoresRun
<1> QED BY <1>3, <1>4, <1>5 DEF TerminalTransition, code, next

LEMMA RecoveredShape ==
  ASSUME NEW row \in Row, RowShapeOk(row), NEW now \in Int
  PROVE  RowShapeOk(Recovered(row, now))
BY SettledShape, RequeuedShape DEF Recovered, TerminalStatus, ErrorCodes

LEMMA CancelRequestedShape ==
  ASSUME NEW row \in Row, RowShapeOk(row), row.status \in ActiveStatus, NEW now \in Int
  PROVE  RowShapeOk(CancelRequested(row, now))
<1>1. CASE row.status = "Queued"
  <2> DEFINE s == Settled(row, "Cancelled", now, "OCR_CANCELLED")
  <2>1. s \in Row /\ RowShapeOk(s)
    BY SettledType, SettledShape DEF Status, TerminalStatus, ErrorCodes
  <2> HIDE DEF s
  <2>2. RowShapeOk([s EXCEPT !.cancel = TRUE])
    BY <2>1, ShapeIgnoresRequest
  <2> QED BY <1>1, <2>2 DEF CancelRequested, s
<1>2. CASE row.status = "Running"
  BY <1>2 DEF CancelRequested, Row, RowShapeOk
<1> QED BY <1>1, <1>2 DEF ActiveStatus

LEMMA ClaimedShape ==
  ASSUME NEW row \in Row, row.attempt < MaxAttempts, NEW now \in Int
  PROVE  RowShapeOk(Claimed(row, now))
<1>1. row.attempt \in Nat /\ row.attempt + 1 <= SchemaMaxAttempts
  BY LimitsAssumption, SchemaAssumption DEF Row, SchemaMaxAttempts
<1> QED BY <1>1 DEF Claimed, Row, RowShapeOk

LEMMA ManuallyRetriedShape ==
  ASSUME NEW row \in Row, RowShapeOk(row), NEW now \in Int
  PROVE  RowShapeOk(ManuallyRetried(row, now))
<1> DEFINE r == Requeued(row, now, now, row.error)
<1>1. r \in Row /\ RowShapeOk(r)
  BY RequeuedType, RequeuedShape DEF Row
<1> HIDE DEF r
<1>2. RowShapeOk([r EXCEPT !.cancel = FALSE])
  BY <1>1, ShapeIgnoresRequest
<1> QED BY <1>2 DEF ManuallyRetried, r

(* Stored rows having their shape, no transition is refused. *)
LEMMA ShapeIsKept ==
  ASSUME TypeOK, StoredRowsHaveShape
  PROVE  NoTransitionBlockedBySchema
<1> SUFFICES ASSUME NEW j \in JobIds
             PROVE  LET row == jobs[j] IN
    /\ row.status = "Running" =>
         /\ RowShapeOk(Recovered(row, 0))
         /\ RowShapeOk(CancelRequested(row, 0))
         /\ RowShapeOk(Settled(row, "Cancelled", 0, "OCR_CANCELLED"))
         /\ \A o \in Outcomes, retryable \in BOOLEAN :
              RowShapeOk(TerminalTransition(row, o, 1, retryable, 0))
    /\ row.status = "Queued" =>
         /\ RowShapeOk(CancelRequested(row, 0))
         /\ row.attempt < MaxAttempts => RowShapeOk(Claimed(row, 0))
    /\ manual_retry_eligible(row) => RowShapeOk(ManuallyRetried(row, 0))
  BY DEF NoTransitionBlockedBySchema
<1> DEFINE row == jobs[j]
<1>1. row \in Row /\ (row.status # "Absent" => RowShapeOk(row))
  BY DEF TypeOK, StoredRowsHaveShape
<1> HIDE DEF row
<1>2. ASSUME row.status = "Running"
      PROVE  /\ RowShapeOk(Recovered(row, 0))
             /\ RowShapeOk(CancelRequested(row, 0))
             /\ RowShapeOk(Settled(row, "Cancelled", 0, "OCR_CANCELLED"))
             /\ \A o \in Outcomes, retryable \in BOOLEAN :
                  RowShapeOk(TerminalTransition(row, o, 1, retryable, 0))
  <2>1. RowShapeOk(row) /\ row.status \in ActiveStatus
    BY <1>1, <1>2 DEF ActiveStatus
  <2>2. RowShapeOk(Recovered(row, 0)) /\ RowShapeOk(CancelRequested(row, 0))
    BY <1>1, <2>1, RecoveredShape, CancelRequestedShape
  <2>3. RowShapeOk(Settled(row, "Cancelled", 0, "OCR_CANCELLED"))
    BY <1>1, <2>1, SettledShape DEF TerminalStatus, ErrorCodes
  <2>4. \A o \in Outcomes, retryable \in BOOLEAN :
          RowShapeOk(TerminalTransition(row, o, 1, retryable, 0))
    BY <1>1, <2>1, TerminalTransitionShape
  <2> QED BY <2>2, <2>3, <2>4
<1>3. ASSUME row.status = "Queued"
      PROVE  /\ RowShapeOk(CancelRequested(row, 0))
             /\ row.attempt < MaxAttempts => RowShapeOk(Claimed(row, 0))
  BY <1>1, <1>3, CancelRequestedShape, ClaimedShape DEF ActiveStatus
<1>4. ASSUME manual_retry_eligible(row) PROVE RowShapeOk(ManuallyRetried(row, 0))
  BY <1>1, <1>4, ManuallyRetriedShape DEF manual_retry_eligible
<1> QED BY <1>2, <1>3, <1>4 DEF row

LEMMA NextWritesShape ==
  ASSUME TypeOK, Next
  PROVE  jobs' = jobs \/ \E j \in JobIds : RowShapeOk(jobs'[j]) /\ Rewrites(j, jobs'[j])
<1>1. ASSUME NEW j \in JobIds, NEW row, Write(j, row)
      PROVE  \E i \in JobIds : RowShapeOk(jobs'[i]) /\ Rewrites(i, jobs'[i])
  BY <1>1 DEF Write, RowOk, Rewrites, TypeOK
<1>2. CASE Enqueue
  BY <1>1, <1>2 DEF Enqueue, EnqueueCheck, EnqueueInsert, EnqueueReturn
<1>3. CASE Claim
  BY <1>1, <1>3 DEF Claim, ClaimBegin, ClaimRecover, ClaimTake, ClaimReturn, Oldest,
                    RunningJobs, due_ocr_jobs, JobsWith
<1>4. ASSUME NEW tk \in tickets, NEW outcome \in Outcomes, NEW retryable \in BOOLEAN,
             NEW now \in Times, finalize_ocr_job(tk[1], tk[2], outcome, retryable, now)
      PROVE  \E j \in JobIds : RowShapeOk(jobs'[j]) /\ Rewrites(j, jobs'[j])
  <2>1. tk[1] \in JobIds
    BY DEF TypeOK
  <2>2. \E row : Write(tk[1], row)
    BY <1>4 DEF finalize_ocr_job
  <2> QED BY <1>1, <2>1, <2>2
<1>5. CASE Settle
  BY <1>1, <1>4, <1>5
     DEF Settle, request_ocr_job_cancellation, manual_retry_ocr_job_for_scan,
         find_latest_ocr_job_for_scan, JobsOfScan, JobsWith
<1>6. CASE Split
  BY <1>1, <1>6 DEF Split, record_ocr_run, complete_ocr_job
<1>7. CASE Crash
  BY <1>7 DEF Crash
<1> QED BY <1>2, <1>3, <1>5, <1>6, <1>7 DEF Next

(* The schema never refuses a transition because of its shape, whatever    *)
(* sequence of calls, crashes and recoveries a row has been through.       *)
THEOREM SchemaAcceptsTransitions == Spec => []NoTransitionBlockedBySchema
<1>1. Init => StoredRowsHaveShape
  <2> SUFFICES ASSUME Init, NEW j \in JobIds, jobs[j].status # "Absent"
               PROVE  RowShapeOk(jobs[j])
    BY DEF StoredRowsHaveShape
  <2>1. PICK legacy \in SUBSET LegacyRows, k \in Kinds :
          \E scanOf \in [legacy -> Scans] :
            jobs = [i \in JobIds |-> IF i \in legacy THEN LegacyRow(scanOf[i], k)
                                                    ELSE AbsentRow]
    BY DEF Init
  <2>2. PICK scanOf \in [legacy -> Scans] :
          jobs = [i \in JobIds |-> IF i \in legacy THEN LegacyRow(scanOf[i], k)
                                                  ELSE AbsentRow]
    BY <2>1
  <2>3. PICK s \in Scans : jobs[j] = LegacyRow(s, k)
    BY <2>2, AbsentRowType
  <2> DEFINE q == QueuedRow(s, k, 0)
  <2>4. /\ q \in Row /\ q.status = "Queued" /\ q.retryable /\ ~q.started /\ ~q.completed
    BY QueuedRowType DEF QueuedRow
  <2> HIDE DEF q
  <2>5. jobs[j] = [q EXCEPT !.attempt = MaxAttempts]
    BY <2>3 DEF LegacyRow, q
  <2> QED BY <2>4, <2>5, LimitsAssumption, SchemaAssumption DEF RowShapeOk, Row
<1>2. TypeOK /\ StoredRowsHaveShape /\ [Next]_vars => StoredRowsHaveShape'
  <2> SUFFICES ASSUME TypeOK, StoredRowsHaveShape, [Next]_vars
               PROVE  StoredRowsHaveShape'
    OBVIOUS
  <2>1. jobs' = jobs \/ \E j \in JobIds : RowShapeOk(jobs'[j]) /\ Rewrites(j, jobs'[j])
    BY NextWritesShape DEF vars
  <2> QED BY <2>1 DEF StoredRowsHaveShape, Rewrites, TypeOK
<1>3. TypeOK /\ StoredRowsHaveShape => NoTransitionBlockedBySchema
  BY ShapeIsKept
<1> QED BY <1>1, <1>2, <1>3, TypeInvariant, PTL DEF Spec


-----------------------------------------------------------------------------
(* Recognized jobs and their text *)

(* A row, if it is Recognized, points to a run that holds its text. *)
HasText(row, table) ==
  row.status = "Recognized" =>
    /\ row.run \in DOMAIN table
    /\ table[row.run].outcome \in Text
    /\ table[row.run].scan = row.scan
    /\ table[row.run].kind = row.kind

(* A job that becomes Recognized takes its text from the run it points to. *)
LEMMA FinalizedHasText ==
  ASSUME TypeOK, NEW tk \in tickets, NEW outcome \in Outcomes, NEW retryable \in BOOLEAN,
         NEW now \in Times, finalize_ocr_job(tk[1], tk[2], outcome, retryable, now)
  PROVE  \E j \in JobIds : Rewrites(j, jobs'[j]) /\ HasText(jobs'[j], runs')
<1> DEFINE j == tk[1]
           run == NewRun(j, tk[2], outcome)
           row == TerminalTransition(jobs[j], outcome, Len(runs) + 1, retryable, now)
<1>1. j \in JobIds /\ tk[2] \in Nat /\ jobs[j] \in Row /\ now \in Int
  BY TimesAssumption DEF TypeOK
<1>2. runs \in Seq(Run) /\ Len(runs) + 1 \in Nat
  BY DEF TypeOK
<1>3. run \in Run
  BY <1>1, NewRunType
<1>4. run.scan = jobs[j].scan /\ run.kind = jobs[j].kind /\ run.outcome = outcome
  BY DEF NewRun
<1>5. /\ outcome \notin Text => row.status # "Recognized"
      /\ row.scan = jobs[j].scan /\ row.kind = jobs[j].kind
      /\ row.run = Len(runs) + 1
  BY <1>1, <1>2, TerminalTransitionFields DEF Text
<1>6. CASE CancelBeatsCommit(jobs[j], outcome)
  <2> DEFINE c == Settled(jobs[j], "Cancelled", now, "OCR_CANCELLED")
  <2>1. c.status = "Cancelled"
    BY <1>1, SettledFields
  <2>2. Rewrites(j, c)
    BY <1>6 DEF finalize_ocr_job, Write, Rewrites
  <2> HIDE DEF c, j
  <2>3. jobs'[j] = c
    BY <1>1, <2>2 DEF Rewrites, TypeOK
  <2> QED BY <1>1, <2>1, <2>2, <2>3 DEF HasText
<1>7. CASE ~CancelBeatsCommit(jobs[j], outcome)
  <2>1. Rewrites(j, row) /\ runs' = Append(runs, run)
    BY <1>7 DEF finalize_ocr_job, Write, Rewrites
  <2> HIDE DEF row, run, j
  <2>2. jobs'[j] = row
    BY <1>1, <2>1 DEF Rewrites, TypeOK
  <2>3. Len(runs) + 1 \in DOMAIN runs' /\ runs'[Len(runs) + 1] = run
    BY <1>2, <1>3, <2>1
  <2>4. HasText(row, runs')
    BY <1>4, <1>5, <2>3 DEF HasText
  <2> QED BY <1>1, <2>1, <2>2, <2>4
<1> QED BY <1>6, <1>7

LEMMA CompletedHasText ==
  ASSUME TypeOK, NEW j \in JobIds, NEW r \in DOMAIN runs, NEW retryable \in BOOLEAN,
         NEW now \in Times, complete_ocr_job(j, r, retryable, now)
  PROVE  Rewrites(j, jobs'[j]) /\ HasText(jobs'[j], runs')
<1> DEFINE o == runs[r].outcome
           row == TerminalTransition(jobs[j], o, r, retryable, now)
           s == Settled(jobs[j], "Cancelled", now, "OCR_CANCELLED")
<1>1. jobs[j] \in Row /\ now \in Int
  BY TimesAssumption DEF TypeOK
<1>2. r \in Nat
  <2>1. runs \in Seq(Run)
    BY DEF TypeOK
  <2> QED BY <2>1
<1>3. /\ o \notin Text => row.status # "Recognized"
      /\ row.scan = jobs[j].scan /\ row.kind = jobs[j].kind
      /\ row.run = r
  BY <1>1, <1>2, TerminalTransitionFields DEF Text
<1>4. /\ runs[r].scan = jobs[j].scan /\ runs[r].kind = jobs[j].kind
      /\ runs' = runs
  BY DEF complete_ocr_job
<1>5. s \in Row /\ s.status = "Cancelled"
  <2>1. "Cancelled" \in Status /\ "OCR_CANCELLED" \in ErrorCodes
    BY DEF Status, TerminalStatus, ErrorCodes
  <2> QED BY <1>1, <2>1, SettledType, SettledFields
<1>6. CASE CancelBeatsCommit(jobs[j], o)
  <2>1. Rewrites(j, [s EXCEPT !.run = r])
    BY <1>6 DEF complete_ocr_job, Write, Rewrites
  <2> HIDE DEF s
  <2>2. [s EXCEPT !.run = r].status = "Cancelled"
    BY <1>5 DEF Row
  <2>3. jobs'[j] = [s EXCEPT !.run = r]
    BY <2>1 DEF Rewrites, TypeOK
  <2> QED BY <2>1, <2>2, <2>3 DEF HasText
<1>7. CASE ~CancelBeatsCommit(jobs[j], o)
  <2>1. Rewrites(j, row)
    BY <1>7 DEF complete_ocr_job, Write, Rewrites
  <2> HIDE DEF row
  <2>2. jobs'[j] = row
    BY <2>1 DEF Rewrites, TypeOK
  <2>3. HasText(row, runs')
    BY <1>3, <1>4 DEF HasText
  <2> QED BY <2>1, <2>2, <2>3
<1> QED BY <1>6, <1>7

LEMMA NextRecognizesText ==
  ASSUME TypeOK, Next
  PROVE  jobs' = jobs \/ \E j \in JobIds : Rewrites(j, jobs'[j]) /\ HasText(jobs'[j], runs')
<1> USE TimesAssumption
<1>1. ASSUME NEW j \in JobIds, NEW row, Write(j, row), row.status # "Recognized"
      PROVE  \E i \in JobIds : Rewrites(i, jobs'[i]) /\ HasText(jobs'[i], runs')
  BY <1>1 DEF Write, Rewrites, TypeOK, HasText
<1>2. \A j \in JobIds : jobs[j] \in Row
  BY DEF TypeOK
<1>3. CASE Enqueue
  <2>1. \A s, k, now : QueuedRow(s, k, now).status # "Recognized"
    BY DEF QueuedRow
  <2> QED BY <1>1, <1>3, <2>1 DEF Enqueue, EnqueueCheck, EnqueueInsert, EnqueueReturn
<1>4. CASE Claim
  <2>1. \A j \in JobIds : \A now : Recovered(jobs[j], now).status # "Recognized"
    BY <1>2, RecoveredFields
  <2>2. \A j \in JobIds : \A now : Claimed(jobs[j], now).status # "Recognized"
    BY <1>2, ClaimedFields
  <2> QED BY <1>1, <1>4, <2>1, <2>2
          DEF Claim, ClaimBegin, ClaimRecover, ClaimTake, ClaimReturn, Oldest,
              RunningJobs, due_ocr_jobs, JobsWith
<1>5. CASE Settle
  <2>1. ASSUME NEW j \in JobIds, NEW now \in Times, request_ocr_job_cancellation(j, now)
        PROVE  \E i \in JobIds : Rewrites(i, jobs'[i]) /\ HasText(jobs'[i], runs')
    <3> DEFINE row == CancelRequested(jobs[j], now)
    <3>1. row.status = IF jobs[j].status = "Queued" THEN "Cancelled" ELSE jobs[j].status
      BY <1>2, CancelRequestedFields
    <3>2. Write(j, row) /\ jobs[j].status \in ActiveStatus
      BY <2>1 DEF request_ocr_job_cancellation
    <3> HIDE DEF row
    <3>3. row.status # "Recognized"
      BY <3>1, <3>2 DEF ActiveStatus
    <3> QED BY <1>1, <3>2, <3>3
  <2>2. \A j \in JobIds : \A now \in Times : ManuallyRetried(jobs[j], now).status # "Recognized"
    BY <1>2, ManuallyRetriedFields
  <2>3. ASSUME NEW s \in Scans, NEW now \in Times, manual_retry_ocr_job_for_scan(s, now)
        PROVE  \E i \in JobIds : Rewrites(i, jobs'[i]) /\ HasText(jobs'[i], runs')
    BY <1>1, <2>2, <2>3
       DEF manual_retry_ocr_job_for_scan, find_latest_ocr_job_for_scan, JobsOfScan, JobsWith
  <2> QED BY <1>5, <2>1, <2>3, FinalizedHasText DEF Settle
<1>6. CASE Split
  BY <1>6, CompletedHasText DEF Split, record_ocr_run
<1>7. CASE Crash
  BY <1>7 DEF Crash
<1> QED BY <1>3, <1>4, <1>5, <1>6, <1>7 DEF Next

LEMMA NextKeepsRuns ==
  ASSUME TypeOK, [Next]_vars
  PROVE  \A r \in DOMAIN runs : r \in DOMAIN runs' /\ runs'[r] = runs[r]
<1>1. runs \in Seq(Run)
  BY DEF TypeOK
<1>2. runs' = runs \/ \E run \in Run : runs' = Append(runs, run)
  BY NextCommitsAtMostOneRun DEF RecordsRun, CommitsRun
<1>3. ASSUME NEW run \in Run, runs' = Append(runs, run)
      PROVE  \A r \in DOMAIN runs : r \in DOMAIN runs' /\ runs'[r] = runs[r]
  BY <1>1, <1>3
<1> QED BY <1>2, <1>3

(* A Recognized job always leads to stored text of its own scan and input: *)
(* runs are never rewritten, and no transition takes a run of another job. *)
THEOREM RecognizedJobsHaveText == Spec => []RecognizedHasText
<1>1. Init => RecognizedHasText
  BY InitRows DEF RecognizedHasText
<1>2. TypeOK /\ RecognizedHasText /\ [Next]_vars => RecognizedHasText'
  <2> SUFFICES ASSUME TypeOK, RecognizedHasText, [Next]_vars, NEW i \in JobIds
               PROVE  HasText(jobs'[i], runs')
    BY DEF RecognizedHasText, HasText
  <2>1. HasText(jobs[i], runs)
    BY DEF RecognizedHasText, HasText
  <2>2. CASE jobs'[i] = jobs[i]
    BY <2>1, <2>2, NextKeepsRuns DEF HasText
  <2>3. CASE jobs'[i] # jobs[i]
    <3>1. jobs' # jobs
      BY <2>3
    <3>2. PICK j \in JobIds : Rewrites(j, jobs'[j]) /\ HasText(jobs'[j], runs')
      BY <3>1, NextRecognizesText DEF vars
    <3>3. i = j
      BY <2>3, <3>2 DEF Rewrites, TypeOK
    <3> QED BY <3>2, <3>3
  <2> QED BY <2>2, <2>3
<1> QED BY <1>1, <1>2, TypeInvariant, PTL DEF Spec

=============================================================================
