---------------------------- MODULE OcrExecutor ----------------------------
(***************************************************************************)
(* AndroidOcrQueueExecutor: the one worker thread of the app that drains   *)
(* the durable OCR queue, the delayed drains it schedules for itself, and  *)
(* those who act on the queue around it: the scanner, the page viewer, a   *)
(* thread that cancels, activity restarts, close and process death.  The   *)
(* rows follow OcrJobTable; what several callers may do to them at once is *)
(* OcrQueue's subject, here each Rust call is one step.                    *)
(*                                                                         *)
(* Time is relative: a fresh clock reading is 0 and Tick moves everything  *)
(* that was scheduled one unit closer.  A reading that its thread has not  *)
(* used yet goes stale with it, to -MaxStale at most.                      *)
(*                                                                         *)
(* Every job is of a scan of its own.  created is the arrival rank, which  *)
(* is what created_at_ms orders by; updated_at_ms is not kept.             *)
(***************************************************************************)
EXTENDS OcrJobTable

CONSTANTS
  Scenarios,      \* which environment events occur together: subsets of AllEvents
  LegacyJobs,     \* rows left Queued by an older build at the attempt limit
  RecoveryDelay,  \* RECOVERY_RETRY_DELAY_MS
  Horizon,        \* the longest delay of a scheduled drain
  MaxStale,       \* bound on the age of a clock reading when it is used
  MaxFaults,      \* bound on failing calls and process deaths
  NoJob

AllEvents == {"register", "viewerStart", "viewerRetry", "viewerCancel",
              "runtimeCancel", "recreate", "close", "crash", "callFails", "slowCall"}

ASSUME ScenariosAssumption == Scenarios \subseteq SUBSET AllEvents
ASSUME ScansAssumption == JobIds \subseteq Scans
ASSUME LegacyJobsAssumption == LegacyJobs \subseteq JobIds
ASSUME DelaysAssumption ==
  /\ RecoveryDelay \in Nat /\ Horizon \in Nat /\ MaxStale \in Nat /\ MaxFaults \in Nat
  /\ RecoveryDelay <= Horizon /\ MaxDelay <= Horizon
ASSUME NoJobAssumption == NoJob \notin JobIds

VARIABLES
  events,        \* the scenario, fixed from the start
  jobs,          \* table ocr_jobs
  app,           \* "open", "closed" (executor closed) or "down" (no process)
  timers,        \* pending drains by the time left: a count per delay
  pc,            \* what the worker does next; "idle" when no drain runs
  ticket,        \* <<job, attempt>> of the claim in hand
  reading,       \* the clock reading of the Rust call in progress
  report,        \* <<outcome, retryable>> of the provider
  retryAt,       \* nextRetryAtMs of the finalized job
  runningJobId,
  interrupt,     \* interrupt flag of the worker thread
  canceller,     \* <<step, job>> of a cancel() in progress, or NoJob
  faults         \* failing calls and process deaths so far

vars == <<jobs, app, timers, pc, ticket, reading, report, retryAt, runningJobId,
          interrupt, canceller, faults>>

workerVars == <<pc, ticket, reading, report, retryAt, runningJobId>>

Delays == 0..Horizon
Readings == -MaxStale..0
Stalest == IF "slowCall" \in events THEN -MaxStale ELSE 0
Attempts == 0..MaxAttempts

LegacyRow(j) == [QueuedRow(j, CHOOSE k \in Kinds : TRUE, 0)
                   EXCEPT !.attempt = MaxAttempts]

NoTimers == [d \in Delays |-> 0]

WorkerReset ==
  /\ pc' = "idle"
  /\ ticket' = NoJob /\ reading' = 0 /\ report' = NoJob /\ retryAt' = NoTime
  /\ runningJobId' = NoJob

(* The process has just been started and onCreate is about to resume. *)
Init ==
  /\ events \in Scenarios
  /\ jobs = [j \in JobIds |-> IF j \in LegacyJobs THEN LegacyRow(j) ELSE AbsentRow]
  /\ app = "down"
  /\ timers = NoTimers
  /\ pc = "idle"
  /\ ticket = NoJob /\ reading = 0 /\ report = NoJob /\ retryAt = NoTime
  /\ runningJobId = NoJob
  /\ interrupt = FALSE
  /\ canceller = NoJob
  /\ faults = 0

Put(j, row) == jobs' = [jobs EXCEPT ![j] = [row EXCEPT !.updated = 0]]

(* The operators named Faulty... are plausible bugs of the operator that   *)
(* follows; no specification uses them.                                    *)
Later(d) == IF d > 0 THEN d ELSE 0

FaultyScheduleDrain(d) ==
  timers' = IF app = "open" /\ d = 0 THEN [timers EXCEPT ![0] = @ + 1] ELSE timers

(* scheduleDrain: refused when the executor is closed. *)
scheduleDrain(d) ==
  timers' = IF app = "open" THEN [timers EXCEPT ![Later(d)] = @ + 1] ELSE timers

-----------------------------------------------------------------------------
(* The environment *)

(* MainActivity.onCreate, in a new process or for a recreated activity. *)
resume ==
  \/ /\ app = "down"
     /\ app' = "open"
     /\ timers' = [NoTimers EXCEPT ![0] = 1]
     /\ UNCHANGED <<jobs, workerVars, interrupt, canceller, faults>>
  \/ /\ "recreate" \in events
     /\ app = "open"
     /\ timers[0] = 0
     /\ scheduleDrain(0)
     /\ UNCHANGED <<jobs, app, workerVars, interrupt, canceller, faults>>

Enqueued(j) ==
  /\ jobs[j].status = "Absent"
  /\ Cardinality(ActiveJobs(jobs)) < MaxActive
  /\ Put(j, QueuedRow(j, CHOOSE k \in Kinds : TRUE,
                      Cardinality(JobsWith(jobs, Status))))

FaultyEnqueueWithoutDrain(j) ==
  /\ "register" \in events
  /\ app # "down"
  /\ Enqueued(j)
  /\ UNCHANGED <<app, timers, workerVars, interrupt, canceller, faults>>

enqueueRegisteredScan(j) ==
  /\ "register" \in events
  /\ app # "down"
  /\ Enqueued(j)
  /\ scheduleDrain(0)
  /\ UNCHANGED <<app, workerVars, interrupt, canceller, faults>>

(* The viewer calls the Rust client and leaves the executor alone. *)
enqueueOcrJobForViewer(j) ==
  /\ "viewerStart" \in events
  /\ app # "down"
  /\ Enqueued(j)
  /\ UNCHANGED <<app, timers, workerVars, interrupt, canceller, faults>>

manualRetryOcrJobForViewer(j) ==
  /\ "viewerRetry" \in events
  /\ app # "down"
  /\ manual_retry_eligible(jobs[j])
  /\ Put(j, ManuallyRetried(jobs[j], 0))
  /\ UNCHANGED <<app, timers, workerVars, interrupt, canceller, faults>>

cancelOcrJobForViewer(j) ==
  /\ "viewerCancel" \in events
  /\ app # "down"
  /\ jobs[j].status \in ActiveStatus
  /\ Put(j, CancelRequested(jobs[j], 0))
  /\ UNCHANGED <<app, timers, workerVars, interrupt, canceller, faults>>

(* cancel: the request is made durable, then runningJobId is compared,     *)
(* then whatever the worker is doing by now is interrupted.                *)
cancel(j) ==
  /\ "runtimeCancel" \in events
  /\ app # "down"
  /\ canceller = NoJob
  /\ jobs[j].status \in ActiveStatus /\ ~jobs[j].cancel
  /\ Put(j, CancelRequested(jobs[j], 0))
  /\ canceller' = <<"requested", j>>
  /\ UNCHANGED <<app, timers, workerVars, interrupt, faults>>

CancelComparesJob ==
  /\ canceller # NoJob /\ canceller[1] = "requested"
  /\ IF runningJobId = canceller[2]
     THEN canceller' = <<"matched", canceller[2]>> /\ timers' = timers
     ELSE canceller' = NoJob /\ scheduleDrain(0)
  /\ UNCHANGED <<jobs, app, workerVars, interrupt, faults>>

CancelInterruptsWorker ==
  /\ canceller # NoJob /\ canceller[1] = "matched"
  /\ interrupt' = (interrupt \/ pc # "idle")
  /\ canceller' = NoJob
  /\ scheduleDrain(0)
  /\ UNCHANGED <<jobs, app, workerVars, faults>>

(* close: the worker is interrupted and pending drains are dropped. *)
close ==
  /\ "close" \in events
  /\ app = "open"
  /\ app' = "closed"
  /\ timers' = NoTimers
  /\ interrupt' = (interrupt \/ pc # "idle")
  /\ UNCHANGED <<jobs, workerVars, canceller, faults>>

(* The process dies between any two steps; the rows stay. *)
Crash ==
  /\ "crash" \in events
  /\ app # "down"
  /\ faults < MaxFaults
  /\ faults' = faults + 1
  /\ app' = "down"
  /\ timers' = NoTimers
  /\ WorkerReset
  /\ interrupt' = FALSE
  /\ canceller' = NoJob
  /\ UNCHANGED jobs

-----------------------------------------------------------------------------
(* The worker: drain, and processNext inlined in its loop. *)

(* The pool clears a stray interrupt before it runs the next task. *)
StartDrain ==
  /\ app = "open" /\ pc = "idle" /\ timers[0] > 0
  /\ timers' = [timers EXCEPT ![0] = @ - 1]
  /\ pc' = "loop"
  /\ interrupt' = FALSE
  /\ UNCHANGED <<jobs, app, ticket, reading, report, retryAt, runningJobId,
                 canceller, faults>>

(* while (!closed): claim_next_ocr_job starts by reading the clock. *)
LoopTop ==
  /\ pc = "loop"
  /\ IF app = "open"
     THEN pc' = "claim" /\ reading' = 0 /\ UNCHANGED <<ticket, report, retryAt, runningJobId>>
     ELSE WorkerReset
  /\ UNCHANGED <<jobs, app, timers, interrupt, canceller, faults>>

RecoveredTable ==
  [j \in JobIds |-> IF jobs[j].status = "Running"
                    THEN [Recovered(jobs[j], 0) EXCEPT !.updated = 0]
                    ELSE jobs[j]]

(* The reading of recovery is fresh, that of the claim may be stale.       *)
(* Nothing due ends the drain without a further one; a due row at the      *)
(* attempt limit makes the claim throw.                                    *)
claimNext ==
  /\ pc = "claim"
  /\ LET table == RecoveredTable
         due == Oldest(table, due_ocr_jobs(table, reading))
     IN  \/ /\ due = {}
            /\ jobs' = table
            /\ WorkerReset
            /\ UNCHANGED <<timers, interrupt>>
         \/ \E j \in due :
              /\ table[j].attempt >= MaxAttempts
              /\ jobs' = table
              /\ WorkerReset
              /\ interrupt' = FALSE
              /\ scheduleDrain(RecoveryDelay)
         \/ \E j \in due :
              /\ table[j].attempt < MaxAttempts
              /\ jobs' = [table EXCEPT ![j] = [Claimed(@, reading) EXCEPT !.updated = 0]]
              /\ ticket' = <<j, table[j].attempt + 1>>
              /\ reading' = 0
              /\ pc' = "claimed"
              /\ UNCHANGED <<timers, report, retryAt, runningJobId, interrupt>>
  /\ UNCHANGED <<app, canceller, faults>>

onClaimed ==
  /\ pc = "claimed"
  /\ runningJobId' = ticket[1]
  /\ pc' = "recognize"
  /\ UNCHANGED <<jobs, app, timers, ticket, reading, report, retryAt, interrupt,
                 canceller, faults>>

(* resolvePreparedInput: another media type or a path outside the library  *)
(* is unsupported; a file that is gone or has another length is final, one *)
(* whose path cannot be resolved is tried again.                           *)
InputReports ==
  {<<"UnsupportedInput", FALSE>>, <<"ResourceUnavailable", FALSE>>, <<"ResourceUnavailable", TRUE>>}

(* classifyMlKitErrorCode, and ProviderFailed for any other exception. *)
Failed(kind) == <<kind, kind \notin {"Cancelled", "UnsupportedInput"}>>

EngineReports ==
  {Failed(kind) : kind \in {"Cancelled", "ProviderUnavailable", "ResourceUnavailable",
                           "UnsupportedInput", "ProviderFailed"}}

(* toFinalizeRequest: text, and none but white space, ask for no retry. *)
Reports ==
  {<<"Detected", FALSE>>, <<"NoTextDetected", FALSE>>} \cup InputReports \cup EngineReports

Answered(r) ==
  /\ pc = "recognize"
  /\ report' = r
  /\ reading' = 0
  /\ pc' = "finalize"
  /\ UNCHANGED <<jobs, app, timers, ticket, retryAt, runningJobId, interrupt,
                 canceller, faults>>

(* The input is resolved and ML Kit is waited for, without a limit         *)
(* (Tasks.await): the answer may never come.                               *)
recognize == \E r \in Reports : r[1] \in Outcomes /\ Answered(r)

(* An interrupted thread leaves the wait with Cancelled; the interrupt     *)
(* flag stays set.  The clock reading of finalize_ocr_job follows.         *)
WaitInterrupted == interrupt /\ Answered(Failed("Cancelled"))

finalizeOcrJob ==
  /\ pc = "finalize"
  /\ LET j == ticket[1]
         row == IF CancelBeatsCommit(jobs[j], report[1])
                THEN Settled(jobs[j], "Cancelled", reading, "OCR_CANCELLED")
                ELSE [TerminalTransition(jobs[j], report[1], 0, report[2], reading)
                        EXCEPT !.run = 0]
     IN  IF validate_running_claim(jobs[j], ticket[2])
         THEN /\ Put(j, row)
              /\ retryAt' = IF row.next = NoTime THEN NoTime ELSE Later(row.next)
              /\ pc' = "finish"
         ELSE pc' = "failed" /\ UNCHANGED <<jobs, retryAt>>
  /\ ticket' = NoJob /\ report' = NoJob /\ reading' = 0
  /\ UNCHANGED <<app, timers, runningJobId, interrupt, canceller, faults>>

(* A Rust call of the claimed job fails (preparation or finalization), or  *)
(* the claim itself throws.                                                *)
CallFails ==
  /\ "callFails" \in events
  /\ faults < MaxFaults
  /\ faults' = faults + 1
  /\ \/ /\ pc \in {"recognize", "finalize"}
        /\ pc' = "failed"
        /\ ticket' = NoJob /\ report' = NoJob /\ reading' = 0
        /\ UNCHANGED <<timers, retryAt, runningJobId, interrupt>>
     \/ /\ pc = "claim"
        /\ WorkerReset
        /\ interrupt' = FALSE
        /\ scheduleDrain(RecoveryDelay)
  /\ UNCHANGED <<jobs, app, canceller>>

(* Completed and RecoverableFailure both clear runningJobId first ... *)
ClearRunningJob ==
  /\ \/ pc = "finish" /\ pc' = "finished"
     \/ pc = "failed" /\ pc' = "backoff"
  /\ runningJobId' = NoJob
  /\ UNCHANGED <<jobs, app, timers, ticket, reading, report, retryAt, interrupt,
                 canceller, faults>>

(* ... and then the interrupt flag.  A requeued job gets a drain when it   *)
(* is due and the loop goes on; a failure ends the drain with another one. *)
ClearInterrupt ==
  /\ \/ /\ pc = "finished"
        /\ IF retryAt # NoTime THEN scheduleDrain(retryAt) ELSE timers' = timers
        /\ pc' = "loop"
        /\ retryAt' = NoTime
        /\ UNCHANGED <<ticket, reading, report, runningJobId>>
     \/ /\ pc = "backoff"
        /\ scheduleDrain(RecoveryDelay)
        /\ WorkerReset
  /\ interrupt' = FALSE
  /\ UNCHANGED <<jobs, app, canceller, faults>>

(* What the worker does of itself: all but an answer of the provider and   *)
(* the failure of a call.                                                  *)
workerStep ==
  \/ StartDrain \/ LoopTop \/ claimNext \/ onClaimed \/ WaitInterrupted
  \/ finalizeOcrJob \/ ClearRunningJob \/ ClearInterrupt

drain == workerStep \/ recognize \/ CallFails

-----------------------------------------------------------------------------

Sooner(t) == IF t # NoTime /\ t > Stalest THEN t - 1 ELSE t

(* One unit of time passes, unless a reading would exceed its age bound. *)
Tick ==
  /\ pc \in {"claim", "finalize"} => reading > Stalest
  /\ reading' = IF pc \in {"claim", "finalize"} THEN reading - 1 ELSE reading
  /\ jobs' = [j \in JobIds |-> [jobs[j] EXCEPT !.next = Sooner(@)]]
  /\ timers' = [d \in Delays |->
                  (IF d < Horizon THEN timers[d + 1] ELSE 0)
                  + (IF d = 0 THEN timers[0] ELSE 0)]
  /\ retryAt' = IF retryAt = NoTime THEN NoTime ELSE Later(retryAt - 1)
  /\ UNCHANGED <<app, pc, ticket, report, runningJobId, interrupt, canceller, faults>>

finishCancel == CancelComparesJob \/ CancelInterruptsWorker

Next ==
  \/ resume
  \/ \E j \in JobIds :
       \/ enqueueRegisteredScan(j) \/ enqueueOcrJobForViewer(j)
       \/ manualRetryOcrJobForViewer(j) \/ cancelOcrJobForViewer(j) \/ cancel(j)
  \/ finishCancel
  \/ close
  \/ Crash
  \/ drain
  \/ Tick

(* The worker and a cancelling thread keep running while the process       *)
(* lives, and time passes.  Nobody has to start the app or to recreate its *)
(* activity, and the provider need not answer: what a property needs of    *)
(* these it says itself.                                                   *)
Fairness == WF_vars(workerStep) /\ WF_vars(finishCancel) /\ WF_vars(Tick)

Spec == Init /\ [][Next /\ UNCHANGED events]_<<vars, events>> /\ Fairness

-----------------------------------------------------------------------------
(* Properties *)

(* Jobs are registered by the scanner and cancelled by the viewer, and     *)
(* calls are slow, but none fails and nothing is closed or lost.           *)
Undisturbed == events \subseteq {"register", "viewerCancel", "slowCall"}

(* Undisturbed, a waiting job never depends on the next user action: while *)
(* no drain runs, a drain is scheduled no later than the job is due.       *)
WaitingJobHasDrain ==
  Undisturbed /\ app = "open" /\ pc = "idle" =>
    \A j \in JobsWith(jobs, {"Queued"}) :
      \E d \in Delays :
        timers[d] > 0 /\ d <= (IF jobs[j].next = NoTime THEN 0 ELSE Later(jobs[j].next))

(* "A running cancellation request interrupts that thread so the ML Kit    *)
(* adapter can return its explicit Cancelled outcome": only jobs whose     *)
(* cancellation was requested end Cancelled.                               *)
OnlyRequestedJobsAreCancelled ==
  \A j \in JobsWith(jobs, {"Cancelled"}) : jobs[j].cancel

(* What the environment may do: the provider answers whenever it is asked, *)
(* and the app is started again whenever it is down.                       *)
ProviderAnswers == []<>(pc # "recognize")
AppIsStarted == []<>(app # "down")

WorkedOn(j) == ticket # NoJob /\ ticket[1] = j

(* A durable cancellation of running work takes effect if the provider     *)
(* answers and the app is started again when it dies; once cancel() has    *)
(* found the job running it does so without an answer, since the wait is   *)
(* interrupted.                                                            *)
CancellationTakesEffect ==
  AppIsStarted =>
    \A j \in JobIds :
      /\ ProviderAnswers =>
           (jobs[j].status = "Running" /\ jobs[j].cancel)
             ~> (jobs[j].status = "Cancelled" \/ app = "closed")
      /\ (canceller = <<"matched", j>>)
           ~> (jobs[j].status = "Cancelled" \/ app # "open")

(* Undisturbed, every job that is submitted is eventually settled, if the  *)
(* provider answers: until it does, the one worker has nothing else.       *)
EveryJobSettles ==
  ProviderAnswers =>
    \A j \in JobIds :
      (Undisturbed /\ jobs[j].status \in ActiveStatus) ~> (jobs[j].status \in TerminalStatus)

(* A row left Running that nobody works on, by a process that died or a    *)
(* call that failed, is recovered once the app is started again, whatever  *)
(* the provider does, unless the executor is closed.  If no call is slow   *)
(* and the provider answers, the job is claimed again or settled as well;  *)
(* recovery makes a job due at a reading of its own, for which the older   *)
(* one of a slow claim is too early: that job then waits like any other.   *)
InterruptedJobsResume ==
  AppIsStarted =>
    \A j \in JobIds :
      /\ (jobs[j].status = "Running" /\ ~WorkedOn(j))
           ~> (jobs[j].status # "Running" \/ WorkedOn(j) \/ app = "closed")
      /\ ProviderAnswers /\ "slowCall" \notin events =>
           (jobs[j].status = "Running" /\ ~WorkedOn(j))
             ~> (jobs[j].status \in TerminalStatus \/ WorkedOn(j) \/ app = "closed")

(* "Durable jobs resume when the app starts again": a job that waits when  *)
(* the process dies is eventually claimed, or settled, after the restart.  *)
WaitingJobsResume ==
  AppIsStarted /\ ProviderAnswers =>
    \A j \in JobIds :
      (app = "down" /\ jobs[j].status = "Queued") ~> (jobs[j].status # "Queued")
=============================================================================
