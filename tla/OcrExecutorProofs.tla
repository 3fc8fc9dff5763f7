-------------------------- MODULE OcrExecutorProofs --------------------------
(* Proofs about OcrExecutor: while nobody fails, closes or retries, a job     *)
(* that waits has a drain that comes when it is due, whatever clock readings  *)
(* go stale in the worker's hands and whatever it does when the job arrives.  *)
EXTENDS OcrExecutor, TLAPS, FiniteSetTheorems, WellFoundedInduction

-----------------------------------------------------------------------------
\* The inductive invariant.

\* The time until a job waits no longer.
DueAt(t) == IF t = NoTime THEN 0 ELSE Later(t)
Due(row) == DueAt(row.next)
Waiting(j) == jobs[j].status = "Queued"

\* Places of a drain that has a claim in hand, and of one that has settled it.
InHand == {"claimed", "recognize", "finalize"}
Settling == {"finish", "finished"}

\* The drain under way will look at row j again: its next claim is due, or the
\* drain it is about to schedule comes in time.
Served(j) ==
    \/ pc = "claim" /\ (jobs[j].next = NoTime \/ jobs[j].next <= reading)
    \/ pc \in {"loop"} \cup InHand \cup Settling /\ (jobs[j].next = NoTime \/ jobs[j].next <= 0)
    \/ pc \in Settling /\ retryAt # NoTime /\ retryAt = Due(jobs[j])

Types ==
    /\ jobs \in [JobIds -> Row] /\ timers \in [Delays -> Nat]
    /\ app \in {"down", "open"} /\ canceller = NoJob
    /\ pc \in {"idle", "loop", "claim"} \cup InHand \cup Settling
    /\ reading \in Int /\ reading <= 0
    /\ pc \in Settling => retryAt \in Delays \cup {NoTime}

\* The row that a drain has in hand is the one that is Running.
ClaimHeld ==
    /\ pc \in InHand => /\ ticket[1] \in JobIds
                        /\ validate_running_claim(jobs[ticket[1]], ticket[2])
    /\ \A j \in JobIds : jobs[j].status = "Running" => pc \in InHand /\ ticket[1] = j

\* A row that waits can be claimed, and its delay is one of a drain.
Claimable(row) ==
    /\ ~row.cancel /\ row.attempt < MaxAttempts
    /\ row.next = NoTime \/ row.next <= Horizon

WaitingClaimable == \A j \in JobIds : Waiting(j) => Claimable(jobs[j])

WaitingServed ==
    \A j \in JobIds : Waiting(j) =>
        app = "open" /\ (timers[Due(jobs[j])] > 0 \/ Served(j))

DownIsIdle == app = "down" => pc = "idle"

DrainInv == Types /\ ClaimHeld /\ WaitingClaimable /\ WaitingServed /\ DownIsIdle

UndisturbedInv == Undisturbed => DrainInv
-----------------------------------------------------------------------------
\* What becomes of a row.

\* A fresh row waits for no time and has no attempt behind it.
LEMMA NewRow ==
    ASSUME NEW j \in JobIds, NEW rank \in Int
    PROVE  LET row == [QueuedRow(j, CHOOSE k \in Kinds : TRUE, rank) EXCEPT !.updated = 0] IN
           row \in Row /\ row.status = "Queued" /\ Due(row) = 0 /\ Claimable(row)
<1>. DEFINE kind == CHOOSE k \in Kinds : TRUE
            row == QueuedRow(j, kind, rank)
<1>1. kind \in Kinds /\ j \in Scans
  BY InputsAssumption, ScansAssumption
<1>. HIDE DEF kind
<1>2. row \in Row
  BY <1>1 DEF QueuedRow, Row, Status, ActiveStatus, TerminalStatus, ErrorCodes
<1>3. row.status = "Queued" /\ row.next = NoTime /\ row.attempt = 0 /\ row.cancel = FALSE
  BY DEF QueuedRow
<1>. HIDE DEF row
<1>4. /\ [row EXCEPT !.updated = 0] \in Row /\ [row EXCEPT !.updated = 0].status = "Queued"
      /\ [row EXCEPT !.updated = 0].next = NoTime /\ [row EXCEPT !.updated = 0].attempt = 0
      /\ [row EXCEPT !.updated = 0].cancel = FALSE
  BY <1>2, <1>3 DEF Row
<1>. HIDE DEF row
<1>. QED
  BY <1>4, LimitsAssumption DEF Claimable, Due, DueAt, row, kind

\* The time of the last update says nothing here.
LEMMA Stamped ==
    ASSUME NEW row \in Row
    PROVE  LET new == [row EXCEPT !.updated = 0] IN
           /\ new \in Row /\ new.status = row.status /\ new.attempt = row.attempt
           /\ new.next = row.next /\ new.cancel = row.cancel
BY DEF Row

LEMMA SettledRow ==
    ASSUME NEW row \in Row, NEW status \in TerminalStatus, NEW now \in Int, NEW error \in ErrorCodes
    PROVE  LET new == Settled(row, status, now, error) IN new \in Row /\ new.status = status
BY DEF Settled, Row, Status

LEMMA RequeuedRow ==
    ASSUME NEW row \in Row, NEW now \in Int, NEW next \in Int, NEW error \in ErrorCodes
    PROVE  LET new == Requeued(row, now, next, error) IN
           /\ new \in Row /\ new.status = "Queued" /\ new.attempt = row.attempt
           /\ new.next = next /\ new.cancel = row.cancel
BY DEF Requeued, Row, Status, ActiveStatus

LEMMA ClaimedRow ==
    ASSUME NEW row \in Row, NEW now \in Int
    PROVE  LET new == Claimed(row, now) IN
           new \in Row /\ new.status = "Running" /\ new.attempt = row.attempt + 1
<1>1. "Running" \in Status /\ row.attempt + 1 \in Nat
  BY DEF Status, ActiveStatus, Row
<1>. QED
  BY <1>1 DEF Claimed, Row

LEMMA CancelledRow ==
    ASSUME NEW row \in Row
    PROVE  LET new == CancelRequested(row, 0) IN
           /\ new \in Row
           /\ row.status # "Queued" => new.status = row.status /\ new.attempt = row.attempt
           /\ row.status = "Queued" => new.status = "Cancelled"
<1>1. CASE row.status = "Queued"
  <2>. DEFINE settled == Settled(row, "Cancelled", 0, "OCR_CANCELLED")
  <2>1. settled \in Row /\ settled.status = "Cancelled"
    BY SettledRow DEF TerminalStatus, ErrorCodes
  <2>2. CancelRequested(row, 0) = [settled EXCEPT !.cancel = TRUE]
    BY <1>1, Zenon DEF CancelRequested
  <2>. HIDE DEF settled
  <2>3. [settled EXCEPT !.cancel = TRUE] \in Row
    BY <2>1, Zenon DEF Row
  <2>4. [settled EXCEPT !.cancel = TRUE].status = "Cancelled"
    BY <2>1 DEF Row
  <2>. QED
    BY <1>1, <2>2, <2>3, <2>4
<1>2. CASE row.status # "Queued"
  <2>. DEFINE later == [row EXCEPT !.updated = 0]
  <2>1. later \in Row /\ later.status = row.status /\ later.attempt = row.attempt
    BY Stamped
  <2>2. CancelRequested(row, 0) = [later EXCEPT !.cancel = TRUE]
    BY <1>2 DEF CancelRequested
  <2>. HIDE DEF later
  <2>3. [later EXCEPT !.cancel = TRUE] \in Row
    BY <2>1, Zenon DEF Row
  <2>4. /\ [later EXCEPT !.cancel = TRUE].status = later.status
        /\ [later EXCEPT !.cancel = TRUE].attempt = later.attempt
    BY <2>1 DEF Row
  <2>. QED
    BY <1>2, <2>1, <2>2, <2>3, <2>4
<1>. QED
  BY <1>1, <1>2

LEMMA Delay ==
    ASSUME NEW attempt \in Nat
    PROVE  retry_delay_ms(attempt) \in Nat /\ retry_delay_ms(attempt) <= MaxDelay
BY LimitsAssumption DEF retry_delay_ms

LEMMA ErrorCode ==
    ASSUME NEW outcome PROVE unavailable_error_code(outcome) \in ErrorCodes
BY DEF unavailable_error_code, ErrorCodes

\* A result settles the row, or has it wait for a time a drain can wait.
LEMMA ResultRow ==
    ASSUME NEW row \in Row, NEW outcome, NEW retryable, NEW now \in Int, now <= 0
    PROVE  LET new == [TerminalTransition(row, outcome, 0, retryable, now) EXCEPT !.run = 0] IN
           /\ new \in Row
           /\ \/ new.status \in TerminalStatus /\ new.next = NoTime
              \/ /\ new.status = "Queued" /\ new.attempt < MaxAttempts /\ new.cancel = row.cancel
                 /\ new.next \in Int /\ new.next <= Horizon
<1>. DEFINE code == unavailable_error_code(outcome)
            next == now + retry_delay_ms(row.attempt)
            Good(r) == /\ r \in Row
                       /\ \/ r.status \in TerminalStatus /\ r.next = NoTime
                          \/ /\ r.status = "Queued" /\ r.attempt < MaxAttempts /\ r.cancel = row.cancel
                             /\ r.next \in Int /\ r.next <= Horizon
<1>1. code \in ErrorCodes
  BY ErrorCode
<1>2. next \in Int /\ next <= Horizon
  BY Delay, DelaysAssumption, LimitsAssumption DEF Row
<1>. HIDE DEF code, next
<1>3. ASSUME NEW status \in TerminalStatus, NEW error \in ErrorCodes
      PROVE  Good(Settled(row, status, now, error))
  BY <1>3 DEF Settled, Row, Status
<1>4. row.attempt < MaxAttempts => Good(Requeued(row, now, next, code))
  BY <1>1, <1>2, RequeuedRow
<1>5. ASSUME NEW r, Good(r) PROVE Good([r EXCEPT !.run = 0])
  BY <1>5 DEF Row
<1>6. "Recognized" \in TerminalStatus /\ "Unavailable" \in TerminalStatus /\ "none" \in ErrorCodes
  BY DEF TerminalStatus, ErrorCodes
<1>. HIDE DEF Good
<1>7. Good(TerminalTransition(row, outcome, 0, retryable, now))
  <2>1. CASE outcome \in {"Detected", "NoTextDetected"}
    BY <1>3, <1>5, <1>6, <2>1 DEF TerminalTransition
  <2>2. CASE /\ outcome \notin {"Detected", "NoTextDetected"}
             /\ retryable /\ retryable_reason(outcome) /\ row.attempt < MaxAttempts
    BY <1>4, <1>5, <2>2 DEF TerminalTransition, code, next
  <2>3. CASE /\ outcome \notin {"Detected", "NoTextDetected"}
             /\ ~(retryable /\ retryable_reason(outcome) /\ row.attempt < MaxAttempts)
    BY <1>1, <1>3, <1>5, <1>6, <2>3 DEF TerminalTransition, code
  <2>. QED
    BY <2>1, <2>2, <2>3
<1>. QED
  BY <1>5, <1>7 DEF Good

-----------------------------------------------------------------------------
\* Queries.

\* A finite set of naturals that is not empty has a least element.
LEMMA Least ==
    ASSUME NEW S \in SUBSET Nat, S # {}
    PROVE  \E t \in S : \A u \in S : t <= u
<1>. DEFINE R == OpToRel(<, Nat)
<1>1. \A u, t \in Nat : u < t => <<u, t>> \in R
  BY DEF OpToRel
<1>2. \E t \in S : \A u \in S : ~(<<u, t>> \in R)
  BY WFMin, NatLessThanWellFounded
<1>. HIDE DEF R
<1>3. PICK t \in S : \A u \in S : ~(<<u, t>> \in R)
  BY <1>2
<1>4. \A u \in S : ~(u < t)
  BY <1>1, <1>3, Zenon
<1>5. \A u \in S : t <= u
  BY <1>4
<1>. QED
  BY <1>5

\* ORDER BY created_at_ms, id LIMIT 1 returns a row when there is one.
LEMMA OldestExists ==
    ASSUME NEW table \in [JobIds -> Row], NEW S \in SUBSET JobIds, S # {}
    PROVE  Oldest(table, S) # {}
<1>. DEFINE Before(i) == {j \in S : OlderJob(table, j, i)}
            Rank(i) == Cardinality(Before(i))
            Ranks == {Rank(i) : i \in S}
<1>1. IsFiniteSet(S)
  BY JobIdsAssumption, FS_Subset
<1>2. \A i \in S : IsFiniteSet(Before(i)) /\ Rank(i) \in Nat
  BY <1>1, FS_Subset, FS_CardinalityType
<1>3. Ranks \in SUBSET Nat /\ Ranks # {}
  BY <1>2
<1>4. PICK r \in Ranks : \A u \in Ranks : r <= u
  BY <1>3, Least
<1>5. PICK i \in S : r = Rank(i)
  BY <1>4
<1>6. ASSUME NEW j \in S, ~OlderJob(table, i, j) PROVE FALSE
  <2>1. /\ i \in Int /\ table[i].created \in Int /\ j \in Int /\ table[j].created \in Int
        /\ \A k \in S : k \in Int /\ table[k].created \in Int
    BY JobIdsAssumption DEF Row
  <2>2. ASSUME NEW k \in S, OlderJob(table, k, j) PROVE OlderJob(table, k, i)
    <3>. DEFINE ci == table[i].created
                cj == table[j].created
                ck == table[k].created
    <3>1. ci \in Int /\ cj \in Int /\ ck \in Int /\ i \in Int /\ j \in Int /\ k \in Int
      BY <2>1
    <3>2. /\ ~(ci < cj) /\ ~(ci = cj /\ i <= j)
          /\ ck < cj \/ (ck = cj /\ k <= j)
      BY <1>6, <2>2 DEF OlderJob
    <3>3. ck < ci \/ (ck = ci /\ k <= i)
      <4>. HIDE DEF ci, cj, ck
      <4>. QED
        BY <3>1, <3>2
    <3>. QED
      BY <3>3 DEF OlderJob
  <2>3. Before(j) \in SUBSET Before(i)
    BY <2>2
  <2>4. i \in Before(i) /\ i \notin Before(j)
    BY <1>6, <2>1 DEF OlderJob
  <2>5. Rank(j) <= Rank(i) /\ Rank(j) # Rank(i)
    <3>. DEFINE A == Before(i)
                B == Before(j)
    <3>1. IsFiniteSet(A) /\ B \in SUBSET A /\ B # A
      BY <1>2, <2>3, <2>4
    <3>. HIDE DEF A, B
    <3>2. Cardinality(B) <= Cardinality(A) /\ Cardinality(B) # Cardinality(A)
      BY <3>1, FS_Subset
    <3>. QED
      BY <3>2 DEF A, B
  <2>6. Rank(j) \in Nat /\ Rank(i) \in Nat /\ Rank(i) <= Rank(j)
    BY <1>2, <1>4, <1>5
  <2>. HIDE DEF Rank
  <2>. QED
    BY <2>5, <2>6
<1>. QED
  BY <1>6 DEF Oldest

-----------------------------------------------------------------------------
\* What the invariant says of one row.

LEMMA RowFacts ==
    ASSUME DrainInv, NEW j \in JobIds, Waiting(j)
    PROVE  /\ jobs[j] \in Row /\ jobs[j].next \in Int \cup {NoTime}
           /\ Due(jobs[j]) \in Delays /\ Claimable(jobs[j]) /\ app = "open"
           /\ timers[Due(jobs[j])] > 0 \/ Served(j)
           /\ Due(jobs[j]) = 0 <=> (jobs[j].next = NoTime \/ jobs[j].next <= 0)
<1>1. jobs[j] \in Row /\ jobs[j].next \in Int \cup {NoTime}
  BY DEF DrainInv, Types, Row
<1>2. Claimable(jobs[j])
  BY DEF DrainInv, WaitingClaimable
<1>3. Due(jobs[j]) \in Delays
  BY <1>1, <1>2, DelaysAssumption DEF Claimable, Due, DueAt, Later, Delays
<1>4. Due(jobs[j]) = 0 <=> (jobs[j].next = NoTime \/ jobs[j].next <= 0)
  BY <1>1, NoTimeAssumption DEF Due, DueAt, Later
<1>5. app = "open" /\ (timers[Due(jobs[j])] > 0 \/ Served(j))
  BY DEF DrainInv, WaitingServed
<1>. QED
  BY <1>1, <1>2, <1>3, <1>4, <1>5

\* The drains that scheduleDrain leaves.
LEMMA Scheduled ==
    ASSUME timers \in [Delays -> Nat], NEW d \in Int, d <= Horizon, scheduleDrain(d)
    PROVE  /\ timers' \in [Delays -> Nat]
           /\ \A e \in Delays : timers'[e] >= timers[e]
           /\ app = "open" => timers'[Later(d)] > 0
<1>1. Later(d) \in Delays
  BY DelaysAssumption DEF Later, Delays
<1>. QED
  BY <1>1 DEF scheduleDrain

-----------------------------------------------------------------------------
\* The steps of an undisturbed system.

LEMMA Initial ==
    ASSUME Init, LegacyJobs = {} PROVE DrainInv
<1>1. /\ AbsentRow \in Row /\ AbsentRow.status = "Absent"
  <2>1. (CHOOSE s \in Scans : TRUE) \in Scans /\ (CHOOSE k \in Kinds : TRUE) \in Kinds
    BY InputsAssumption
  <2>. DEFINE row == QueuedRow(CHOOSE s \in Scans : TRUE, CHOOSE k \in Kinds : TRUE, 0)
  <2>2. row \in Row
    BY <2>1 DEF QueuedRow, Row, Status, ActiveStatus, ErrorCodes
  <2>. HIDE DEF row
  <2>3. [row EXCEPT !.status = "Absent"] \in Row /\ [row EXCEPT !.status = "Absent"].status = "Absent"
    BY <2>2 DEF Row
  <2>. QED
    BY <2>3 DEF AbsentRow, row
<1>2. jobs \in [JobIds -> Row] /\ \A j \in JobIds : jobs[j].status = "Absent"
  BY <1>1 DEF Init
<1>3. timers \in [Delays -> Nat]
  BY DEF Init, NoTimers
<1>4. Types
  BY <1>2, <1>3 DEF Init, Types, InHand, Settling
<1>. QED
  BY <1>2, <1>4 DEF Init, DrainInv, ClaimHeld, WaitingClaimable, WaitingServed, Waiting, DownIsIdle, InHand

\* The process starts: nothing waits in a table without jobs.
LEMMA resumeKeeps ==
    ASSUME DrainInv, resume, "recreate" \notin events
    PROVE  DrainInv'
<1>1. /\ app = "down" /\ app' = "open" /\ timers' = [NoTimers EXCEPT ![0] = 1]
      /\ UNCHANGED <<jobs, workerVars, canceller>>
  BY DEF resume
<1>2. \A j \in JobIds : ~Waiting(j)
  BY <1>1 DEF DrainInv, WaitingServed
<1>3. timers' \in [Delays -> Nat]
  BY <1>1 DEF NoTimers
<1>. QED
  BY <1>1, <1>2, <1>3 DEF DrainInv, Types, ClaimHeld, WaitingClaimable, WaitingServed, Waiting,
     DownIsIdle, workerVars

\* A registration schedules the drain of the row it inserts.
LEMMA enqueueRegisteredScanKeeps ==
    ASSUME DrainInv, NEW j \in JobIds, enqueueRegisteredScan(j)
    PROVE  DrainInv'
<1>. DEFINE rank == Cardinality(JobsWith(jobs, Status))
            new == [QueuedRow(j, CHOOSE k \in Kinds : TRUE, rank) EXCEPT !.updated = 0]
<1>1. rank \in Int
  <2>1. IsFiniteSet(JobsWith(jobs, Status))
    BY JobIdsAssumption, FS_Subset DEF JobsWith
  <2>. QED
    BY <2>1, FS_CardinalityType
<1>2. /\ app = "open" /\ jobs[j].status = "Absent" /\ jobs' = [jobs EXCEPT ![j] = new]
      /\ scheduleDrain(0) /\ UNCHANGED <<app, workerVars, canceller>>
  BY DEF enqueueRegisteredScan, Enqueued, Put, DrainInv, Types
<1>. HIDE DEF rank
<1>3. new \in Row /\ new.status = "Queued" /\ Due(new) = 0 /\ Claimable(new)
  BY <1>1, NewRow
<1>. HIDE DEF new
<1>4. /\ jobs' \in [JobIds -> Row] /\ jobs'[j] = new
      /\ \A i \in JobIds : i # j => jobs'[i] = jobs[i]
  BY <1>2, <1>3 DEF DrainInv, Types
<1>5. /\ timers' \in [Delays -> Nat] /\ \A e \in Delays : timers'[e] >= timers[e]
      /\ timers'[0] > 0
  BY <1>2, Scheduled, DelaysAssumption DEF DrainInv, Types, Later
<1>6. Types'
  BY <1>2, <1>4, <1>5 DEF DrainInv, Types, workerVars
<1>7. ClaimHeld'
  <2>1. pc \in InHand => ticket[1] # j
    BY <1>2 DEF DrainInv, ClaimHeld, validate_running_claim
  <2>. QED
    BY <1>2, <1>3, <1>4, <2>1 DEF DrainInv, ClaimHeld, validate_running_claim, workerVars
<1>8. WaitingClaimable'
  BY <1>3, <1>4 DEF DrainInv, WaitingClaimable, Waiting
<1>9. WaitingServed'
  <2>. SUFFICES ASSUME NEW i \in JobIds, Waiting(i)'
                PROVE  app' = "open" /\ (timers'[Due(jobs[i])'] > 0 \/ Served(i)')
    BY DEF WaitingServed
  <2>1. CASE i = j
    BY <1>2, <1>3, <1>4, <1>5, <2>1
  <2>2. CASE i # j
    <3>1. jobs'[i] = jobs[i] /\ Waiting(i)
      BY <1>4, <2>2 DEF Waiting
    <3>2. Due(jobs[i]) \in Delays /\ (timers[Due(jobs[i])] > 0 \/ Served(i))
      BY <3>1, RowFacts
    <3>3. Due(jobs[i])' = Due(jobs[i])
      BY <3>1 DEF Due, DueAt
    <3>4. timers[Due(jobs[i])] > 0 => timers'[Due(jobs[i])'] > 0
      BY <1>5, <3>2, <3>3 DEF DrainInv, Types
    <3>5. Served(i) => Served(i)'
      BY <1>2, <3>1, <3>3 DEF Served, workerVars
    <3>. QED
      BY <1>2, <3>2, <3>4, <3>5
  <2>. QED
    BY <2>1, <2>2
<1>. QED
  BY <1>2, <1>6, <1>7, <1>8, <1>9 DEF DrainInv, DownIsIdle

\* A cancelled row waits no longer; a running one stays in hand.
LEMMA cancelOcrJobForViewerKeeps ==
    ASSUME DrainInv, NEW j \in JobIds, cancelOcrJobForViewer(j)
    PROVE  DrainInv'
<1>. DEFINE row == CancelRequested(jobs[j], 0)
            new == [row EXCEPT !.updated = 0]
<1>1. /\ jobs[j].status \in ActiveStatus /\ jobs' = [jobs EXCEPT ![j] = new]
      /\ UNCHANGED <<app, timers, workerVars, canceller>>
  BY DEF cancelOcrJobForViewer, Put
<1>2. /\ row \in Row
      /\ jobs[j].status # "Queued" => row.status = jobs[j].status /\ row.attempt = jobs[j].attempt
      /\ jobs[j].status = "Queued" => row.status = "Cancelled"
  BY CancelledRow DEF DrainInv, Types
<1>. HIDE DEF row
<1>3. new \in Row /\ new.status = row.status /\ new.attempt = row.attempt
  BY <1>2, Stamped
<1>. HIDE DEF new
<1>4. /\ jobs' \in [JobIds -> Row] /\ jobs'[j] = new /\ new.status # "Queued"
      /\ \A i \in JobIds : i # j => jobs'[i] = jobs[i]
  BY <1>1, <1>2, <1>3 DEF DrainInv, Types
<1>5. \A i \in JobIds : Waiting(i)' => Waiting(i) /\ jobs'[i] = jobs[i]
  BY <1>4 DEF Waiting
<1>6. \A i \in JobIds : jobs'[i].status = "Running" => jobs[i].status = "Running"
  BY <1>2, <1>3, <1>4
<1>7. ClaimHeld'
  <2>1. \A i \in JobIds : \A a : validate_running_claim(jobs[i], a) => validate_running_claim(jobs'[i], a)
    BY <1>2, <1>3, <1>4 DEF validate_running_claim
  <2>. QED
    BY <1>1, <1>6, <2>1 DEF DrainInv, ClaimHeld, workerVars
<1>8. WaitingServed'
  BY <1>1, <1>5 DEF DrainInv, WaitingServed, Due, DueAt, Served, workerVars
<1>9. Types' /\ WaitingClaimable' /\ DownIsIdle'
  BY <1>1, <1>4, <1>5 DEF DrainInv, Types, WaitingClaimable, DownIsIdle, workerVars
<1>. QED
  BY <1>7, <1>8, <1>9 DEF DrainInv

\* A drain that is due starts: whoever waited for it is due as well.
LEMMA StartDrainKeeps ==
    ASSUME DrainInv, StartDrain PROVE DrainInv'
<1>1. /\ app = "open" /\ pc = "idle" /\ timers[0] > 0 /\ timers' = [timers EXCEPT ![0] = timers[0] - 1]
      /\ pc' = "loop" /\ UNCHANGED <<jobs, app, ticket, reading, retryAt, canceller>>
  BY DEF StartDrain
<1>2. timers' \in [Delays -> Nat] /\ \A e \in Delays : e # 0 => timers'[e] = timers[e]
  <2>1. 0 \in Delays
    BY DelaysAssumption DEF Delays
  <2>2. timers \in [Delays -> Nat] /\ timers[0] - 1 \in Nat
    BY <1>1, <2>1 DEF DrainInv, Types
  <2>. QED
    BY <1>1, <2>2
<1>3. Types' /\ ClaimHeld' /\ WaitingClaimable' /\ DownIsIdle'
  BY <1>1, <1>2 DEF DrainInv, Types, ClaimHeld, WaitingClaimable, Waiting, DownIsIdle, InHand, Settling
<1>4. WaitingServed'
  <2>. SUFFICES ASSUME NEW j \in JobIds, Waiting(j)'
                PROVE  app' = "open" /\ (timers'[Due(jobs[j])'] > 0 \/ Served(j)')
    BY DEF WaitingServed
  <2>1. Waiting(j) /\ Due(jobs[j])' = Due(jobs[j])
    BY <1>1 DEF Waiting, Due, DueAt
  <2>2. /\ Due(jobs[j]) \in Delays /\ timers[Due(jobs[j])] > 0
        /\ Due(jobs[j]) = 0 <=> (jobs[j].next = NoTime \/ jobs[j].next <= 0)
    BY <1>1, <2>1, RowFacts DEF Served, InHand, Settling
  <2>. QED
    BY <1>1, <1>2, <2>1, <2>2 DEF Served
<1>. QED
  BY <1>3, <1>4 DEF DrainInv

\* The claim starts with a fresh reading, at which whoever was served is due.
LEMMA LoopTopKeeps ==
    ASSUME DrainInv, LoopTop PROVE DrainInv'
<1>1. /\ pc = "loop" /\ pc' = "claim" /\ reading' = 0
      /\ UNCHANGED <<jobs, app, timers, ticket, retryAt, canceller>>
  BY DEF LoopTop, DrainInv, Types, DownIsIdle
<1>2. Types' /\ ClaimHeld' /\ WaitingClaimable' /\ DownIsIdle'
  BY <1>1 DEF DrainInv, Types, ClaimHeld, WaitingClaimable, Waiting, DownIsIdle, InHand, Settling
<1>3. WaitingServed'
  BY <1>1 DEF DrainInv, WaitingServed, Waiting, Due, DueAt, Served, InHand, Settling
<1>. QED
  BY <1>2, <1>3 DEF DrainInv

\* With nothing Running, recovery leaves the table as it is.
LEMMA NothingToRecover ==
    ASSUME DrainInv, pc = "claim"
    PROVE  RecoveredTable = jobs
<1>1. \A j \in JobIds : jobs[j].status # "Running"
  BY DEF DrainInv, ClaimHeld, InHand
<1>2. RecoveredTable = [j \in JobIds |-> jobs[j]]
  BY <1>1 DEF RecoveredTable
<1>. QED
  BY <1>2 DEF DrainInv, Types

\* The claim finds a row, or nobody was left to the drain that ends.
LEMMA claimNextKeeps ==
    ASSUME DrainInv, claimNext PROVE DrainInv'
<1>. DEFINE ready == due_ocr_jobs(jobs, reading)
            due == Oldest(jobs, ready)
<1>1. pc = "claim" /\ UNCHANGED <<app, canceller>> /\ app = "open"
  BY DEF claimNext, DrainInv, Types, DownIsIdle
<1>2. RecoveredTable = jobs
  BY <1>1, NothingToRecover
<1>3. due \in SUBSET ready /\ ready \in SUBSET JobIds /\ \A j \in ready : Waiting(j)
  BY DEF Oldest, due_ocr_jobs, JobsWith, Waiting
<1>4. \/ /\ due = {} /\ jobs' = jobs /\ WorkerReset /\ UNCHANGED timers
      \/ \E j \in due : jobs[j].attempt >= MaxAttempts
      \/ \E j \in due :
           /\ jobs' = [jobs EXCEPT ![j] = [Claimed(jobs[j], reading) EXCEPT !.updated = 0]]
           /\ ticket' = <<j, jobs[j].attempt + 1>> /\ reading' = 0 /\ pc' = "claimed"
           /\ UNCHANGED <<timers, retryAt>>
  <2>. DEFINE table == RecoveredTable
  <2>1. table = jobs
    BY <1>2
  <2>2. \A j \in due : table[j] = jobs[j]
    BY <2>1
  <2>3. \A j \in due : [table EXCEPT ![j] = [Claimed(@, reading) EXCEPT !.updated = 0]]
                       = [jobs EXCEPT ![j] = [Claimed(jobs[j], reading) EXCEPT !.updated = 0]]
    BY <2>1
  <2>4. Oldest(table, due_ocr_jobs(table, reading)) = due
    BY <2>1
  <2>. HIDE DEF due, table
  <2>5. \/ /\ due = {} /\ jobs' = table /\ WorkerReset /\ UNCHANGED timers
        \/ \E j \in due : table[j].attempt >= MaxAttempts
        \/ \E j \in due :
             /\ jobs' = [table EXCEPT ![j] = [Claimed(@, reading) EXCEPT !.updated = 0]]
             /\ ticket' = <<j, table[j].attempt + 1>> /\ reading' = 0 /\ pc' = "claimed"
             /\ UNCHANGED <<timers, retryAt>>
    BY <2>4, Zenon DEF claimNext, table
  <2>. QED
    BY <2>1, <2>3, <2>5
<1>5. CASE due = {} /\ jobs' = jobs /\ WorkerReset /\ UNCHANGED timers
  <2>1. ready = {}
    BY <1>3, <1>5, OldestExists DEF DrainInv, Types
  <2>2. \A j \in JobIds : Waiting(j) => timers[Due(jobs[j])] > 0
    <3>. SUFFICES ASSUME NEW j \in JobIds, Waiting(j) PROVE timers[Due(jobs[j])] > 0
      OBVIOUS
    <3>1. timers[Due(jobs[j])] > 0 \/ Served(j)
      BY RowFacts
    <3>2. Served(j) => jobs[j].next = NoTime \/ jobs[j].next <= reading
      BY <1>1 DEF Served, InHand, Settling
    <3>3. ~jobs[j].cancel
      BY RowFacts DEF Claimable
    <3>4. ~Served(j)
      BY <2>1, <3>2, <3>3 DEF due_ocr_jobs, JobsWith, Waiting
    <3>. QED
      BY <3>1, <3>4
  <2>3. pc' = "idle" /\ reading' = 0
    BY <1>5 DEF WorkerReset
  <2>4. Types' /\ ClaimHeld' /\ WaitingClaimable' /\ DownIsIdle'
    BY <1>1, <1>5, <2>3 DEF DrainInv, Types, ClaimHeld, WaitingClaimable, Waiting, DownIsIdle, InHand, Settling
  <2>5. WaitingServed'
    BY <1>1, <1>5, <2>2 DEF WaitingServed, Waiting, Due, DueAt
  <2>. QED
    BY <2>4, <2>5 DEF DrainInv
<1>6. ASSUME NEW j \in due, jobs[j].attempt >= MaxAttempts PROVE FALSE
  <2>1. j \in JobIds /\ Waiting(j)
    BY <1>3
  <2>2. jobs[j].attempt < MaxAttempts /\ jobs[j].attempt \in Nat
    BY <2>1, RowFacts DEF Claimable, Row
  <2>. QED
    BY <1>6, <2>2, LimitsAssumption
<1>7. ASSUME NEW j \in due,
             jobs' = [jobs EXCEPT ![j] = [Claimed(jobs[j], reading) EXCEPT !.updated = 0]],
             ticket' = <<j, jobs[j].attempt + 1>>, reading' = 0, pc' = "claimed",
             UNCHANGED <<timers, retryAt>>
      PROVE  DrainInv'
  <2>. DEFINE row == Claimed(jobs[j], reading)
              new == [row EXCEPT !.updated = 0]
  <2>1. j \in JobIds /\ jobs[j] \in Row
    BY <1>3 DEF DrainInv, Types
  <2>2. row \in Row /\ row.status = "Running" /\ row.attempt = jobs[j].attempt + 1
    BY <2>1, ClaimedRow DEF DrainInv, Types
  <2>3. jobs' = [jobs EXCEPT ![j] = new]
    BY <1>7
  <2>. HIDE DEF row
  <2>4. new \in Row /\ new.status = "Running" /\ new.attempt = jobs[j].attempt + 1
    BY <2>2, Stamped
  <2>. HIDE DEF new
  <2>5. /\ jobs' \in [JobIds -> Row] /\ jobs'[j] = new
        /\ \A i \in JobIds : i # j => jobs'[i] = jobs[i]
    BY <2>1, <2>3, <2>4 DEF DrainInv, Types
  <2>6. \A i \in JobIds : jobs'[i].status = "Running" => i = j
    BY <1>1, <2>5 DEF DrainInv, ClaimHeld, InHand
  <2>7. Types' /\ DownIsIdle'
    BY <1>1, <1>7, <2>5 DEF DrainInv, Types, DownIsIdle, InHand, Settling
  <2>8. ClaimHeld'
    BY <1>7, <2>1, <2>4, <2>5, <2>6 DEF ClaimHeld, validate_running_claim, InHand
  <2>9. \A i \in JobIds : Waiting(i)' => Waiting(i) /\ jobs'[i] = jobs[i]
    BY <2>4, <2>5 DEF Waiting
  <2>10. WaitingClaimable'
    BY <2>9 DEF DrainInv, WaitingClaimable
  <2>11. WaitingServed'
    <3>. SUFFICES ASSUME NEW i \in JobIds, Waiting(i)'
                  PROVE  app' = "open" /\ (timers'[Due(jobs[i])'] > 0 \/ Served(i)')
      BY DEF WaitingServed
    <3>1. Waiting(i) /\ jobs'[i] = jobs[i] /\ Due(jobs[i])' = Due(jobs[i])
      BY <2>9 DEF Due, DueAt
    <3>2. jobs[i].next \in Int \cup {NoTime} /\ (timers[Due(jobs[i])] > 0 \/ Served(i))
      BY <3>1, RowFacts
    <3>3. Served(i) => jobs[i].next = NoTime \/ jobs[i].next <= 0
      BY <1>1, <3>2 DEF Served, InHand, Settling, DrainInv, Types
    <3>4. Served(i) => Served(i)'
      BY <1>7, <3>1, <3>3 DEF Served, InHand
    <3>. QED
      BY <1>1, <1>7, <3>1, <3>2, <3>4
  <2>. QED
    BY <2>7, <2>8, <2>10, <2>11 DEF DrainInv
<1>. QED
  BY <1>4, <1>5, <1>6, <1>7

\* The worker goes on with the claim in hand.
LEMMA InHandKeeps ==
    ASSUME DrainInv, onClaimed \/ recognize \/ WaitInterrupted PROVE DrainInv'
<1>1. /\ pc \in InHand /\ pc' \in InHand /\ reading' \in {0, reading}
      /\ UNCHANGED <<jobs, app, timers, ticket, retryAt, canceller>>
  BY DEF onClaimed, recognize, WaitInterrupted, Answered, InHand
<1>2. Types' /\ ClaimHeld' /\ WaitingClaimable' /\ DownIsIdle'
  BY <1>1 DEF DrainInv, Types, ClaimHeld, WaitingClaimable, Waiting, DownIsIdle, InHand, Settling
<1>3. WaitingServed'
  BY <1>1 DEF DrainInv, WaitingServed, Waiting, Due, DueAt, Served, InHand, Settling
<1>. QED
  BY <1>2, <1>3 DEF DrainInv

\* The row in hand is settled, or the drain remembers when it is due again.
LEMMA finalizeOcrJobKeeps ==
    ASSUME DrainInv, finalizeOcrJob PROVE DrainInv'
<1>. DEFINE j == ticket[1]
            row == IF CancelBeatsCommit(jobs[j], report[1])
                   THEN Settled(jobs[j], "Cancelled", reading, "OCR_CANCELLED")
                   ELSE [TerminalTransition(jobs[j], report[1], 0, report[2], reading) EXCEPT !.run = 0]
            new == [row EXCEPT !.updated = 0]
<1>1. /\ pc = "finalize" /\ j \in JobIds /\ jobs[j] \in Row /\ validate_running_claim(jobs[j], ticket[2])
      /\ reading \in Int /\ reading <= 0
  BY DEF finalizeOcrJob, DrainInv, Types, ClaimHeld, InHand
<1>2. /\ jobs' = [jobs EXCEPT ![j] = new]
      /\ retryAt' = (IF row.next = NoTime THEN NoTime ELSE Later(row.next))
      /\ pc' = "finish" /\ reading' = 0 /\ UNCHANGED <<app, timers, canceller>>
  BY <1>1 DEF finalizeOcrJob, Put
<1>3. /\ row \in Row
      /\ \/ row.status \in TerminalStatus /\ row.next = NoTime
         \/ /\ row.status = "Queued" /\ Claimable(row) /\ row.next \in Int
            /\ row.next <= Horizon
  <2>1. CASE CancelBeatsCommit(jobs[j], report[1])
    <3>. DEFINE settled == Settled(jobs[j], "Cancelled", reading, "OCR_CANCELLED")
    <3>1. settled \in Row /\ settled.status = "Cancelled"
      BY <1>1, SettledRow DEF TerminalStatus, ErrorCodes
    <3>2. settled.next = NoTime
      BY <1>1 DEF Settled, Row
    <3>. HIDE DEF settled
    <3>3. row = settled
      BY <2>1 DEF settled
    <3>. QED
      BY <3>1, <3>2, <3>3 DEF TerminalStatus
  <2>2. CASE ~CancelBeatsCommit(jobs[j], report[1])
    <3>. DEFINE next == [TerminalTransition(jobs[j], report[1], 0, report[2], reading) EXCEPT !.run = 0]
    <3>1. /\ next \in Row
          /\ \/ next.status \in TerminalStatus /\ next.next = NoTime
             \/ /\ next.status = "Queued" /\ next.attempt < MaxAttempts /\ next.cancel = jobs[j].cancel
                /\ next.next \in Int /\ next.next <= Horizon
      BY <1>1, ResultRow
    <3>2. ~jobs[j].cancel
      BY <2>2 DEF CancelBeatsCommit
    <3>. HIDE DEF next
    <3>3. row = next
      BY <2>2 DEF next
    <3>4. next.status = "Queued" /\ next.cancel = jobs[j].cancel => ~next.cancel
      BY <3>2, Zenon
    <3>. HIDE DEF row
    <3>. QED
      BY <3>1, <3>3, <3>4 DEF Claimable
  <2>. QED
    BY <2>1, <2>2
<1>. HIDE DEF row
<1>4. /\ new \in Row /\ new.status = row.status /\ new.attempt = row.attempt /\ new.next = row.next
      /\ new.cancel = row.cancel
  BY <1>3, Stamped
<1>5. new.status = "Queued" => Claimable(new) /\ retryAt' = Due(new)
  BY <1>2, <1>3, <1>4, NoTimeAssumption DEF TerminalStatus, Claimable, Due, DueAt
<1>6. retryAt' \in Delays \cup {NoTime} /\ new.status # "Running"
  BY <1>2, <1>3, <1>4, NoTimeAssumption, DelaysAssumption DEF TerminalStatus, Delays, Later
<1>. HIDE DEF new
<1>7. /\ jobs' \in [JobIds -> Row] /\ jobs'[j] = new
      /\ \A i \in JobIds : i # j => jobs'[i] = jobs[i]
  BY <1>1, <1>2, <1>4 DEF DrainInv, Types
<1>8. Types' /\ DownIsIdle'
  BY <1>1, <1>2, <1>6, <1>7 DEF DrainInv, Types, DownIsIdle, Settling
<1>9. ClaimHeld'
  BY <1>2, <1>6, <1>7 DEF DrainInv, ClaimHeld, InHand
<1>10. WaitingClaimable'
  BY <1>5, <1>7 DEF DrainInv, WaitingClaimable, Waiting
<1>11. WaitingServed'
  <2>. SUFFICES ASSUME NEW i \in JobIds, Waiting(i)'
                PROVE  app' = "open" /\ (timers'[Due(jobs[i])'] > 0 \/ Served(i)')
    BY DEF WaitingServed
  <2>1. app = "open"
    BY <1>1 DEF DrainInv, Types, DownIsIdle
  <2>2. CASE i = j
    <3>1. retryAt' = Due(jobs[i])' /\ Due(jobs[i])' # NoTime
      BY <1>3, <1>4, <1>5, <1>7, <2>2, NoTimeAssumption DEF Waiting, TerminalStatus, Due, DueAt, Later
    <3>. QED
      BY <1>2, <2>1, <3>1 DEF Served, Settling
  <2>3. CASE i # j
    <3>1. jobs'[i] = jobs[i] /\ Waiting(i) /\ Due(jobs[i])' = Due(jobs[i])
      BY <1>7, <2>3 DEF Waiting, Due, DueAt
    <3>2. timers[Due(jobs[i])] > 0 \/ Served(i)
      BY <3>1, RowFacts
    <3>3. Served(i) => Served(i)'
      BY <1>1, <1>2, <3>1 DEF Served, Settling
    <3>. QED
      BY <1>2, <2>1, <3>1, <3>2, <3>3
  <2>. QED
    BY <2>2, <2>3
<1>. QED
  BY <1>8, <1>9, <1>10, <1>11 DEF DrainInv

LEMMA ClearRunningJobKeeps ==
    ASSUME DrainInv, ClearRunningJob PROVE DrainInv'
<1>1. /\ pc = "finish" /\ pc' = "finished"
      /\ UNCHANGED <<jobs, app, timers, ticket, reading, retryAt, canceller>>
  BY DEF ClearRunningJob, DrainInv, Types, InHand, Settling
<1>2. Types' /\ ClaimHeld' /\ WaitingClaimable' /\ DownIsIdle'
  BY <1>1 DEF DrainInv, Types, ClaimHeld, WaitingClaimable, Waiting, DownIsIdle, InHand, Settling
<1>3. WaitingServed'
  BY <1>1 DEF DrainInv, WaitingServed, Waiting, Due, DueAt, Served, InHand, Settling
<1>. QED
  BY <1>2, <1>3 DEF DrainInv

\* The row that was requeued gets its drain and the loop goes on.
LEMMA ClearInterruptKeeps ==
    ASSUME DrainInv, ClearInterrupt PROVE DrainInv'
<1>1. /\ pc = "finished" /\ pc' = "loop" /\ UNCHANGED <<jobs, app, ticket, reading, canceller>>
      /\ app = "open" /\ retryAt \in Delays \cup {NoTime}
      /\ IF retryAt # NoTime THEN scheduleDrain(retryAt) ELSE timers' = timers
  BY DEF ClearInterrupt, DrainInv, Types, InHand, Settling, DownIsIdle
<1>2. /\ timers' \in [Delays -> Nat] /\ \A e \in Delays : timers'[e] >= timers[e]
      /\ retryAt # NoTime => timers'[Later(retryAt)] > 0
  <2>1. CASE retryAt = NoTime
    BY <1>1, <2>1 DEF DrainInv, Types
  <2>2. CASE retryAt # NoTime
    <3>1. retryAt \in Int /\ retryAt <= Horizon /\ scheduleDrain(retryAt)
      BY <1>1, <2>2, DelaysAssumption DEF Delays
    <3>. QED
      BY <1>1, <3>1, Scheduled DEF DrainInv, Types
  <2>. QED
    BY <2>1, <2>2
<1>3. Types' /\ ClaimHeld' /\ WaitingClaimable' /\ DownIsIdle'
  BY <1>1, <1>2 DEF DrainInv, Types, ClaimHeld, WaitingClaimable, Waiting, DownIsIdle, InHand, Settling
<1>4. WaitingServed'
  <2>. SUFFICES ASSUME NEW j \in JobIds, Waiting(j)'
                PROVE  app' = "open" /\ (timers'[Due(jobs[j])'] > 0 \/ Served(j)')
    BY DEF WaitingServed
  <2>1. Waiting(j) /\ Due(jobs[j])' = Due(jobs[j])
    BY <1>1 DEF Waiting, Due, DueAt
  <2>2. Due(jobs[j]) \in Delays /\ (timers[Due(jobs[j])] > 0 \/ Served(j))
    BY <2>1, RowFacts
  <2>3. CASE timers[Due(jobs[j])] > 0
    BY <1>1, <1>2, <2>1, <2>2, <2>3 DEF DrainInv, Types
  <2>4. CASE jobs[j].next = NoTime \/ jobs[j].next <= 0
    BY <1>1, <2>4 DEF Served
  <2>5. CASE retryAt # NoTime /\ retryAt = Due(jobs[j])
    <3>1. Later(retryAt) = retryAt
      BY <2>2, <2>5, DelaysAssumption DEF Later, Delays
    <3>. QED
      BY <1>1, <1>2, <2>1, <2>5, <3>1
  <2>. QED
    BY <1>1, <2>2, <2>3, <2>4, <2>5 DEF Served
<1>. QED
  BY <1>3, <1>4 DEF DrainInv

\* A unit of time brings drains and due jobs closer alike.
LEMMA SoonerRow ==
    ASSUME NEW row \in Row
    PROVE  LET new == [row EXCEPT !.next = Sooner(@)] IN
           /\ new \in Row /\ new.status = row.status /\ new.attempt = row.attempt
           /\ new.cancel = row.cancel /\ new.next = Sooner(row.next)
<1>1. row.next \in Int \cup {NoTime} /\ Stalest \in Int
  BY DelaysAssumption DEF Row, Stalest
<1>2. Sooner(row.next) \in Int \cup {NoTime}
  BY <1>1 DEF Sooner
<1>. QED
  BY <1>2 DEF Row

LEMMA SoonerDue ==
    ASSUME NEW t \in Int \cup {NoTime}, NEW u \in Int
    PROVE  LET d == DueAt(t)
               e == DueAt(Sooner(t))
           IN  /\ d = 0 => e = 0
               /\ d # 0 => e = d - 1
               /\ Later(d - 1) = e
               /\ t # NoTime => Sooner(t) # NoTime /\ Sooner(t) <= t
               /\ t = NoTime => Sooner(t) = NoTime
               /\ u > Stalest /\ t # NoTime /\ t <= u => Sooner(t) <= u - 1
<1>1. Stalest \in Int /\ Stalest <= 0
  BY DelaysAssumption DEF Stalest
<1>2. CASE t = NoTime
  BY <1>2 DEF Sooner, Later, DueAt
<1>3. CASE t # NoTime
  <2>1. t \in Int
    BY <1>3
  <2>2. Sooner(t) = (IF t > Stalest THEN t - 1 ELSE t) /\ Sooner(t) # NoTime
    BY <1>1, <1>3, <2>1, NoTimeAssumption DEF Sooner
  <2>. QED
    BY <1>1, <1>3, <2>1, <2>2 DEF Later, DueAt
<1>. QED
  BY <1>2, <1>3

LEMMA TickKeeps ==
    ASSUME DrainInv, Tick PROVE DrainInv'
<1>1. /\ pc \in {"claim", "finalize"} => reading > Stalest
      /\ reading' = (IF pc \in {"claim", "finalize"} THEN reading - 1 ELSE reading)
      /\ jobs' = [j \in JobIds |-> [jobs[j] EXCEPT !.next = Sooner(@)]]
      /\ retryAt' = (IF retryAt = NoTime THEN NoTime ELSE Later(retryAt - 1))
      /\ UNCHANGED <<app, pc, ticket, canceller>>
  BY DEF Tick
<1>2. /\ jobs' \in [JobIds -> Row]
      /\ \A j \in JobIds : /\ jobs'[j].status = jobs[j].status /\ jobs'[j].attempt = jobs[j].attempt
                           /\ jobs'[j].cancel = jobs[j].cancel
                           /\ jobs'[j].next = Sooner(jobs[j].next)
  BY <1>1, SoonerRow DEF DrainInv, Types
<1>3. /\ timers' \in [Delays -> Nat]
      /\ timers[0] > 0 => timers'[0] > 0
      /\ \A d \in Delays : d # 0 /\ timers[d] > 0 => timers'[d - 1] > 0
  <2>1. timers' = [d \in Delays |-> (IF d < Horizon THEN timers[d + 1] ELSE 0)
                                    + (IF d = 0 THEN timers[0] ELSE 0)]
    BY DEF Tick
  <2>2. /\ timers \in [Delays -> Nat] /\ 0 \in Delays
        /\ \A d \in Delays : /\ d \in Nat
                             /\ d < Horizon => d + 1 \in Delays
                             /\ d # 0 => d - 1 \in Delays /\ d - 1 < Horizon /\ d - 1 + 1 = d
    BY DelaysAssumption DEF DrainInv, Types, Delays
  <2>3. ASSUME NEW d \in Delays
        PROVE  /\ (IF d < Horizon THEN timers[d + 1] ELSE 0) \in Nat
               /\ (IF d = 0 THEN timers[0] ELSE 0) \in Nat
    <3>1. d < Horizon => timers[d + 1] \in Nat
      BY <2>2
    <3>2. timers[0] \in Nat
      BY <2>2
    <3>. QED
      BY <3>1, <3>2
  <2>4. timers' \in [Delays -> Nat]
    BY <2>1, <2>3
  <2>5. timers[0] > 0 => timers'[0] > 0
    BY <2>1, <2>2, <2>3
  <2>6. ASSUME NEW d \in Delays, d # 0, timers[d] > 0 PROVE timers'[d - 1] > 0
    <3>1. d - 1 \in Delays /\ d - 1 < Horizon /\ d - 1 + 1 = d
      BY <2>2, <2>6
    <3>2. timers'[d - 1] = timers[d] + (IF d - 1 = 0 THEN timers[0] ELSE 0)
      BY <2>1, <3>1
    <3>3. (IF d - 1 = 0 THEN timers[0] ELSE 0) \in Nat /\ timers[d] \in Nat
      BY <2>2
    <3>. QED
      BY <2>6, <3>2, <3>3
  <2>. QED
    BY <2>4, <2>5, <2>6
<1>4. Types'
  <2>1. reading' \in Int /\ reading' <= 0
    BY <1>1 DEF DrainInv, Types
  <2>2. pc' \in Settling => retryAt' \in Delays \cup {NoTime}
    BY <1>1, DelaysAssumption DEF DrainInv, Types, Delays, Later
  <2>. QED
    BY <1>1, <1>2, <1>3, <2>1, <2>2 DEF DrainInv, Types
<1>5. ClaimHeld' /\ DownIsIdle'
  BY <1>1, <1>2 DEF DrainInv, ClaimHeld, DownIsIdle, validate_running_claim
<1>6. ASSUME NEW j \in JobIds, Waiting(j)'
      PROVE  /\ Waiting(j) /\ jobs[j].next \in Int \cup {NoTime}
             /\ Due(jobs[j]) \in Delays /\ app = "open" /\ Claimable(jobs[j])
             /\ timers[Due(jobs[j])] > 0 \/ Served(j)
             /\ Due(jobs[j]) = 0 => Due(jobs[j])' = 0
             /\ Due(jobs[j]) # 0 => Due(jobs[j])' = Due(jobs[j]) - 1
             /\ Later(Due(jobs[j]) - 1) = Due(jobs[j])'
             /\ jobs[j].next # NoTime => jobs'[j].next # NoTime /\ jobs'[j].next <= jobs[j].next
             /\ jobs[j].next = NoTime => jobs'[j].next = NoTime
  <2>1. Waiting(j) /\ jobs'[j].next = Sooner(jobs[j].next)
    BY <1>2, <1>6 DEF Waiting
  <2>2. /\ jobs[j].next \in Int \cup {NoTime}
        /\ Due(jobs[j]) \in Delays /\ app = "open" /\ Claimable(jobs[j])
        /\ timers[Due(jobs[j])] > 0 \/ Served(j)
    BY <2>1, RowFacts
  <2>3. Due(jobs[j]) = DueAt(jobs[j].next) /\ Due(jobs[j])' = DueAt(Sooner(jobs[j].next))
    BY <2>1 DEF Due, DueAt
  <2>4. /\ DueAt(jobs[j].next) = 0 => DueAt(Sooner(jobs[j].next)) = 0
        /\ DueAt(jobs[j].next) # 0 => DueAt(Sooner(jobs[j].next)) = DueAt(jobs[j].next) - 1
        /\ Later(DueAt(jobs[j].next) - 1) = DueAt(Sooner(jobs[j].next))
        /\ jobs[j].next # NoTime => Sooner(jobs[j].next) # NoTime /\ Sooner(jobs[j].next) <= jobs[j].next
        /\ jobs[j].next = NoTime => Sooner(jobs[j].next) = NoTime
    <3>. DEFINE t == jobs[j].next
    <3>1. t \in Int \cup {NoTime} /\ 0 \in Int
      BY <2>2
    <3>. HIDE DEF t
    <3>2. /\ DueAt(t) = 0 => DueAt(Sooner(t)) = 0
          /\ DueAt(t) # 0 => DueAt(Sooner(t)) = DueAt(t) - 1
          /\ Later(DueAt(t) - 1) = DueAt(Sooner(t))
          /\ t # NoTime => Sooner(t) # NoTime /\ Sooner(t) <= t
          /\ t = NoTime => Sooner(t) = NoTime
      BY <3>1, SoonerDue
    <3>. QED
      BY <3>2 DEF t
  <2>. QED
    BY <2>1, <2>2, <2>3, <2>4
<1>7. WaitingClaimable'
  <2>. SUFFICES ASSUME NEW j \in JobIds, Waiting(j)' PROVE Claimable(jobs[j])'
    BY DEF WaitingClaimable
  <2>1. jobs[j].next \in Int \cup {NoTime} /\ Claimable(jobs[j])
    BY <1>6
  <2>2. jobs'[j].next = NoTime \/ jobs'[j].next <= Horizon
    BY <1>2, <1>6, <2>1, DelaysAssumption DEF Claimable, Row
  <2>. QED
    BY <1>2, <2>1, <2>2 DEF Claimable
<1>8. WaitingServed'
  <2>. SUFFICES ASSUME NEW j \in JobIds, Waiting(j)'
                PROVE  app' = "open" /\ (timers'[Due(jobs[j])'] > 0 \/ Served(j)')
    BY DEF WaitingServed
  <2>1. app' = "open" /\ jobs'[j].next = Sooner(jobs[j].next) /\ jobs[j].next \in Int \cup {NoTime}
    BY <1>1, <1>2, <1>6
  <2>2. CASE timers[Due(jobs[j])] > 0
    BY <1>3, <1>6, <2>1, <2>2
  <2>3. CASE pc = "claim" /\ (jobs[j].next = NoTime \/ jobs[j].next <= reading)
    <3>1. reading' = reading - 1 /\ reading > Stalest /\ reading \in Int /\ pc' = "claim"
      BY <1>1, <2>3 DEF DrainInv, Types
    <3>2. jobs'[j].next = NoTime \/ jobs'[j].next <= reading'
      BY <2>1, <2>3, <3>1, SoonerDue
    <3>. QED
      BY <2>1, <3>1, <3>2 DEF Served
  <2>4. CASE /\ pc \in {"loop"} \cup InHand \cup Settling
             /\ jobs[j].next = NoTime \/ jobs[j].next <= 0
    <3>1. jobs'[j].next = NoTime \/ jobs'[j].next <= 0
      BY <1>2, <1>6, <2>1, <2>4 DEF Row
    <3>. QED
      BY <1>1, <2>1, <2>4, <3>1 DEF Served
  <2>5. CASE pc \in Settling /\ retryAt # NoTime /\ retryAt = Due(jobs[j])
    <3>1. retryAt' = Due(jobs[j])' /\ retryAt' # NoTime
      BY <1>1, <1>6, <2>5, NoTimeAssumption, DelaysAssumption DEF Later, Delays
    <3>. QED
      BY <1>1, <2>1, <2>5, <3>1 DEF Served
  <2>. QED
    BY <1>6, <2>2, <2>3, <2>4, <2>5 DEF Served
<1>. QED
  BY <1>4, <1>5, <1>7, <1>8 DEF DrainInv

-----------------------------------------------------------------------------
\* The invariant holds on.

LEMMA Inductive ==
    ASSUME DrainInv, Undisturbed, Next, UNCHANGED events PROVE DrainInv'
<1>1. /\ {"viewerStart", "viewerRetry", "runtimeCancel", "recreate", "close",
          "crash", "callFails"} \cap events = {}
  BY DEF Undisturbed
<1>2. canceller = NoJob
  BY DEF DrainInv, Types
<1>3. CASE resume
  BY <1>1, <1>3, resumeKeeps
<1>4. ASSUME NEW j \in JobIds,
             \/ enqueueRegisteredScan(j) \/ enqueueOcrJobForViewer(j)
             \/ manualRetryOcrJobForViewer(j) \/ cancelOcrJobForViewer(j) \/ cancel(j)
      PROVE  DrainInv'
  BY <1>1, <1>4, enqueueRegisteredScanKeeps, cancelOcrJobForViewerKeeps
     DEF enqueueOcrJobForViewer, manualRetryOcrJobForViewer, cancel
<1>5. ~finishCancel
  BY <1>2 DEF finishCancel, CancelComparesJob, CancelInterruptsWorker
<1>6. ~close /\ ~Crash
  BY <1>1 DEF close, Crash
<1>7. CASE drain
  BY <1>1, <1>7, StartDrainKeeps, LoopTopKeeps, claimNextKeeps, InHandKeeps, finalizeOcrJobKeeps,
     ClearRunningJobKeeps, ClearInterruptKeeps DEF drain, workerStep, CallFails
<1>8. CASE Tick
  BY <1>8, TickKeeps
<1>. QED
  BY <1>3, <1>4, <1>5, <1>6, <1>7, <1>8 DEF Next

LEMMA Stutter ==
    ASSUME DrainInv, UNCHANGED <<vars, events>> PROVE DrainInv'
<1>1. UNCHANGED <<jobs, app, timers, pc, ticket, reading, retryAt, canceller>>
  BY DEF vars
<1>2. Types' /\ ClaimHeld' /\ WaitingClaimable' /\ DownIsIdle'
  BY <1>1 DEF DrainInv, Types, ClaimHeld, WaitingClaimable, Waiting, DownIsIdle
<1>3. WaitingServed'
  BY <1>1 DEF DrainInv, WaitingServed, Waiting, Due, DueAt, Served
<1>. QED
  BY <1>2, <1>3 DEF DrainInv

\* While no drain runs, a drain is scheduled no later than the job is due: with
\* any number of jobs and clock readings of any age, as long as no row of an
\* older build is at the limit (such a row makes the claim of a due job throw,
\* and the next drain comes after RECOVERY_RETRY_DELAY_MS only).
THEOREM WaitingJobsAreServed ==
    ASSUME LegacyJobs = {} PROVE Spec => []WaitingJobHasDrain
<1>1. Init => UndisturbedInv
  BY Initial DEF UndisturbedInv
<1>2. UndisturbedInv /\ [Next /\ UNCHANGED events]_<<vars, events>> => UndisturbedInv'
  <2>. SUFFICES ASSUME UndisturbedInv, [Next /\ UNCHANGED events]_<<vars, events>>, Undisturbed'
                PROVE  DrainInv'
    BY DEF UndisturbedInv
  <2>1. UNCHANGED events
    OBVIOUS
  <2>2. Undisturbed /\ DrainInv
    BY <2>1 DEF Undisturbed, UndisturbedInv
  <2>. QED
    BY <2>2, Inductive, Stutter
<1>3. UndisturbedInv => WaitingJobHasDrain
  <2>. SUFFICES ASSUME DrainInv, pc = "idle", NEW j \in JobIds, Waiting(j)
                PROVE  \E d \in Delays :
                         timers[d] > 0 /\ d <= (IF jobs[j].next = NoTime THEN 0 ELSE Later(jobs[j].next))
    BY DEF UndisturbedInv, WaitingJobHasDrain, JobsWith, Waiting
  <2>1. Due(jobs[j]) \in Delays /\ timers[Due(jobs[j])] > 0
    BY RowFacts DEF Served, InHand, Settling
  <2>2. Due(jobs[j]) <= Due(jobs[j])
    BY <2>1, DelaysAssumption DEF Delays
  <2>. QED
    BY <2>1, <2>2 DEF Due, DueAt
<1>. QED
  BY <1>1, <1>2, <1>3, PTL DEF Spec

=============================================================================
