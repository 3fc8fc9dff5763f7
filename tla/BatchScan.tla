---------------------------- MODULE BatchScan ----------------------------
(* Batch scanning: the durable scanner-recovery records and the batch session *)
(* of a2d-core, the registration that turns a staged picture into a scan row, *)
(* and the coroutines of the Android batch screen that call them.             *)
(*                                                                            *)
(* A capture is a token 1, 2, ... in the order the pictures are requested.    *)
(* Files, the session file and the database survive the death of the process; *)
(* threads and the storage mutex do not. The operators named Faulty... are     *)
(* plausible bugs of the operator that follows; no specification uses them.    *)
EXTENDS Naturals, Sequences, FiniteSets

CONSTANTS MaxCaptures,  \* pictures requested in a behaviour
          MaxReopens,   \* times the batch screen is left and opened again
          MaxDeaths,    \* deaths of the process after which it is opened again
          MaxFaults     \* I/O operations that fail

ASSUME BoundsAssumption ==
    /\ MaxCaptures \in Nat \ {0}
    /\ MaxReopens \in Nat
    /\ MaxDeaths \in Nat
    /\ MaxFaults \in Nat

VARIABLES
    file,      \* staging file of each capture: "none", "reserved" or "image"
    rec,       \* scanner-recovery record of each capture
    ses,       \* the batch session file
    db,        \* scan rows in commit order: the recovery token of each
    mutex,     \* the thread that holds the storage mutex, or NoThread
    th,        \* the coroutines
    screen,    \* the batch screen that is open (its view model)
    reopens,   \* times it was opened again without a death of the process
    captures,  \* tokens handed out
    faults     \* failed I/O operations

disk   == <<file, rec, ses, db>>
bounds == <<captures, faults>>
app    == <<screen, reopens>>
vars   == <<disk, mutex, th, app, bounds>>

-----------------------------------------------------------------------------
Tokens   == 1..MaxCaptures
MaxScreens == 1 + MaxReopens + MaxDeaths
Roles    == {"worker", "capture", "failure", "finish"}
Threads  == (1..MaxScreens) \X Roles
NoThread == <<0, "worker">>

Phases == {"Captured", "PreviewReady", "Registering", "Committed"}

Record(p, s) == [phase |-> p, scan |-> s]
NoRecord     == Record("None", 0)
\* The empty file create_new leaves behind until the rename.
EmptyRecord  == Record("Empty", 0)

NotInBatch   == [status |-> "Absent", scan |-> 0, review |-> FALSE]
EmptySession == [entry |-> [t \in Tokens |-> NotInBatch], done |-> FALSE]
NoRecords    == [t \in Tokens |-> NoRecord]

\* A coroutine: where it is, what it does after a reconciliation, its capture,
\* its copy of the session, its list of records, the records it has still to
\* reconcile or acknowledge, and the record it is about to write.
At(p, r, t) == [pc |-> p, ret |-> r, tok |-> t, ses |-> EmptySession,
                snap |-> NoRecords, todo |-> {}, draft |-> NoRecord]
Off  == At("off", "none", 0)
Idle == At("idle", "none", 0)

Worker(k)  == <<k, "worker">>
Capture(k) == <<k, "capture">>
Failure(k) == <<k, "failure">>
Finish(k)  == <<k, "finish">>

First(S) == CHOOSE t \in S : \A u \in S : t <= u

\* validate_recovery_staging_file: it is there and is not empty.
HasStagingFile(t) == file[t] # "none"

\* read_scanner_recovery succeeds: the record is complete and, unless it is
\* committed, its staging file is valid.
Readable(t) ==
    \/ rec[t].phase = "Committed"
    \/ rec[t].phase \in Phases /\ HasStagingFile(t)

\* list_scanner_recoveries succeeds: one unreadable record fails it.
Listable == \A t \in Tokens : rec[t] = NoRecord \/ Readable(t)

RowsOf(t) == {i \in 1..Len(db) : db[i] = t}
Queued(s) == {t \in Tokens : s.entry[t].status = "Queued"}

MutexFree == mutex = NoThread
Released(h) == IF mutex = h THEN NoThread ELSE mutex

-----------------------------------------------------------------------------
\* Control of the coroutines.

Becomes(h, r) == th' = [th EXCEPT ![h] = r]
Goto(h, p)    == th' = [th EXCEPT ![h].pc = p]

\* The end of a withContext(IO) block: the coroutine of a cleared view model is
\* cancelled there and not earlier.
Resume(h, r) == Becomes(h, IF h[1] = screen THEN r ELSE Off)

Opened(k) == [h \in Threads |-> IF h = Worker(k) THEN At("list", "start", 0) ELSE Off]

\* The process ends, and the user may open the batch screen again.
Dies ==
    /\ mutex' = NoThread
    /\ UNCHANGED reopens
    /\ IF screen - reopens <= MaxDeaths /\ ~ses.done
       THEN screen' = screen + 1 /\ th' = Opened(screen + 1)
       ELSE screen' = screen /\ th' = [h \in Threads |-> Off]

\* Calls no catch block of the worker covers: its own reconciliation and the
\* report its catch block makes.
Uncaught(h) ==
    /\ h[2] = "worker"
    /\ \/ th[h].ret = "loop"
       \/ th[h].pc \in {"reportRead", "reportReview", "reportWrite"}

\* The call in progress throws: what the coroutine does next. A cancelled
\* coroutine cannot report the failure it catches.
Raise(h) ==
    \/ Uncaught(h) /\ Dies
    \/ /\ ~Uncaught(h)
       /\ mutex' = Released(h)
       /\ UNCHANGED app
       /\ \/ h[2] = "capture" /\ Goto(h, "discardRead")
          \/ h[2] \in {"failure", "finish"} /\ Becomes(h, Off)
          \/ /\ h[2] = "worker" /\ th[h].ret = "start"
             /\ Resume(h, At("dead", "none", 0))
          \/ /\ h[2] = "worker" /\ th[h].ret # "start"
             /\ Resume(h, At("reportRead", "none", th[h].tok))

\* A call that throws before it has changed anything.
Throws(h) == Raise(h) /\ UNCHANGED <<disk, bounds>>

\* An I/O operation that fails.
Fault(h) ==
    /\ faults < MaxFaults
    /\ faults' = faults + 1
    /\ Raise(h)
    /\ UNCHANGED <<disk, captures>>

\* A step of thread h that keeps the mutex, the screen and the bounds.
Still == UNCHANGED <<mutex, app, bounds>>

-----------------------------------------------------------------------------
\* reconcile_batch_scan_session, and reconcile_scanner_recovery on one record.

\* Reads the session, then lists the records.
ReconcileList(h) ==
    /\ th[h].pc = "list"
    /\ \/ ~Listable /\ Throws(h)
       \/ LET todo == {t \in Tokens : rec[t].phase = "Registering"} IN
          /\ Listable
          /\ th' = [th EXCEPT ![h].pc = IF todo = {} THEN "settle" ELSE "read",
                              ![h].ses = ses, ![h].snap = rec, ![h].todo = todo]
          /\ Still /\ UNCHANGED disk

\* Where a thread goes when the record it reconciles is t and is now r.
Reconciled(h, t, r) ==
    IF th[h].ret = "single" THEN Resume(h, At("list", "final", th[h].tok))
    ELSE IF th[h].ret = "ack" THEN Goto(h, "acknowledge")
    ELSE th' = [th EXCEPT ![h].pc = IF th[h].todo = {t} THEN "settle" ELSE "read",
                          ![h].snap[t] = r, ![h].todo = @ \ {t},
                          ![h].draft = NoRecord]

\* Reads the record again, without a lock; a record that has left Registering
\* is returned as it is.
ReconcileRead(h) ==
    /\ th[h].pc = "read"
    /\ LET t == First(th[h].todo) IN
       \/ ~Readable(t) /\ Throws(h)
       \/ /\ Readable(t)
          /\ IF rec[t].phase = "Registering" THEN Goto(h, "lookup")
             ELSE Reconciled(h, t, rec[t])
          /\ Still /\ UNCHANGED disk

\* Faulty: the row of an interrupted registration is not looked up.
FaultyLookupSkipped(h) ==
    /\ th[h].pc = "lookup"
    /\ MutexFree
    /\ th' = [th EXCEPT ![h].pc = "replace", ![h].draft = Record("PreviewReady", 0)]
    /\ Still /\ UNCHANGED disk

\* find_scan_by_recovery_token, under the storage mutex, which it then releases.
ReconcileLookup(h) ==
    /\ th[h].pc = "lookup"
    /\ MutexFree
    /\ LET rows == RowsOf(First(th[h].todo)) IN
       \/ Cardinality(rows) > 1 /\ Throws(h)
       \/ \E d \in IF rows = {} THEN {Record("PreviewReady", 0)}
                 ELSE {Record("Committed", i) : i \in rows} :
          /\ Cardinality(rows) <= 1
          /\ th' = [th EXCEPT ![h].pc = "replace",
                              ![h].draft = d]
          /\ Still /\ UNCHANGED disk

\* replace_scanner_recovery writes over whatever the record has become.
ReconcileReplace(h) ==
    /\ th[h].pc = "replace"
    /\ LET t == First(th[h].todo) IN
       \/ rec[t] = NoRecord /\ Throws(h)
       \/ rec[t] # NoRecord /\ Fault(h)
       \/ /\ rec[t] # NoRecord
          /\ rec' = [rec EXCEPT ![t] = th[h].draft]
          /\ Reconciled(h, t, th[h].draft)
          /\ Still /\ UNCHANGED <<file, ses, db>>

\* Faulty: a missing record is taken for an acknowledged registration.
FaultySettledMissing(s, recs) ==
    [s EXCEPT !.entry = [t \in Tokens |->
        IF s.entry[t].status = "Queued" /\ recs[t] = NoRecord
        THEN [s.entry[t] EXCEPT !.status = "Saved"] ELSE s.entry[t]]]

\* A queued entry is saved when its record is committed and needs review when
\* its record is gone.
Settled(s, recs) ==
    [s EXCEPT !.entry = [t \in Tokens |->
        IF s.entry[t].status # "Queued" THEN s.entry[t]
        ELSE IF recs[t].phase = "Committed"
             THEN [s.entry[t] EXCEPT !.status = "Saved", !.scan = recs[t].scan]
        ELSE IF recs[t] = NoRecord THEN [s.entry[t] EXCEPT !.status = "NeedsReview"]
        ELSE s.entry[t]]]

\* Writes the session from this thread's copy, and returns it to the caller.
ReconcileSettle(h) ==
    /\ th[h].pc = "settle"
    /\ LET s == Settled(th[h].ses, th[h].snap) IN
       \/ s # th[h].ses /\ Fault(h)
       \/ /\ ses' = IF s = th[h].ses THEN ses ELSE s
          /\ \/ th[h].ret \in {"start", "final"} /\ Resume(h, At("list", "loop", 0))
             \/ /\ th[h].ret = "loop" /\ Queued(s) = {}
                /\ Resume(h, Idle)
             \/ /\ th[h].ret = "loop" /\ Queued(s) # {}
                /\ Resume(h, At("fetch", "none", First(Queued(s))))
             \/ /\ th[h].ret \in {"authorize", "complete"}
                /\ Becomes(h, [At(th[h].ret, "none", th[h].tok) EXCEPT !.ses = s])
          /\ Still /\ UNCHANGED <<file, rec, db>>

-----------------------------------------------------------------------------
\* The worker's processEntry, up to register_batch_scan.

\* Lists the records, checks the picture and analyses it; the analysis of a bad
\* picture throws.
Fetch(h) ==
    /\ th[h].pc = "fetch"
    /\ LET t == th[h].tok IN
       \/ Throws(h)
       \/ /\ Listable
          /\ \/ /\ rec[t].phase = "Registering"
                /\ th' = [th EXCEPT ![h].pc = "read", ![h].ret = "single",
                                    ![h].todo = {t}]
             \/ /\ rec[t].phase = "Captured" /\ file[t] = "image"
                /\ Goto(h, "previewRead")
             \/ /\ rec[t].phase = "PreviewReady" /\ file[t] = "image"
                /\ Becomes(h, At("list", "authorize", t))
          /\ Still /\ UNCHANGED disk

\* mark_scanner_recovery_preview_ready: advance_scanner_recovery reads the
\* record and checks its phase, then replaces it.
PreviewRead(h) ==
    /\ th[h].pc = "previewRead"
    /\ LET t == th[h].tok
           ok == Readable(t) /\ rec[t].phase = "Captured"
       IN \/ ~ok /\ Throws(h)
          \/ ok /\ Goto(h, "previewWrite") /\ Still /\ UNCHANGED disk

PreviewWrite(h) ==
    /\ th[h].pc = "previewWrite"
    /\ LET t == th[h].tok IN
       \/ rec[t] = NoRecord /\ Throws(h)
       \/ rec[t] # NoRecord /\ Fault(h)
       \/ /\ rec[t] # NoRecord
          /\ rec' = [rec EXCEPT ![t] = Record("PreviewReady", 0)]
          /\ Becomes(h, At("list", "authorize", t))
          /\ Still /\ UNCHANGED <<file, ses, db>>

\* register_batch_scan after its reconciliation: the entry must be queued, and
\* register_scan reads the picture.
Authorize(h) ==
    /\ th[h].pc = "authorize"
    /\ LET t  == th[h].tok
           s  == th[h].ses
           ok == ~s.done /\ s.entry[t].status = "Queued" /\ file[t] = "image"
       IN \/ ~ok /\ Throws(h)
          \/ ok /\ Becomes(h, At("lock", "none", t)) /\ Still /\ UNCHANGED disk

-----------------------------------------------------------------------------
\* register_scan, from lock_storage to the removal of the staging file.

\* Takes the storage mutex; mark_scanner_recovery_registering reads the record.
Lock(h) ==
    /\ th[h].pc = "lock"
    /\ MutexFree
    /\ LET t == th[h].tok
           ok == Readable(t) /\ rec[t].phase = "PreviewReady"
       IN \/ ~ok /\ Throws(h)
          \/ /\ ok
             /\ mutex' = h
             /\ Goto(h, "marking")
             /\ UNCHANGED <<disk, app, bounds>>

Mark(h) ==
    /\ th[h].pc = "marking"
    /\ LET t == th[h].tok IN
       \/ rec[t] = NoRecord /\ Throws(h)
       \/ rec[t] # NoRecord /\ Fault(h)
       \/ /\ rec[t] # NoRecord
          /\ rec' = [rec EXCEPT ![t] = Record("Registering", 0)]
          /\ Goto(h, "assets")
          /\ Still /\ UNCHANGED <<file, ses, db>>

\* Faulty: a failed asset commit cleans the staging file up.
FaultyAssetsUnstage(h) ==
    /\ th[h].pc = "assets"
    /\ Goto(h, "unstage")
    /\ mutex' = NoThread
    /\ UNCHANGED <<disk, app, bounds>>

\* The journal and the four assets.
CommitAssets(h) ==
    /\ th[h].pc = "assets"
    /\ \/ Fault(h)
       \/ Goto(h, "transaction") /\ Still /\ UNCHANGED disk

\* The transaction commits the row, and the mutex is released.
InsertScan(h) ==
    /\ th[h].pc = "transaction"
    /\ \/ Fault(h)
       \/ /\ db' = Append(db, th[h].tok)
          /\ th' = [th EXCEPT ![h].pc = "commitRead",
                              ![h].draft = Record("Committed", Len(db) + 1)]
          /\ mutex' = NoThread
          /\ UNCHANGED <<file, rec, ses, app, bounds>>

\* mark_scanner_recovery_committed; its failure is only a warning.
CommitRead(h) ==
    /\ th[h].pc = "commitRead"
    /\ LET t == th[h].tok IN
       Goto(h, IF Readable(t) /\ rec[t].phase = "Registering"
               THEN "commitWrite" ELSE "unstage")
    /\ Still /\ UNCHANGED disk

CommitWrite(h) ==
    /\ th[h].pc = "commitWrite"
    /\ LET t == th[h].tok IN
       \/ /\ rec[t] = NoRecord
          /\ UNCHANGED <<rec, faults>>
       \/ /\ faults < MaxFaults
          /\ faults' = faults + 1
          /\ UNCHANGED rec
       \/ /\ rec[t] # NoRecord
          /\ rec' = [rec EXCEPT ![t] = th[h].draft]
          /\ UNCHANGED faults
    /\ Goto(h, "unstage")
    /\ UNCHANGED <<file, ses, db, mutex, app, captures>>

\* Removes the staging file, whether or not the record was marked; a failure is
\* only a warning.
Unstage(h) ==
    /\ th[h].pc = "unstage"
    /\ \/ file' = [file EXCEPT ![th[h].tok] = "none"] /\ UNCHANGED faults
       \/ faults < MaxFaults /\ faults' = faults + 1 /\ UNCHANGED file
    /\ Goto(h, "savedRead")
    /\ UNCHANGED <<rec, ses, db, mutex, app, captures>>

-----------------------------------------------------------------------------
\* record_batch_scan_saved and report_batch_scan_review: read the session,
\* create the review item the entry lacks, write the session back.

\* A status in refused is an error.
ReadEntry(h, from, to, refused) ==
    /\ th[h].pc = from
    /\ LET ok == ses.entry[th[h].tok].status \notin refused IN
       \/ ~ok /\ Throws(h)
       \/ /\ ok
          /\ th' = [th EXCEPT ![h].pc = to, ![h].ses = ses]
          /\ Still /\ UNCHANGED disk

\* The entry becomes e, with a review item; create_review_item takes the storage
\* mutex for its transaction, and its row is left out.
ReviewEntry(h, from, to, e) ==
    /\ th[h].pc = from
    /\ \/ Fault(h)
       \/ /\ MutexFree \/ e.review
          /\ th' = [th EXCEPT ![h].pc = to,
                    ![h].ses.entry[th[h].tok] = [e EXCEPT !.review = TRUE]]
          /\ Still /\ UNCHANGED disk

\* Every registration is reviewed: its quality is uncalibrated.
SavedRead(h) == ReadEntry(h, "savedRead", "savedReview", {"Absent"})

SavedReview(h) ==
    ReviewEntry(h, "savedReview", "savedWrite",
        [th[h].ses.entry[th[h].tok] EXCEPT !.status = "Saved", !.scan = th[h].draft.scan])

SavedWrite(h) ==
    /\ th[h].pc = "savedWrite"
    /\ \/ Fault(h)
       \/ /\ ses' = th[h].ses
          /\ Resume(h, At("list", "final", th[h].tok))
          /\ Still /\ UNCHANGED <<file, rec, db>>

ReportRead(h) == ReadEntry(h, "reportRead", "reportReview", {"Absent", "Saved"})

ReportReview(h) ==
    ReviewEntry(h, "reportReview", "reportWrite",
        [th[h].ses.entry[th[h].tok] EXCEPT !.status = "NeedsReview"])

\* failCapture goes on to discard the recovery in the same block.
ReportWrite(h) ==
    /\ th[h].pc = "reportWrite"
    /\ \/ Fault(h)
       \/ /\ ses' = th[h].ses
          /\ IF h[2] = "worker" THEN Resume(h, At("list", "loop", 0))
             ELSE Becomes(h, At("discardRead", "none", th[h].tok))
          /\ Still /\ UNCHANGED <<file, rec, db>>

-----------------------------------------------------------------------------
\* A capture: requestCapture prepares it in one withContext block.

Ready(k) == th[Worker(k)].pc \notin {"off", "dead"} /\ th[Worker(k)].ret # "start"

\* Writes the reservation; one capture at a time.
RequestCapture ==
    /\ Ready(screen)
    /\ th[Capture(screen)] = Off
    /\ th[Finish(screen)].pc # "closed"
    /\ captures < MaxCaptures
    /\ captures' = captures + 1
    /\ file' = [file EXCEPT ![captures + 1] = "reserved"]
    /\ Becomes(Capture(screen), At("begin", "none", captures + 1))
    /\ UNCHANGED <<rec, ses, db, mutex, app, faults>>

\* begin_scanner_recovery lists the records and reserves the record's name; a
\* failure takes the reserved name back.
Begin(h) ==
    /\ th[h].pc = "begin"
    /\ \/ ~Listable /\ Throws(h)
       \/ Listable /\ Fault(h)
       \/ /\ Listable
          /\ rec' = [rec EXCEPT ![th[h].tok] = EmptyRecord]
          /\ Goto(h, "name")
          /\ Still /\ UNCHANGED <<file, ses, db>>

\* The rename that puts the record behind the reserved name.
Name(h) ==
    /\ th[h].pc = "name"
    /\ rec' = [rec EXCEPT ![th[h].tok] = Record("Captured", 0)]
    /\ Goto(h, "queueRead")
    /\ Still /\ UNCHANGED <<file, ses, db>>

\* queue_batch_scan_capture reads the session and lists the records.
QueueRead(h) ==
    /\ th[h].pc = "queueRead"
    /\ \/ (ses.done \/ ~Listable) /\ Throws(h)
       \/ /\ ~ses.done /\ Listable
          /\ th' = [th EXCEPT ![h].pc = "queueWrite",
                 ![h].ses = [ses EXCEPT !.entry[th[h].tok].status = "Queued"]]
          /\ Still /\ UNCHANGED disk

QueueWrite(h) ==
    /\ th[h].pc = "queueWrite"
    /\ \/ Fault(h)
       \/ /\ ses' = th[h].ses
          /\ Becomes(h, At("release", "none", th[h].tok))
          /\ Still /\ UNCHANGED <<file, rec, db>>

\* deleteReservation, before CameraX writes.
Release(h) ==
    /\ th[h].pc = "release"
    /\ \/ Fault(h)
       \/ /\ file' = [file EXCEPT ![th[h].tok] = "none"]
          /\ Resume(h, At("pending", "none", th[h].tok))
          /\ Still /\ UNCHANGED <<rec, ses, db>>

\* failCapture frees the camera and reports in a coroutine of its own.
CaptureFails(h) ==
    /\ th[Failure(h[1])] = Off
    /\ th' = [th EXCEPT ![h] = Off,
                        ![Failure(h[1])] = At("reportRead", "none", th[h].tok)]
    /\ Still /\ UNCHANGED disk

\* CameraXAdapter.capture: takes the picture, unless the camera is not bound or
\* the path holds something else than a reservation.
TakePicture(h) ==
    /\ th[h].pc = "pending" /\ h[1] = screen
    /\ \/ file[th[h].tok] = "none" /\ Goto(h, "shooting") /\ Still /\ UNCHANGED disk
       \/ CaptureFails(h)

\* The picture is saved. Its callback frees the camera and starts the worker,
\* and is dropped once the adapter is closed: with the screen, or by a rotation,
\* after which the new adapter is asked for the same capture again.
PictureSaved(h) ==
    /\ th[h].pc = "shooting"
    /\ file' = [file EXCEPT ![th[h].tok] = "image"]
    /\ \/ h[1] # screen /\ Becomes(h, Off)
       \/ h[1] = screen /\ Goto(h, "pending")
       \/ /\ h[1] = screen
          /\ LET w == Worker(h[1]) IN
             th' = [th EXCEPT ![h] = Off,
                 ![w] = IF th[w] = Idle THEN At("list", "loop", 0) ELSE @]
    /\ Still /\ UNCHANGED <<rec, ses, db>>

PictureLost(h) ==
    /\ th[h].pc = "shooting"
    /\ \/ h[1] # screen /\ Becomes(h, Off) /\ Still /\ UNCHANGED disk
       \/ h[1] = screen /\ Goto(h, "pending") /\ Still /\ UNCHANGED disk
       \/ h[1] = screen /\ CaptureFails(h)

\* discard_scanner_recovery: the picture first, then the record.
DiscardRead(h) ==
    /\ th[h].pc = "discardRead"
    /\ LET t  == th[h].tok
           ok == Readable(t) /\ rec[t].phase \in {"Captured", "PreviewReady"}
       IN Goto(h, IF ok THEN "discardImage" ELSE "discarded")
    /\ Still /\ UNCHANGED disk

\* Faulty: the record goes before the picture.
FaultyDiscardRecordFirst(h) ==
    /\ th[h].pc = "discardImage"
    /\ rec' = [rec EXCEPT ![th[h].tok] = NoRecord]
    /\ Goto(h, "discardRecord")
    /\ Still /\ UNCHANGED <<file, ses, db>>

DiscardImage(h) ==
    /\ th[h].pc = "discardImage"
    /\ file' = [file EXCEPT ![th[h].tok] = "none"]
    /\ Goto(h, IF file[th[h].tok] = "none" THEN "discarded" ELSE "discardRecord")
    /\ Still /\ UNCHANGED <<rec, ses, db>>

DiscardRecord(h) ==
    /\ th[h].pc = "discardRecord"
    /\ rec' = [rec EXCEPT ![th[h].tok] = NoRecord]
    /\ Goto(h, "discarded")
    /\ Still /\ UNCHANGED <<file, ses, db>>

\* requestCapture's catch block also deletes the file.
Discarded(h) ==
    /\ th[h].pc = "discarded"
    /\ file' = IF h[2] = "capture" THEN [file EXCEPT ![th[h].tok] = "none"] ELSE file
    /\ Becomes(h, Off)
    /\ Still /\ UNCHANGED <<rec, ses, db>>

-----------------------------------------------------------------------------
\* finishBatch and complete_batch_scan_session.

\* No capture is prepared or taken and the worker is idle. The screen also looks
\* at the queued entries it shows; complete_batch_scan_session counts them again.
FinishBatch ==
    /\ th[Worker(screen)] = Idle
    /\ th[Capture(screen)] = Off
    /\ th[Finish(screen)].pc \in {"off", "closed"}
    /\ Becomes(Finish(screen), At("list", "complete", 0))
    /\ Still /\ UNCHANGED disk

\* Faulty: completion does not wait for the queued entries.
FaultyCompleteQueued(h) ==
    /\ th[h].pc = "complete"
    /\ ses' = [th[h].ses EXCEPT !.done = TRUE]
    /\ Becomes(h, Off)
    /\ Still /\ UNCHANGED <<file, rec, db>>

\* After its reconciliation: completion is written before any record is
\* acknowledged.
Complete(h) ==
    /\ th[h].pc = "complete"
    /\ LET s == th[h].ses
           d == [s EXCEPT !.done = TRUE]
       IN \/ Queued(s) # {} /\ Throws(h)
          \/ Queued(s) = {} /\ ~s.done /\ Fault(h)
          \/ /\ Queued(s) = {}
             /\ ses' = IF s.done THEN ses ELSE d
             /\ th' = [th EXCEPT ![h].pc = "acknowledge", ![h].ret = "ack",
                    ![h].ses = d, ![h].todo = {t \in Tokens : s.entry[t].scan # 0}]
             /\ Still /\ UNCHANGED <<file, rec, db>>

\* Lists the records and acknowledges the committed record of the next entry.
Acknowledge(h) ==
    /\ th[h].pc = "acknowledge"
    /\ IF th[h].todo = {}
       THEN Resume(h, At("closed", "none", 0)) /\ Still /\ UNCHANGED disk
       ELSE LET t  == First(th[h].todo)
                ok == rec[t] = Record("Committed", th[h].ses.entry[t].scan)
            IN \/ ~Listable /\ Throws(h)
               \/ /\ Listable /\ rec[t].phase = "Registering"
                  /\ Goto(h, "read") /\ Still /\ UNCHANGED disk
               \/ /\ rec[t] # NoRecord /\ rec[t].phase # "Registering" /\ ~ok
                  /\ Throws(h)
               \/ /\ Listable /\ (ok \/ rec[t] = NoRecord)
                  /\ rec' = [rec EXCEPT ![t] = NoRecord]
                  /\ th' = [th EXCEPT ![h].todo = @ \ {t}]
                  /\ Still /\ UNCHANGED <<file, ses, db>>

-----------------------------------------------------------------------------
\* The user leaves the batch screen and opens it again: the old view model is
\* cancelled, but a block it has entered runs to its end.
Reopen ==
    /\ reopens < MaxReopens
    /\ ~ses.done
    /\ reopens' = reopens + 1
    /\ screen' = screen + 1
    /\ th' = [h \in Threads |->
                IF h = Worker(screen + 1) THEN At("list", "start", 0)
                ELSE IF th[h].pc \in {"idle", "dead", "closed", "pending"} THEN Off
                ELSE th[h]]
    /\ UNCHANGED <<disk, mutex, bounds>>

\* The process dies and the batch screen is opened again.
ProcessDeath ==
    /\ screen - reopens <= MaxDeaths
    /\ ~ses.done
    /\ Dies
    /\ UNCHANGED <<disk, bounds>>

Init ==
    /\ file = [t \in Tokens |-> "none"]
    /\ rec = NoRecords
    /\ ses = EmptySession
    /\ db = <<>>
    /\ mutex = NoThread
    /\ th = Opened(1)
    /\ screen = 1
    /\ reopens = 0
    /\ captures = 0
    /\ faults = 0

Reconcile(h) ==
    \/ ReconcileList(h) \/ ReconcileRead(h) \/ ReconcileLookup(h)
    \/ ReconcileReplace(h) \/ ReconcileSettle(h)

Process(h) ==
    \/ Fetch(h) \/ PreviewRead(h) \/ PreviewWrite(h) \/ Authorize(h)

Register(h) ==
    \/ Lock(h) \/ Mark(h) \/ CommitAssets(h) \/ InsertScan(h)
    \/ CommitRead(h) \/ CommitWrite(h) \/ Unstage(h)

Account(h) ==
    \/ SavedRead(h) \/ SavedReview(h) \/ SavedWrite(h)
    \/ ReportRead(h) \/ ReportReview(h) \/ ReportWrite(h)

Prepare(h) ==
    \/ Begin(h) \/ Name(h) \/ QueueRead(h) \/ QueueWrite(h) \/ Release(h)

Shoot(h) == TakePicture(h) \/ PictureSaved(h) \/ PictureLost(h)

Discard(h) ==
    \/ DiscardRead(h) \/ DiscardImage(h) \/ DiscardRecord(h) \/ Discarded(h)

Close(h) == Complete(h) \/ Acknowledge(h)

Next ==
    \/ \E h \in Threads :
          \/ Reconcile(h) \/ Process(h) \/ Register(h) \/ Account(h)
          \/ Prepare(h) \/ Shoot(h) \/ Discard(h) \/ Close(h)
    \/ RequestCapture \/ FinishBatch \/ Reopen \/ ProcessDeath

Spec == Init /\ [][Next]_vars

-----------------------------------------------------------------------------
\* Properties.

Entries  == [status : {"Absent", "Queued", "Saved", "NeedsReview"}, scan : Nat, review : BOOLEAN]
Sessions == [entry : [Tokens -> Entries], done : BOOLEAN]
Records  == [phase : Phases \cup {"None", "Empty"}, scan : Nat]
Returns  == {"none", "start", "loop", "authorize", "single", "final", "complete", "ack"}
Places   == {"off", "idle", "dead", "closed",
             "list", "read", "lookup", "replace", "settle",
             "fetch", "previewRead", "previewWrite", "authorize",
             "lock", "marking", "assets", "transaction", "commitRead", "commitWrite",
             "unstage", "savedRead", "savedReview", "savedWrite",
             "reportRead", "reportReview", "reportWrite",
             "begin", "name", "queueRead", "queueWrite", "release",
             "pending", "shooting",
             "discardRead", "discardImage", "discardRecord", "discarded",
             "complete", "acknowledge"}
Coroutines == [pc : Places, ret : Returns, tok : 0..MaxCaptures, ses : Sessions,
               snap : [Tokens -> Records], todo : SUBSET Tokens, draft : Records]

\* Type correctness of the files, the database and the coroutines.
TypeOK ==
    /\ file \in [Tokens -> {"none", "reserved", "image"}]
    /\ rec \in [Tokens -> Records]
    /\ ses \in Sessions
    /\ db \in Seq(Tokens)
    /\ mutex \in Threads \cup {NoThread}
    /\ th \in [Threads -> Coroutines]
    /\ screen \in 1..MaxScreens
    /\ reopens \in 0..MaxReopens
    /\ captures \in 0..MaxCaptures
    /\ faults \in 0..MaxFaults

\* A picture is registered at most once, however often the process dies and
\* whatever the reconciliation that follows reads. It fails once two coroutines
\* judge one registration: when the screen is opened again while the worker of
\* the old one is still in a block, and when a batch is being finished while a
\* registration fails.
NoDuplicateRegistration == \A t \in Tokens : Cardinality(RowsOf(t)) <= 1

\* While one screen is open at a time and no I/O operation fails, a picture is
\* registered once, whatever dies in between.
OneScreenRegistersOnce == reopens = 0 /\ faults = 0 => NoDuplicateRegistration

\* The batch never shows a capture as saved without a row of that capture,
\* whatever copy of the session a coroutine writes back.
SavedNamesScan ==
    \A t \in Tokens : ses.entry[t].status = "Saved" => ses.entry[t].scan \in RowsOf(t)

\* A record is committed only with the row of its own capture.
CommittedNamesScan ==
    \A t \in Tokens : rec[t].phase = "Committed" => rec[t].scan \in RowsOf(t)

\* A completed session has no queued entry, even after a coroutine has written
\* back a copy it read before the completion.
CompletedBatchIsSettled == ses.done => Queued(ses) = {}

\* A picture on disk has an owner: a record through which it can be found, or
\* the scan row it became.
PictureHasOwner ==
    \A t \in Tokens : file[t] = "image" => rec[t] # NoRecord \/ RowsOf(t) # {}

Discarding(t) ==
    \E h \in Threads : th[h].tok = t /\ th[h].pc \in {"discardImage", "discarded"}

\* A picture goes only after its row is committed or when its capture has been
\* given up: no failure on the way to the row deletes it.
PictureKeptUntilRegistered ==
    [][\A t \in Tokens : file[t] = "image" /\ file'[t] # "image" =>
          RowsOf(t) # {} \/ Discarding(t)]_vars

\* While the screen waits for the next capture, with none being prepared, taken
\* or given up, the recovery records can be listed: each has the picture or the
\* reservation it names.
RecoveriesDiscoverable ==
    /\ Ready(screen)
    /\ \A k \in 1..MaxScreens : th[Capture(k)] = Off /\ th[Failure(k)] = Off
    => Listable
=============================================================================
