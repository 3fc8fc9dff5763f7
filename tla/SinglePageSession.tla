------------------------- MODULE SinglePageSession -------------------------
(* The single-page scanner: its view model, the coroutines it launches, the   *)
(* effect of the screen that starts a capture, the camera, the user, and the  *)
(* recovery records and scan rows that outlive all of them.                   *)
(*                                                                            *)
(* A handler runs on the main thread to its end or to its next                *)
(* withContext(IO) block, and what follows the block is another step, unless  *)
(* the block works on nothing of this module, when they are one. A block      *)
(* that works on a recovery record takes a step for each reading and each     *)
(* writing of the record, the files and the rows: no lock is held from one to *)
(* the next but the storage mutex, by a registration. A capture is the token  *)
(* its recovery record gets, 1, 2, ... A Boolean column of the screen's state *)
(* keeps the meaning of its source name: busy is recoveryOperationInProgress, *)
(* recovery is recoveryMode, capturing is captureInProgress. The operators    *)
(* named Faulty... are plausible bugs.                                        *)
EXTENDS AutoCapture, FiniteSets

CONSTANTS MaxCaptures,  \* bounds: pictures requested,
          MaxDialogs,   \* answers to the recovery dialog,
          MaxJobs,      \* coroutines at a time,
          MaxTroubles   \* and readings of the clock, destinations chosen, screens
                        \* closed or lost with their process, and calls that fail

ASSUME BoundsAssumption == MaxCaptures \in Nat

VARIABLES machine,   \* AutoCaptureStateMachine
          clock,     \* System.nanoTime
          ui,        \* SinglePageScannerUiState
          held,      \* the capture the view model refers to, and the one it recovers
          jobs,      \* its coroutines; those of a closed screen are cancelled
          composed,  \* what the screen was last composed with
          camera,    \* pictures asked of CameraX
          disk,      \* staging files, recovery records, scan rows; and, as history,
                     \* the captures over whose record a late write has gone
          screen,    \* the view model that is open
          used       \* the bounds spent

sessionVars == <<machine, clock, ui, held, jobs, composed, camera, disk, screen, used>>

-----------------------------------------------------------------------------
Tokens   == 1..MaxCaptures
None     == 0
NoList   == [t \in Tokens |-> "None"]
Reviewable == {"Captured", "PreviewReady"}

OpenedUi ==
    [ready |-> FALSE, loading |-> TRUE, capturing |-> FALSE, processing |-> FALSE,
     registering |-> FALSE, busy |-> FALSE, recovery |-> FALSE, pending |-> NoRequest,
     warning |-> NoToken, review |-> None, approvable |-> FALSE, registered |-> FALSE,
     list |-> NoList, generation |-> 0]

NothingHeld == [ref |-> None, recovering |-> None]

\* A coroutine of screen s; current: the view model's job field refers to it;
\* stop: its preview cancellation was asked for; id: tells listings apart;
\* fresh: no other coroutine has recovered or marked the record since it was read.
Job(s, kind, t, r) ==
    [screen |-> s, kind |-> kind, at |-> "io", tok |-> t, request |-> r, out |-> "none",
     list |-> NoList, generation |-> 0, recovered |-> FALSE, mark |-> FALSE,
     current |-> FALSE, stop |-> FALSE, cancelled |-> FALSE,
     id |-> 0, fresh |-> FALSE]
NewJob(kind, t) == Job(screen, kind, t, NoRequest)

IsSaved(m) == m.phase = "Accepted"

\* read_scanner_recovery and list_scanner_recoveries succeed.
Readable(t) ==
    \/ disk.rec[t] = "Committed"
    \/ disk.rec[t] # "None" /\ disk.file[t] # "none"
Listable    == \A t \in Tokens : disk.rec[t] = "None" \/ Readable(t)

\* The storage mutex is held from the mark of a registration to its row.
MutexFree == \A j \in jobs : j.kind = "register" => j.at \notin {"marking", "row"}

-----------------------------------------------------------------------------
\* What the screen shows.

NavigationBlocked == ui.capturing \/ ui.processing \/ ui.registering \/ ui.busy

RecoveryDialog ==
    /\ ui.list # NoList
    /\ ~ui.recovery /\ ~ui.processing /\ ui.review = None /\ ~ui.registering
Shown == CHOOSE t \in Tokens : ui.list[t] # "None" /\ \A u \in 1..(t - 1) : ui.list[u] = "None"

Modal == RecoveryDialog \/ ui.processing \/ ui.registering \/ ui.warning # NoToken

CanCapture ==
    /\ ui.ready /\ ~ui.capturing /\ ~ui.processing /\ ui.review = None
    /\ ui.list = NoList /\ ~ui.busy

CanApprove ==
    ui.review # None /\ ui.approvable /\ ~ui.processing /\ ~ui.registering /\ ~ui.registered

\* The screen is drawn before its next input is handled.
Wanted == IF ui.recovery THEN [request |-> NoRequest, camera |-> FALSE]
          ELSE [request |-> ui.pending, camera |-> TRUE]
Drawn  == composed = Wanted

-----------------------------------------------------------------------------
\* applyTransition: what the screen's state takes over from the machine, whose
\* effect is then done.
Settled(m) == [m EXCEPT !.effect = "none"]
Apply(m, u) ==
    [u EXCEPT !.warning = TokenOf(m.warning),
              !.pending = IF m.effect = "CaptureRequested" THEN m.request ELSE @]

Spend(b) == used' = [used EXCEPT ![b] = @ + 1]
Left(b, max) == used[b] < max
Trouble == Left("troubles", MaxTroubles) /\ Spend("troubles")
Fails   == Trouble

\* What a coroutine of a closed screen still does: it writes in the block it is
\* in, or removes a reservation. One that has nothing left to write is gone.
Writes(j) ==
    \/ j.kind = "prepare"
    \/ j.kind = "process" /\ j.at \in {"markIo", "marking"}
    \/ /\ j.kind \in {"refresh", "reconcile", "acknowledge", "abandon", "retake", "discard", "register"}
       /\ j.at \notin {"main", "acked"}
Kept(j) == {k \in {j} : k.screen = screen \/ Writes(k)}

\* Job j goes on as k, or moves to its place p after a block that ended with result o.
Done(j)       == jobs' = jobs \ {j}
DoneAnd(j, k) == jobs' = (jobs \ {j}) \cup Kept(k)
Ends(j, p, o) == DoneAnd(j, [j EXCEPT !.at = p, !.out = o])
Refresh ==
    [NewJob("refresh", None) EXCEPT
        !.id = CHOOSE n \in 0..MaxJobs :
                   \A j \in jobs : j.kind = "refresh" /\ j.screen = screen => j.id # n]

\* A block of job j changes nothing but the disk.
Offscreen == UNCHANGED <<machine, clock, ui, held, composed, camera, screen>>
\* A continuation on the main thread changes nothing durable.
OnMain == UNCHANGED <<clock, composed, disk, screen>>

\* cancelActiveWork: the processing job is cancelled and forgotten.
Processing(j) == j.kind = "process" /\ j.current
WithoutWork == {IF Processing(j)
                THEN [j EXCEPT !.cancelled = TRUE, !.current = FALSE, !.stop = TRUE] ELSE j : j \in jobs}
HeldWithoutWork == IF ui.registering THEN held ELSE NothingHeld

ProcessJob(t, r, recovered, mark, g) ==
    [Job(screen, "process", t, r) EXCEPT !.recovered = recovered, !.mark = mark,
        !.generation = g, !.current = TRUE]

Fresh(s) ==
    /\ machine' = IdleMachine /\ held' = NothingHeld
    /\ ui' = OpenedUi
    /\ screen' = s
    /\ composed' = [request |-> NoRequest, camera |-> TRUE]

\* The process dies of an exception nobody catches, or is killed.
Dies ==
    /\ Trouble
    /\ Fresh(screen + 1)
    /\ jobs' = {Job(screen + 1, "notebooks", None, NoRequest), Job(screen + 1, "refresh", None, NoRequest)}
    /\ camera' = {}
    /\ UNCHANGED <<clock, disk>>

-----------------------------------------------------------------------------
\* replace_scanner_recovery and remove_scanner_recovery_record.

Failed(j) ==
    DoneAnd(j, [j EXCEPT !.at = IF j.kind = "register" THEN "acked" ELSE "main", !.out = "error",
                         !.fresh = FALSE])

\* Job j goes on as k, and who else works on the record has read an older one.
Overtakes(j, k) ==
    jobs' = {IF i.tok = j.tok THEN [i EXCEPT !.fresh = FALSE] ELSE i : i \in jobs \ {j}} \cup Kept(k)

\* The record becomes p, whatever it is by now: a removal after the check that
\* it is there is undone.
Replaces(t, p, late) ==
    disk' = [disk EXCEPT !.rec[t] = p, !.late = IF late THEN @ \cup {t} ELSE @]

\* The record is gone when the check comes, or the replacement fails.
NotReplaced(t) == IF disk.rec[t] = "None" THEN UNCHANGED used ELSE Fails

-----------------------------------------------------------------------------
\* reconcile_scanner_recovery, and acknowledge_committed_scanner_recovery after it.

\* The interrupted registrations of a listing are reconciled one after the other.
Interrupted(l) == {t \in Tokens : l[t] = "Registering"}
NextOf(j) ==
    IF Interrupted(j.list) = {} THEN [j EXCEPT !.at = "main", !.out = "ok", !.tok = None]
    ELSE [j EXCEPT !.at = "reconcile", !.out = "none",
                   !.tok = CHOOSE t \in Interrupted(j.list) :
                               Interrupted(j.list) \cap 1..(t - 1) = {}]

\* Job j when the record it reconciles is p. Only a committed one is acknowledged.
Reconciled(j, p) ==
    LET k == [j EXCEPT !.fresh = FALSE] IN
    CASE j.kind = "refresh"   -> NextOf([k EXCEPT !.list[j.tok] = p])
      [] j.kind = "reconcile" -> [k EXCEPT !.at = "main", !.out = p]
      [] p = "Committed"      -> [k EXCEPT !.at = "acknowledge", !.out = "none"]
      [] j.kind = "register"  -> [k EXCEPT !.at = "acked", !.out = "error"]
      [] OTHER                -> [k EXCEPT !.at = "main", !.out = "error"]

ReconcileRead(j) ==
    /\ j.at = "reconcile"
    /\ IF ~Readable(j.tok) THEN Failed(j)
       ELSE IF disk.rec[j.tok] # "Registering" THEN DoneAnd(j, Reconciled(j, disk.rec[j.tok]))
       ELSE DoneAnd(j, [j EXCEPT !.at = "lookup", !.fresh = TRUE])
    /\ Offscreen /\ UNCHANGED <<disk, used>>

\* Faulty: the row is looked up beside a registration.
FaultyLookup(j) ==
    /\ j.at = "lookup"
    /\ IF disk.rec[j.tok] = "None" \/ disk.scans[j.tok] > 1 THEN Failed(j)
       ELSE Ends(j, "replace", IF disk.scans[j.tok] = 0 THEN "PreviewReady" ELSE "Committed")
    /\ Offscreen /\ UNCHANGED <<disk, used>>

\* find_scan_by_recovery_token, under the mutex; two rows are an error. A record
\* that is gone by now will not be replaced.
ReconcileLookup(j) ==
    /\ j.at = "lookup" /\ MutexFree
    /\ IF disk.rec[j.tok] = "None" \/ disk.scans[j.tok] > 1 THEN Failed(j)
       ELSE Ends(j, "replace", IF disk.scans[j.tok] = 0 THEN "PreviewReady" ELSE "Committed")
    /\ Offscreen /\ UNCHANGED <<disk, used>>

\* The record is not read again.
ReconcileReplace(j) ==
    /\ j.at = "replace"
    /\ \/ /\ Replaces(j.tok, j.out, ~j.fresh)
          /\ Overtakes(j, Reconciled(j, j.out)) /\ UNCHANGED used
       \/ Failed(j) /\ NotReplaced(j.tok) /\ UNCHANGED disk
    /\ Offscreen

Acknowledge(j) ==
    /\ j.at = "acknowledge"
    /\ IF disk.rec[j.tok] = "Committed" THEN Ends(j, "unlink", "none") ELSE Failed(j)
    /\ Offscreen /\ UNCHANGED <<disk, used>>

\* remove_scanner_recovery_record, after an acknowledgement or a discard.
RemoveRecord(j) ==
    /\ j.at = "unlink"
    /\ \/ /\ disk.rec[j.tok] # "None"
          /\ disk' = [disk EXCEPT !.rec[j.tok] = "None"]
          /\ Ends(j, IF j.kind = "register" THEN "acked" ELSE "main", "ok") /\ UNCHANGED used
       \/ Failed(j) /\ NotReplaced(j.tok) /\ UNCHANGED disk
    /\ Offscreen

-----------------------------------------------------------------------------
\* refreshNotebooks and refreshScannerRecoveries.

NotebooksListed(j) ==
    /\ j.kind = "notebooks"
    /\ \/ machine' = Start(machine) /\ ui' = [ui EXCEPT !.ready = TRUE, !.loading = FALSE] /\ UNCHANGED used
       \/ ui' = [ui EXCEPT !.loading = FALSE] /\ Fails /\ UNCHANGED machine
    /\ Done(j) /\ OnMain /\ UNCHANGED <<held, camera>>

RefreshIo(j) ==
    /\ j.kind = "refresh" /\ j.at = "io"
    /\ IF Listable THEN DoneAnd(j, NextOf([j EXCEPT !.list = disk.rec])) ELSE Ends(j, "main", "error")
    /\ Offscreen /\ UNCHANGED <<disk, used>>

RefreshMain(j) ==
    /\ j.kind = "refresh" /\ j.at = "main" /\ ~j.cancelled
    /\ ui' = IF j.out = "ok" THEN [ui EXCEPT !.list = j.list, !.busy = FALSE]
             ELSE [ui EXCEPT !.busy = FALSE]
    /\ Done(j) /\ OnMain /\ UNCHANGED <<machine, held, camera, used>>

-----------------------------------------------------------------------------
\* selectNotebook, whose continuation resets the session.

SelectNotebook ==
    /\ Drawn /\ ~Modal /\ ~ui.loading /\ ui.review = None
    /\ ~ui.capturing /\ ~ui.processing /\ ~ui.registering /\ ~ui.busy /\ ui.list = NoList
    /\ Trouble
    /\ ui' = [ui EXCEPT !.loading = TRUE]
    /\ jobs' = jobs \cup {NewJob("select", None)}
    /\ UNCHANGED <<machine, clock, held, composed, camera, disk, screen>>

\* resetScannerSession keeps of the screen's state only the recovery records.
NotebookSelected(j) ==
    /\ j.kind = "select"
    /\ \/ /\ machine' = Start(machine)
          /\ held' = HeldWithoutWork
          /\ ui' = [OpenedUi EXCEPT !.ready = TRUE, !.loading = FALSE, !.list = ui.list,
                                    !.generation = ui.generation + 1]
          /\ jobs' = WithoutWork \ {j} /\ UNCHANGED used
       \/ /\ ui' = [ui EXCEPT !.loading = FALSE]
          /\ Done(j) /\ Fails /\ UNCHANGED <<machine, held>>
    /\ OnMain /\ UNCHANGED camera

-----------------------------------------------------------------------------
\* The manual capture: assessment, warning, answer.

\* The latest assessment is observed at the moment of the request, and only a
\* resolved page passes the identity gate; the button
\* is pressed at most once at a reading of the clock.
RequestCapture ==
    /\ Drawn /\ ~Modal /\ CanCapture
    /\ Left("presses", clock + 1) /\ Spend("presses")
    /\ \E identity, accepted \in BOOLEAN, p \in Pages \cup {NoPage} :
         LET f == Frame(clock, p, identity, accepted)
             o == ObserveFrame(machine, f)
             m == RequestManualCapture(o, clock)
         IN /\ identity => p # NoPage
            /\ Observable(machine, f)
            /\ machine' = Settled(m)
            /\ ui' = Apply(m, Apply(o, ui))
    /\ UNCHANGED <<clock, held, jobs, composed, camera, disk, screen>>

AnswerCaptureWarning ==
    /\ Drawn /\ ui.warning # NoToken
    /\ \E m \in {ConfirmManualCapture(machine, ui.warning, clock),
                 DismissManualCapture(machine, ui.warning)} :
         machine' = Settled(m) /\ ui' = Apply(m, ui)
    /\ UNCHANGED <<clock, held, jobs, composed, camera, disk, screen, used>>

-----------------------------------------------------------------------------
\* The effect of the screen that is keyed by the pending request.

\* A recomposition with another key cancels the effect's coroutine. A new
\* effect enters consumePendingCapture, which takes the request out of the
\* screen's state and goes to its IO block. Without ScannerGrantedContent the
\* adapter is closed, and its callbacks are dropped.
Recompose ==
    /\ ~Drawn
    /\ composed' = Wanted
    /\ LET r == Wanted.request
           rest == {IF j.kind = "prepare" /\ j.screen = screen
                    THEN [j EXCEPT !.cancelled = TRUE] ELSE j : j \in jobs}
       IN IF r = NoRequest \/ r = composed.request
          THEN jobs' = rest /\ UNCHANGED <<ui, used>>
          ELSE /\ Left("captures", MaxCaptures) /\ Spend("captures")
               /\ jobs' = rest \cup {Job(screen, "prepare", used.captures + 1, r)}
               /\ ui' = [ui EXCEPT !.pending = NoRequest, !.capturing = TRUE]
    /\ camera' = IF Wanted.camera THEN camera ELSE {[c EXCEPT !.dropped = TRUE] : c \in camera}
    /\ UNCHANGED <<machine, clock, held, disk, screen>>

\* The reservation, then begin_scanner_recovery.
PrepareIo(j) ==
    /\ j.kind = "prepare" /\ j.at = "io"
    /\ \/ /\ Listable
          /\ disk' = [disk EXCEPT !.file[j.tok] = "reserved", !.rec[j.tok] = "Captured"]
          /\ Ends(j, "main", "ok") /\ UNCHANGED used
       \/ /\ disk' = [disk EXCEPT !.file[j.tok] = "reserved"]
          /\ Ends(j, "main", "error")
          /\ IF Listable THEN Fails ELSE UNCHANGED used
    /\ Offscreen

\* A cancelled coroutine removes the reservation unless it is journaled.
PrepareCancelled(j) ==
    /\ j.kind = "prepare" /\ j.at = "main" /\ j.cancelled
    /\ disk' = IF j.out = "ok" THEN disk ELSE [disk EXCEPT !.file[j.tok] = "none"]
    /\ Done(j) /\ Offscreen /\ UNCHANGED used

PrepareMain(j) ==
    /\ j.kind = "prepare" /\ j.at = "main" /\ ~j.cancelled
    /\ IF j.out = "ok"
       THEN /\ held' = [held EXCEPT !.ref = j.tok]
            /\ ui' = [ui EXCEPT !.list[j.tok] = "Captured"]
            /\ camera' = camera \cup {[tok |-> j.tok, request |-> j.request, at |-> "posted",
                                       screen |-> screen, dropped |-> FALSE]}
            /\ UNCHANGED <<machine, disk>>
       ELSE /\ disk' = [disk EXCEPT !.file[j.tok] = "none"]
            /\ held' = [held EXCEPT !.ref = None]
            /\ LET m == CaptureFailed(machine, TokenOf(j.request))
                   n == ContinueScanning(m, clock, TRUE)
               IN /\ machine' = Settled(n)
                  /\ ui' = [Apply(m, ui) EXCEPT !.capturing = FALSE, !.processing = FALSE,
                                                !.generation = @ + 1]
            /\ UNCHANGED camera
    /\ Done(j) /\ UNCHANGED <<clock, composed, screen, used>>

-----------------------------------------------------------------------------
\* CameraX, and onCameraCaptureResult.

CameraTo(c, p) == camera' = (camera \ {c}) \cup {[c EXCEPT !.at = p]}

\* capture: the reservation is removed immediately before CameraX writes.
CameraTakes(c) ==
    /\ c.at = "posted"
    /\ \/ /\ ~c.dropped /\ disk.file[c.tok] # "image"
          /\ disk' = [disk EXCEPT !.file[c.tok] = "none"]
          /\ CameraTo(c, "taking") /\ UNCHANGED used
       \/ /\ c.dropped \/ disk.file[c.tok] = "image"
          /\ CameraTo(c, "refused") /\ UNCHANGED <<disk, used>>
       \/ CameraTo(c, "refused") /\ Fails /\ UNCHANGED disk
    /\ UNCHANGED <<machine, clock, ui, held, jobs, composed, screen>>

CameraWrites(c) ==
    /\ c.at = "taking"
    /\ \/ disk' = [disk EXCEPT !.file[c.tok] = "image"] /\ CameraTo(c, "saved") /\ UNCHANGED used
       \/ CameraTo(c, "failed") /\ Fails /\ UNCHANGED disk
    /\ UNCHANGED <<machine, clock, ui, held, jobs, composed, screen>>

\* A closed adapter drops CameraX's callbacks, but not its own refusal.
CameraDropped(c) ==
    /\ c.at \in {"saved", "failed"} /\ c.dropped
    /\ camera' = camera \ {c}
    /\ UNCHANGED <<machine, clock, ui, held, jobs, composed, disk, screen, used>>

\* handleCameraCaptureFailure.
CaptureLost(c) ==
    LET m == CaptureFailed(machine, TokenOf(c.request)) IN
    /\ machine' = Settled(m)
    /\ ui' = [Apply(m, ui) EXCEPT !.capturing = FALSE, !.processing = FALSE,
                                  !.busy = held.ref # None]
    /\ jobs' = IF held.ref = None THEN jobs ELSE jobs \cup {NewJob("abandon", held.ref)}
    /\ UNCHANGED <<held, disk, screen, used, composed, clock>>

Refused(c) ==
    /\ c.at \in {"failed", "refused"} /\ (c.at = "refused" \/ ~c.dropped)
    /\ camera' = camera \ {c}
    /\ IF c.screen = screen THEN CaptureLost(c)
       ELSE UNCHANGED <<machine, clock, ui, held, jobs, composed, disk, screen, used>>

\* A picture the view model no longer refers to: its file is deleted when there
\* is no recovery token at hand.
Stale(c) ==
    /\ held.ref # c.tok
    /\ disk' = IF held.ref = None THEN [disk EXCEPT !.file[c.tok] = "none"] ELSE disk
    /\ held' = [held EXCEPT !.ref = None]
    /\ ui' = [ui EXCEPT !.capturing = FALSE]
    /\ jobs' = jobs \cup {Refresh}
    /\ UNCHANGED <<machine, clock, composed, screen, used>>

\* A second full-resolution processing is a failed check: on the main thread
\* nobody catches it.
CaptureSaved(c) ==
    LET m == CaptureSucceeded(machine, TokenOf(c.request)) IN
    /\ held.ref = c.tok
    /\ IF \E j \in jobs : Processing(j) /\ j.screen = screen
       THEN Dies
       ELSE /\ machine' = Settled(m)
            /\ ui' = [Apply(m, ui) EXCEPT !.capturing = FALSE, !.processing = TRUE]
            /\ jobs' = jobs \cup {ProcessJob(c.tok, c.request, FALSE, TRUE, ui.generation)}
            /\ camera' = camera \ {c}
            /\ UNCHANGED <<clock, held, composed, disk, screen, used>>

Captured(c) ==
    /\ c.at = "saved" /\ ~c.dropped
    /\ \/ /\ c.screen # screen
          /\ camera' = camera \ {c}
          /\ UNCHANGED <<machine, clock, ui, held, jobs, composed, disk, screen, used>>
       \/ c.screen = screen /\ Stale(c) /\ camera' = camera \ {c}
       \/ c.screen = screen /\ CaptureSaved(c)

\* discard_scanner_recovery: the phase is read, then the picture is removed, then
\* the record.
Discards(j) == j.kind \in {"abandon", "retake", "discard"}

DiscardRead(j) ==
    /\ Discards(j) /\ j.at = "io"
    /\ IF Readable(j.tok) /\ disk.rec[j.tok] \in Reviewable THEN Ends(j, "unstage", "none") ELSE Failed(j)
    /\ Offscreen /\ UNCHANGED <<disk, used>>

DiscardFile(j) ==
    /\ Discards(j) /\ j.at = "unstage"
    /\ \/ /\ disk.file[j.tok] # "none"
          /\ disk' = [disk EXCEPT !.file[j.tok] = "none"]
          /\ Ends(j, "unlink", "none") /\ UNCHANGED used
       \/ /\ Failed(j) /\ UNCHANGED disk
          /\ IF disk.file[j.tok] = "none" THEN UNCHANGED used ELSE Fails
    /\ Offscreen

AbandonMain(j) ==
    /\ j.kind = "abandon" /\ j.at = "main" /\ ~j.cancelled
    /\ held' = [held EXCEPT !.ref = None]
    /\ IF j.out = "ok"
       THEN Done(j) /\ ui' = [ui EXCEPT !.list[j.tok] = "None", !.busy = FALSE]
       ELSE DoneAnd(j, Refresh) /\ ui' = [ui EXCEPT !.busy = FALSE]
    /\ OnMain /\ UNCHANGED <<machine, camera, used>>

-----------------------------------------------------------------------------
\* startFullResolutionProcessing and finishReview.

CancelProcessing ==
    /\ Drawn /\ ui.processing
    /\ \E j \in jobs : Processing(j) /\ ~j.stop /\ DoneAnd(j, [j EXCEPT !.stop = TRUE])
    /\ UNCHANGED <<machine, clock, ui, held, composed, camera, disk, screen, used>>

ProcessIo(j) ==
    /\ j.kind = "process" /\ j.at = "io"
    /\ \/ disk.file[j.tok] = "image" /\ Ends(j, "main", "completed") /\ UNCHANGED used
       \/ disk.file[j.tok] = "image" /\ j.stop /\ Ends(j, "main", "cancelled") /\ UNCHANGED used
       \/ /\ Ends(j, "main", "error")
          /\ IF disk.file[j.tok] = "image" THEN Fails ELSE UNCHANGED used
    /\ Offscreen /\ UNCHANGED disk

\* The finally block forgets whichever processing job the view model refers to.
Finally(j, new) ==
    jobs' = new \cup {IF k.kind = "process" /\ k.screen = j.screen
                      THEN [k EXCEPT !.current = FALSE] ELSE k : k \in jobs \ {j}}

ProcessCancelled(j) ==
    /\ j.kind = "process" /\ j.at \in {"main", "marked", "codeIo"} /\ j.cancelled
    /\ Finally(j, {})
    /\ UNCHANGED <<machine, clock, ui, held, composed, camera, disk, screen, used>>

StillCurrent(j) ==
    /\ held.ref = j.tok
    /\ IF j.recovered THEN held.recovering = j.tok ELSE j.generation = ui.generation

\* handleRetainedProcessingFailure.
Retained(j) ==
    /\ held' = NothingHeld
    /\ IF j.recovered
       THEN /\ ui' = [ui EXCEPT !.processing = FALSE, !.recovery = FALSE, !.busy = FALSE,
                                !.review = None]
            /\ UNCHANGED machine
       ELSE LET m == ProcessingCompleted(machine, TokenOf(j.request), "Rejected") IN
            /\ machine' = Settled(ContinueScanning(m, clock, TRUE))
            /\ ui' = [Apply(m, ui) EXCEPT !.processing = FALSE, !.generation = @ + 1]
    /\ Finally(j, IF ui.list[j.tok] = "None" THEN {Refresh} ELSE {})

Outdated(j) ==
    /\ held' = [held EXCEPT !.ref = None]
    /\ Finally(j, {Refresh})
    /\ UNCHANGED <<machine, ui>>

ProcessMain(j) ==
    /\ j.kind = "process" /\ j.at = "main" /\ ~j.cancelled
    /\ IF j.out = "error" THEN Retained(j)
       ELSE IF ~StillCurrent(j) THEN Outdated(j)
       ELSE IF j.out = "cancelled" THEN Retained(j)
       ELSE /\ DoneAnd(j, [j EXCEPT !.at = IF j.mark THEN "markIo" ELSE "codeIo"])
            /\ UNCHANGED <<machine, ui, held>>
    /\ OnMain /\ UNCHANGED <<camera, used>>

\* mark_scanner_recovery_preview_ready: advance_scanner_recovery reads the phase,
\* then writes.
MarkIo(j) ==
    /\ j.kind = "process" /\ j.at = "markIo"
    /\ IF Readable(j.tok) /\ disk.rec[j.tok] = "Captured"
       THEN DoneAnd(j, [j EXCEPT !.at = "marking", !.fresh = TRUE])
       ELSE Ends(j, "marked", "error")
    /\ Offscreen /\ UNCHANGED <<disk, used>>

MarkWrite(j) ==
    /\ j.kind = "process" /\ j.at = "marking"
    /\ LET k == [j EXCEPT !.at = "marked", !.fresh = FALSE] IN
       \/ /\ Replaces(j.tok, "PreviewReady", ~j.fresh)
          /\ Overtakes(j, [k EXCEPT !.out = "ok"]) /\ UNCHANGED used
       \/ /\ DoneAnd(j, [k EXCEPT !.out = "error"])
          /\ NotReplaced(j.tok) /\ UNCHANGED disk
    /\ Offscreen

MarkMain(j) ==
    /\ j.kind = "process" /\ j.at = "marked" /\ ~j.cancelled
    /\ IF j.out = "error" THEN Retained(j)
       ELSE /\ DoneAnd(j, [j EXCEPT !.at = "codeIo"])
            /\ ui' = [ui EXCEPT !.list[j.tok] = "PreviewReady"]
            /\ UNCHANGED <<machine, held>>
    /\ OnMain /\ UNCHANGED <<camera, used>>

\* resolveFinalPageCode, which confirms the page of the request or not, then the
\* continuation.
FinishReview(j) ==
    /\ j.kind = "process" /\ j.at = "codeIo" /\ ~j.cancelled
    /\ IF disk.file[j.tok] # "image" THEN Retained(j)
       ELSE LET m == IF j.recovered THEN machine
                     ELSE ProcessingCompleted(machine, TokenOf(j.request), "NeedsReview")
                u == IF j.recovered THEN [ui EXCEPT !.recovery = TRUE] ELSE Apply(m, ui)
            IN /\ machine' = Settled(m)
               /\ \E confirmed \in BOOLEAN :
                    ui' = [u EXCEPT !.processing = FALSE, !.busy = FALSE, !.review = j.tok,
                                    !.approvable = confirmed,
                                    !.registering = FALSE, !.registered = FALSE]
               /\ Finally(j, {}) /\ UNCHANGED held
    /\ OnMain /\ UNCHANGED <<camera, used>>

-----------------------------------------------------------------------------
\* approveReview.

\* A registration that is still active is a failed check, caught by nobody.
Approve ==
    /\ Drawn /\ CanApprove
    /\ IF \E j \in jobs : j.kind = "register" /\ j.screen = screen
       THEN Dies
       ELSE /\ ui' = [ui EXCEPT !.registering = TRUE]
            /\ jobs' = jobs \cup {Job(screen, "register", ui.review, machine.request)}
            /\ UNCHANGED <<machine, clock, held, composed, camera, disk, screen, used>>

\* register_scan takes the mutex; mark_scanner_recovery_registering reads the phase.
RegisterIo(j) ==
    LET allowed == Readable(j.tok) /\ disk.rec[j.tok] = "PreviewReady"
                   /\ disk.file[j.tok] = "image"
    IN
    /\ j.kind = "register" /\ j.at = "io" /\ MutexFree
    /\ \/ allowed /\ Ends(j, "marking", "none") /\ UNCHANGED used
       \/ Ends(j, "main", "error") /\ IF allowed THEN Fails ELSE UNCHANGED used
    /\ Offscreen /\ UNCHANGED disk

RegisterMark(j) ==
    /\ j.kind = "register" /\ j.at = "marking"
    /\ \/ Replaces(j.tok, "Registering", FALSE) /\ Ends(j, "row", "none") /\ UNCHANGED used
       \/ Ends(j, "main", "error") /\ NotReplaced(j.tok) /\ UNCHANGED disk
    /\ Offscreen

\* The assets and the transaction; the mutex is released.
RegisterRow(j) ==
    /\ j.kind = "register" /\ j.at = "row"
    /\ \/ /\ disk' = [disk EXCEPT !.scans[j.tok] = @ + 1]
          /\ Ends(j, "commit", "none") /\ UNCHANGED used
       \/ Ends(j, "main", "error") /\ Fails /\ UNCHANGED disk
    /\ Offscreen

\* mark_scanner_recovery_committed, whose failure is only a warning.
RegisterCommit(j) ==
    /\ j.kind = "register" /\ j.at = "commit"
    /\ Ends(j, IF Readable(j.tok) /\ disk.rec[j.tok] = "Registering" THEN "committing" ELSE "unstage", "none")
    /\ Offscreen /\ UNCHANGED <<disk, used>>

RegisterCommitted(j) ==
    /\ j.kind = "register" /\ j.at = "committing"
    /\ \/ Replaces(j.tok, "Committed", FALSE) /\ UNCHANGED used
       \/ NotReplaced(j.tok) /\ UNCHANGED disk
    /\ Ends(j, "unstage", "none") /\ Offscreen

\* The staging file is removed; it stays if that fails.
RegisterUnstage(j) ==
    /\ j.kind = "register" /\ j.at = "unstage"
    /\ \/ disk' = [disk EXCEPT !.file[j.tok] = "none"] /\ UNCHANGED used
       \/ disk.file[j.tok] # "none" /\ Fails /\ UNCHANGED disk
    /\ Ends(j, "main", "ok") /\ Offscreen

RegisterMain(j) ==
    /\ j.kind = "register" /\ j.at = "main" /\ ~j.cancelled
    /\ IF j.out = "error"
       THEN /\ ui' = [ui EXCEPT !.registering = FALSE]
            /\ DoneAnd(j, Refresh)
            /\ UNCHANGED <<machine, held>>
       ELSE /\ held' = [held EXCEPT !.ref = None]
            /\ LET m == ReviewRegistrationCompleted(machine, TokenOf(j.request)) IN
               IF ui.recovery THEN UNCHANGED <<machine, ui>>
               ELSE machine' = Settled(m) /\ ui' = Apply(m, ui)
            /\ DoneAnd(j, [j EXCEPT !.at = "reconcile"])
    /\ OnMain /\ UNCHANGED <<camera, used>>

AckMain(j) ==
    /\ j.kind = "register" /\ j.at = "acked" /\ ~j.cancelled
    /\ ui' = [ui EXCEPT !.registering = FALSE, !.registered = TRUE,
                        !.list[j.tok] = IF j.out = "ok" THEN "None" ELSE @]
    /\ IF j.out = "ok" THEN Done(j) ELSE DoneAnd(j, Refresh)
    /\ OnMain /\ UNCHANGED <<machine, held, camera, used>>

-----------------------------------------------------------------------------
\* retake, and the actions of the recovery dialog.

ResetUi(u) ==
    [u EXCEPT !.review = None, !.capturing = FALSE, !.processing = FALSE,
              !.registering = FALSE, !.busy = FALSE, !.recovery = FALSE,
              !.registered = FALSE, !.generation = @ + 1]
ResetAfterReview(u) ==
    machine' = Start(machine) /\ held' = NothingHeld /\ ui' = ResetUi(u)

Retake ==
    /\ Drawn /\ ui.review # None /\ ~ui.registering /\ ~ui.busy
    /\ \/ ui.registered /\ ResetAfterReview(ui) /\ UNCHANGED jobs
       \/ /\ ~ui.registered /\ ui.list[ui.review] \in Reviewable
          /\ ui' = [ui EXCEPT !.busy = TRUE]
          /\ jobs' = jobs \cup {NewJob("retake", ui.review)}
          /\ UNCHANGED <<machine, held>>
       \/ /\ ~ui.registered /\ ui.list[ui.review] \notin Reviewable
          /\ jobs' = jobs \cup {Refresh}
          /\ UNCHANGED <<machine, held, ui>>
    /\ UNCHANGED <<clock, composed, camera, disk, screen, used>>

RetakeMain(j) ==
    /\ j.kind = "retake" /\ j.at = "main" /\ ~j.cancelled
    /\ IF j.out = "ok" THEN ResetAfterReview([ui EXCEPT !.list[j.tok] = "None"])
       ELSE ui' = [ui EXCEPT !.busy = FALSE] /\ UNCHANGED <<machine, held>>
    /\ Done(j) /\ OnMain /\ UNCHANGED <<camera, used>>

\* reviewRecovery, reconcileRecovery or acknowledgeRecovery, by the phase of the
\* record the dialog shows, or discardRecovery.
DialogAction ==
    /\ Drawn /\ RecoveryDialog /\ ~ui.busy
    /\ Left("dialogs", MaxDialogs) /\ Spend("dialogs")
    /\ ui' = [ui EXCEPT !.busy = TRUE]
    /\ \E kind \in {"review", "discard"} :
         LET p == ui.list[Shown]
             k == IF p \in Reviewable THEN kind
                  ELSE IF p = "Registering" THEN "reconcile" ELSE "acknowledge"
         IN jobs' = jobs \cup {[NewJob(k, Shown) EXCEPT
                                  !.mark = p = "Captured",
                                  !.at = IF k \in {"review", "discard"} THEN "io" ELSE "reconcile"]}
    /\ UNCHANGED <<machine, clock, held, composed, camera, disk, screen>>

\* beginRecoveredReview, once the notebook and the policy are prepared; a failed
\* check in it is caught by reviewRecovery. The record is not read again.
ReviewMain(j) ==
    /\ j.kind = "review"
    /\ LET u == [ui EXCEPT !.busy = FALSE, !.recovery = TRUE, !.processing = TRUE, !.ready = TRUE,
                           !.loading = FALSE, !.review = None, !.registered = FALSE,
                           !.generation = @ + 1]
           r == [NoRequest EXCEPT !.sequence = j.tok, !.trigger = "MANUAL"]
       IN \/ /\ ui' = [ui EXCEPT !.busy = FALSE, !.recovery = FALSE]
             /\ DoneAnd(j, Refresh) /\ Fails /\ UNCHANGED <<machine, held>>
          \/ /\ machine' = Start(machine)
             /\ held' = [ref |-> j.tok, recovering |-> j.tok]
             /\ IF \E k \in jobs : Processing(k) /\ k.screen = screen
                THEN ui' = [u EXCEPT !.recovery = FALSE] /\ DoneAnd(j, Refresh)
                ELSE ui' = u /\ DoneAnd(j, ProcessJob(j.tok, r, TRUE, j.mark, u.generation))
             /\ UNCHANGED used
    /\ OnMain /\ UNCHANGED camera

DialogMain(j) ==
    /\ j.kind \in {"reconcile", "acknowledge", "discard"} /\ j.at = "main" /\ ~j.cancelled
    /\ ui' = IF j.out = "error" THEN [ui EXCEPT !.busy = FALSE]
             ELSE [ui EXCEPT !.busy = FALSE,
                             !.list[j.tok] = IF j.kind = "reconcile" THEN j.out ELSE "None"]
    /\ held' = IF j.kind = "discard" /\ j.out = "ok" /\ held.ref = j.tok
               THEN [held EXCEPT !.ref = None] ELSE held
    /\ IF j.kind = "acknowledge" /\ j.out = "error" THEN DoneAnd(j, Refresh) ELSE Done(j)
    /\ OnMain /\ UNCHANGED <<machine, camera, used>>

-----------------------------------------------------------------------------
\* leaveScanner and onCleared: the next screen has a view model of its own.
Leave ==
    /\ Drawn /\ ~Modal /\ ~NavigationBlocked
    /\ Trouble
    /\ Fresh(screen + 1)
    /\ jobs' = {[j EXCEPT !.cancelled = TRUE, !.current = FALSE] :
                   j \in {k \in jobs : Writes(k)}}
               \cup {Job(screen + 1, "notebooks", None, NoRequest),
                     Job(screen + 1, "refresh", None, NoRequest)}
    /\ camera' = {[c EXCEPT !.dropped = TRUE] : c \in camera}
    /\ UNCHANGED <<clock, disk>>

Killed == Dies

\* Time matters between a warning and its answer, and from one picture to the next.
Passes ==
    /\ ui.warning # NoToken \/ (used.captures > 0 /\ Left("captures", MaxCaptures))
    /\ Trouble /\ clock' = clock + 1
    /\ UNCHANGED <<machine, ui, held, jobs, composed, camera, disk, screen>>

SessionInit ==
    /\ machine = IdleMachine /\ clock = 0 /\ ui = OpenedUi /\ held = NothingHeld
    /\ jobs = {Job(1, "notebooks", None, NoRequest), Job(1, "refresh", None, NoRequest)}
    /\ composed = [request |-> NoRequest, camera |-> TRUE]
    /\ camera = {}
    /\ disk = [file |-> [t \in Tokens |-> "none"], rec |-> NoList, scans |-> [t \in Tokens |-> 0],
               late |-> {}]
    /\ screen = 1
    /\ used = [captures |-> 0, presses |-> 0, dialogs |-> 0, troubles |-> 0]

User ==
    \/ SelectNotebook \/ RequestCapture \/ AnswerCaptureWarning \/ CancelProcessing
    \/ Approve \/ Retake \/ DialogAction \/ Leave

CameraStep ==
    \E c \in camera :
      CameraTakes(c) \/ CameraWrites(c) \/ CameraDropped(c) \/ Refused(c) \/ Captured(c)

RecordStep(j) ==
    \/ ReconcileRead(j) \/ ReconcileLookup(j) \/ ReconcileReplace(j)
    \/ Acknowledge(j) \/ RemoveRecord(j) \/ DiscardRead(j) \/ DiscardFile(j)
    \/ MarkIo(j) \/ MarkWrite(j)
    \/ RegisterIo(j) \/ RegisterMark(j) \/ RegisterRow(j)
    \/ RegisterCommit(j) \/ RegisterCommitted(j) \/ RegisterUnstage(j)

JobStep(j) ==
    \/ RecordStep(j)
    \/ NotebooksListed(j) \/ NotebookSelected(j) \/ RefreshIo(j) \/ RefreshMain(j)
    \/ PrepareIo(j) \/ PrepareCancelled(j) \/ PrepareMain(j)
    \/ ProcessIo(j) \/ ProcessCancelled(j) \/ ProcessMain(j)
    \/ MarkMain(j) \/ FinishReview(j)
    \/ RegisterMain(j) \/ AckMain(j) \/ RetakeMain(j)
    \/ ReviewMain(j) \/ DialogMain(j)
    \/ AbandonMain(j)

SessionNext ==
    /\ \/ User \/ Recompose \/ CameraStep \/ Killed \/ Passes
       \/ \E j \in jobs : JobStep(j)
    /\ Cardinality(jobs') <= MaxJobs

SessionSpec == SessionInit /\ [][SessionNext]_sessionVars

-----------------------------------------------------------------------------
(* One picture gives at most one scan row, although approval, reconciliation, *)
(* recovery and a new screen may each come to it again; and once it has its   *)
(* row its record stays at Registering or beyond, so that no late             *)
(* registration, recovery or retake takes it for an unregistered picture. But *)
(* not of a picture whose record was recovered or marked late: by a coroutine *)
(* that had read it before another one recovered or marked it.                *)
RegisteredOnce ==
    \A t \in Tokens \ disk.late :
       /\ disk.scans[t] <= 1
       /\ disk.scans[t] > 0 => disk.rec[t] \notin Reviewable
=============================================================================
