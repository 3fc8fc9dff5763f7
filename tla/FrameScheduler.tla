--------------------------- MODULE FrameScheduler ---------------------------
(* LatestFrameAnalysisScheduler and LiveQrCodeScheduler: one worker, one slot *)
(* for the newest frame. The camera thread submits, the main thread cancels   *)
(* and closes, a single-thread executor drains; each synchronized block and   *)
(* each publication is a step. A throwing callback or a fatal error ends the  *)
(* process and is not modelled.                                               *)
EXTENDS Integers

CONSTANTS MaxFrames,   \* bounds: frames submitted
          MaxCancels   \* and calls of cancel

VARIABLES kind,      \* the page scheduler or the Page Code scheduler
          sched,     \* the state under the lock
          camera0,   \* the submitting thread: its step and its frame
          main0,     \* the thread of cancel and close
          worker,    \* the drain task
          down,      \* the executor was shut down
          outcomes,  \* what was published of each frame, in the order of time
          cancels

schedulerVars == <<kind, sched, camera0, main0, worker, down, outcomes, cancels>>

NoFrameYet == [sequence |-> 0, generation |-> 0]
At(p, f)   == [at |-> p, frame |-> f]
Idling     == At("idle", NoFrameYet)
Numbers    == 1..MaxFrames

Publish(f, event) == outcomes' = [outcomes EXCEPT ![f.sequence] = @ \cup {event}]

SchedulerInit ==
    /\ kind \in {"page", "code"}
    /\ sched = [next |-> 1, latest |-> 0, generation |-> 0, pending |-> NoFrameYet,
                scheduled |-> FALSE, closed |-> FALSE]
    /\ camera0 = Idling /\ main0 = Idling /\ worker = Idling
    /\ down = FALSE /\ cancels = 0
    /\ outcomes = [n \in Numbers |-> {}]

-----------------------------------------------------------------------------
\* submit: the slot takes the frame; the frame it held is reported afterwards,
\* then the worker is started when none is.
Submit ==
    /\ camera0.at = "idle" /\ sched.next \in Numbers
    /\ LET f == [sequence |-> sched.next, generation |-> sched.generation] IN
       IF sched.closed
       THEN /\ sched' = [sched EXCEPT !.next = @ + 1]
            /\ Publish(f, "Rejected") /\ UNCHANGED camera0
       ELSE /\ sched' = [sched EXCEPT !.next = @ + 1, !.latest = f.sequence, !.pending = f,
                                      !.scheduled = TRUE]
            /\ camera0' = [at |-> IF sched.scheduled THEN "report" ELSE "execute",
                           frame |-> IF sched.scheduled THEN sched.pending ELSE f]
            /\ UNCHANGED outcomes
    /\ UNCHANGED <<kind, main0, worker, down, cancels>>

ReportSuperseded ==
    /\ camera0.at = "report"
    /\ IF camera0.frame = NoFrameYet THEN UNCHANGED outcomes
       ELSE Publish(camera0.frame, "Dropped")
    /\ camera0' = Idling
    /\ UNCHANGED <<kind, sched, main0, worker, down, cancels>>

\* The executor takes the worker, or is shut down: the page scheduler reports
\* the frame of the slot, or this one, the Page Code scheduler always this one.
StartWorker ==
    /\ camera0.at = "execute"
    /\ IF down
       THEN /\ sched' = [sched EXCEPT !.scheduled = FALSE, !.generation = @ + 1,
                                      !.pending = NoFrameYet]
            /\ Publish(IF kind = "page" /\ sched.pending # NoFrameYet
                       THEN sched.pending ELSE camera0.frame, "Infrastructure")
            /\ UNCHANGED worker
       ELSE worker' = At("queued", NoFrameYet) /\ UNCHANGED <<sched, outcomes>>
    /\ camera0' = Idling
    /\ UNCHANGED <<kind, main0, down, cancels>>

-----------------------------------------------------------------------------
\* cancel and close take the slot's frame under the lock and report it after.
Cancel ==
    /\ main0.at = "idle" /\ cancels < MaxCancels /\ ~sched.closed
    /\ sched' = [sched EXCEPT !.generation = @ + 1, !.pending = NoFrameYet]
    /\ main0' = At("cancelled", sched.pending)
    /\ cancels' = cancels + 1
    /\ UNCHANGED <<kind, camera0, worker, down, outcomes>>

Close ==
    /\ main0.at = "idle" /\ ~sched.closed
    /\ sched' = [sched EXCEPT !.closed = TRUE, !.generation = @ + 1, !.pending = NoFrameYet]
    /\ main0' = At("closing", sched.pending)
    /\ UNCHANGED <<kind, camera0, worker, down, outcomes, cancels>>

ReportDropped ==
    /\ main0.at \in {"cancelled", "closing"}
    /\ IF main0.frame = NoFrameYet THEN UNCHANGED outcomes ELSE Publish(main0.frame, "Dropped")
    /\ main0' = At(IF main0.at = "closing" THEN "shutdown" ELSE "idle", NoFrameYet)
    /\ UNCHANGED <<kind, sched, camera0, worker, down, cancels>>

\* shutdownNow forgets a worker that was not started.
ShutDown ==
    /\ main0.at = "shutdown"
    /\ down' = TRUE
    /\ worker' = IF worker.at = "queued" THEN Idling ELSE worker
    /\ main0' = At("closed", NoFrameYet)
    /\ UNCHANGED <<kind, sched, camera0, outcomes, cancels>>

-----------------------------------------------------------------------------
\* Faulty: the flag is cleared in a block of its own, after the slot was read.
FaultyTake ==
    /\ \/ /\ worker.at \in {"queued", "next"}
          /\ IF sched.pending = NoFrameYet
             THEN UNCHANGED sched /\ worker' = At("ending", NoFrameYet)
             ELSE sched' = [sched EXCEPT !.pending = NoFrameYet] /\ worker' = At("analysing", sched.pending)
       \/ /\ worker.at = "ending"
          /\ sched' = [sched EXCEPT !.scheduled = FALSE] /\ worker' = Idling
    /\ UNCHANGED <<kind, camera0, main0, down, outcomes, cancels>>

\* drain: take the frame of the slot or end, analyse it, decide under the lock
\* whether the result is stale, publish.
Take ==
    /\ worker.at \in {"queued", "next"}
    /\ IF sched.pending = NoFrameYet
       THEN sched' = [sched EXCEPT !.scheduled = FALSE] /\ worker' = Idling
       ELSE sched' = [sched EXCEPT !.pending = NoFrameYet] /\ worker' = At("analysing", sched.pending)
    /\ UNCHANGED <<kind, camera0, main0, down, outcomes, cancels>>

\* Faulty: only a newer frame makes a result stale.
FaultyStaleFrame(f) == f.sequence # sched.latest

StaleFrame(f) ==
    \/ sched.closed
    \/ f.generation # sched.generation
    \/ f.sequence # sched.latest

Decide ==
    /\ worker.at = "analysing"
    /\ \E event \in IF StaleFrame(worker.frame) THEN {"Discarded"} ELSE {"Succeeded", "Failed"} :
         worker' = At(event, worker.frame)
    /\ UNCHANGED <<kind, sched, camera0, main0, down, outcomes, cancels>>

PublishResult ==
    /\ worker.at \in {"Discarded", "Succeeded", "Failed"}
    /\ Publish(worker.frame, worker.at)
    /\ worker' = At("next", NoFrameYet)
    /\ UNCHANGED <<kind, sched, camera0, main0, down, cancels>>

SchedulerNext ==
    \/ Submit \/ ReportSuperseded \/ StartWorker
    \/ Cancel \/ Close \/ ReportDropped \/ ShutDown
    \/ Take \/ Decide \/ PublishResult

SchedulerSpec == SchedulerInit /\ [][SchedulerNext]_schedulerVars

-----------------------------------------------------------------------------
(* Every submitted frame is in the hands of a thread, or waits, or its end    *)
(* was published: none disappears when it is superseded, cancelled, closed,   *)
(* refused by the executor or discarded. And a frame waits only while a       *)
(* worker is on its way to it, so that none is stuck until the next one       *)
(* happens to come.                                                           *)
NoFrameForgotten ==
    /\ \A n \in Numbers :
         n < sched.next =>
            \/ outcomes[n] # {}
            \/ n \in {sched.pending.sequence, camera0.frame.sequence, main0.frame.sequence,
                      worker.frame.sequence}
    /\ sched.pending # NoFrameYet =>
         sched.scheduled /\ (worker.at # "idle" \/ camera0.at = "execute")

(* A result is discarded when the frame was cancelled before its analysis     *)
(* ended; what slips through was decided before the cancellation.             *)
CancelledIsDiscarded ==
    [][worker.at = "analysing" /\ worker'.at \in {"Succeeded", "Failed"} =>
         ~sched.closed /\ worker.frame.sequence = sched.latest
           /\ worker.frame.generation = cancels]_schedulerVars
=============================================================================
