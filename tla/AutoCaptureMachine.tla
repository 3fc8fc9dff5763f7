------------------------- MODULE AutoCaptureMachine -------------------------
(* The auto-capture state machine on its own, driven by frames, by a user and *)
(* by camera and processing callbacks that may be late or repeated.           *)
EXTENDS AutoCapture

CONSTANTS MaxTime,         \* bound: clock readings
          MaxGeneration,   \* bound: starts, pauses and stops
          MaxRequests,     \* bound: captures
          MaxWarnings      \* bound: manual warnings

VARIABLES auto,    \* the state machine
          ticks,   \* System.nanoTime of the latest call
          viewed,  \* history: the run of frames that show one eligible page,
                   \* computed from the frames alone
          shot     \* history: the last picture taken in this session, which the
                   \* debounce is about

autoVars == <<auto, ticks, viewed, shot>>

-----------------------------------------------------------------------------
NoView == NoCandidate
NoShot == [page |-> NoPage, at |-> Never]

AutoInit ==
    /\ auto = IdleMachine
    /\ ticks = 0
    /\ viewed = NoView
    /\ shot = NoShot

Moves(m) ==
    /\ m.generation <= MaxGeneration
    /\ m.requests <= MaxRequests
    /\ m.warnings <= MaxWarnings
    /\ auto' = m

StartScanning == Moves(Start(auto)) /\ viewed' = NoView /\ shot' = NoShot /\ UNCHANGED ticks
StopScanning  == Moves(Stop(auto)) /\ viewed' = NoView /\ shot' = NoShot /\ UNCHANGED ticks
Pause  == Moves(PauseForNavigation(auto)) /\ UNCHANGED <<ticks, viewed, shot>>
Resume == Moves(ResumeAfterNavigation(auto)) /\ UNCHANGED <<ticks, viewed, shot>>

\* A frame of the present moment; only a resolved page passes the identity gate.
FrameArrives ==
    \E p \in Pages \cup {NoPage}, identity, accepted \in BOOLEAN :
      LET f == Frame(ticks, p, identity, accepted) IN
      /\ identity => p # NoPage
      /\ Observable(auto, f)
      /\ Moves(ObserveFrame(auto, f))
      /\ viewed' = IF ~Eligible(f) THEN NoView
                 ELSE IF viewed.page = p /\ ticks - viewed.last <= MaximumGap
                      THEN [viewed EXCEPT !.last = ticks]
                 ELSE [page |-> p, since |-> ticks, last |-> ticks]
      /\ UNCHANGED <<ticks, shot>>

ManualCapture ==
    /\ Moves(RequestManualCapture(auto, ticks))
    /\ UNCHANGED <<ticks, viewed, shot>>

AnswerWarning ==
    /\ \/ Moves(ConfirmManualCapture(auto, TokenOf(auto.warning), ticks))
       \/ Moves(DismissManualCapture(auto, TokenOf(auto.warning)))
    /\ UNCHANGED <<ticks, viewed, shot>>

\* A callback, once or repeatedly, for the machine's request or for an earlier
\* one, which the machine tells apart by nothing but its token.
Earlier == <<auto.generation, 0>>

Callback ==
    LET token == TokenOf(auto.request) IN
    /\ \/ /\ Moves(CaptureSucceeded(auto, token))
          /\ shot' = IF auto'.phase # auto.phase
                     THEN [page |-> auto.request.page, at |-> auto.request.at]
                     ELSE shot
       \/ /\ \/ Moves(CaptureSucceeded(auto, Earlier))
             \/ Moves(CaptureFailed(auto, token))
             \/ \E o \in TerminalPhases : Moves(ProcessingCompleted(auto, token, o))
             \/ Moves(ReviewRegistrationCompleted(auto, token))
          /\ UNCHANGED shot
    /\ UNCHANGED <<ticks, viewed>>

\* Asking for a retake of the same page lifts the debounce.
Continue ==
    \E retake \in BOOLEAN :
      /\ Moves(ContinueScanning(auto, ticks, retake))
      /\ shot' = IF retake /\ auto.phase \in TerminalPhases
                    /\ shot.page = auto.request.page THEN NoShot ELSE shot
      /\ UNCHANGED <<ticks, viewed>>

Tick ==
    /\ ticks < MaxTime
    /\ ticks' = ticks + 1
    /\ UNCHANGED <<auto, viewed, shot>>

AutoNext ==
    \/ StartScanning \/ StopScanning \/ Pause \/ Resume
    \/ FrameArrives \/ ManualCapture \/ AnswerWarning
    \/ Callback \/ Continue \/ Tick

AutoSpec == AutoInit /\ [][AutoNext]_autoVars

-----------------------------------------------------------------------------
CaptureAsked == auto'.effect = "CaptureRequested" /\ auto' # auto

(* An automatic capture is requested only for a page that every frame of the  *)
(* last StableInterval has shown and accepted, with no gap above MaximumGap   *)
(* between two of them (observeFrame); and the page photographed last is not  *)
(* captured automatically again within the debounce, whatever was searched,   *)
(* dismissed, failed or resumed in between, unless the user continued with a  *)
(* retake of it or restarted the session.                                     *)
AutoCaptureIsEarned ==
    [][CaptureAsked /\ auto'.request.trigger = "AUTO" =>
         /\ viewed'.page = auto'.request.page
         /\ ticks - viewed'.since >= StableInterval
         /\ shot.page = auto'.request.page => ticks >= shot.at + RepeatDebounce]_autoVars

\* How far a request has come.
Course == <<{"Capturing"}, {"Processing"}, {"NeedsReview"}, {"Accepted", "Rejected"}>>
Progress(m) == IF m.request = NoRequest THEN 0
               ELSE CHOOSE i \in DOMAIN Course : m.phase \in Course[i]

(* One request goes through its phases once and forward: no late or repeated  *)
(* callback moves it back, replaces its outcome, or revives it after it ended *)
(* or its session was paused or stopped.                                      *)
OneOutcomePerRequest ==
    [][LET r == auto'.request IN
       r # NoRequest =>
         \/ CaptureAsked /\ r.sequence > auto.requests
         \/ /\ r = auto.request
            /\ auto'.phase = auto.phase \/ Progress(auto') > Progress(auto)]_autoVars
=============================================================================
