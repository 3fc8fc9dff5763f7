---------------------------- MODULE AutoCapture ----------------------------
(* The scanner's auto-capture state machine. Its methods are synchronized, so *)
(* each is a function from the machine's state to its next one, with the      *)
(* effect the transition returns; the scanner session uses the same functions.*)
(* The operators named Faulty... are plausible bugs of the operator that      *)
(* follows; no specification uses them.                                       *)
EXTENDS Integers

CONSTANTS Pages,           \* page identities a frame may show
          NoPage,          \* a frame without a resolved page
          StableInterval,  \* AutoCapturePolicy, in ticks of the clock
          MaximumGap,
          RepeatDebounce

ASSUME PolicyAssumption ==
    /\ NoPage \notin Pages
    /\ StableInterval \in Nat \ {0}
    /\ MaximumGap \in Nat \ {0}
    /\ RepeatDebounce \in Nat

-----------------------------------------------------------------------------
Never      == -1
Frame(t, p, identity, accepted) ==
    [at |-> t, page |-> p, identity |-> identity, accepted |-> accepted]
NoFrame    == Frame(Never, NoPage, FALSE, FALSE)
NoCandidate == [page |-> NoPage, since |-> Never, last |-> Never]
NoRequest  == [generation |-> 0, sequence |-> 0, page |-> NoPage, trigger |-> "NONE", at |-> Never]
NoWarning  == [generation |-> 0, sequence |-> 0, page |-> NoPage, codes |-> {}]
NoDebounce == [page |-> NoPage, until |-> Never]
NoToken    == <<0, 0>>

\* Phases that hold a request, and those a request ends in.
ActivePhases   == {"Capturing", "Processing"}
TerminalPhases == {"Accepted", "NeedsReview", "Rejected"}
ViewingPhases  == {"Searching", "CandidateStable"}
Phases == {"Idle", "AwaitingConfirmation", "Navigation"}
              \cup ViewingPhases \cup ActivePhases \cup TerminalPhases

IdleMachine ==
    [phase |-> "Idle", running |-> FALSE, generation |-> 0, requests |-> 0, warnings |-> 0,
     candidate |-> NoCandidate, request |-> NoRequest, latest |-> NoFrame, seen |-> Never,
     warning |-> NoWarning, debounce |-> NoDebounce, effect |-> "none"]

TokenOf(r) == <<r.generation, r.sequence>>
Eligible(f) == f.identity /\ f.accepted /\ f.page # NoPage

-----------------------------------------------------------------------------
\* A transition to phase p; leaving a phase forgets what the phase carried.
Into(m, p) == [m EXCEPT !.phase = p, !.effect = "none", !.candidate = NoCandidate,
                        !.request = IF p \in ActivePhases \cup TerminalPhases
                                    THEN @ ELSE NoRequest]
Unmoved(m, e) == [m EXCEPT !.effect = e]

\* activeDebounce forgets a debounce that is over, whatever its page.
DebounceAt(m, now) == IF now >= m.debounce.until THEN NoDebounce ELSE m.debounce

BeginCapture(m, p, trigger, now) ==
    [Into(m, "Capturing") EXCEPT
        !.requests = @ + 1,
        !.request  = [generation |-> m.generation, sequence |-> m.requests + 1,
                      page |-> p, trigger |-> trigger, at |-> now],
        !.warning  = NoWarning,
        !.effect   = "CaptureRequested"]

Start(m) ==
    [IdleMachine EXCEPT !.phase = "Searching", !.running = TRUE,
        !.generation = m.generation + 1, !.requests = m.requests, !.warnings = m.warnings]

\* The timestamps of the frames a viewing machine observes must not decrease.
Observable(m, f) == m.phase \in ViewingPhases => m.seen = Never \/ f.at >= m.seen

CandidateFrom(m, f) ==
    [Into(m, "CandidateStable") EXCEPT
        !.candidate = [page |-> f.page, since |-> f.at, last |-> f.at]]

\* Faulty: a long gap between two frames does not restart the interval.
FaultyGapIgnored(m, f) ==
    LET c == m.candidate IN
    IF m.phase # "CandidateStable" \/ c.page # f.page
    THEN CandidateFrom(m, f)
    ELSE IF f.at - c.since >= StableInterval THEN BeginCapture(m, f.page, "AUTO", f.at)
    ELSE [m EXCEPT !.candidate.last = f.at, !.effect = "none"]

\* An eligible frame that is not debounced: the page becomes or stays the
\* candidate, or has been stable for long enough.
ObserveCandidate(m, f) ==
    LET c == m.candidate IN
    IF \/ m.phase # "CandidateStable"
       \/ c.page # f.page
       \/ f.at - c.last > MaximumGap
    THEN CandidateFrom(m, f)
    ELSE IF f.at - c.since >= StableInterval THEN BeginCapture(m, f.page, "AUTO", f.at)
    ELSE [m EXCEPT !.candidate.last = f.at, !.effect = "none"]

ObserveFrame(m, f) ==
    LET looked    == [m EXCEPT !.seen = f.at, !.latest = f]
        debounced == [looked EXCEPT !.debounce = DebounceAt(m, f.at)]
    IN IF m.phase \notin ViewingPhases THEN Unmoved(m, "none")
       ELSE IF ~Eligible(f) THEN Into(looked, "Searching")
       ELSE IF debounced.debounce.page = f.page
            THEN Unmoved(Into(debounced, "Searching"), "CaptureDebounced")
       ELSE ObserveCandidate(debounced, f)

ManualDenied(m) ==
    \/ m.phase \notin ViewingPhases
    \/ m.latest = NoFrame
    \/ ~m.latest.identity
    \/ m.latest.page = NoPage

RequestManualCapture(m, now) ==
    LET f == m.latest
        debounced == [m EXCEPT !.debounce = DebounceAt(m, now)]
    IN IF ManualDenied(m) THEN Unmoved(m, "ManualCaptureDenied")
       ELSE [Into(debounced, "AwaitingConfirmation") EXCEPT
                !.warnings = @ + 1,
                !.warning  = [generation |-> m.generation, sequence |-> m.warnings + 1,
                              page |-> f.page,
                              codes |-> {"BYPASSES_STABILITY_CHECK"}
                                  \cup (IF f.accepted THEN {} ELSE {"CAPTURE_POLICY_NOT_ACCEPTED"})
                                  \cup (IF debounced.debounce.page = f.page
                                        THEN {"REPEATS_RECENT_PAGE"} ELSE {})],
                !.effect   = "ManualCaptureWarningRequired"]

\* The warning a user answers is the one on the table.
Answers(m, token) ==
    /\ m.phase = "AwaitingConfirmation"
    /\ TokenOf(m.warning) = token
    /\ token[1] = m.generation

ConfirmManualCapture(m, token, now) ==
    IF Answers(m, token) THEN BeginCapture(m, m.warning.page, "MANUAL", now)
    ELSE Unmoved(m, "none")

DismissManualCapture(m, token) ==
    IF Answers(m, token) THEN [Into(m, "Searching") EXCEPT !.warning = NoWarning]
    ELSE Unmoved(m, "none")

\* Faulty: the phase of the request is not compared.
FaultyConcerns(m, phase, token) == TokenOf(m.request) = token

\* A callback concerns the machine when its request is the one in that phase.
Concerns(m, phase, token) ==
    /\ m.phase = phase
    /\ TokenOf(m.request) = token
    /\ token[1] = m.generation

CaptureSucceeded(m, token) ==
    IF ~Concerns(m, "Capturing", token) THEN Unmoved(m, "StaleCallbackIgnored")
    ELSE [Into(m, "Processing") EXCEPT
             !.debounce = [page |-> m.request.page, until |-> m.request.at + RepeatDebounce],
             !.latest = NoFrame]

CaptureFailed(m, token) ==
    IF ~Concerns(m, "Capturing", token) THEN Unmoved(m, "StaleCallbackIgnored")
    ELSE [Into(m, "Searching") EXCEPT !.latest = NoFrame]

ProcessingCompleted(m, token, outcome) ==
    IF ~Concerns(m, "Processing", token) THEN Unmoved(m, "StaleCallbackIgnored")
    ELSE Into(m, outcome)

ReviewRegistrationCompleted(m, token) ==
    IF ~Concerns(m, "NeedsReview", token) THEN Unmoved(m, "StaleCallbackIgnored")
    ELSE Into(m, "Accepted")

ContinueScanning(m, now, retake) ==
    IF m.phase \notin TerminalPhases THEN Unmoved(m, "none")
    ELSE [Into(m, "Searching") EXCEPT
             !.debounce = IF retake /\ @.page = m.request.page
                          THEN NoDebounce ELSE DebounceAt(m, now),
             !.latest = NoFrame]

Cancelled(m) == IF m.phase \in ActivePhases THEN "CancelActiveWork" ELSE "none"

PauseForNavigation(m) ==
    [Into(m, IF m.running THEN "Navigation" ELSE "Idle") EXCEPT
        !.generation = @ + 1, !.latest = NoFrame, !.warning = NoWarning,
        !.effect = Cancelled(m)]

ResumeAfterNavigation(m) ==
    IF m.phase = "Navigation"
    THEN [Into(m, "Searching") EXCEPT !.latest = NoFrame, !.seen = Never]
    ELSE Unmoved(m, "none")

Stop(m) ==
    [IdleMachine EXCEPT !.generation = m.generation + 1, !.requests = m.requests,
        !.warnings = m.warnings, !.effect = Cancelled(m)]
=============================================================================
