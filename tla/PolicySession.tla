--------------------------- MODULE PolicySession ---------------------------
(* The scan policy of the scanner: the process-wide session that the code     *)
(* handler of a screen fills with the policy of the page in view, that the    *)
(* full-resolution processing reads and marks as reviewed, and that a         *)
(* registration gives as its evidence. Screens compose and dispose the        *)
(* handler; its resolutions are coroutines, and processing runs on IO         *)
(* threads. The operators named Faulty... are plausible bugs.                  *)
EXTENDS Naturals, FiniteSets

CONSTANTS Notebooks, Policies,  \* identities; a page has the policy it is stored with
          NoPolicy, NoNotebook,
          MaxGeneration,        \* bounds: generations of the camera,
          MaxCodes,             \* codes seen,
          MaxCaptures           \* pictures processed

VARIABLES session,  \* RustScannerPolicySession
          origin,   \* history: the composition, or the screen, that set the current policy
          view,     \* the view model's state that the composition follows
          shown,    \* what is composed
          asked,    \* AtomicLong of the handler, and its coroutines
          works,    \* full-resolution processings, those of left screens included
          review,   \* the policy the picture under review was processed with
          spent     \* the bounds used

policyVars == <<session, origin, view, shown, asked, works, review, spent>>

Screens    == {"camera", "recovery", "batch", "none"}
NoReview   == NoPolicy
NoComposition == [screen |-> "none", notebook |-> NoNotebook, generation |-> 0]

PolicyInit ==
    /\ session = [current |-> NoPolicy, reviewed |-> NoPolicy]
    /\ origin = NoComposition
    /\ view = NoComposition
    /\ shown = NoComposition
    /\ asked = [last |-> 0, open |-> {}]
    /\ works = {}
    /\ review = NoReview
    /\ spent = [codes |-> 0, captures |-> 0]

Left(what, max) == spent[what] < max /\ spent' = [spent EXCEPT ![what] = @ + 1]

-----------------------------------------------------------------------------
\* update, clear, markReviewed.
Update(p, from) ==
    /\ session' = [current |-> p, reviewed |-> IF session.current = p THEN session.reviewed ELSE NoPolicy]
    /\ origin' = from
Clear ==
    /\ session' = [current |-> NoPolicy, reviewed |-> NoPolicy]
    /\ origin' = NoComposition
KeepSession == UNCHANGED <<session, origin>>

-----------------------------------------------------------------------------
\* The composition follows the view model; the handler clears the session and
\* forgets what it asked when its notebook or generation changes and when it is
\* disposed of, which also ends its coroutines. The batch screen sets the policy
\* of the page in view by itself.
Recompose ==
    /\ shown # view
    /\ shown' = view
    /\ IF shown.screen = "camera" \/ view.screen = "camera"
       THEN /\ Clear
            /\ asked' = IF shown.screen = view.screen
                        THEN [asked EXCEPT !.last = @ + 2] ELSE [last |-> 1, open |-> {}]
       ELSE KeepSession /\ UNCHANGED asked
    /\ UNCHANGED <<view, works, review, spent>>

BatchResolves ==
    /\ shown.screen = "batch"
    /\ Left("codes", MaxCodes)
    /\ \E p \in Policies : Update(p, shown)
    /\ UNCHANGED <<view, shown, asked, works, review>>

\* A code found by the camera: the handler asks for its page and policy.
CodeFound ==
    /\ shown.screen = "camera"
    /\ Left("codes", MaxCodes)
    /\ asked' = [last |-> asked.last + 1,
                 open |-> IF shown.notebook = NoNotebook THEN asked.open
                          ELSE asked.open \cup {[number |-> asked.last + 1, of |-> shown]}]
    /\ IF shown.notebook = NoNotebook THEN Clear ELSE KeepSession
    /\ UNCHANGED <<view, shown, works, review>>

\* Failed, SubmissionRejected, Closed.
CodeFailed ==
    /\ shown.screen = "camera"
    /\ Left("codes", MaxCodes)
    /\ asked' = [asked EXCEPT !.last = @ + 1]
    /\ Clear
    /\ UNCHANGED <<view, shown, works, review>>

\* Faulty: an answer counts whatever happened since its question.
FaultyOutdated(q) == FALSE

Outdated(q) == q.number # asked.last \/ q.of # shown

\* The coroutine continues with the page's policy, with none for a page that
\* does not resolve in the notebook, or with an exception, for which only the
\* number is compared.
Resolved(q) ==
    /\ asked' = [asked EXCEPT !.open = @ \ {q}]
    /\ \/ Outdated(q) /\ KeepSession
       \/ ~Outdated(q) /\ \E p \in Policies : Update(p, q.of)
       \/ q.number = asked.last /\ Clear
    /\ UNCHANGED <<view, shown, works, review, spent>>

-----------------------------------------------------------------------------
\* The view model: what changes the notebook, the generation or the screen.

Advance(v) == [v EXCEPT !.generation = @ + 1]
InView == {w \in works : ~w.left}

Open ==
    /\ shown = view /\ view.screen = "none"
    /\ \E s \in {"camera", "batch"} :
         view' = [screen |-> s, notebook |-> NoNotebook, generation |-> 0]
    /\ UNCHANGED <<session, origin, shown, asked, works, review, spent>>

\* selectNotebook and the first reading of the active notebook.
SelectNotebook ==
    /\ view.screen = "camera" /\ InView = {} /\ review = NoReview
    /\ view.generation < MaxGeneration
    /\ \E n \in Notebooks : view' = [Advance(view) EXCEPT !.notebook = n]
    /\ UNCHANGED <<session, origin, shown, asked, works, review, spent>>

Work(p, recovered) == [at |-> "reading", policy |-> p, recovered |-> recovered,
                       generation |-> view'.generation, left |-> FALSE]

\* A picture of the camera arrives; its request was made under some policy.
Captured ==
    /\ view.screen = "camera" /\ view.notebook # NoNotebook
    /\ InView = {} /\ review = NoReview
    /\ Left("captures", MaxCaptures)
    /\ UNCHANGED view
    /\ works' = works \cup {Work(NoPolicy, FALSE)}
    /\ UNCHANGED <<session, origin, shown, asked, review>>

\* beginRecoveredReview, with the policy its record names.
BeginRecoveredReview ==
    /\ view.screen \in {"camera", "recovery"} /\ InView = {} /\ review = NoReview
    /\ view.generation < MaxGeneration
    /\ Left("captures", MaxCaptures)
    /\ \E p \in Policies, n \in Notebooks :
         /\ view' = [screen |-> "recovery", notebook |-> n, generation |-> view.generation + 1]
         /\ Update(p, view')
    /\ works' = works \cup {Work(NoPolicy, TRUE)}
    /\ UNCHANGED <<shown, asked, review>>

\* retake and every other reset of the session after a review.
Retake ==
    /\ review # NoReview
    /\ view.generation < MaxGeneration
    /\ review' = NoReview
    /\ view' = [Advance(view) EXCEPT !.screen = "camera"]
    /\ UNCHANGED <<session, origin, shown, asked, works, spent>>

\* leaveScanner: the processing is cancelled, which does not stop its IO thread.
Leave ==
    /\ view.screen # "none"
    /\ view' = [NoComposition EXCEPT !.generation = 0]
    /\ review' = NoReview
    /\ works' = {[w EXCEPT !.left = TRUE] : w \in works}
    /\ UNCHANGED <<session, origin, shown, asked, spent>>

-----------------------------------------------------------------------------
\* processPagePreview: the policy is read first and marked last.
Becomes(w, to) == works' = (works \ {w}) \cup {to}
OnIo == UNCHANGED <<origin, view, shown, asked, review, spent>>

ReadPolicy(w) ==
    /\ w.at = "reading"
    /\ IF session.current = NoPolicy THEN Becomes(w, [w EXCEPT !.at = "failed"])
       ELSE Becomes(w, [w EXCEPT !.at = "native", !.policy = session.current])
    /\ UNCHANGED session /\ OnIo

Process(w) ==
    /\ w.at = "native"
    /\ \E p \in {"checking", "failed"} : Becomes(w, [w EXCEPT !.at = p])
    /\ UNCHANGED session /\ OnIo

CheckCurrent(w) ==
    /\ w.at = "checking"
    /\ Becomes(w, [w EXCEPT !.at = IF session.current = w.policy THEN "marking" ELSE "failed"])
    /\ UNCHANGED session /\ OnIo

MarkReviewed(w) ==
    /\ w.at = "marking"
    /\ session' = [session EXCEPT !.reviewed = w.policy]
    /\ Becomes(w, [w EXCEPT !.at = "completed"])
    /\ OnIo

Wanted(w) == w.recovered \/ w.generation = view.generation

\* The continuation: a review, or the failure that retains the picture.
Finish(w) ==
    /\ w.at \in {"completed", "failed"}
    /\ works' = works \ {w}
    /\ \/ /\ w.left \/ (w.at = "completed" /\ ~Wanted(w))
          /\ UNCHANGED <<view, review>>
       \/ /\ ~w.left /\ w.at = "completed" /\ Wanted(w)
          /\ review' = w.policy /\ UNCHANGED view
       \/ /\ ~w.left /\ w.at = "failed"
          /\ view' = IF w.recovered THEN [view EXCEPT !.screen = "camera"] ELSE Advance(view)
          /\ UNCHANGED review
    /\ UNCHANGED <<session, origin, shown, asked, spent>>

-----------------------------------------------------------------------------
\* registrationEvidence, and the comparison Rust makes with the stored policy of
\* the page; a failed registration leaves the review as it is.
Approve ==
    /\ review # NoReview
    /\ session.reviewed # NoPolicy
    /\ view.generation < MaxGeneration
    /\ review' = NoReview
    /\ view' = [Advance(view) EXCEPT !.screen = "camera"]
    /\ UNCHANGED <<session, origin, shown, asked, works, spent>>

PolicyNext ==
    \/ Recompose \/ BatchResolves \/ CodeFound \/ CodeFailed
    \/ \E q \in asked.open : Resolved(q)
    \/ Open \/ SelectNotebook \/ Captured \/ BeginRecoveredReview \/ Retake \/ Leave \/ Approve
    \/ \E w \in works : ReadPolicy(w) \/ Process(w) \/ CheckCurrent(w) \/ MarkReviewed(w) \/ Finish(w)

PolicySpec == PolicyInit /\ [][PolicyNext]_policyVars

-----------------------------------------------------------------------------
(* The policy the camera screen works with was resolved for the notebook and  *)
(* the generation it shows: no answer to an earlier question, of another      *)
(* notebook or an earlier session of the camera, and nothing the batch screen *)
(* or a recovered review left behind, is in force there.                      *)
PolicyIsOfThisView ==
    shown.screen = "camera" /\ shown = view /\ session.current # NoPolicy => origin = shown
=============================================================================
