----------------------------- MODULE MCScanner -----------------------------
(* Seven models side by side: a behaviour is one of the single-page screen,   *)
(* of the auto-capture machine alone, of a frame scheduler, of the scan       *)
(* policy session, of the calls into native code, of what Rust makes of a     *)
(* picture, or of its verdict on one. The machine gets larger intervals here  *)
(* than inside the screen.                                                    *)
EXTENDS SinglePageSession

CONSTANTS ViewedPages, MaxTime, MaxGeneration, MaxRequests, MaxWarnings, MaxFrames, MaxCancels,
          Notebooks, Policies, NoPolicy, NoNotebook, MaxCameraGeneration, MaxCodes,
          Callers,
          Side, Out, Inset, MaxBytes, MaxPixels, MaxDecoded, MaxOutPixels, MaxOutBytes,
          MaxImagePixels, MaxImageBytes, MaxTotalBytes, MaxWorkingBytes, ThumbWidth, ThumbHeight, SharpenPasses,
          Width, Height, TileColumns, TileRows, Luminances, DarkCutoff, HighlightCutoff,
          NotMeasured

\* A process has finitely many threads.
ASSUME CallersAssumption == IsFiniteSet(Callers)

\* Markers are inside the page, the first before the last.
ASSUME GeometryAssumption ==
    Side \in Nat /\ Out \in Nat /\ Inset \in Nat /\ 2 * Inset < Out

\* A corrected page that is small enough, and a thumbnail of it, fit the limits of
\* derived images and, with a copy of the OCR image, the memory they may take. So do
\* the code's constants: 2,000,000 pixels and 6,000,000 bytes for the page and each image,
\* thumbnails of 480 by 480, 12,000,000 bytes for all and 96,000,000 at once.
ASSUME BudgetAssumption ==
    /\ ThumbWidth \in Nat \ {0} /\ ThumbHeight \in Nat \ {0}
    /\ {MaxOutPixels, MaxOutBytes, MaxImagePixels, MaxImageBytes, MaxTotalBytes, MaxWorkingBytes}
          \subseteq Nat
    /\ MaxOutPixels <= MaxImagePixels /\ MaxOutBytes <= MaxImageBytes
    /\ 4 * MaxOutPixels + 3 * (ThumbWidth * ThumbHeight) <= MaxTotalBytes
    /\ MaxTotalBytes + MaxOutPixels <= MaxWorkingBytes

VARIABLES part, auto, ticks, viewed, shot,
          kind, sched, camera0, main0, worker, down, outcomes, cancels,
          session, origin, view, shown, asked, works, review, spent,
          handle, native, call, closer,
          picture, pass, stage, sharpened, buffers, cancelled, outcome, markers,
          frame, pose, required, calibration, assessment

machineVars   == <<auto, ticks, viewed, shot>>
schedulerVars == <<kind, sched, camera0, main0, worker, down, outcomes, cancels>>
policyVars    == <<session, origin, view, shown, asked, works, review, spent>>
nativeVars    == <<handle, native, call, closer>>
pictureVars   == <<picture, pass, stage, sharpened, buffers, cancelled, outcome, markers>>
qualityVars   == <<frame, pose, required, calibration, assessment>>

Machine   == INSTANCE AutoCaptureMachine
                 WITH Pages <- ViewedPages, StableInterval <- 2, MaximumGap <- 1, RepeatDebounce <- 3
Scheduler == INSTANCE FrameScheduler
Policy    == INSTANCE PolicySession WITH MaxGeneration <- MaxCameraGeneration
Native    == INSTANCE NativePreview

\* A marker is in one of four places near its corner of the page.
Around(x, y) == {<<x + i, y + j, 1>> : i, j \in {0, 1}}

Picture == INSTANCE PagePicture
               WITH Places <- <<Around(3, 3), Around(5, 3), Around(5, 5), Around(3, 5)>>

\* One of the pages in view can be photographed well.
ASSUME PageInViewAssumption == \E quad \in Picture!Quads : Picture!PlanAccepts(quad)

\* Pictures of three levels of light, of which the middle is everywhere in the
\* first row and at the right of the last.
Middle == CHOOSE v \in Luminances : v > DarkCutoff /\ v < HighlightCutoff

Frames == {f \in [(0 .. Width - 1) \X (0 .. Height - 1) -> Luminances] :
              \A x \in 0 .. Width - 1 : f[<<x, 0>>] = Middle /\ (x > 1 => f[<<x, Height - 1>>] = Middle)}

\* One of them is sharp, and neither dark nor bright.
Darkest   == CHOOSE v \in Luminances : \A w \in Luminances : v <= w
Brightest == CHOOSE v \in Luminances : \A w \in Luminances : v >= w

Clear == [p \in (0 .. Width - 1) \X (0 .. Height - 1) |->
             IF p = <<1, 1>> THEN Darkest ELSE IF p = <<2, 1>> THEN Brightest ELSE Middle]

\* One page as it should be; pages with other corners, of which some are none or not
\* in the picture; and pages with one other thing about them, or not all measured.
Page == [quad |-> <<Picture!Point(2, 2), Picture!Point(7, 2), Picture!Point(7, 7), Picture!Point(2, 7)>>,
         measured |-> {"framing", "marker_confidence", "perspective", "resolution", "curvature"},
         decisions |-> {60, 80}, errors |-> {0}, unexpected |-> 0,
         paper |-> <<2, 3>>, size |-> <<5, 7>>,
         probes |-> <<[edge |-> 1, at |-> <<1, 2>>, seen |-> <<4, 2>>]>>]

Corners == {Picture!Point(2, 2), Picture!Point(1, 1), Picture!Point(0, 0), Picture!Point(4, 3)}
           \X {Picture!Point(7, 2), Picture!Point(9, 0), Picture!Point(6, 3)}
           \X {Picture!Point(7, 7), Picture!Point(8, 9), Picture!Point(3, 4)}
           \X {Picture!Point(2, 7), Picture!Point(0, 9), Picture!Point(7, 1), Picture!Point(2, 12)}

Poses ==
    LET probe(edge, x, y) == [edge |-> edge, at |-> <<1, 2>>, seen |-> <<x, y>>]
    IN  {[Page EXCEPT !.quad = corners] : corners \in Corners}
        \cup {[Page EXCEPT !.measured = set] : set \in SUBSET Page.measured}
        \cup {[Page EXCEPT !.decisions = {80, n}] : n \in {0, 20, 40}}
        \cup {[Page EXCEPT !.errors = {0, n}] : n \in 1 .. 3}
        \cup {[Page EXCEPT !.unexpected = n] : n \in 1 .. 3}
        \cup {[Page EXCEPT !.paper = <<n, 4>>] : n \in {3, 9}}
        \cup {[Page EXCEPT !.size = <<n, 4>>] : n \in {2, 5}}
        \cup {[Page EXCEPT !.probes = <<>>], [Page EXCEPT !.probes[1].at = <<3, 2>>]}
        \cup {[Page EXCEPT !.probes = <<probe(1, 4, 2 + n), probe(2, 7 - k, 5)>>] : n, k \in 0 .. 2}

Bounds ==
    [area |-> <<<<30, 60>>, <<20, 80>>, <<10, 90>>>>, margin |-> <<20, 10, 5>>,
     offset |-> <<1, 3, 9>>,
     decision |-> <<50, 30, 10>>, hamming |-> <<0, 1, 2>>, unexpected |-> <<0, 1, 2>>,
     edges |-> <<150, 225, 400>>, opposing |-> <<130, 200, 300>>,
     diagonals |-> <<120, 150, 300>>, fill |-> <<90, 75, 60>>,
     source |-> <<200, 100, 50>>, output |-> <<300, 100, 50>>,
     bend |-> <<10, 20, 40>>, spread |-> <<1, 2, 8>>]

Quality == INSTANCE CaptureQuality
               WITH Focus <- <<10000, 1000, 10>>, MeanLow <- <<60, 45, 30>>,
                    DarkFraction <- <<25, 50, 75>>, MeanHigh <- <<80, 90, 110>>,
                    HighlightFraction <- <<50, 75, 90>>, TileFraction <- <<60, 80, 99>>

\* A picture and its grid are not empty, pixels are bytes, the thresholds are ones that
\* are not refused, pages are pages, and a state is not mistaken for a measurement that is missing.
ASSUME QualityAssumption ==
    /\ {Width, Height, TileColumns, TileRows} \subseteq Nat \ {0}
    /\ Luminances \subseteq Nat /\ DarkCutoff \in Nat /\ HighlightCutoff \in Nat
    /\ Quality!BoundsOk /\ Quality!LightBoundsOk /\ Poses \subseteq Quality!PagesSeen
    /\ NotMeasured \notin {"Accepted", "AcceptedWithWarnings", "Warning", "NeedsReview", "Rejected"}

MCInit ==
    /\ part \in {"screen", "machine", "scheduler", "policy", "native", "picture", "quality"}
    /\ SessionInit /\ Machine!AutoInit /\ Scheduler!SchedulerInit
    /\ Policy!PolicyInit /\ Native!NativeInit
    /\ part # "scheduler" => kind = "page"
    /\ IF part = "picture" THEN Picture!PictureInit
       ELSE /\ picture = Picture!Sound /\ pass = "none" /\ stage = "ended" /\ sharpened = 0
            /\ buffers = {} /\ cancelled = FALSE /\ markers = <<>>
            /\ outcome = [preview |-> "none", registration |-> "none"]
    /\ IF part = "quality" THEN Quality!QualityInit /\ (pose = Page \/ frame = Clear)
       ELSE frame = <<>> /\ pose = <<>> /\ required = {} /\ calibration = <<>> /\ assessment = NotMeasured

MCNext ==
    /\ UNCHANGED part
    /\ \/ /\ part = "screen" /\ SessionNext
          /\ UNCHANGED <<machineVars, schedulerVars, policyVars, nativeVars, pictureVars, qualityVars>>
       \/ /\ part = "machine" /\ Machine!AutoNext
          /\ UNCHANGED <<sessionVars, schedulerVars, policyVars, nativeVars, pictureVars, qualityVars>>
       \/ /\ part = "scheduler" /\ Scheduler!SchedulerNext
          /\ UNCHANGED <<sessionVars, machineVars, policyVars, nativeVars, pictureVars, qualityVars>>
       \/ /\ part = "policy" /\ Policy!PolicyNext
          /\ UNCHANGED <<sessionVars, machineVars, schedulerVars, nativeVars, pictureVars, qualityVars>>
       \/ /\ part = "native" /\ Native!NativeNext
          /\ UNCHANGED <<sessionVars, machineVars, schedulerVars, policyVars, pictureVars, qualityVars>>
       \/ /\ part = "picture" /\ Picture!PictureNext
          /\ UNCHANGED <<sessionVars, machineVars, schedulerVars, policyVars, nativeVars, qualityVars>>
       \/ /\ part = "quality" /\ Quality!QualityNext
          /\ UNCHANGED <<sessionVars, machineVars, schedulerVars, policyVars, nativeVars, pictureVars>>

MCSpec ==
    /\ MCInit
    /\ [][MCNext]_<<part, sessionVars, machineVars, schedulerVars, policyVars, nativeVars,
                     pictureVars, qualityVars>>

-----------------------------------------------------------------------------
(* The properties of the instances, stated in their modules.              *)
AutoCaptureIsEarned    == Machine!AutoCaptureIsEarned
OneOutcomePerRequest   == Machine!OneOutcomePerRequest
NoFrameForgotten       == Scheduler!NoFrameForgotten
CancelledIsDiscarded   == Scheduler!CancelledIsDiscarded
PolicyIsOfThisView     == Policy!PolicyIsOfThisView
MemoryIsSafe           == Native!MemoryIsSafe
PageIsInPicture        == Picture!PageIsInPicture
ApprovedIsRegistered   == Picture!ApprovedIsRegistered
VerdictFollowsPicture  == Quality!VerdictFollowsPicture
=============================================================================
