--------------------------- MODULE CaptureQuality ---------------------------
(* How a picture is judged: what is measured of its brightness and sharpness, *)
(* the thresholds that turn a measurement into a state, the verdict over all  *)
(* states, and the evidence without which a verdict counts for nothing        *)
(* (crates/a2d-image/src/quality.rs, quality_calibration.rs). What is measured *)
(* of the page in the picture is in PageShape.                                *)
EXTENDS PageShape, FiniteSets

CONSTANTS Width, Height,             \* of the picture
          TileColumns, TileRows,     \* of the grid in which glare is looked for
          Luminances, Frames,        \* the values a pixel may have, and the pictures taken
          DarkCutoff, HighlightCutoff,
          Focus, MeanLow, DarkFraction, MeanHigh, HighlightFraction, TileFraction,
              \* thresholds <<accepted, warning, review>>, each in order, fractions in hundredths
          Poses               \* the pages that may be in the picture

VARIABLES frame,        \* pixel -> luminance
          pose,         \* the page in it
          required,     \* the metrics that must be measured
          calibration,  \* what the thresholds are known from
          assessment    \* NotMeasured, or the verdict

qualityVars == <<frame, pose, required, calibration, assessment>>

PixelsOf == (0 .. Width - 1) \X (0 .. Height - 1)

Measured == {"focus", "underexposure", "overexposure", "glare"}

-----------------------------------------------------------------------------
(* Measurements of the gray picture.                                          *)

Average(f) == <<MapThenSumSet(LAMBDA p : f[p], PixelsOf), Width * Height>>

Share(f, set, Is(_)) == <<100 * Cardinality({p \in set : Is(f[p])}), Cardinality(set)>>

IsDark(value)   == value <= DarkCutoff
IsBright(value) == value >= HighlightCutoff

TileOf(p) == <<(p[1] * TileColumns) \div Width, (p[2] * TileRows) \div Height>>

\* The tiles with pixels in them; a picture narrower than the grid leaves some empty.
Tiles == {{p \in PixelsOf : TileOf(p) = t} : t \in {TileOf(p) : p \in PixelsOf}}

Brightest(f) == Greatest({Share(f, tile, IsBright) : tile \in Tiles})

\* The variance of the Laplacian over the interior, times the square of the
\* number of its pixels; a picture without interior has none.
Sharpness(f) ==
    IF Width < 3 \/ Height < 3 THEN NotMeasured
    ELSE LET inside       == (1 .. Width - 2) \X (1 .. Height - 2)
             n            == Cardinality(inside)
             Laplacian(p) == 4 * f[p] - f[<<p[1] - 1, p[2]>>] - f[<<p[1] + 1, p[2]>>]
                                      - f[<<p[1], p[2] - 1>>] - f[<<p[1], p[2] + 1>>]
             sum          == MapThenSumSet(Laplacian, inside)
             squares      == MapThenSumSet(LAMBDA p : Laplacian(p) * Laplacian(p), inside)
         IN  <<n * squares - sum * sum, n * n>>

-----------------------------------------------------------------------------
(* States.                                                                    *)

\* The thresholds of light are ones that are not refused.
LightBoundsOk ==
    /\ Descending(Focus) /\ Descending(MeanLow) /\ Ascending(MeanHigh)
    /\ Ascending(DarkFraction) /\ Ascending(HighlightFraction) /\ Ascending(TileFraction)

\* Of what was measured of the page, or NotMeasured.
others == PageStates(pose)

\* A fault: what was not measured is passed over, required or not.
FaultyOptional(value, metric, state) ==
    IF value # NotMeasured THEN state ELSE "Unavailable"

\* What was not measured needs review if it is required, and else is passed over.
Optional(value, metric, state) ==
    IF value # NotMeasured THEN state ELSE IF metric \in required THEN "NeedsReview" ELSE "Unavailable"

States(f) ==
    LET dark   == Share(f, PixelsOf, IsDark)
        bright == Share(f, PixelsOf, IsBright)
    IN  [m \in Measured \cup PageMetrics |->
            CASE m = "focus" ->
                     Optional(Sharpness(f), m, HigherIsBetter(Sharpness(f), Focus))
              [] m = "underexposure" ->
                     Worst({HigherIsBetter(Average(f), MeanLow), LowerIsBetter(dark, DarkFraction)})
              [] m = "overexposure" ->
                     Worst({LowerIsBetter(Average(f), MeanHigh), LowerIsBetter(bright, HighlightFraction)})
              [] m = "glare" ->
                     Worst({LowerIsBetter(bright, HighlightFraction), LowerIsBetter(Brightest(f), TileFraction)})
              [] OTHER -> Optional(others[m], m, others[m])]

\* The verdict is the worst state; with nothing measured, somebody has to look.
Overall(states) ==
    LET evaluated == {states[m] : m \in DOMAIN states} \ {"Unavailable"}
        worst     == Worst(evaluated)
    IN  IF evaluated = {} \/ worst = "NeedsReview" THEN "NeedsReview"
        ELSE IF worst = "Warning" THEN "AcceptedWithWarnings" ELSE worst

\* Thresholds speak for production when a reviewed calibration stands behind them.
AllowsProduction ==
    /\ calibration.policyVersion > 0
    /\ calibration.state = "Calibrated"
    /\ calibration.evidence = "PhysicallyCalibratedProduction"
    /\ calibration.version > 0

-----------------------------------------------------------------------------
QualityInit ==
    /\ frame \in Frames
    /\ pose \in Poses
    /\ required \in {{}, {"focus"} \cup PageMetrics}
    /\ calibration \in {[policyVersion |-> 1, state |-> "Calibrated",
                          evidence |-> "PhysicallyCalibratedProduction", version |-> 1],
                        [policyVersion |-> 1, state |-> "Provisional",
                          evidence |-> "SyntheticFixtureRegression", version |-> 0]}
    /\ assessment = NotMeasured

Assess ==
    /\ assessment = NotMeasured
    /\ Measurable(pose)
    /\ LET states == States(frame)
       IN  assessment' = [states |-> states, overall |-> Overall(states),
                          production |-> IF AllowsProduction THEN Overall(states) ELSE NotMeasured,
                          warned |-> ~AllowsProduction]
    /\ UNCHANGED <<frame, pose, required, calibration>>

QualityNext == Assess

-----------------------------------------------------------------------------
\* A verdict follows the light. A pixel that is brighter never makes a picture
\* look better exposed to light or freer of glare, nor a darker one less dark; glare in one
\* tile is not averaged away by the others; and a picture counts as accepted for
\* production only with every required metric measured and with calibration.
VerdictFollowsLight ==
    assessment # NotMeasured =>
        LET states == assessment.states
            Rank(s, m) == Ranked[s[m]]
        IN  /\ \A p \in PixelsOf, v \in Luminances :
                  v > frame[p] =>
                     LET lighter == States([frame EXCEPT ![p] = v])
                     IN  /\ Rank(lighter, "underexposure") <= Rank(states, "underexposure")
                         /\ Rank(lighter, "overexposure") >= Rank(states, "overexposure")
                         /\ Rank(lighter, "glare") >= Rank(states, "glare")
            /\ ~Above(Share(frame, PixelsOf, IsBright), Brightest(frame))
            /\ assessment.production \in {"Accepted", "AcceptedWithWarnings"} =>
                  /\ \A m \in required \cap PageMetrics : others[m] \in {"Accepted", "Warning"}
                  /\ "focus" \in required => Sharpness(frame) # NotMeasured
                  /\ calibration.state = "Calibrated" /\ calibration.version > 0

\* What is measured of a page that is one is a number, nothing being divided by
\* zero; a part is no more than the whole; and the states do not depend on which
\* way up the page lies.
VerdictFollowsShape ==
    assessment # NotMeasured =>
        /\ ShapeIsDefined(pose) /\ ShapeIsBounded(pose)
        /\ \A m \in PageMetrics :
              assessment.states[m] = Optional(PageStates(UpsideDown(pose))[m], m,
                                              PageStates(UpsideDown(pose))[m])

\* A verdict follows what is in the picture: the light, and the page.
VerdictFollowsPicture == VerdictFollowsLight /\ VerdictFollowsShape
=============================================================================
