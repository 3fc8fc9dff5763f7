----------------------------- MODULE PageShape -----------------------------
(* What is measured of the page in a picture, and the state that thresholds   *)
(* make of each measurement (crates/a2d-image/src/quality.rs): how the page   *)
(* lies in the picture, how surely its markers were found, how far it is from *)
(* a rectangle, how many pixels it has for a millimetre, how bent its edges   *)
(* are. Corners are pixels in the order of Roles, and edge i goes from corner *)
(* i to the next. A fraction is a pair <<n, d>>, in hundredths where a bound  *)
(* is. Lengths, and what is made of lengths, enter by their squares, and so   *)
(* do the bounds of these.                                                    *)
EXTENDS PageGeometry, FiniteSetsExt, Functions

CONSTANTS Bounds,       \* measurement -> <<accepted, warning, review>>
          NotMeasured   \* None

PageMetrics == {"framing", "marker_confidence", "perspective", "resolution", "curvature"}

\* A page: its corners; the metrics that were measured; what the detector says of its
\* markers; the sizes of its paper and of its corrected picture; points seen of edges.
PagesSeen ==
    [quad : [1 .. 4 -> Int \X Int \X {1}], measured : SUBSET PageMetrics,
     decisions : (SUBSET Nat) \ {{}}, errors : (SUBSET Nat) \ {{}}, unexpected : Nat,
     paper : (Nat \ {0}) \X (Nat \ {0}), size : (Nat \ {0}) \X (Nat \ {0}),
     probes : Seq([edge : 1 .. 4, at : Nat \X (Nat \ {0}), seen : Int \X Int])]

-----------------------------------------------------------------------------
(* Thresholds and states.                                                     *)

Ranked == [Unavailable |-> 0, Accepted |-> 1, Warning |-> 2, NeedsReview |-> 3, Rejected |-> 4]

Graded(Meets(_), t) ==
    IF Meets(t[1]) THEN "Accepted" ELSE IF Meets(t[2]) THEN "Warning"
    ELSE IF Meets(t[3]) THEN "NeedsReview" ELSE "Rejected"

HigherIsBetter(v, t) == Graded(LAMBDA bound : v[1] >= bound * v[2], t)
LowerIsBetter(v, t)  == Graded(LAMBDA bound : v[1] <= bound * v[2], t)
WithinBand(v, t)     == Graded(LAMBDA band : band[1] * v[2] <= v[1] /\ v[1] <= band[2] * v[2], t)

Worst(states) == CHOOSE s \in states : \A r \in states : Ranked[r] <= Ranked[s]

\* Thresholds that are out of order are refused.
Descending(t) == t[1] > t[2] /\ t[2] > t[3]
Ascending(t)  == t[1] < t[2] /\ t[2] < t[3]
Nested(t) ==
    /\ t[3][1] <= t[2][1] /\ t[2][1] <= t[1][1]
    /\ t[1][1] < t[1][2]
    /\ t[1][2] <= t[2][2] /\ t[2][2] <= t[3][2]

BoundsOk ==
    /\ Nested(Bounds.area)
    /\ \A m \in {"margin", "decision", "fill", "source", "output"} : Descending(Bounds[m])
    /\ \A m \in {"offset", "hamming", "unexpected", "edges", "opposing", "diagonals", "bend", "spread"} :
          Ascending(Bounds[m])

-----------------------------------------------------------------------------
(* Fractions and lengths.                                                     *)

Above(a, b)   == a[1] * b[2] > b[1] * a[2]
Greatest(fs)  == CHOOSE a \in fs : \A b \in fs : ~Above(b, a)
Least(fs)     == CHOOSE a \in fs : \A b \in fs : ~Above(a, b)
Plus(a, b)    == <<a[1] * b[2] + b[1] * a[2], a[2] * b[2]>>
Magnitude(n)  == IF n < 0 THEN -n ELSE n

Distance(a, b) == (a[1] - b[1]) * (a[1] - b[1]) + (a[2] - b[2]) * (a[2] - b[2])

After == <<2, 3, 4, 1>>

Edge(quad, i) == Distance(quad[i], quad[After[i]])
Edges(quad)   == {Edge(quad, i) : i \in 1 .. 4}

Columns(quad) == {quad[i][1] : i \in 1 .. 4}
Rows(quad)    == {quad[i][2] : i \in 1 .. 4}

TwiceArea(quad) ==
    LET Term(i) == quad[i][1] * quad[After[i]][2] - quad[i][2] * quad[After[i]][1]
    IN  Magnitude(Term(1) + Term(2) + Term(3) + Term(4))

\* Four corners are measured when they are a page, its framing when the picture
\* has a size and the page is in it, and points of its edges when they are of the
\* edges; else there is an error and no verdict.
Measurable(p) ==
    /\ p.measured \ {"marker_confidence"} # {} => Valid(p.quad)
    /\ "framing" \in p.measured => Side >= 2 /\ WithinImage(p.quad)
    /\ "curvature" \in p.measured => \A i \in DOMAIN p.probes : p.probes[i].at[1] <= p.probes[i].at[2]

-----------------------------------------------------------------------------
(* Measurements.                                                              *)

Far == Side - 1

Area(quad) == <<100 * TwiceArea(quad), 2 * Far * Far>>

Margin(quad) ==
    LET near == Columns(quad) \cup Rows(quad)
    IN  <<100 * Min(near \cup {Far - n : n \in near}), Far>>

\* Of the page's centre from the picture's, as a part of half its diagonal.
Aside(quad, k) == (quad[1][k] + quad[2][k] + quad[3][k] + quad[4][k]) - 2 * Far

Offset(quad) ==
    <<100 * (Aside(quad, 1) * Aside(quad, 1) + Aside(quad, 2) * Aside(quad, 2)), 8 * Far * Far>>

\* Of the longer of two lengths to the shorter.
Ratio(a, b) == <<100 * Max({a, b}), Min({a, b})>>

EdgeRatio(quad) == <<100 * Max(Edges(quad)), Min(Edges(quad))>>

Opposing(quad) ==
    Greatest({Ratio(Edge(quad, 1), Edge(quad, 3)), Ratio(Edge(quad, 2), Edge(quad, 4))})

Diagonals(quad) == Ratio(Distance(quad[1], quad[3]), Distance(quad[2], quad[4]))

\* What the page fills of the upright box around it.
Fill(quad) ==
    LET Extent(set) == Max(set) - Min(set)
    IN  <<100 * TwiceArea(quad), 2 * Extent(Columns(quad)) * Extent(Rows(quad))>>

\* Pixels for a millimetre of the page, which is paper[1] by paper[2]: the fewest.
Source(quad, paper) ==
    Least({<<100 * Min({Edge(quad, 1), Edge(quad, 3)}), paper[1] * paper[1]>>,
           <<100 * Min({Edge(quad, 2), Edge(quad, 4)}), paper[2] * paper[2]>>})

Output(size, paper) ==
    Least({<<100 * (size[1] - 1) * (size[1] - 1), paper[1] * paper[1]>>,
           <<100 * (size[2] - 1) * (size[2] - 1), paper[2] * paper[2]>>})

\* Of a point that was seen of an edge, at a part of its way, from where the
\* straight edge has it, across the edge and as a part of its length.
Deviation(quad, probe) ==
    LET a  == quad[probe.edge]
        dx == quad[After[probe.edge]][1] - a[1]
        dy == quad[After[probe.edge]][2] - a[2]
        n  == probe.at[1]
        d  == probe.at[2]
    IN  <<Magnitude(  dx * (d * probe.seen[2] - (d * a[2] + n * dy))
                    - dy * (d * probe.seen[1] - (d * a[1] + n * dx))),
          d * (dx * dx + dy * dy)>>

Deviations(p) == [i \in DOMAIN p.probes |-> Deviation(p.quad, p.probes[i])]

Bend(p) ==
    LET top == Greatest({Deviations(p)[i] : i \in DOMAIN p.probes}) IN <<100 * top[1], top[2]>>

\* The mean of the squares.
Spread(p) ==
    LET square == [i \in DOMAIN p.probes |-> <<100 * Deviations(p)[i][1] * Deviations(p)[i][1],
                                              Deviations(p)[i][2] * Deviations(p)[i][2]>>]
        sum    == FoldFunction(Plus, <<0, 1>>, square)
    IN  <<sum[1], sum[2] * Len(p.probes)>>

-----------------------------------------------------------------------------
(* States.                                                                    *)

Framing(p) ==
    Worst({WithinBand(Area(p.quad), Bounds.area), HigherIsBetter(Margin(p.quad), Bounds.margin),
           LowerIsBetter(Offset(p.quad), Bounds.offset)})

MarkerConfidence(p) ==
    Worst({HigherIsBetter(<<Min(p.decisions), 1>>, Bounds.decision),
           LowerIsBetter(<<Max(p.errors), 1>>, Bounds.hamming),
           LowerIsBetter(<<p.unexpected, 1>>, Bounds.unexpected)})

Perspective(p) ==
    Worst({LowerIsBetter(EdgeRatio(p.quad), Bounds.edges), LowerIsBetter(Opposing(p.quad), Bounds.opposing),
           LowerIsBetter(Diagonals(p.quad), Bounds.diagonals), HigherIsBetter(Fill(p.quad), Bounds.fill)})

Resolution(p) ==
    Worst({HigherIsBetter(Source(p.quad, p.paper), Bounds.source),
           HigherIsBetter(Output(p.size, p.paper), Bounds.output)})

Curvature(p) ==
    Worst({LowerIsBetter(Bend(p), Bounds.bend), LowerIsBetter(Spread(p), Bounds.spread)})

PageState(p, m) ==
    IF m \notin p.measured \/ (m = "curvature" /\ p.probes = <<>>) THEN NotMeasured
    ELSE CASE m = "framing"           -> Framing(p)
           [] m = "marker_confidence" -> MarkerConfidence(p)
           [] m = "perspective"       -> Perspective(p)
           [] m = "resolution"        -> Resolution(p)
           [] m = "curvature"         -> Curvature(p)

PageStates(p) == [m \in PageMetrics |-> PageState(p, m)]

-----------------------------------------------------------------------------
\* What is measured of a page is a number: nothing is divided by zero.
ShapeIsDefined(p) ==
    /\ "framing" \in p.measured =>
          \A v \in {Area(p.quad), Margin(p.quad), Offset(p.quad)} : v[2] > 0
    /\ "perspective" \in p.measured =>
          \A v \in {EdgeRatio(p.quad), Opposing(p.quad), Diagonals(p.quad), Fill(p.quad)} : v[2] > 0
    /\ "resolution" \in p.measured =>
          Source(p.quad, p.paper)[2] > 0 /\ Output(p.size, p.paper)[2] > 0
    /\ "curvature" \in p.measured => \A i \in DOMAIN p.probes : Deviations(p)[i][2] > 0

\* Opposite edges of a page differ no more than any two edges, and a page fills no
\* more than the box around it and than the picture it is in.
ShapeIsBounded(p) ==
    /\ "perspective" \in p.measured =>
          ~Above(Opposing(p.quad), EdgeRatio(p.quad)) /\ Fill(p.quad)[1] \in 1 .. 100 * Fill(p.quad)[2]
    /\ "framing" \in p.measured => Area(p.quad)[1] \in 1 .. 100 * Area(p.quad)[2]

\* The page as it is when it lies upside down in the same place.
Opposite == <<3, 4, 1, 2>>

UpsideDown(p) ==
    [p EXCEPT !.quad = [i \in 1 .. 4 |-> p.quad[Opposite[i]]],
              !.probes = [i \in DOMAIN p.probes |-> [p.probes[i] EXCEPT !.edge = Opposite[@]]]]
=============================================================================
