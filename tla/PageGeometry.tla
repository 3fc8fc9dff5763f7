---------------------------- MODULE PageGeometry ----------------------------
(* The correction of perspective: quadrilaterals, the projective transform    *)
(* from four correspondences, the plan of a rectification and the pixels it   *)
(* samples (crates/a2d-image/src/rectification.rs, detection.rs). The code    *)
(* computes in floating point; here a point is <<x, y, w>>, in integers, and  *)
(* stands for (x/w, y/w), so that every comparison is exact and the           *)
(* tolerances of the code are zero.                                           *)
EXTENDS Integers, Sequences

CONSTANTS Side,     \* pixels on a side of the picture the camera took
          Out,      \* pixels on a side of the corrected page
          Inset     \* pixels between an edge of the corrected page and a marker's centre

Roles == <<"TopLeft", "TopRight", "BottomRight", "BottomLeft">>

Point(x, y) == <<x, y, 1>>

Sign(n) == IF n > 0 THEN 1 ELSE IF n < 0 THEN -1 ELSE 0

\* Twice the area of the triangle a, b, c, of which only the sign is of use.
Cross(a, b, c) ==
    Sign(  a[1] * (b[2] * c[3] - b[3] * c[2])
         - a[2] * (b[1] * c[3] - b[3] * c[1])
         + a[3] * (b[1] * c[2] - b[2] * c[1]))

-----------------------------------------------------------------------------
\* Four corners in the order of Roles are a page: no edge of length zero, no
\* three neighbours on a line, no opposite edges that meet, all turns alike.
Valid(quad) ==
    LET At(i)   == quad[(i % 4) + 1]
        turn(i) == Cross(At(i), At(i + 1), At(i + 2))
    IN  \E turns \in {-1, 1} : \A i \in 0 .. 3 : turn(i) = turns

Inside(p) == /\ 0 <= p[1] /\ p[1] <= (Side - 1) * p[3]
             /\ 0 <= p[2] /\ p[2] <= (Side - 1) * p[3]

WithinImage(quad) == /\ \A i \in 1 .. 4 : quad[i][3] > 0 /\ Inside(quad[i])
                     /\ Valid(quad)

\* Where the markers of the layout lie on the corrected page.
MarkerPlaces ==
    LET near == Inset
        far  == Out - 1 - Inset
    IN  <<Point(near, near), Point(far, near), Point(far, far), Point(near, far)>>

PageCorners == <<Point(0, 0), Point(Out - 1, 0), Point(Out - 1, Out - 1), Point(0, Out - 1)>>

\* The transform from the corrected page to the picture that sends MarkerPlaces
\* to quad, as the columns <<x, y, w>> of its matrix. It is singular when three
\* of the corners lie on a line.
FromQuad(quad) ==
    LET X(i) == quad[i][1]
        Y(i) == quad[i][2]
        dx1 == X(2) - X(3)    dx2 == X(4) - X(3)    sx == X(1) - X(2) + X(3) - X(4)
        dy1 == Y(2) - Y(3)    dy2 == Y(4) - Y(3)    sy == Y(1) - Y(2) + Y(3) - Y(4)
        det == dx1 * dy2 - dx2 * dy1
        g   == sx * dy2 - sy * dx2
        h   == dx1 * sy - dy1 * sx
    IN  <<<<(X(2) - X(1)) * det + g * X(2), (Y(2) - Y(1)) * det + g * Y(2), g>>,
          <<(X(4) - X(1)) * det + h * X(4), (Y(4) - Y(1)) * det + h * Y(4), h>>,
          <<X(1) * det, Y(1) * det, det>>>>

\* The point of the picture that a pixel of the corrected page shows. It has a
\* weight of zero when the transform sends the pixel to infinity.
ToSource(m, pixel) ==
    LET unit == Out - 1 - 2 * Inset
        u    == pixel[1] - Inset
        v    == pixel[2] - Inset
        q(k) == m[1][k] * u + m[2][k] * v + m[3][k] * unit
        s    == IF q(3) < 0 THEN -1 ELSE 1
    IN  <<s * q(1), s * q(2), s * q(3)>>

-----------------------------------------------------------------------------
Pixels == {Point(x, y) : x, y \in 0 .. Out - 1}

\* The corners of the whole page, extrapolated from the centres of its markers.
SourceCorners(quad) ==
    LET m == FromQuad(quad) IN [i \in 1 .. 4 |-> ToSource(m, PageCorners[i])]

\* A fault: only the centres of the markers are checked.
FaultyPlanAccepts(quad) == WithinImage(quad)

\* A plan is made for markers whose quadrilateral is one in the picture and
\* whose page is one in the picture too.
PlanAccepts(quad) == WithinImage(quad) /\ WithinImage(SourceCorners(quad))

\* A pixel is read where the transform sends it, which must be in the picture.
Samples(quad, pixel) ==
    LET p == ToSource(FromQuad(quad), pixel) IN p[3] > 0 /\ Inside(p)

\* The pixel that shows a place of the picture is at this place of the page.
Shows(quad, pixel, place) ==
    LET p == ToSource(FromQuad(quad), pixel)
    IN  p[3] > 0 /\ p[1] = place[1] * p[3] /\ p[2] = place[2] * p[3]

-----------------------------------------------------------------------------
(* The markers of a page among the tags a detector returns.                   *)

\* tags is what was found, a sequence of [id, at]; layout gives each role its id.
TagsAgree(tags, layout) ==
    /\ \A i, j \in 1 .. Len(tags) : tags[i].id = tags[j].id => i = j
    /\ \A r \in 1 .. 4 : \E i \in 1 .. Len(tags) : tags[i].id = layout[Roles[r]]
    /\ \A i, j \in 1 .. Len(tags) :
          tags[i].id = layout["TopLeft"] /\ tags[j].id = layout["TopRight"]
             => tags[i].at # tags[j].at

CentreOf(tags, id) == tags[CHOOSE i \in 1 .. Len(tags) : tags[i].id = id].at

MarkerQuad(tags, layout) == [r \in 1 .. 4 |-> CentreOf(tags, layout[Roles[r]])]
=============================================================================
