--------------------------- MODULE ScanComparison ---------------------------
(* The comparison of two stored scans of a page: what it demands of the two,  *)
(* the difference of their fingerprints, and the search for regions of change *)
(* in it, a cell at a time. A fingerprint names the bytes of the corrected    *)
(* picture by their digest and keeps the mean brightness of each cell of a    *)
(* grid, whose cells are numbered row by row.                                 *)
EXTENDS Integers, Sequences, FiniteSetsExt

CONSTANTS Width, Height,  \* PERCEPTUAL_FINGERPRINT_V1_WIDTH and _HEIGHT
          Libraries,      \* what may be stored, each a function on its scans
          Thresholds,     \* minimum_cell_absolute_difference, as callers pass it
          None            \* Option::None

VARIABLES stored,      \* the scans, with their corrected assets and the files of these
          asked,       \* the baseline and the candidate of the request
          search,      \* "idle", "next" (in the for loop), "fill" (in the while loop) or "done"
          difference,  \* cell_absolute_differences
          threshold,
          start,       \* start_index
          visited, pending, region, regions,
          evidence     \* StoredScanComparisonEvidence

comparisonVars ==
    <<stored, asked, search, difference, threshold, start, visited, pending, region, regions, evidence>>

Count == Width * Height
Cells == 0..(Count - 1)
Scans == DOMAIN stored

\* A scan is of a page, has the version of its pipeline, its fingerprint, the
\* recorded digest of its corrected asset (None without a row of that kind),
\* the digest of the file that is there, and the copy of the page it was taken
\* of, if known. A fingerprint in hexadecimal digits has a byte for a cell.
ASSUME ComparisonAssumption ==
    /\ Width \in Nat \ {0} /\ Height \in Nat \ {0} /\ Thresholds \subseteq 0..255
    /\ \A library \in Libraries : \A s \in DOMAIN library :
          LET cells == library[s].print.cells IN \A c \in DOMAIN cells : cells[c] \in 0..255

-----------------------------------------------------------------------------
\* The fingerprint of a picture: the mean of each block of its pixels, rounded.

\* Part i of n pixels in a line that are divided into k.
Part(i, k, n) == ((i * n) \div k)..(((i + 1) * n) \div k - 1)

Block(c, image) ==
    Part(c % Width, Width, image.width) \X Part(c \div Width, Height, image.height)

LargeEnough(image) == image.width >= Width /\ image.height >= Height

Mean(block, image) ==
    LET count == Cardinality(block)
    IN  (MapThenSumSet(LAMBDA p : image.pixels[p], block) + count \div 2) \div count

\* A picture that is turned, or has fewer pixels than cells, has none.
from_gray_image(image) ==
    IF image.upright /\ LargeEnough(image)
    THEN [c \in Cells |-> Mean(Block(c, image), image)] ELSE None

-----------------------------------------------------------------------------
\* The request.

IsGrid(cells) == DOMAIN cells = Cells

\* Other versions of fingerprints do not parse.
Understood(print) == print.version = "scan-content-v1" /\ IsGrid(print.cells)

Genuine(scan) ==
    /\ scan.pipeline # "" /\ Understood(scan.print) /\ scan.asset # None
    /\ scan.asset = scan.print.digest /\ scan.file = scan.asset

Difference(a, b) ==
    [c \in Cells |-> IF a.cells[c] < b.cells[c] THEN b.cells[c] - a.cells[c]
                                                ELSE a.cells[c] - b.cells[c]]

\* Both loops start over with what the first has found so far, nothing.
NoRegion == [left |-> Width, top |-> Height, right |-> 0, bottom |-> 0, maximum |-> 0, cells |-> {}]

ComparisonInit ==
    /\ stored \in Libraries /\ asked = <<>> /\ search = "idle" /\ evidence = None
    /\ difference = [c \in Cells |-> 0] /\ threshold = 1
    /\ start = 0 /\ visited = {} /\ pending = {} /\ region = NoRegion /\ regions = <<>>

ThresholdOk(t) == t > 0

\* The scans are read under the mutex, their files after it was released; none
\* of these is ever written again.
compare_stored_scans(b, c, t) ==
    /\ search \in {"idle", "done"}
    /\ b # c /\ ThresholdOk(t) /\ stored[b].page = stored[c].page
    /\ Genuine(stored[b]) /\ Genuine(stored[c])
    /\ asked' = <<b, c>> /\ threshold' = t /\ search' = "next" /\ evidence' = None
    /\ difference' = Difference(stored[b].print, stored[c].print)
    /\ start' = 0 /\ visited' = {} /\ pending' = {} /\ region' = NoRegion /\ regions' = <<>>
    /\ UNCHANGED stored

-----------------------------------------------------------------------------
\* The search for regions.

Column(c) == c % Width
Row(c)    == c \div Width

Neighbours(c) ==
    {d \in Cells :
        \/ Column(c) > 0 /\ d = c - 1
        \/ Column(c) + 1 < Width /\ d = c + 1
        \/ Row(c) > 0 /\ d = c - Width
        \/ Row(c) + 1 < Height /\ d = c + Width}

Changed == {c \in Cells : difference[c] >= threshold}

Smaller(a, b) == IF a < b THEN a ELSE b
Larger(a, b)  == IF a < b THEN b ELSE a

Skip ==
    /\ search = "next" /\ start < Count /\ (start \in visited \/ start \notin Changed)
    /\ start' = start + 1
    /\ UNCHANGED <<stored, asked, search, difference, threshold, visited, pending, region, regions, evidence>>

Start ==
    /\ search = "next" /\ start < Count /\ start \notin visited /\ start \in Changed
    /\ search' = "fill" /\ visited' = visited \cup {start} /\ pending' = {start} /\ region' = NoRegion
    /\ UNCHANGED <<stored, asked, difference, threshold, start, regions, evidence>>

\* Faulty: the search never turns back.
FaultyUnseen(c) == {d \in Neighbours(c) : d \notin visited /\ d \in Changed /\ d > c}
Unseen(c)       == {d \in Neighbours(c) : d \notin visited /\ d \in Changed}

\* The order in which pending cells are taken is not seen: a region's cells are
\* sorted when it is complete.
Take(c) ==
    /\ search = "fill" /\ c \in pending
    /\ pending' = (pending \ {c}) \cup Unseen(c) /\ visited' = visited \cup Unseen(c)
    /\ region' = [left    |-> Smaller(region.left, Column(c)),
                  top     |-> Smaller(region.top, Row(c)),
                  right   |-> Larger(region.right, Column(c) + 1),
                  bottom  |-> Larger(region.bottom, Row(c) + 1),
                  maximum |-> Larger(region.maximum, difference[c]),
                  cells   |-> region.cells \cup {c}]
    /\ UNCHANGED <<stored, asked, search, difference, threshold, start, regions, evidence>>

Close ==
    /\ search = "fill" /\ pending = {}
    /\ regions' = Append(regions, region) /\ start' = start + 1 /\ search' = "next"
    /\ UNCHANGED <<stored, asked, difference, threshold, visited, pending, region, evidence>>

\* What is said of two fingerprints. Only what is exact is conclusive; of all
\* else it is said that thresholds have not been calibrated.
Verdict(a, b) ==
    LET same  == a.digest = b.digest
        equal == \A c \in Cells : difference[c] = 0
    IN  [hashMatch |-> same, exact |-> same /\ equal,
         content |-> IF equal THEN "match" ELSE IF regions = <<>> THEN "below" ELSE "regions"]

Finish ==
    LET a == stored[asked[1]]
        b == stored[asked[2]]
    IN
    /\ search = "next" /\ start = Count
    /\ search' = "done"
    /\ evidence' = [verdict |-> Verdict(a.print, b.print),
                    samePipeline |-> a.pipeline = b.pipeline,
                    sameCopy |-> IF None \in {a.copy, b.copy} THEN None ELSE a.copy = b.copy]
    /\ UNCHANGED <<stored, asked, difference, threshold, start, visited, pending, region, regions>>

ComparisonNext ==
    \/ \E b, c \in Scans, t \in Thresholds : compare_stored_scans(b, c, t)
    \/ Skip \/ Start \/ (\E c \in pending : Take(c)) \/ Close \/ Finish

-----------------------------------------------------------------------------
(* "Groups threshold-matching cells using four-neighbor connectivity": when   *)
(* the search is done each changed cell is in one region and no other cell is *)
(* in any, cells of two regions are never neighbours, and no part of a region *)
(* is cut off from the rest of it; regions are listed by their first cells.   *)
RegionsAreComponents ==
    search = "done" =>
        /\ UNION {regions[k].cells : k \in DOMAIN regions} = Changed
        /\ \A k \in DOMAIN regions :
              LET cells == regions[k].cells IN
              /\ cells # {}
              /\ \A c \in cells : Neighbours(c) \cap Changed \subseteq cells
              /\ \A part \in (SUBSET cells) \ {{}} :
                    (\A c \in part : Neighbours(c) \cap cells \subseteq part) => part = cells
        /\ \A j, k \in DOMAIN regions :
              j < k => \E c \in regions[j].cells : \A d \in regions[k].cells : c < d

(* The box of a region is the smallest that holds its cells, and the greatest *)
(* of its differences is one of theirs.                                       *)
BoxesAreTight ==
    search = "done" =>
        \A k \in DOMAIN regions : LET r == regions[k] IN
            /\ \A c \in r.cells :
                  /\ Column(c) \in r.left..(r.right - 1) /\ Row(c) \in r.top..(r.bottom - 1)
                  /\ difference[c] <= r.maximum
            /\ \E c \in r.cells : Column(c) = r.left
            /\ \E c \in r.cells : Row(c) = r.top
            /\ \E c \in r.cells : Column(c) = r.right - 1
            /\ \E c \in r.cells : Row(c) = r.bottom - 1
            /\ \E c \in r.cells : difference[c] = r.maximum

(* What is reported is so of the files: "exact" only of two files that are    *)
(* equal byte for byte, "below" the threshold only if no cell reaches it and  *)
(* some cell differs, "regions" only if some cell reaches it.                 *)
EvidenceIsTrue ==
    search = "done" =>
        LET a == stored[asked[1]]
            b == stored[asked[2]]
        IN
        /\ evidence.verdict.hashMatch <=> a.file = b.file
        /\ evidence.verdict.exact => a.file = b.file /\ \A c \in Cells : a.print.cells[c] = b.print.cells[c]
        /\ evidence.verdict.content = "match" <=> \A c \in Cells : a.print.cells[c] = b.print.cells[c]
        /\ evidence.verdict.content = "regions" <=> Changed # {}

(* The evidence of a comparison, which a user decides on without a second look*)
(* at the pictures, is exact in all it says of files, cells and regions.      *)
ComparisonIsTrue == RegionsAreComponents /\ BoxesAreTight /\ EvidenceIsTrue
=============================================================================
