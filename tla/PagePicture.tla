----------------------------- MODULE PagePicture -----------------------------
(* What Rust makes of a picture of a page: the preview shown for review and,  *)
(* once it is approved, the processing of the same bytes for registration     *)
(* (crates/a2d-ffi/src/policy_preview_processing.rs, crates/a2d-core/src/     *)
(* milestone9.rs, crates/a2d-image/src). Each stage is a step, so that a      *)
(* request to cancel comes between any two, and the buffers that are alive    *)
(* are counted. The values of the pixels are left out.                        *)
EXTENDS PageGeometry, FiniteSets, FiniteSetsExt

CONSTANTS Places,        \* a sequence of four sets: where the centre of each marker may be
          MaxBytes, MaxPixels, MaxDecoded,       \* of the encoded and of the decoded picture
          MaxOutPixels, MaxOutBytes,             \* of the corrected page
          MaxImagePixels, MaxImageBytes,         \* of each derived image
          MaxTotalBytes, MaxWorkingBytes,        \* of all of them, and of what is alive at once
          ThumbWidth, ThumbHeight,
          SharpenPasses                                 \* of sharpening

VARIABLES picture,     \* the bytes of the capture, and what a decoder and a detector find in them
          pass,        \* "none", "preview", or "registration"
          stage,       \* the stage that is next
          sharpened,   \* passes of sharpening that are done
          buffers,     \* the buffers that are alive
          cancelled,   \* the flag of the preview's cancellation
          outcome,     \* pass -> what came of it
          markers      \* pass -> the ids it found, by role

pictureVars == <<picture, pass, stage, sharpened, buffers, cancelled, outcome, markers>>

Layout == [TopLeft |-> 0, TopRight |-> 1, BottomRight |-> 2, BottomLeft |-> 3]

Tag(id, at) == [id |-> id, at |-> at]

Tags(quad) == [r \in 1 .. 4 |-> Tag(Layout[Roles[r]], quad[r])]

\* The tags in the order in which a page shows them when it is turned or mirrored,
\* and with two exchanged, as no flat page shows them.
Turned(quad) == {quad,
                 <<quad[3], quad[4], quad[1], quad[2]>>,
                 <<quad[2], quad[1], quad[4], quad[3]>>,
                 <<quad[1], quad[3], quad[2], quad[4]>>}

Sound == [bytes |-> MaxBytes, signed |-> TRUE, side |-> Side, decodes |-> TRUE, tags |-> <<>>]

Quads == {quad \in [1 .. 4 -> UNION {Places[r] : r \in 1 .. 4}] :
              \A r \in 1 .. 4 : quad[r] \in Places[r]}

\* A picture from the camera or a file: any page in view, and with one page in
\* view any trouble with its bytes or its tags.
Pictures ==
    LET q  == CHOOSE quad \in Quads : PlanAccepts(quad)
        ok == [Sound EXCEPT !.tags = Tags(q)]
    IN  {[Sound EXCEPT !.tags = Tags(t)] : t \in UNION {Turned(quad) : quad \in Quads}}
        \cup {[ok EXCEPT !.bytes = 0], [ok EXCEPT !.bytes = MaxBytes + 1], [ok EXCEPT !.signed = FALSE],
              [ok EXCEPT !.decodes = FALSE], [ok EXCEPT !.side = Side + 1], [ok EXCEPT !.side = 1]}
        \cup {[ok EXCEPT !.tags = Tail(@)], [ok EXCEPT !.tags = Append(@, @[1])],
              [ok EXCEPT !.tags = Append(@, Tag(9, Point(0, 0)))]}

-----------------------------------------------------------------------------
(* Sizes.                                                                     *)

SourcePixels == picture.side * picture.side
OutPixels    == Out * Out

\* The largest size within the bounds that has the proportions of the page.
Thumbnail(w, h) ==
    IF w <= ThumbWidth /\ h <= ThumbHeight THEN <<w, h>>
    ELSE IF ThumbWidth * h <= ThumbHeight * w
         THEN <<ThumbWidth, Max({(h * ThumbWidth) \div w, 1})>>
         ELSE <<Max({(w * ThumbHeight) \div h, 1}), ThumbHeight>>

ThumbPixels == LET size == Thumbnail(Out, Out) IN size[1] * size[2]

Bytes == [source |-> 3 * SourcePixels, copy |-> 3 * SourcePixels, gray |-> SourcePixels,
          native |-> SourcePixels,
          corrected |-> 3 * OutPixels, ocr |-> OutPixels, scratch |-> OutPixels,
          thumbnail |-> 3 * ThumbPixels]

Derived == {"corrected", "ocr", "scratch", "thumbnail"}

Weight(set) == MapThenSumSet(LAMBDA b : Bytes[b], set)

\* The sizes a policy asks for are within its limits for corrected pages.
SizeAccepted ==
    Out >= 2 /\ OutPixels <= MaxOutPixels /\ 3 * OutPixels <= MaxOutBytes

\* The images that will be derived are within the limits for each, for their sum
\* and for the sum with a copy of the OCR image.
BudgetAccepted ==
    LET total == 4 * OutPixels + 3 * ThumbPixels
    IN  /\ OutPixels <= MaxImagePixels /\ 3 * OutPixels <= MaxImageBytes
        /\ ThumbPixels <= MaxImagePixels /\ 3 * ThumbPixels <= MaxImageBytes
        /\ total <= MaxTotalBytes
        /\ total + OutPixels <= MaxWorkingBytes

-----------------------------------------------------------------------------
(* Ends of a pass. All it allocated is dropped, and the registration follows  *)
(* a preview that was approved.                                               *)

End(result) ==
    /\ stage' = "ended"
    /\ outcome' = [outcome EXCEPT ![pass] = result]
    /\ buffers' = {}
    /\ UNCHANGED <<picture, pass, sharpened, cancelled, markers>>

Proceed(next, alive) ==
    /\ stage' = next
    /\ buffers' = alive
    /\ UNCHANGED <<picture, pass, sharpened, cancelled, outcome, markers>>

\* A fault: the registration looks at the flag of the review.
FaultyIsCancelled == cancelled

\* The flag belongs to the preview; a registration gets one nobody can set.
IsCancelled == pass = "preview" /\ cancelled

\* The user leaves the review.
Cancel ==
    /\ pass = "preview" /\ ~cancelled
    /\ cancelled' = TRUE
    /\ UNCHANGED <<picture, pass, stage, sharpened, buffers, outcome, markers>>

Begin(p) ==
    /\ \/ p = "preview" /\ pass = "none"
       \/ p = "registration" /\ pass = "preview" /\ stage = "ended" /\ outcome["preview"] = "done"
    /\ pass' = p
    /\ stage' = "decode"
    /\ sharpened' = 0
    /\ UNCHANGED <<picture, buffers, cancelled, outcome, markers>>

-----------------------------------------------------------------------------
(* The analysis.                                                              *)

\* The bytes are neither too many nor none, begin as their format does, and the
\* decoder makes a picture of them whose size is within the limits.
DecodedWithin ==
    /\ picture.bytes \in 1 .. MaxBytes /\ picture.signed /\ picture.decodes
    /\ SourcePixels <= MaxPixels /\ 3 * SourcePixels <= MaxDecoded

Decode ==
    /\ stage = "decode"
    /\ IF IsCancelled THEN End("cancelled")
       ELSE IF DecodedWithin THEN Proceed("gray", {"source", "copy"}) ELSE End("refused")

\* The copy becomes the gray image a detector can borrow.
ToGray ==
    /\ stage = "gray"
    /\ IF SourcePixels <= MaxPixels THEN Proceed("measure", {"source", "gray"}) ELSE End("refused")

\* Brightness is measured over the whole picture and tiles of it, sharpness over
\* its interior; the detector works on a copy of its own.
Measure ==
    /\ stage = "measure"
    /\ Proceed("detect", buffers \cup {"native"})

\* The tags are matched with the layout's roles: each role once, no id twice.
Detect ==
    /\ stage = "detect"
    /\ IF TagsAgree(picture.tags, Layout)
       THEN /\ stage' = "analysed"
            /\ buffers' = buffers \ {"native"}
            /\ markers' = [markers EXCEPT ![pass] = [r \in DOMAIN Layout |-> Layout[r]]]
            /\ UNCHANGED <<picture, pass, sharpened, cancelled, outcome>>
       ELSE End("refused")

Quad == MarkerQuad(picture.tags, Layout)

\* A preview looks at its flag once more; the page must be planned for.
Plan ==
    /\ stage = "analysed"
    /\ IF IsCancelled THEN End("cancelled")
       ELSE IF picture.side >= 2 /\ SizeAccepted /\ PlanAccepts(Quad)
            THEN Proceed("preflight", buffers) ELSE End("refused")

-----------------------------------------------------------------------------
(* The derived images. Every stage looks at the flag before it begins.        *)

Stage(name) == stage = name

Preflight ==
    /\ Stage("preflight")
    /\ IF IsCancelled THEN End("cancelled")
       ELSE IF BudgetAccepted THEN Proceed("rectify", buffers) ELSE End("overBudget")

\* Each pixel of the page is read at its place in the picture.
Rectify ==
    /\ Stage("rectify")
    /\ IF IsCancelled THEN End("cancelled")
       ELSE IF \A pixel \in Pixels : Samples(Quad, pixel)
            THEN Proceed("ocr", buffers \cup {"corrected"}) ELSE End("outOfBounds")

\* A gray image for OCR, whose contrast is stretched in place.
ToOcr ==
    /\ Stage("ocr")
    /\ IF IsCancelled THEN End("cancelled")
       ELSE Proceed("contrast", buffers \cup {"ocr"})

NormalizeContrast ==
    /\ Stage("contrast")
    /\ IF IsCancelled THEN End("cancelled")
       ELSE Proceed(IF SharpenPasses > 0 THEN "sharpen" ELSE "thumbnail", buffers)

\* A pass of sharpening reads a copy of the image that it writes.
Sharpen ==
    /\ Stage("sharpen")
    /\ IF IsCancelled THEN End("cancelled")
       ELSE Proceed("sharpening", buffers \cup {"scratch"})

Sharpened ==
    /\ Stage("sharpening")
    /\ sharpened' = sharpened + 1
    /\ buffers' = buffers \ {"scratch"}
    /\ stage' = IF sharpened + 1 < SharpenPasses THEN "sharpen" ELSE "thumbnail"
    /\ UNCHANGED <<picture, pass, cancelled, outcome, markers>>

MakeThumbnail ==
    /\ Stage("thumbnail")
    /\ IF IsCancelled THEN End("cancelled")
       ELSE Proceed("assemble", buffers \cup {"thumbnail"})

Assemble ==
    /\ Stage("assemble")
    /\ IF IsCancelled THEN End("cancelled") ELSE Proceed("deliver", buffers)

\* The preview looks at its flag a last time. A registration compares the markers
\* with those the user approved.
Deliver ==
    /\ Stage("deliver")
    /\ IF IsCancelled THEN End("cancelled")
       ELSE IF pass = "registration" /\ markers["registration"] # markers["preview"]
            THEN End("changed") ELSE End("done")

-----------------------------------------------------------------------------
NoMarkers == [r \in DOMAIN Layout |-> -1]

PictureInit ==
    /\ picture \in Pictures
    /\ pass = "none" /\ stage = "ended" /\ sharpened = 0
    /\ buffers = {} /\ cancelled = FALSE
    /\ outcome = [p \in {"preview", "registration"} |-> "none"]
    /\ markers = [p \in {"preview", "registration"} |-> NoMarkers]

PictureNext ==
    \/ \E p \in {"preview", "registration"} : Begin(p)
    \/ Cancel
    \/ Decode \/ ToGray \/ Measure \/ Detect \/ Plan
    \/ Preflight \/ Rectify \/ ToOcr \/ NormalizeContrast
    \/ Sharpen \/ Sharpened \/ MakeThumbnail \/ Assemble \/ Deliver

-----------------------------------------------------------------------------
(* Properties.                                                                *)

\* A page the plan accepts is read inside the picture at every pixel, and the
\* markers are where the layout puts them: the check of four extrapolated corners
\* (RectificationPlan::from_page_markers) is enough for all pixels between them.
PageIsInPicture ==
    /\ \A p \in DOMAIN outcome : outcome[p] # "outOfBounds"
    /\ "corrected" \in buffers =>
          \A r \in 1 .. 4 : Shows(Quad, MarkerPlaces[r], Quad[r])

\* What the user approved is registered: the second processing of the bytes ends
\* as the first did, with the same markers, and neither runs into the budget of
\* derived images, which at every moment covers what is alive.
ApprovedIsRegistered ==
    /\ outcome["registration"] \in {"none", "done"}
    /\ outcome["preview"] # "overBudget"
    /\ Weight(buffers \cap Derived) <= MaxWorkingBytes

=============================================================================
