----------------------------- MODULE MCLibrary -----------------------------
(* Six models side by side: a behaviour is one of the asset files and their   *)
(* integrity check, of the rows of a page, of an OCR queue of capacity one    *)
(* whose callers mix the older record and complete calls with finalization,   *)
(* of the openings of a library, of comparisons of two scans, or of a job     *)
(* under the contract of the OCR providers. What is assumed of QrPayload      *)
(* checks the texts of some printed codes.                                    *)
EXTENDS IntegrityCheck, PageHistory, ScanComparison, OcrContract, QrPayload, FiniteSets

CONSTANTS Versions, Guarded,
          JobIds, OcrScans, OcrKinds, Outcomes, NoTime, Callers, NoCall

VARIABLES part, jobs, runs, tickets, calls, claim, wal, build, at, next

queueVars   == <<jobs, runs, tickets, calls, claim>>
openingVars == <<wal, build, at, next>>

ASSUME VersionsAssumption == Versions \in Nat

Opening == INSTANCE LibraryOpening

Queue == INSTANCE OcrQueue
             WITH Scans <- OcrScans, Kinds <- OcrKinds, MaxActive <- 1, MaxAttempts <- 2,
                  BaseDelay <- 0, MaxDelay <- 0, Times <- {0}, LegacyRows <- {},
                  SplitApi <- TRUE, MaxRuns <- 1, Idle <- NoCall, pending <- calls

\* What OcrQueue assumes of its constants and this module's give no value to.
ASSUME QueueAssumption ==
    /\ JobIds \subseteq Int /\ IsFiniteSet(JobIds)
    /\ OcrScans # {} /\ OcrKinds # {}
    /\ Outcomes \subseteq Queue!AllOutcomes
    /\ NoTime \notin Int
    /\ NoCall \notin OcrScans \X OcrKinds /\ NoCall \notin {0} \X {0}

-----------------------------------------------------------------------------
\* Scans to compare, on a grid of two by three cells: a blank page and one that
\* was drawn on, or with each thing that a comparison refuses.

Blank == [c \in Cells |-> 9]
Drawing(digest, cells) ==
    [page |-> "page", pipeline |-> "v1", asset |-> digest,
     print |-> [version |-> "scan-content-v1", digest |-> digest, cells |-> cells],
     file |-> digest, copy |-> None]

Unfit(scan) ==
    {[scan EXCEPT !.page = "other"], [scan EXCEPT !.pipeline = ""], [scan EXCEPT !.print.version = "exact-sha256-v1"],
     [scan EXCEPT !.asset = None], [scan EXCEPT !.asset = "b", !.file = "b"],
     [scan EXCEPT !.file = "b"]}

Compared ==
    {<<Drawing("a", Blank), Drawing("b", cells)>> : cells \in [Cells -> {9, 8, 6}]}
    \cup {<<Drawing("a", Blank), [Drawing("a", Blank) EXCEPT !.copy = "x"], scan>> :
             scan \in Unfit(Drawing("c", Blank))}

AnyThreshold == {0, 1, 3}

\* The print of a picture of five by four pixels, some of them dark, is within
\* the brightness of its pixels, and shows none but the cells that have dark ones.
Sample == INSTANCE ScanComparison WITH Width <- 2, Height <- 3
Picture(dark) == [width |-> 5, height |-> 4, upright |-> TRUE,
                  pixels |-> [p \in (0..4) \X (0..3) |-> IF p \in dark THEN 3 ELSE 9]]
ASSUME PrintAssumption ==
    \A dark \in SUBSET ((1..2) \X (0..2)) :
        LET print == Sample!from_gray_image(Picture(dark)) IN
        \A c \in 0..5 : LET block == Sample!Block(c, Picture(dark)) IN
            /\ print[c] \in 3..9
            /\ print[c] = 9 <=> block \cap dark = {}
            /\ print[c] = 3 <=> block \subseteq dark

-----------------------------------------------------------------------------
\* A job that texts of up to two bytes are asked for, and answers to it, to
\* another request and to one whose picture is too large.

Limits == [dimension |-> 4, pixels |-> 9, text |-> 2, regions |-> 1, regionText |-> 2,
           languages |-> 1, warnings |-> 1, warningText |-> 2]
Request(key, height) ==
    [source |-> [key |-> key, width |-> 3, height |-> height], hint |-> Absent,
     languages |-> <<>>, limits |-> Limits]
AnyRequest == {Request("a", 3), Request("b", 3), Request("a", 4)}

Region(right) ==
    [text |-> 1, polygon |-> <<[x |-> 0, y |-> 0], [x |-> 3, y |-> 0], [x |-> 3, y |-> 3]>>,
     box |-> [left |-> 0, top |-> 0, right |-> right, bottom |-> 3],
     confidence |-> [available |-> TRUE, percent |-> 90],
     languages |-> <<[bytes |-> 1, allowed |-> TRUE]>>]
Recognized(presence, found) ==
    [kind |-> "Recognized", provider |-> [name |-> 1, version |-> 1, model |-> Absent],
     presence |-> presence, text |-> 0, regions |-> found, languages |-> <<>>,
     warnings |-> <<[code |-> [bytes |-> 1, allowed |-> TRUE], key |-> 1, message |-> 1]>>]
Unavailable(temporary, message) ==
    [kind |-> "Unavailable", provider |-> Absent, retryable |-> temporary, message |-> message,
     warnings |-> <<>>]
Answers ==
    {Recognized("Detected", <<Region(3)>>), Recognized("Detected", <<Region(4)>>),
     Recognized("Detected", <<>>), Recognized("NoTextDetected", <<>>),
     Unavailable(TRUE, 1), Unavailable(FALSE, 1), Unavailable(TRUE, 2)}

Moments == -1..2

-----------------------------------------------------------------------------
\* The texts of printed codes. The layout is DEV-PAGE-V1, and this is no CRC.

DevPage == <<13, 14, 31, 36, 25, 10, 16, 14, 36, 31, 1>>
AnyLayout == {DevPage}
Crc(fields) == {(3 * i + 7 * Len(fields[i]) + fields[i][1] + fields[i][Len(fields[i])]) % 32 : i \in DOMAIN fields}

\* A number or an identifier is not mistaken for one that is not given.
ASSUME QrAssumption == NotGiven \notin Nat /\ NotGiven \notin Ids

SampleIds == {encode_128({}), encode_128({0}), encode_128({4, 5, 64, 127}), encode_128(0..127)}
SampleNumbers == {0, 7, 42, 100, 1000, 90909, 999999, 1000000}
SampleCodes ==
    {[type |-> "NotebookSetup", design |-> id] : id \in SampleIds}
    \cup {[type |-> "NotebookPage", design |-> id, number |-> n, layout |-> DevPage] :
             id \in SampleIds, n \in SampleNumbers}
    \cup {[type |-> "SmartPage", page |-> id, layout |-> DevPage, number |-> n, set |-> set] :
             id \in SampleIds, n \in SampleNumbers \cup {NotGiven}, set \in {NotGiven, encode_128({0})}}

\* These are read as they were printed, and not if their numbers are too large.
ASSUME CodesAssumption ==
    \A c \in SampleCodes :
        IF Encodes(c) THEN Parses(Encode(c)) /\ Parse(Encode(c)) = c ELSE c.number = 1000000

\* The texts of fixtures/qr/v1/malformed_vectors.json, and others with one thing
\* wrong, are refused even with a checksum that is right.
ASSUME PayloadsAssumption ==
    LET id  == encode_128({0})
        big == [id EXCEPT ![1] = 8]
        O   == [id EXCEPT ![26] = 24]
        Book(number, layout) == Signed(<<MAGIC, VERSION, PAGE, id, number, layout>>)
    IN  /\ Parses(Book(<<4, 2>>, DevPage))
        /\ \A p \in {Signed(<<MAGIC, <<2>>, SETUP, id>>), Signed(<<MAGIC, VERSION, <<33>>, id>>),
                     Signed(<<MAGIC, VERSION, SETUP, id, <<14>>>>), Signed(<<MAGIC, VERSION, SETUP, big>>),
                     Signed(<<MAGIC, VERSION, SETUP, O>>), Signed(<<MAGIC, VERSION, SETUP>>),
                     Signed(<<<<10>>, VERSION, SETUP, id>>),
                     [Signed(<<MAGIC, VERSION, SETUP, id>>) EXCEPT ![5] = Append(@, 0)],
                     [Signed(<<MAGIC, VERSION, SETUP, id>>) EXCEPT ![5][7] = 31 - @],
                     Book(<<0, 4, 2>>, DevPage), Book(<<1, 0, 0, 0, 0, 0, 0>>, DevPage), Book(NoField, DevPage),
                     Book(<<4, 2>>, <<30>>), Book(<<4, 2>>, [i \in 1..80 |-> 10])} : ~Parses(p)

-----------------------------------------------------------------------------
MCInit ==
    /\ part \in {"assets", "history", "queue", "opening", "comparison", "contract"}
    /\ CheckInit /\ HistoryInit /\ Queue!Init /\ Opening!OpeningInit /\ ContractInit
    /\ part # "assets" => platform = "linux"
    /\ part # "history" => smart
    /\ part # "opening" => wal = <<Opening!Legacy(0)>> /\ build = [length |-> 1, version |-> 1, change |-> "none"]
    /\ ComparisonInit
    /\ part # "comparison" => stored = <<Drawing("a", Blank), Drawing("b", Blank)>>

MCNext ==
    /\ UNCHANGED part
    /\ \/ part = "assets" /\ CheckNext
          /\ UNCHANGED <<historyVars, queueVars, openingVars, comparisonVars, record>>
       \/ part = "history" /\ HistoryNext
          /\ UNCHANGED <<checkVars, queueVars, openingVars, comparisonVars, record>>
       \/ part = "queue" /\ Queue!Next
          /\ UNCHANGED <<checkVars, historyVars, openingVars, comparisonVars, record>>
       \/ part = "opening" /\ Opening!OpeningNext
          /\ UNCHANGED <<checkVars, historyVars, queueVars, comparisonVars, record>>
       \/ part = "comparison" /\ ComparisonNext
          /\ UNCHANGED <<checkVars, historyVars, queueVars, openingVars, record>>
       \/ part = "contract" /\ ContractNext
          /\ UNCHANGED <<checkVars, historyVars, queueVars, openingVars, comparisonVars>>

libraryVars ==
    <<part, checkVars, historyVars, queueVars, openingVars, comparisonVars, record>>

MCSpec == MCInit /\ [][MCNext]_libraryVars

-----------------------------------------------------------------------------
\* The properties of the instances, stated in their modules.
RecognizedHasText == Queue!RecognizedHasText
SchemaIsHistory   == Opening!SchemaIsHistory
=============================================================================
