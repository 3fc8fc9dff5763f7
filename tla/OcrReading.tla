----------------------------- MODULE OcrReading -----------------------------
(* What becomes of recognized text: the runs and regions of one scan, the     *)
(* search index that triggers keep, the corrections, and the two screens that *)
(* read them, the search and the page viewer, whose coroutines each assign    *)
(* the state they computed from the one they were started in. A coroutine's   *)
(* last call and the assignment that follows it are one step: nothing is      *)
(* looked at between them. The queue of jobs is that of OcrQueue, reduced to  *)
(* what the viewer is told. Operators named Faulty... are plausible bugs.     *)
EXTENDS Naturals, FiniteSets, Sequences, SequencesExt

CONSTANTS Runs, Regions, NoRun,  \* identities
          RegionLimit,           \* MAX_OCR_REGIONS_PER_RUN
          RegionPage,            \* VIEWER_OCR_REGION_LIMIT, regions read at a time
          ReviewLimit,           \* corrections listed
          SearchLimit,           \* hits listed
          MaxJobs, MaxTaps, MaxViews  \* bounds

VARIABLES table,   \* ocr_runs of the scan, latest first, and text_regions as listed
          index,   \* ocr_search_index; the schema has it since migration 0010
          notes,   \* text_corrections: the run whose text each one replaces
          queued,  \* ocr_jobs of the scan, oldest first
          lists,   \* history: every list of regions a run ever had
          viewer,  \* PageViewerState
          tasks,   \* coroutines of the viewer
          search,  \* the search screen
          taps     \* what the user did

readingVars == <<table, index, notes, queued, lists, viewer, tasks, search, taps>>

Statuses == {"Detected", "NoTextDetected", "Unavailable"}
Taken(t) == {r \in Runs : t.status[r] # "none"}
RegionsOf(t) == UNION {ToSet(t.regions[r]) : r \in Runs}
NoRuns == [order |-> <<>>, status |-> [r \in Runs |-> "none"], regions |-> [r \in Runs |-> <<>>]]

\* The list s with the regions of xs among its own, which keep their order: a
\* region is listed by its time, which the caller may give, and its random id.
With(s, xs) ==
    {t \in [1..(Len(s) + Cardinality(xs)) -> ToSet(s) \cup xs] :
        IsInjective(t) /\ SelectSeq(t, LAMBDA x : x \notin xs) = s}

\* The latest run is the one completed last, at the time its caller gave.
Inserted(t, r, s, list) ==
    {[order |-> InsertAt(t.order, i, r), status |-> [t.status EXCEPT ![r] = s],
      regions |-> [t.regions EXCEPT ![r] = list]] : i \in 1..(Len(t.order) + 1)}

Older == {NoRuns} \cup UNION {Inserted(NoRuns, r, "Detected", list) :
             r \in Runs, list \in {<<>>} \cup {<<x>> : x \in Regions}}

NewViewer(n, scan) ==
    [view |-> n, open |-> TRUE, scan |-> scan, ocr |-> "NotStarted", run |-> NoRun,
     overlay |-> <<>>, job |-> 0, retry |-> FALSE, cancel |-> FALSE, notes |-> <<>>]
NoViewer(n) == [NewViewer(n, FALSE) EXCEPT !.open = FALSE]
Job(s) == [status |-> s, requested |-> FALSE]
NoSearch == [open |-> FALSE, query |-> "", hits |-> {}, asked |-> {}]

\* A library of before the index, which came before the queue, or one in which
\* a job became unavailable.
ReadingInit ==
    /\ \/ table \in Older /\ queued = <<>> /\ index = {<<"unmigrated", NoRun>>}
       \/ /\ \E r \in Runs : table \in Inserted(NoRuns, r, "Unavailable", <<>>)
          /\ queued = <<Job("unavailable")>> /\ index = {}
    /\ lists = {<<r, table.regions[r]>> : r \in Taken(table)}
    /\ notes = <<>> /\ tasks = {}
    /\ viewer = NoViewer(1) /\ search = NoSearch /\ taps = 0

Migrated == <<"unmigrated", NoRun>> \notin index

-----------------------------------------------------------------------------
(* Rows and triggers.                                                         *)

TextDocuments(t) == {<<r, "text">> : r \in {x \in Runs : t.status[x] = "Detected"}}
RegionDocuments(t) ==
    UNION {{<<r, x>> : x \in ToSet(t.regions[r])} : r \in {x \in Runs : t.status[x] = "Detected"}}

Migrate ==
    /\ ~Migrated
    /\ index' = TextDocuments(table) \cup RegionDocuments(table)
    /\ UNCHANGED <<table, notes, queued, lists, viewer, tasks, search, taps>>

RunTrigger(r, s) == IF s = "Detected" THEN {<<r, "text">>} ELSE {}
RegionTrigger(t, r, xs) == IF t.status[r] = "Detected" THEN {<<r, x>> : x \in xs} ELSE {}

\* A run and its regions in one transaction; a run may come without regions.
InsertRun(r, s, xs) ==
    /\ r \notin Taken(table)
    /\ xs # {} => s = "Detected"
    /\ Cardinality(xs) <= RegionLimit
    /\ \E list \in With(<<>>, xs) : \E t \in Inserted(table, r, s, list) :
         /\ table' = t
         /\ index' = index \cup RunTrigger(r, s) \cup RegionTrigger(t, r, xs)
         /\ lists' = lists \cup {<<r, list>>}

RecordRun(r) ==
    /\ Migrated
    /\ \E s \in Statuses : InsertRun(r, s, {})
    /\ UNCHANGED <<notes, queued, viewer, tasks, search, taps>>

\* All regions of a batch or none: one over the limit of the run, or a run that
\* is not Detected, fails the transaction.
RecordRegions(r, xs) ==
    /\ Migrated
    /\ xs # {} /\ table.status[r] = "Detected"
    /\ Len(table.regions[r]) + Cardinality(xs) <= RegionLimit
    /\ \E list \in With(table.regions[r], xs) :
         /\ table' = [table EXCEPT !.regions[r] = list]
         /\ lists' = lists \cup {<<r, list>>}
    /\ index' = index \cup RegionTrigger(table, r, xs)
    /\ UNCHANGED <<notes, queued, viewer, tasks, search, taps>>

-----------------------------------------------------------------------------
(* The queue.                                                                 *)
Active == {j \in DOMAIN queued : queued[j].status \in {"queued", "running"}}

Claim(j) ==
    /\ Migrated
    /\ queued[j].status = "queued"
    /\ queued' = [queued EXCEPT ![j].status = "running"]
    /\ UNCHANGED <<table, index, notes, lists, viewer, tasks, search, taps>>

Finalize(j, r, s, xs) ==
    /\ queued[j].status = "running"
    /\ \/ /\ queued[j].requested
          /\ queued' = [queued EXCEPT ![j].status = "cancelled"]
          /\ UNCHANGED <<table, index, lists>>
       \/ /\ ~queued[j].requested
          /\ InsertRun(r, s, xs)
          /\ \E to \in IF s = "Unavailable" THEN {"queued", "unavailable"} ELSE {"recognized"} :
               queued' = [queued EXCEPT ![j].status = to]
    /\ UNCHANGED <<notes, viewer, tasks, search, taps>>

-----------------------------------------------------------------------------
(* The viewer. Assign is the assignment of a coroutine's result; it reaches   *)
(* nobody when the viewer was left.                                           *)

Ends(t, v) ==
    /\ tasks' = tasks \ {t}
    /\ viewer' = IF viewer.open /\ t.of.view = viewer.view THEN v ELSE viewer
Goes(t, u) == tasks' = (tasks \ {t}) \cup {u}

Task(kind, at) == [kind |-> kind, at |-> at, of |-> viewer', run |-> NoRun, total |-> 0,
                   offset |-> 0, seen |-> <<>>]

Failed(v) == [v EXCEPT !.ocr = "Failed", !.retry = FALSE, !.cancel = FALSE]

JobShown(v, id, j) ==
    [v EXCEPT !.scan = TRUE, !.job = id, !.retry = j.status = "unavailable",
              !.cancel = j.status = "queued" \/ (j.status = "running" /\ ~j.requested),
              !.ocr = CASE j.status = "queued" -> "Preparing"
                        [] j.status = "running" -> "Recognizing"
                        [] j.status = "recognized" -> "Recording"
                        [] j.status = "unavailable" -> "Unavailable"
                        [] OTHER -> "Cancelled"]

OpenViewer ==
    /\ Migrated /\ ~viewer.open /\ viewer.view <= MaxViews
    /\ \E scan \in BOOLEAN : viewer' = NewViewer(viewer.view, scan)
    /\ tasks' = tasks \cup {Task("hydrate", "metadata")}
    /\ search' = NoSearch
    /\ UNCHANGED <<table, index, notes, queued, lists, taps>>

\* Calls under way end without anybody; those that only read are forgotten.
LeaveViewer ==
    /\ viewer.open
    /\ viewer' = NoViewer(viewer.view + 1)
    /\ tasks' = {t \in tasks : t.kind # "hydrate" /\ t.at # "review"}
    /\ UNCHANGED <<table, index, notes, queued, lists, search, taps>>

Read == UNCHANGED <<table, index, notes, queued, lists, search, taps>>

\* hydratePageViewerMetadata; its failure ends the effect.
ReadMetadata(t) ==
    /\ t.at = "metadata"
    /\ \/ /\ viewer' = [t.of EXCEPT !.scan = TRUE]
          /\ Goes(t, [t EXCEPT !.at = "active", !.of = viewer'])
       \/ tasks' = tasks \ {t} /\ UNCHANGED viewer
    /\ Read

\* The corrections are read over the state of the moment before.
ThenReview(t, v) ==
    /\ viewer' = v
    /\ Goes(t, [t EXCEPT !.at = "review", !.of = v])

FindActive(t) ==
    /\ t.at = "active"
    /\ \/ Active = {} /\ Goes(t, [t EXCEPT !.at = "run"]) /\ UNCHANGED viewer
       \/ \E j \in Active : ThenReview(t, JobShown(t.of, j, queued[j]))
    /\ Read

\* resolve_ocr_source_geometry refuses the scan's file: it is missing or torn, or
\* of a media type that is not read.
Unresolved(t) ==
    /\ t.at = "active"
    /\ ThenReview(t, [Failed(t.of) EXCEPT !.job = 0])
    /\ Read

LatestRun == IF table.order = <<>> THEN NoRun ELSE Head(table.order)
HasText == IF LatestRun = NoRun THEN FALSE ELSE table.status[LatestRun] = "Detected"
Text(v, r, list) ==
    [v EXCEPT !.ocr = "Detected", !.run = r, !.overlay = list, !.job = 0,
              !.retry = FALSE, !.cancel = FALSE]
NoText(v) ==
    {[v EXCEPT !.ocr = IF LatestRun = NoRun THEN "NotStarted" ELSE table.status[LatestRun],
               !.run = LatestRun, !.overlay = <<>>, !.job = 0, !.cancel = FALSE, !.retry = again] :
        again \in IF LatestRun # NoRun /\ table.status[LatestRun] = "Unavailable"
                  THEN BOOLEAN ELSE {FALSE}}

\* load_latest_ocr_output without regions.
ReadRun(t) ==
    /\ t.at = "run"
    /\ \/ /\ HasText
          /\ Goes(t, [t EXCEPT !.at = "pages", !.run = LatestRun,
                               !.total = Len(table.regions[LatestRun])])
          /\ UNCHANGED viewer
       \/ /\ ~HasText
          /\ \E v \in NoText(t.of) : ThenReview(t, v)
    /\ Read

\* load_ocr_region_page of the run that is the latest now.
RegionPageAt(offset) ==
    LET list  == table.regions[LatestRun]
        items == IF table.status[LatestRun] = "Detected"
                 THEN SubSeq(list, offset + 1, IF offset + RegionPage < Len(list)
                                               THEN offset + RegionPage ELSE Len(list))
                 ELSE <<>>
    IN [run |-> LatestRun, total |-> Len(list), items |-> items,
        complete |-> offset + Len(items) >= Len(list)]

\* Faulty: a page is taken whatever run and number of regions it tells.
FaultyAccepts(t, page) == TRUE

Accepts(t, page) == page.run = t.run /\ page.total = t.total

\* regionsById.putIfAbsent, region by region.
Seen(t, page) ==
    LET seen[n \in 0 .. Len(page.items)] ==
            IF n = 0 THEN t.seen
            ELSE IF page.items[n] \in ToSet(seen[n - 1]) THEN seen[n - 1]
            ELSE Append(seen[n - 1], page.items[n])
    IN  seen[Len(page.items)]

\* One page of AndroidOcrRegionPaginationHydrator.hydrate; a refusal is a failure.
ReadPage(t) ==
    LET page == RegionPageAt(t.offset)
        seen == Seen(t, page)
        fits == t.offset <= page.total /\ Accepts(t, page)
                /\ (page.complete => Len(seen) = t.total) /\ (page.complete \/ page.items # <<>>)
    IN /\ t.at = "pages"
       /\ \/ fits /\ page.complete /\ ThenReview(t, Text(t.of, t.run, seen))
          \/ /\ fits /\ ~page.complete
             /\ Goes(t, [t EXCEPT !.offset = @ + Len(page.items), !.seen = seen])
             /\ UNCHANGED viewer
          \/ ~fits /\ ThenReview(t, [Failed(t.of) EXCEPT !.job = 0])
       /\ Read

Listed == SubSeq(notes, 1, IF Len(notes) < ReviewLimit THEN Len(notes) ELSE ReviewLimit)

ReadReview(t) ==
    /\ t.at = "review"
    /\ Ends(t, [t.of EXCEPT !.notes = Listed])
    /\ Read

\* A tap starts a coroutine over the state of the moment.
Tapped == taps < MaxTaps /\ taps' = taps + 1
Tap(kind, enabled) ==
    /\ viewer.open /\ viewer.scan /\ enabled
    /\ Tapped
    /\ UNCHANGED <<table, index, notes, queued, lists, viewer, search>>
    /\ tasks' = tasks \cup {Task(kind, "call")}

TapStart   == Tap("start", viewer.ocr = "NotStarted")
TapRetry   == Tap("retry", viewer.retry)
TapCancel  == Tap("cancel", viewer.cancel /\ viewer.job # 0)
TapCorrect == Tap("correct", viewer.ocr = "Detected")

CallFails(t) ==
    /\ t.at = "call"
    /\ Ends(t, IF t.kind = "correct" THEN t.of ELSE Failed(t.of))
    /\ Read

KeepRows == UNCHANGED <<table, index, notes, lists, search, taps>>

\* The active job of the scan, or a new one.
Enqueue(t) ==
    /\ t.kind = "start" /\ t.at = "call"
    /\ \/ \E j \in Active : Ends(t, JobShown(t.of, j, queued[j])) /\ UNCHANGED queued
       \/ /\ Active = {} /\ Len(queued) < MaxJobs
          /\ queued' = Append(queued, Job("queued"))
          /\ Ends(t, JobShown(t.of, Len(queued'), Job("queued")))
    /\ KeepRows

\* The last job of the scan, when it is unavailable.
Retry(t) ==
    /\ t.kind = "retry" /\ t.at = "call"
    /\ queued # <<>> /\ Last(queued).status = "unavailable"
    /\ queued' = [queued EXCEPT ![Len(queued)] = Job("queued")]
    /\ Ends(t, JobShown(t.of, Len(queued), Job("queued")))
    /\ KeepRows

Cancel(t) ==
    LET j == t.of.job IN
    /\ t.kind = "cancel" /\ t.at = "call"
    /\ queued[j].status \in {"queued", "running", "cancelled"}
    /\ queued' = [queued EXCEPT ![j].requested = TRUE,
                                ![j].status = IF @ = "queued" THEN "cancelled" ELSE @]
    /\ Ends(t, JobShown(t.of, j, queued'[j]))
    /\ KeepRows

\* The text that a correction replaces is that of the latest run, which the
\* database tells and not the viewer.
Correct(t) ==
    /\ t.kind = "correct" /\ t.at = "call"
    /\ HasText
    /\ notes' = Append(notes, LatestRun)
    /\ Goes(t, [t EXCEPT !.at = "review"])
    /\ UNCHANGED <<table, index, queued, lists, viewer, search, taps>>

-----------------------------------------------------------------------------
(* The search screen: a query typed, an answer assigned when it comes.        *)
KeepLibrary == UNCHANGED <<table, index, notes, queued, lists, viewer, tasks>>

OpenSearch ==
    /\ Migrated /\ ~viewer.open /\ ~search.open
    /\ search' = [NoSearch EXCEPT !.open = TRUE] /\ UNCHANGED taps
    /\ KeepLibrary

TypeQuery ==
    /\ search.open /\ Tapped
    /\ \E q \in {"", "a", "b"} : search' = [search EXCEPT !.query = q, !.hits = {}]
    /\ KeepLibrary

\* An empty query is answered at once.
SubmitQuery ==
    /\ search.open /\ UNCHANGED taps
    /\ search' = IF search.query = "" THEN [search EXCEPT !.hits = {}]
                 ELSE [search EXCEPT !.asked = @ \cup {search.query}]
    /\ KeepLibrary

\* Which documents contain the words is left open.
AnswerQuery(q) ==
    /\ \/ \E hits \in SUBSET index :
            /\ Cardinality(hits) <= SearchLimit
            /\ search' = [search EXCEPT !.query = q, !.hits = hits, !.asked = @ \ {q}]
       \/ search' = [search EXCEPT !.query = q, !.hits = {}, !.asked = @ \ {q}]
    /\ KeepLibrary /\ UNCHANGED taps

ReadingNext ==
    \/ Migrate \/ OpenViewer \/ LeaveViewer \/ TapStart \/ TapRetry \/ TapCancel \/ TapCorrect
    \/ \E r \in Runs : RecordRun(r)
    \/ \E r \in Runs, xs \in SUBSET Regions :
         /\ xs \cap RegionsOf(table) = {}
         /\ \/ RecordRegions(r, xs)
            \/ \E j \in DOMAIN queued, s \in Statuses : Finalize(j, r, s, xs)
    \/ \E j \in DOMAIN queued : Claim(j)
    \/ \E t \in tasks :
         \/ ReadMetadata(t) \/ FindActive(t) \/ Unresolved(t) \/ ReadRun(t)
         \/ ReadPage(t) \/ ReadReview(t) \/ CallFails(t) \/ Enqueue(t) \/ Retry(t) \/ Cancel(t) \/ Correct(t)
    \/ OpenSearch \/ TypeQuery \/ SubmitQuery
    \/ \E q \in search.asked : AnswerQuery(q)

ReadingSpec == ReadingInit /\ [][ReadingNext]_readingVars

-----------------------------------------------------------------------------
(* Nobody reads half of a text or a text that is none: the regions over a     *)
(* page that shows text are the whole list one run once had, and that run is  *)
(* the one shown, although they are read page by page while runs and regions  *)
(* are added; the search index holds the Detected runs and their regions and  *)
(* nothing else; what is found is in the index; and a correction replaces     *)
(* text that was detected.                                                    *)
TextIsWhole ==
    /\ viewer.ocr = "Detected" => <<viewer.run, viewer.overlay>> \in lists
    /\ Migrated => index = TextDocuments(table) \cup RegionDocuments(table)
    /\ search.hits \subseteq index
    /\ \A i \in DOMAIN notes : table.status[notes[i]] = "Detected"
=============================================================================
