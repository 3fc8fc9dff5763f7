----------------------------- MODULE MCScreens -----------------------------
(* Screens of the app side by side: a behaviour is one of the version history *)
(* of a page, of the text that OCR leaves, as the page viewer and the search  *)
(* show it, of the notebooks, of the generation of Smart Pages, or of the     *)
(* sessions of the batch screen.                                              *)
EXTENDS VersionHistory, FiniteSets

CONSTANTS Runs, Regions, NoRun, RegionLimit, RegionPage, ReviewLimit, SearchLimit,
          MaxJobs, MaxTaps, MaxViews,
          Designs, SmartPages, PageCount, MaxNotebooks, MaxActs,
          PageSets, NoSet, MaxPictures, MaxEffects, MaxSaves, MaxUpsets,
          MaxSessions, MaxBegun, MaxScreens, MaxClock, MaxOlder

\* Designs have pages; the batch screen is opened, and sessions fit.
ASSUME ScreensAssumption ==
    /\ PageCount \in Nat
    /\ MaxSessions \in Nat /\ MaxBegun \in Nat /\ MaxScreens \in Nat \ {0} /\ MaxClock \in Nat

\* Regions and runs have ids, of which there are finitely many; no run has the
\* id that says "none", nor the name that marks a library without the index.
ASSUME ReadingAssumption ==
    /\ IsFiniteSet(Regions) /\ NoRun \notin Runs /\ "unmigrated" \notin Runs
    /\ RegionPage \in Nat

VARIABLES part,
          table, index, notes, queued, lists, viewer, tasks, search, taps,
          shelf, printed, desk, lens, strays, mail, received, unserved, acts,
          ui, preview, key, effects, bitmaps, live, picker, copying, documents, upsets,
          dir, io, opened, clock, troubles

textVars == <<table, index, notes, queued, lists, viewer, tasks, search, taps>>
shelfVars == <<shelf, printed, desk, lens, strays, mail, received, unserved, acts>>
printVars == <<ui, preview, key, effects, bitmaps, live, picker, copying, documents, upsets>>

directoryVars == <<dir, io, opened, clock, troubles>>

Text == INSTANCE OcrReading
Shelf == INSTANCE NotebookShelf
Prints == INSTANCE PagePrinting
Directory == INSTANCE BatchSessions

\* Bounds of the version history: as many scans as MaxOlder are registered after
\* a later capture, and the first scan, whose quality is not shown, is accepted.
Older == {s \in ScansOf(db) : \E t \in 1 .. s - 1 : Above(t, s)}
VersionBound ==
    /\ Cardinality(Older) <= MaxOlder
    /\ db.scans # <<>> => db.scans[1].quality # "NeedsReview"

MCInit ==
    /\ part \in {"versions", "text", "shelf", "print", "directory"}
    /\ VersionInit /\ Text!ReadingInit /\ Shelf!ShelfInit /\ Prints!PrintInit
    /\ Directory!SessionsInit
    /\ part # "versions" => smart
    /\ part # "text" => table = Text!NoRuns /\ queued = <<>>

MCNext ==
    /\ UNCHANGED part
    /\ \/ part = "versions" /\ VersionNext
          /\ (captures' # captures => VersionBound')
          /\ UNCHANGED <<textVars, shelfVars, printVars, directoryVars>>
       \/ part = "text" /\ Text!ReadingNext /\ UNCHANGED <<versionVars, shelfVars, printVars, directoryVars>>
       \/ part = "shelf" /\ Shelf!ShelfNext /\ UNCHANGED <<versionVars, textVars, printVars, directoryVars>>
       \/ part = "print" /\ Prints!PrintNext /\ UNCHANGED <<versionVars, textVars, shelfVars, directoryVars>>
       \/ part = "directory" /\ Directory!SessionsNext
          /\ UNCHANGED <<versionVars, textVars, shelfVars, printVars>>

MCSpec == MCInit /\ [][MCNext]_<<part, versionVars, textVars, shelfVars, printVars, directoryVars>>

-----------------------------------------------------------------------------
\* The property of recognized text, stated in OcrReading.
TextIsWhole == Text!TextIsWhole

\* The property of the notebooks, stated in NotebookShelf.
DestinationIsClear == Shelf!DestinationIsClear

\* The property of generated pages, stated in PagePrinting.
KeptIsWanted == Prints!KeptIsWanted

\* The property of batch sessions, stated in BatchSessions.
SessionsStayUsable == Directory!SessionsStayUsable
=============================================================================
