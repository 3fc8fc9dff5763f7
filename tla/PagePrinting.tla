---------------------------- MODULE PagePrinting ----------------------------
(* The screen that generates Smart Pages, shows the first of them and saves   *)
(* the PDF in a document of the user's choice: its view model, the request to *)
(* save that outlives the process, the effect that renders the preview, and   *)
(* the document picker. What runs on an IO thread runs to its end though its  *)
(* coroutine is cancelled. Sharing and printing only read.                    *)
(* Operators named Faulty... are plausible bugs.                              *)
EXTENDS Naturals, Sequences, FiniteSets

CONSTANTS PageSets,      \* sets of pages that may be generated
          NoSet,
          MaxPictures,   \* bound: bitmaps rendered
          MaxEffects,    \* bound: coroutines of the effect at one time
          MaxSaves,      \* bound: requests to save
          MaxUpsets      \* bound: times the activity or its process is gone

VARIABLES ui,        \* SmartPagesUiState, and whether its screen is composed
          preview,   \* SmartPagePreviewState
          key,       \* the set that the effect was last launched for
          effects,   \* coroutines of the effect
          bitmaps,   \* the set each bitmap shows, in the order of their rendering
          live,      \* bitmaps that are not recycled
          picker,    \* the set for which the picker was opened
          copying,   \* copies under way: the set asked for, and the one read
          documents, \* documents written
          upsets

printVars == <<ui, preview, key, effects, bitmaps, live, picker, copying, documents, upsets>>

NotLaunched == "none"
NoScreen == [open |-> FALSE, generated |-> NoSet, saving |-> NoSet, busy |-> FALSE, saves |-> 0]
Preview(k, b) == [kind |-> k, bitmap |-> b]
IdlePreview == Preview("idle", 0)

PrintInit ==
    /\ ui = NoScreen /\ preview = IdlePreview /\ key = NotLaunched
    /\ effects = {} /\ bitmaps = <<>> /\ live = {}
    /\ picker = NoSet /\ copying = {} /\ documents = {} /\ upsets = 0

\* replacePreview and onDispose: the bitmap that was shown is recycled.
Recycled(bs, next) == bs \ ({preview.bitmap} \ {next.bitmap})

\* A coroutine that has not begun never does.
Cancelled(es) == {[e EXCEPT !.cancelled = TRUE] : e \in {f \in es : f.at # "begin"}}

-----------------------------------------------------------------------------
\* The screen is entered, or composed again over the view model it had.
Compose ==
    /\ ~ui.open
    /\ ui' = [ui EXCEPT !.open = TRUE]
    /\ UNCHANGED <<preview, key, effects, bitmaps, live, picker, copying, documents, upsets>>

Generate ==
    /\ ui.open /\ picker = NoSet /\ ~ui.busy /\ ui.saving = NoSet
    /\ preview' = IdlePreview /\ live' = Recycled(live, IdlePreview)
    /\ ui' = [ui EXCEPT !.busy = TRUE, !.generated = NoSet]
    /\ UNCHANGED <<key, effects, bitmaps, picker, copying, documents, upsets>>

\* The view model's coroutine does not depend on the screen being composed.
Generated ==
    /\ ui.busy
    /\ \E s \in PageSets \cup {NoSet} : ui' = [ui EXCEPT !.busy = FALSE, !.generated = s]
    /\ UNCHANGED <<preview, key, effects, bitmaps, live, picker, copying, documents, upsets>>

\* A composition that finds another set launches the effect anew.
Launch ==
    /\ ui.open /\ key # ui.generated /\ Cardinality(effects) < MaxEffects
    /\ key' = ui.generated
    /\ effects' = Cancelled(effects) \cup
                     {[set |-> ui.generated, at |-> "begin", bitmap |-> 0, cancelled |-> FALSE]}
    /\ UNCHANGED <<ui, preview, bitmaps, live, picker, copying, documents, upsets>>

EffectBegins(e) ==
    /\ e.at = "begin"
    /\ LET next == IF e.set = NoSet THEN IdlePreview ELSE Preview("loading", 0) IN
         preview' = next /\ live' = Recycled(live, next)
    /\ effects' = (effects \ {e}) \cup
                     (IF e.set = NoSet THEN {} ELSE {[e EXCEPT !.at = "render"]})
    /\ UNCHANGED <<ui, key, bitmaps, picker, copying, documents, upsets>>

\* The IO block finds the file and renders its first page, fails, or, cancelled in
\* time, is not run.
Render(e) ==
    /\ e.at = "render"
    /\ \/ /\ Len(bitmaps) < MaxPictures
          /\ bitmaps' = Append(bitmaps, e.set)
          /\ live' = live \cup {Len(bitmaps) + 1}
          /\ effects' = (effects \ {e}) \cup {[e EXCEPT !.at = "main", !.bitmap = Len(bitmaps) + 1]}
       \/ /\ effects' = (effects \ {e}) \cup {[e EXCEPT !.at = "main"]}
          /\ UNCHANGED <<bitmaps, live>>
    /\ UNCHANGED <<ui, preview, key, picker, copying, documents, upsets>>

EffectEnds(e) ==
    /\ e.at = "main"
    /\ effects' = effects \ {e}
    /\ IF e.cancelled THEN live' = live \ {e.bitmap} /\ UNCHANGED preview
       ELSE LET next == IF e.bitmap = 0 THEN Preview("failed", 0) ELSE Preview("ready", e.bitmap) IN
            preview' = next /\ live' = Recycled(live, next)
    /\ UNCHANGED <<ui, key, bitmaps, picker, copying, documents, upsets>>

-----------------------------------------------------------------------------
\* The picker opens, or cannot be launched and the request is taken back.
BeginSave ==
    /\ ui.open /\ picker = NoSet /\ ui.saving = NoSet /\ ui.generated # NoSet
    /\ ui.saves < MaxSaves
    /\ \/ /\ ui' = [ui EXCEPT !.saving = ui.generated, !.saves = @ + 1]
          /\ picker' = ui.generated
       \/ ui' = [ui EXCEPT !.saves = @ + 1] /\ UNCHANGED picker
    /\ UNCHANGED <<preview, key, effects, bitmaps, live, copying, documents, upsets>>

\* Faulty: the set that is generated by now is copied.
FaultyPickerReturns ==
    /\ ui.open /\ picker # NoSet
    /\ \/ copying' = copying \cup {[asked |-> picker, read |-> ui.generated]}
       \/ UNCHANGED copying
    /\ ui' = [ui EXCEPT !.saving = NoSet] /\ picker' = NoSet
    /\ UNCHANGED <<preview, key, effects, bitmaps, live, documents, upsets>>

\* The result reaches the launcher of the composed screen, whichever it is by then.
PickerReturns ==
    /\ ui.open /\ picker # NoSet
    /\ \/ copying' = IF ui.saving = NoSet THEN copying
                    ELSE copying \cup {[asked |-> picker, read |-> ui.saving]}
       \/ UNCHANGED copying
    /\ ui' = [ui EXCEPT !.saving = NoSet] /\ picker' = NoSet
    /\ UNCHANGED <<preview, key, effects, bitmaps, live, documents, upsets>>

CopyEnds(c) ==
    /\ copying' = copying \ {c}
    /\ documents' \in {documents, documents \cup {c}}
    /\ UNCHANGED <<ui, preview, key, effects, bitmaps, live, picker, upsets>>

-----------------------------------------------------------------------------
Disposed ==
    /\ preview' = IdlePreview /\ live' = Recycled(live, IdlePreview)
    /\ key' = NotLaunched /\ effects' = Cancelled(effects)

\* The user leaves, and the view model is cleared.
Leave ==
    /\ ui.open /\ picker = NoSet
    /\ Disposed
    /\ ui' = [NoScreen EXCEPT !.saves = ui.saves]
    /\ UNCHANGED <<bitmaps, picker, copying, documents, upsets>>

\* Another configuration: the view model is kept.
Recreate ==
    /\ ui.open /\ upsets < MaxUpsets /\ upsets' = upsets + 1
    /\ Disposed
    /\ ui' = [ui EXCEPT !.open = FALSE]
    /\ UNCHANGED <<bitmaps, picker, copying, documents>>

\* The process of a stopped activity is killed: of the view model only the request
\* to save is restored.
ProcessDeath ==
    /\ upsets < MaxUpsets /\ upsets' = upsets + 1
    /\ ui' = [NoScreen EXCEPT !.saving = ui.saving, !.saves = ui.saves]
    /\ preview' = IdlePreview /\ key' = NotLaunched /\ effects' = {} /\ live' = {}
    /\ copying' = {}
    /\ UNCHANGED <<bitmaps, picker, documents>>

PrintNext ==
    \/ Compose \/ Generate \/ Generated \/ Launch
    \/ \E e \in effects : EffectBegins(e) \/ Render(e) \/ EffectEnds(e)
    \/ BeginSave \/ PickerReturns
    \/ \E c \in copying : CopyEnds(c)
    \/ Leave \/ Recreate \/ ProcessDeath

PrintSpec == PrintInit /\ [][PrintNext]_printVars

-----------------------------------------------------------------------------
(* What the user keeps is what was asked for: a document is of the set shown  *)
(* when the user asked to save it, whatever happened behind the picker; the   *)
(* preview shows the generated set, from the composition that follows it on,  *)
(* in a bitmap that is not recycled; and every other bitmap is recycled but   *)
(* for those that an effect still holds.                                      *)
KeptIsWanted ==
    /\ \A d \in documents : d.read = d.asked
    /\ preview.kind = "ready" =>
         /\ preview.bitmap \in live
         /\ key = ui.generated /\ ~(\E e \in effects : e.at = "begin") =>
               bitmaps[preview.bitmap] = ui.generated
    /\ live \subseteq {preview.bitmap} \cup {e.bitmap : e \in effects}
=============================================================================
