--------------------------- MODULE ScreensProofs ---------------------------
(* What the screens keep, for any number of notebooks, designs, pages, sets,  *)
(* sessions, screens, scans, runs and regions: the pictures and documents of  *)
(* generated pages, the destination of scans, the directory of batch          *)
(* sessions, the version history of a page, and the text over a page and in   *)
(* the search index. Each part has an inductive invariant of its own, and the *)
(* steps of the other parts leave its variables alone.                        *)
EXTENDS MCScreens, PageHistoryProofs, FiniteSetTheorems, SequenceTheorems,
        NaturalsInduction, WellFoundedInduction

allVars == <<part, versionVars, textVars, shelfVars, printVars, directoryVars>>
-----------------------------------------------------------------------------
(* Generated pages.                                                           *)

SetOrNone   == PageSets \cup {NoSet}
PrintScreen == [open : BOOLEAN, generated : SetOrNone, saving : SetOrNone, busy : BOOLEAN, saves : Nat]
PrintEffect == [set : SetOrNone, at : {"begin", "render", "main"}, bitmap : Nat, cancelled : BOOLEAN]
Previews    == [kind : {"idle", "loading", "failed", "ready"}, bitmap : Nat]

PrintTypeOK ==
    /\ ui \in PrintScreen /\ preview \in Previews
    /\ effects \subseteq PrintEffect
    /\ bitmaps \in Seq(SetOrNone) /\ live \subseteq 1..Len(bitmaps)
    /\ preview.bitmap <= Len(bitmaps)

\* A copy is of the set that was asked for.
AskedIsRead ==
    /\ \A d \in documents \cup copying : d.read = d.asked
    /\ picker # NoSet /\ ui.saving # NoSet => ui.saving = picker

\* A bitmap belongs to the preview or to one effect, which shows the set it was
\* launched for; only the effect launched last is not cancelled.
BitmapsAreOwned ==
    /\ preview.kind = "ready" <=> preview.bitmap # 0
    /\ preview.bitmap # 0 => preview.bitmap \in live
    /\ \A e \in effects :
         /\ e.at # "main" => e.bitmap = 0
         /\ e.bitmap # 0 => e.bitmap \in live /\ bitmaps[e.bitmap] = e.set /\ e.bitmap # preview.bitmap
         /\ ~e.cancelled => e.set = key
    /\ \A e, f \in effects : e.bitmap = f.bitmap /\ e.bitmap # 0 => e = f
    /\ live \subseteq {preview.bitmap} \cup {e.bitmap : e \in effects}

\* The preview shows the set of the latest launch, or an effect will replace it.
PreviewIsLatest ==
    preview.kind = "ready" =>
        (\E e \in effects : e.at = "begin") \/ bitmaps[preview.bitmap] = key

PrintInv == PrintTypeOK /\ AskedIsRead /\ BitmapsAreOwned /\ PreviewIsLatest

LEMMA PrintStep == [MCNext]_allVars => [Prints!PrintNext]_printVars
BY DEF MCNext, allVars, printVars

LEMMA PrintInitial == Prints!PrintInit => PrintInv
<1>. SUFFICES ASSUME Prints!PrintInit PROVE PrintInv
  OBVIOUS
<1>. USE DEF Prints!PrintInit, Prints!NoScreen, Prints!IdlePreview, Prints!Preview
<1>1. ui \in PrintScreen
  BY Zenon DEF PrintScreen, SetOrNone
<1>2. PrintTypeOK
  BY <1>1 DEF PrintTypeOK, Previews
<1>3. AskedIsRead /\ BitmapsAreOwned /\ PreviewIsLatest
  BY DEF AskedIsRead, BitmapsAreOwned, PreviewIsLatest
<1>. QED
  BY <1>2, <1>3 DEF PrintInv

\* What becomes of the effects when their key is forgotten or changed.
Abandoned(e) == [e EXCEPT !.cancelled = TRUE]

LEMMA CancelledEffects ==
    ASSUME effects \subseteq PrintEffect
    PROVE  /\ \A d \in Prints!Cancelled(effects) :
                /\ d \in PrintEffect /\ d.cancelled
                /\ \E e \in effects : /\ e.at # "begin" /\ d.at = e.at /\ d.set = e.set /\ d.bitmap = e.bitmap
                                      /\ d = Abandoned(e)
           /\ \A e \in effects : e.at # "begin" =>
                \E d \in Prints!Cancelled(effects) : d.bitmap = e.bitmap
<1>1. ASSUME NEW e \in PrintEffect
      PROVE  LET d == Abandoned(e) IN
             d \in PrintEffect /\ d.cancelled /\ d.at = e.at /\ d.set = e.set /\ d.bitmap = e.bitmap
  <2>. DEFINE d == Abandoned(e)
  <2>1. d \in PrintEffect
    BY Zenon DEF PrintEffect, Abandoned
  <2>2. d.cancelled
    BY Zenon DEF PrintEffect, Abandoned
  <2>3. d.at = e.at /\ d.set = e.set /\ d.bitmap = e.bitmap
    BY DEF PrintEffect, Abandoned
  <2>. QED
    BY <2>1, <2>2, <2>3
<1>2. Prints!Cancelled(effects) = {Abandoned(e) : e \in {f \in effects : f.at # "begin"}}
  BY Zenon DEF Prints!Cancelled, Abandoned
<1>. QED
  BY <1>1, <1>2

LEMMA CancelledOwned ==
    ASSUME PrintTypeOK, BitmapsAreOwned
    PROVE  LET C == Prints!Cancelled(effects) IN
           /\ C \subseteq PrintEffect
           /\ \A d \in C :
                /\ d.at # "main" => d.bitmap = 0
                /\ d.bitmap # 0 => d.bitmap \in live /\ bitmaps[d.bitmap] = d.set /\ d.bitmap # preview.bitmap
                /\ d.cancelled
           /\ \A d, f \in C : d.bitmap = f.bitmap /\ d.bitmap # 0 => d = f
           /\ live \subseteq {preview.bitmap} \cup {d.bitmap : d \in C}
<1>. DEFINE C == Prints!Cancelled(effects)
<1>1. effects \subseteq PrintEffect
  BY DEF PrintTypeOK
<1>2. /\ \A d \in C : /\ d \in PrintEffect /\ d.cancelled
                      /\ \E e \in effects : /\ e.at # "begin" /\ d.at = e.at /\ d.set = e.set /\ d.bitmap = e.bitmap
                                            /\ d = Abandoned(e)
      /\ \A e \in effects : e.at # "begin" => \E d \in C : d.bitmap = e.bitmap
  BY <1>1, CancelledEffects
<1>. HIDE DEF C
<1>3. \A d \in C :
        /\ d.at # "main" => d.bitmap = 0
        /\ d.bitmap # 0 => d.bitmap \in live /\ bitmaps[d.bitmap] = d.set /\ d.bitmap # preview.bitmap
        /\ d.cancelled
  BY <1>2 DEF BitmapsAreOwned
<1>4. \A d, f \in C : d.bitmap = f.bitmap /\ d.bitmap # 0 => d = f
  BY <1>2 DEF BitmapsAreOwned
<1>5. live \subseteq {preview.bitmap} \cup {d.bitmap : d \in C}
  <2>1. ASSUME NEW b \in live, b # preview.bitmap PROVE \E d \in C : d.bitmap = b
    <3>1. b # 0
      BY DEF PrintTypeOK
    <3>2. PICK e \in effects : e.bitmap = b
      BY <2>1 DEF BitmapsAreOwned
    <3>. QED
      BY <1>1, <1>2, <3>1, <3>2 DEF BitmapsAreOwned, PrintEffect
  <2>. QED
    BY <2>1
<1>. QED
  BY <1>2, <1>3, <1>4, <1>5 DEF C

\* Bitmaps are recycled.
LEMMA FewerBitmaps ==
    ASSUME PrintTypeOK, bitmaps' = bitmaps, live' \subseteq live
    PROVE  Len(bitmaps) \in Nat /\ bitmaps' \in Seq(SetOrNone) /\ live' \subseteq 1..Len(bitmaps')
<1>1. bitmaps \in Seq(SetOrNone) /\ live \subseteq 1..Len(bitmaps)
  BY DEF PrintTypeOK
<1>2. Len(bitmaps) \in Nat
  BY <1>1
<1>3. live' \subseteq 1..Len(bitmaps)
  BY <1>1, Zenon
<1>. QED
  BY <1>1, <1>2, <1>3

\* The key is forgotten: what was shown is recycled, and the effects go on.
LEMMA DisposedKeeps ==
    ASSUME PrintInv, Prints!Disposed, bitmaps' = bitmaps, ui' \in PrintScreen, AskedIsRead'
    PROVE  PrintInv'
<1>. USE DEF PrintInv
<1>1. /\ preview' = [kind |-> "idle", bitmap |-> 0] /\ live' = live \ ({preview.bitmap} \ {0})
      /\ effects' = Prints!Cancelled(effects)
  BY DEF Prints!Disposed, Prints!Recycled, Prints!IdlePreview, Prints!Preview
<1>. DEFINE C == Prints!Cancelled(effects)
<1>2. /\ C \subseteq PrintEffect
      /\ \A d \in C :
           /\ d.at # "main" => d.bitmap = 0
           /\ d.bitmap # 0 => d.bitmap \in live /\ bitmaps[d.bitmap] = d.set /\ d.bitmap # preview.bitmap
           /\ d.cancelled
      /\ \A d, f \in C : d.bitmap = f.bitmap /\ d.bitmap # 0 => d = f
      /\ live \subseteq {preview.bitmap} \cup {d.bitmap : d \in C}
  BY CancelledOwned
<1>4. effects' = C
  BY <1>1
<1>. HIDE DEF C
<1>5. PrintTypeOK'
  <2>0. live' \subseteq live
    BY <1>1
  <2>1. Len(bitmaps) \in Nat /\ bitmaps' \in Seq(SetOrNone) /\ live' \subseteq 1..Len(bitmaps')
    BY <2>0, FewerBitmaps
  <2>2. preview' \in Previews /\ preview'.bitmap <= Len(bitmaps')
    BY <1>1, <2>1 DEF Previews
  <2>3. effects' \subseteq PrintEffect
    BY <1>2, <1>4
  <2>. QED
    BY <2>1, <2>2, <2>3 DEF PrintTypeOK
<1>6. BitmapsAreOwned'
  <2>1. preview'.kind # "ready" /\ preview'.bitmap = 0
    BY <1>1
  <2>2. \A d \in C : d.bitmap # 0 => d.bitmap \in live'
    BY <1>1, <1>2
  <2>3. live' \subseteq {0} \cup {d.bitmap : d \in C}
    BY <1>1, <1>2
  <2>. QED
    BY <1>2, <1>4, <2>1, <2>2, <2>3 DEF BitmapsAreOwned
<1>7. PreviewIsLatest'
  BY <1>1 DEF PreviewIsLatest
<1>. QED
  BY <1>5, <1>6, <1>7

LEMMA GenerateKeeps == PrintInv /\ Prints!Generate => PrintInv'
<1>. SUFFICES ASSUME PrintInv, Prints!Generate PROVE PrintInv'
  OBVIOUS
<1>. USE DEF PrintInv
<1>1. /\ preview' = [kind |-> "idle", bitmap |-> 0] /\ live' = live \ ({preview.bitmap} \ {0})
      /\ ui' = [ui EXCEPT !.busy = TRUE, !.generated = NoSet] /\ ui.saving = NoSet /\ picker' = picker
      /\ key' = key /\ effects' = effects /\ bitmaps' = bitmaps /\ copying' = copying /\ documents' = documents
  BY DEF Prints!Generate, Prints!Recycled, Prints!IdlePreview, Prints!Preview
<1>2. ui' \in PrintScreen
  BY <1>1, Zenon DEF PrintTypeOK, PrintScreen, SetOrNone
<1>3. ui'.saving = ui.saving
  BY <1>1 DEF PrintTypeOK, PrintScreen
<1>4. PrintTypeOK'
  BY <1>1, <1>2 DEF PrintTypeOK, Previews
<1>5. AskedIsRead' /\ PreviewIsLatest'
  BY <1>1, <1>3 DEF AskedIsRead, PreviewIsLatest
<1>6. BitmapsAreOwned'
  BY <1>1 DEF BitmapsAreOwned, PrintTypeOK, PrintEffect
<1>. QED
  BY <1>4, <1>5, <1>6

LEMMA LaunchKeeps == PrintInv /\ Prints!Launch => PrintInv'
<1>. SUFFICES ASSUME PrintInv, Prints!Launch PROVE PrintInv'
  OBVIOUS
<1>. USE DEF PrintInv
<1>. DEFINE C == Prints!Cancelled(effects)
            n == [set |-> ui.generated, at |-> "begin", bitmap |-> 0, cancelled |-> FALSE]
<1>1. /\ key' = ui.generated /\ effects' = C \cup {n}
      /\ ui' = ui /\ preview' = preview /\ bitmaps' = bitmaps /\ live' = live /\ picker' = picker
      /\ copying' = copying /\ documents' = documents
  BY DEF Prints!Launch
<1>2. /\ C \subseteq PrintEffect
      /\ \A d \in C :
           /\ d.at # "main" => d.bitmap = 0
           /\ d.bitmap # 0 => d.bitmap \in live /\ bitmaps[d.bitmap] = d.set /\ d.bitmap # preview.bitmap
           /\ d.cancelled
      /\ \A d, f \in C : d.bitmap = f.bitmap /\ d.bitmap # 0 => d = f
      /\ live \subseteq {preview.bitmap} \cup {d.bitmap : d \in C}
  BY CancelledOwned
<1>4. n \in PrintEffect
  BY Zenon DEF PrintEffect, PrintTypeOK, PrintScreen, SetOrNone
<1>5. n.set = ui.generated /\ n.at = "begin" /\ n.bitmap = 0
  OBVIOUS
<1>. HIDE DEF C, n
<1>6. PrintTypeOK'
  BY <1>1, <1>2, <1>4 DEF PrintTypeOK
<1>7. AskedIsRead'
  BY <1>1 DEF AskedIsRead
<1>8. PreviewIsLatest'
  BY <1>1, <1>5 DEF PreviewIsLatest
<1>9. BitmapsAreOwned'
  BY <1>1, <1>2, <1>5 DEF BitmapsAreOwned
<1>. QED
  BY <1>6, <1>7, <1>8, <1>9

LEMMA EffectBeginsKeeps ==
    ASSUME PrintInv, NEW e \in effects, Prints!EffectBegins(e)
    PROVE  PrintInv'
<1>. USE DEF PrintInv
<1>. DEFINE f == [e EXCEPT !.at = "render"]
            new == IF e.set = NoSet THEN {} ELSE {f}
<1>1. /\ preview' \in Previews /\ preview'.kind # "ready" /\ preview'.bitmap = 0
      /\ live' = live \ ({preview.bitmap} \ {0})
  BY DEF Prints!EffectBegins, Prints!Recycled, Prints!IdlePreview, Prints!Preview, Previews
<1>2. /\ e.at = "begin" /\ effects' = (effects \ {e}) \cup new
      /\ ui' = ui /\ key' = key /\ bitmaps' = bitmaps /\ picker' = picker /\ copying' = copying
      /\ documents' = documents
  BY DEF Prints!EffectBegins
<1>3. e \in PrintEffect /\ e.bitmap = 0
  BY <1>2 DEF PrintTypeOK, BitmapsAreOwned
<1>4. f \in PrintEffect /\ f.at = "render" /\ f.bitmap = 0 /\ f.set = e.set /\ f.cancelled = e.cancelled
  BY <1>3 DEF PrintEffect
<1>5. new \subseteq {f}
  OBVIOUS
<1>. HIDE DEF f, new
<1>6. PrintTypeOK'
  <2>0. live' \subseteq live
    BY <1>1
  <2>1. Len(bitmaps) \in Nat /\ bitmaps' \in Seq(SetOrNone) /\ live' \subseteq 1..Len(bitmaps')
    BY <1>2, <2>0, FewerBitmaps
  <2>2. effects' \subseteq PrintEffect
    BY <1>2, <1>4, <1>5 DEF PrintTypeOK
  <2>. QED
    BY <1>1, <1>2, <2>1, <2>2 DEF PrintTypeOK
<1>7. AskedIsRead' /\ PreviewIsLatest'
  BY <1>1, <1>2 DEF AskedIsRead, PreviewIsLatest
<1>8. BitmapsAreOwned'
  <2>1. \A d \in effects' :
          /\ d.at # "main" => d.bitmap = 0
          /\ d.bitmap # 0 => d.bitmap \in live' /\ bitmaps[d.bitmap] = d.set
          /\ ~d.cancelled => d.set = key
          /\ d.bitmap # 0 => d \in effects
    BY <1>1, <1>2, <1>3, <1>4, <1>5 DEF BitmapsAreOwned
  <2>2. \A d, g \in effects' : d.bitmap = g.bitmap /\ d.bitmap # 0 => d = g
    BY <2>1 DEF BitmapsAreOwned
  <2>3. live' \subseteq {0} \cup {d.bitmap : d \in effects'}
    <3>1. ASSUME NEW b \in live' PROVE \E d \in effects' : d.bitmap = b
      <4>1. b \in live /\ b # preview.bitmap /\ b # 0
        BY <1>1 DEF PrintTypeOK
      <4>2. PICK d \in effects : d.bitmap = b
        BY <4>1 DEF BitmapsAreOwned
      <4>. QED
        BY <1>2, <1>3, <4>1, <4>2
    <3>. QED
      BY <3>1
  <2>. QED
    BY <1>1, <1>2, <2>1, <2>2, <2>3 DEF BitmapsAreOwned
<1>. QED
  BY <1>6, <1>7, <1>8

LEMMA RenderKeeps ==
    ASSUME PrintInv, NEW e \in effects, Prints!Render(e)
    PROVE  PrintInv'
<1>. USE DEF PrintInv
<1>1. /\ e.at = "render" /\ ui' = ui /\ preview' = preview /\ key' = key /\ picker' = picker
      /\ copying' = copying /\ documents' = documents
  BY DEF Prints!Render
<1>2. e \in PrintEffect /\ e.bitmap = 0 /\ Len(bitmaps) \in Nat
  BY <1>1 DEF PrintTypeOK, BitmapsAreOwned
<1>3. AskedIsRead'
  BY <1>1 DEF AskedIsRead
<1>4. \A b \in live : b \in 1..Len(bitmaps) /\ b # 0
  BY DEF PrintTypeOK
<1>5. CASE /\ bitmaps' = Append(bitmaps, e.set) /\ live' = live \cup {Len(bitmaps) + 1}
           /\ effects' = (effects \ {e}) \cup {[e EXCEPT !.at = "main", !.bitmap = Len(bitmaps) + 1]}
  <2>. DEFINE L == Len(bitmaps) + 1
              f == [e EXCEPT !.at = "main", !.bitmap = L]
  <2>1. L \in Nat /\ L # 0 /\ L \notin live /\ preview.bitmap # L /\ \A d \in effects : d.bitmap # L
    BY <1>2, <1>4 DEF PrintTypeOK, BitmapsAreOwned
  <2>2. f \in PrintEffect /\ f.at = "main" /\ f.bitmap = L /\ f.set = e.set /\ f.cancelled = e.cancelled
    BY <1>2, <2>1 DEF PrintEffect
  <2>3. /\ bitmaps' \in Seq(SetOrNone) /\ Len(bitmaps') = L /\ bitmaps'[L] = e.set
        /\ \A b \in live : bitmaps'[b] = bitmaps[b]
    <3>1. e.set \in SetOrNone
      BY <1>2 DEF PrintEffect
    <3>. QED
      BY <1>4, <1>5, <3>1 DEF PrintTypeOK
  <2>4. live' = live \cup {L} /\ effects' = (effects \ {e}) \cup {f}
    BY <1>5
  <2>. HIDE DEF L, f
  <2>5. PrintTypeOK'
    <3>1. \A b \in 1..Len(bitmaps) : b \in 1..L
      BY <1>2 DEF L
    <3>2. L \in 1..L
      BY <1>2 DEF L
    <3>3. live' \subseteq 1..L
      BY <1>4, <2>4, <3>1, <3>2
    <3>4. preview'.bitmap <= L
      BY <1>1, <1>2 DEF PrintTypeOK, L, Previews
    <3>. QED
      BY <1>1, <2>2, <2>3, <2>4, <3>3, <3>4 DEF PrintTypeOK
  <2>6. PreviewIsLatest'
    BY <1>1, <2>3, <2>4 DEF PreviewIsLatest, BitmapsAreOwned
  <2>7. BitmapsAreOwned'
    <3>1. \A d \in effects' :
            /\ d.at # "main" => d.bitmap = 0
            /\ d.bitmap # 0 => d.bitmap \in live' /\ bitmaps'[d.bitmap] = d.set /\ d.bitmap # preview.bitmap
            /\ ~d.cancelled => d.set = key
      BY <1>1, <2>1, <2>2, <2>3, <2>4 DEF BitmapsAreOwned
    <3>2. \A d, g \in effects' : d.bitmap = g.bitmap /\ d.bitmap # 0 => d = g
      BY <2>1, <2>2, <2>4 DEF BitmapsAreOwned
    <3>3. live' \subseteq {preview.bitmap} \cup {d.bitmap : d \in effects'}
      <4>1. ASSUME NEW b \in live', b # preview.bitmap PROVE \E d \in effects' : d.bitmap = b
        BY <1>2, <1>4, <2>2, <2>4, <4>1 DEF BitmapsAreOwned
      <4>. QED
        BY <4>1
    <3>. QED
      BY <1>1, <2>4, <3>1, <3>2, <3>3 DEF BitmapsAreOwned
  <2>. QED
    BY <1>3, <2>5, <2>6, <2>7
<1>6. CASE /\ bitmaps' = bitmaps /\ live' = live
           /\ effects' = (effects \ {e}) \cup {[e EXCEPT !.at = "main"]}
  <2>. DEFINE f == [e EXCEPT !.at = "main"]
  <2>1. f \in PrintEffect /\ f.at = "main" /\ f.bitmap = 0 /\ f.set = e.set /\ f.cancelled = e.cancelled
    BY <1>2 DEF PrintEffect
  <2>2. effects' = (effects \ {e}) \cup {f}
    BY <1>6
  <2>. HIDE DEF f
  <2>3. PrintTypeOK'
    BY <1>1, <1>6, <2>1, <2>2 DEF PrintTypeOK
  <2>4. PreviewIsLatest'
    BY <1>1, <1>6, <2>2 DEF PreviewIsLatest
  <2>5. BitmapsAreOwned'
    <3>1. \A d \in effects' :
            /\ d.at # "main" => d.bitmap = 0
            /\ d.bitmap # 0 => d.bitmap \in live /\ bitmaps[d.bitmap] = d.set /\ d.bitmap # preview.bitmap
            /\ ~d.cancelled => d.set = key
      BY <2>1, <2>2 DEF BitmapsAreOwned
    <3>2. \A d, g \in effects' : d.bitmap = g.bitmap /\ d.bitmap # 0 => d = g
      BY <2>1, <2>2 DEF BitmapsAreOwned
    <3>3. live \subseteq {preview.bitmap} \cup {d.bitmap : d \in effects'}
      BY <1>2, <1>4, <2>2 DEF BitmapsAreOwned
    <3>. QED
      BY <1>1, <1>6, <3>1, <3>2, <3>3 DEF BitmapsAreOwned
  <2>. QED
    BY <1>3, <2>3, <2>4, <2>5
<1>. QED
  BY <1>5, <1>6 DEF Prints!Render

LEMMA EffectEndsKeeps ==
    ASSUME PrintInv, NEW e \in effects, Prints!EffectEnds(e)
    PROVE  PrintInv'
<1>. USE DEF PrintInv
<1>1. /\ e.at = "main" /\ effects' = effects \ {e}
      /\ ui' = ui /\ key' = key /\ bitmaps' = bitmaps /\ picker' = picker /\ copying' = copying
      /\ documents' = documents
  BY DEF Prints!EffectEnds
<1>2. e \in PrintEffect /\ Len(bitmaps) \in Nat /\ \A b \in live : b \in 1..Len(bitmaps) /\ b # 0
  BY DEF PrintTypeOK
<1>3. AskedIsRead'
  BY <1>1 DEF AskedIsRead
<1>4. CASE e.cancelled
  <2>1. live' = live \ {e.bitmap} /\ preview' = preview
    BY <1>4 DEF Prints!EffectEnds
  <2>2. PrintTypeOK'
    BY <1>1, <2>1 DEF PrintTypeOK
  <2>3. PreviewIsLatest'
    BY <1>1, <2>1 DEF PreviewIsLatest
  <2>4. BitmapsAreOwned'
    BY <1>1, <1>2, <2>1 DEF BitmapsAreOwned
  <2>. QED
    BY <1>3, <2>2, <2>3, <2>4
<1>5. CASE ~e.cancelled
  <2>. DEFINE next == [kind |-> IF e.bitmap = 0 THEN "failed" ELSE "ready", bitmap |-> e.bitmap]
  <2>1. preview' = next /\ live' = live \ ({preview.bitmap} \ {e.bitmap})
    BY <1>5 DEF Prints!EffectEnds, Prints!Recycled, Prints!Preview
  <2>2. /\ next \in Previews /\ next.bitmap = e.bitmap /\ next.bitmap <= Len(bitmaps)
        /\ next.kind = "ready" <=> e.bitmap # 0
    BY <1>2 DEF Previews, PrintEffect, BitmapsAreOwned
  <2>. HIDE DEF next
  <2>3. PrintTypeOK'
    BY <1>1, <2>1, <2>2 DEF PrintTypeOK
  <2>4. e.bitmap # 0 => bitmaps[e.bitmap] = key /\ e.bitmap \in live /\ e.bitmap # preview.bitmap
    BY <1>5 DEF BitmapsAreOwned
  <2>5. PreviewIsLatest'
    BY <1>1, <2>1, <2>2, <2>4 DEF PreviewIsLatest
  <2>6. BitmapsAreOwned'
    <3>1. \A d \in effects' :
            /\ d.at # "main" => d.bitmap = 0
            /\ d.bitmap # 0 => d.bitmap \in live' /\ bitmaps[d.bitmap] = d.set /\ d.bitmap # e.bitmap
            /\ ~d.cancelled => d.set = key
      BY <1>1, <2>1 DEF BitmapsAreOwned
    <3>2. \A d, g \in effects' : d.bitmap = g.bitmap /\ d.bitmap # 0 => d = g
      BY <1>1 DEF BitmapsAreOwned
    <3>3. live' \subseteq {e.bitmap} \cup {d.bitmap : d \in effects'}
      BY <1>1, <1>2, <2>1 DEF BitmapsAreOwned
    <3>. QED
      BY <1>1, <2>1, <2>2, <2>4, <3>1, <3>2, <3>3 DEF BitmapsAreOwned
  <2>. QED
    BY <1>3, <2>3, <2>5, <2>6
<1>. QED
  BY <1>4, <1>5

LEMMA PrintKeeps == PrintInv /\ [Prints!PrintNext]_printVars => PrintInv'
<1>. SUFFICES ASSUME PrintInv, [Prints!PrintNext]_printVars PROVE PrintInv'
  OBVIOUS
<1>. USE DEF PrintInv
\* Steps of the screen, of the picker and of the copies leave the bitmaps alone.
<1>1. ASSUME UNCHANGED <<preview, key, effects, bitmaps, live>>, ui' \in PrintScreen, AskedIsRead'
      PROVE  PrintInv'
  BY <1>1 DEF PrintTypeOK, BitmapsAreOwned, PreviewIsLatest
<1>2. CASE Prints!Compose
  <2>1. ui' = [ui EXCEPT !.open = TRUE] /\ UNCHANGED <<preview, key, effects, bitmaps, live, picker, copying, documents>>
    BY <1>2 DEF Prints!Compose
  <2>2. ui' \in PrintScreen
    BY <2>1, Zenon DEF PrintTypeOK, PrintScreen
  <2>3. ui'.saving = ui.saving
    BY <2>1 DEF PrintTypeOK, PrintScreen
  <2>. QED
    BY <1>1, <2>1, <2>2, <2>3 DEF AskedIsRead
<1>3. CASE Prints!Generate
  BY <1>3, GenerateKeeps
<1>4. CASE Prints!Generated
  <2>1. PICK s \in SetOrNone : ui' = [ui EXCEPT !.busy = FALSE, !.generated = s]
    BY <1>4 DEF Prints!Generated, SetOrNone
  <2>2. UNCHANGED <<preview, key, effects, bitmaps, live, picker, copying, documents>>
    BY <1>4 DEF Prints!Generated
  <2>3. ui' \in PrintScreen
    BY <2>1, Zenon DEF PrintTypeOK, PrintScreen
  <2>4. ui'.saving = ui.saving
    BY <2>1 DEF PrintTypeOK, PrintScreen
  <2>. QED
    BY <1>1, <2>2, <2>3, <2>4 DEF AskedIsRead
<1>5. CASE Prints!Launch
  BY <1>5, LaunchKeeps
<1>6. ASSUME NEW e \in effects, Prints!EffectBegins(e) \/ Prints!Render(e) \/ Prints!EffectEnds(e)
      PROVE  PrintInv'
  BY <1>6, EffectBeginsKeeps, RenderKeeps, EffectEndsKeeps
<1>7. CASE Prints!BeginSave
  <2>0. /\ ui.saving = NoSet /\ UNCHANGED <<preview, key, effects, bitmaps, live, copying, documents>>
        /\ picker = NoSet /\ ui \in PrintScreen
    BY <1>7 DEF Prints!BeginSave, PrintTypeOK
  <2>1. CASE ui' = [ui EXCEPT !.saving = ui.generated, !.saves = @ + 1] /\ picker' = ui.generated
    <3>. DEFINE g == ui.generated
                n == ui.saves + 1
    <3>1. g \in SetOrNone /\ n \in Nat
      BY <2>0 DEF PrintScreen
    <3>2. ui' = [ui EXCEPT !.saving = g, !.saves = n] /\ picker' = g
      BY <2>1
    <3>. HIDE DEF g, n
    <3>3. ui' \in PrintScreen /\ ui'.saving = picker'
      BY <2>0, <3>1, <3>2 DEF PrintScreen
    <3>. QED
      BY <1>1, <2>0, <3>3 DEF AskedIsRead
  <2>2. CASE ui' = [ui EXCEPT !.saves = @ + 1] /\ picker' = picker
    <3>1. ui' \in PrintScreen /\ ui'.saving = ui.saving
      BY <2>0, <2>2 DEF PrintScreen
    <3>. QED
      BY <1>1, <2>0, <2>2, <3>1 DEF AskedIsRead
  <2>. QED
    BY <1>7, <2>1, <2>2 DEF Prints!BeginSave
<1>8. CASE Prints!PickerReturns
  <2>0. /\ ui' = [ui EXCEPT !.saving = NoSet] /\ picker' = NoSet /\ picker # NoSet
        /\ UNCHANGED <<preview, key, effects, bitmaps, live, documents>>
        /\ copying' \subseteq copying \cup (IF ui.saving = NoSet THEN {} ELSE {[asked |-> picker, read |-> ui.saving]})
    BY <1>8 DEF Prints!PickerReturns
  <2>1. ui' \in PrintScreen
    BY <2>0 DEF PrintTypeOK, PrintScreen, SetOrNone
  <2>2. \A d \in copying' : d.read = d.asked
    BY <2>0 DEF AskedIsRead
  <2>. QED
    BY <1>1, <2>0, <2>1, <2>2 DEF AskedIsRead
<1>9. ASSUME NEW c \in copying, Prints!CopyEnds(c) PROVE PrintInv'
  <2>1. /\ copying' \subseteq copying /\ documents' \subseteq documents \cup copying
        /\ UNCHANGED <<ui, preview, key, effects, bitmaps, live, picker>>
    BY <1>9 DEF Prints!CopyEnds
  <2>. QED
    BY <1>1, <2>1 DEF AskedIsRead, PrintTypeOK
<1>10. CASE Prints!Leave
  <2>1. /\ Prints!Disposed /\ ui' = [Prints!NoScreen EXCEPT !.saves = ui.saves]
        /\ UNCHANGED <<bitmaps, picker, copying, documents>>
    BY <1>10 DEF Prints!Leave
  <2>2. Prints!NoScreen \in PrintScreen /\ Prints!NoScreen.saving = NoSet
    <3>1. Prints!NoScreen \in PrintScreen
      BY Zenon DEF Prints!NoScreen, PrintScreen, SetOrNone
    <3>. QED
      BY <3>1 DEF Prints!NoScreen
  <2>3. ui.saves \in Nat
    BY DEF PrintTypeOK, PrintScreen
  <2>4. ui' \in PrintScreen /\ ui'.saving = NoSet
    BY <2>1, <2>2, <2>3 DEF PrintScreen
  <2>5. AskedIsRead'
    BY <2>1, <2>4 DEF AskedIsRead
  <2>. QED
    BY <2>1, <2>4, <2>5, DisposedKeeps
<1>11. CASE Prints!Recreate
  <2>1. /\ Prints!Disposed /\ ui' = [ui EXCEPT !.open = FALSE]
        /\ UNCHANGED <<bitmaps, picker, copying, documents>>
    BY <1>11 DEF Prints!Recreate
  <2>2. ui' \in PrintScreen
    BY <2>1, Zenon DEF PrintTypeOK, PrintScreen
  <2>3. ui'.saving = ui.saving
    BY <2>1 DEF PrintTypeOK, PrintScreen
  <2>4. AskedIsRead'
    BY <2>1, <2>3 DEF AskedIsRead
  <2>. QED
    BY <2>1, <2>2, <2>4, DisposedKeeps
<1>12. CASE Prints!ProcessDeath
  <2>1. /\ ui' = [Prints!NoScreen EXCEPT !.saving = ui.saving, !.saves = ui.saves]
        /\ preview' = [kind |-> "idle", bitmap |-> 0] /\ effects' = {} /\ live' = {}
        /\ copying' = {} /\ UNCHANGED <<bitmaps, picker, documents>>
    BY <1>12 DEF Prints!ProcessDeath, Prints!IdlePreview, Prints!Preview
  <2>2. Prints!NoScreen \in PrintScreen
    BY Zenon DEF Prints!NoScreen, PrintScreen, SetOrNone
  <2>3. ui.saves \in Nat /\ ui.saving \in SetOrNone
    BY DEF PrintTypeOK, PrintScreen
  <2>4. ui' \in PrintScreen /\ ui'.saving = ui.saving
    BY <2>1, <2>2, <2>3 DEF PrintScreen
  <2>5. Len(bitmaps) \in Nat /\ bitmaps' \in Seq(SetOrNone)
    BY <2>1 DEF PrintTypeOK
  <2>6. PrintTypeOK'
    BY <2>1, <2>4, <2>5 DEF PrintTypeOK, Previews
  <2>7. AskedIsRead' /\ BitmapsAreOwned' /\ PreviewIsLatest'
    BY <2>1, <2>4 DEF AskedIsRead, BitmapsAreOwned, PreviewIsLatest
  <2>. QED
    BY <2>6, <2>7
<1>13. CASE UNCHANGED printVars
  BY <1>1, <1>13 DEF printVars, AskedIsRead, PrintTypeOK
<1>. QED
  BY <1>2, <1>3, <1>4, <1>5, <1>6, <1>7, <1>8, <1>9, <1>10, <1>11, <1>12, <1>13 DEF Prints!PrintNext

(* What the user keeps is what was asked for: a document is of the set whose  *)
(* saving was asked for, and the preview is a picture of the generated set    *)
(* that is not recycled, while every other picture is recycled but for those  *)
(* that an effect holds.                                                      *)
THEOREM WantedIsKept == MCSpec => []KeptIsWanted
<1>1. MCInit => PrintInv
  BY PrintInitial DEF MCInit
<1>2. PrintInv /\ [MCNext]_allVars => PrintInv'
  BY PrintStep, PrintKeeps
<1>3. PrintInv => KeptIsWanted
  BY DEF PrintInv, AskedIsRead, BitmapsAreOwned, PreviewIsLatest, KeptIsWanted, Prints!KeptIsWanted
<1>. QED
  BY <1>1, <1>2, <1>3, PTL DEF MCSpec, allVars

-----------------------------------------------------------------------------
(* Notebooks.                                                                 *)

Row == [design : Designs, archived : BOOLEAN, active : BOOLEAN]

\* At most one notebook is active, and it is not archived.
OneActive(s) ==
    /\ \A m, n \in DOMAIN s : s[m].active /\ s[n].active => m = n
    /\ \A n \in DOMAIN s : s[n].active => ~s[n].archived

OpKinds == {"idle", "refresh", "recognize", "create", "resolve", "activate", "clear", "archive"}

\* Only listed notebooks are archived, and only recognized designs created.
Valid(op, s) ==
    /\ op.kind \in OpKinds /\ (op.kind = "idle" => op = Shelf!Idle)
    /\ op.kind = "archive" => op.notebook \in DOMAIN s
    /\ op.kind = "create" => op.design \in Designs

DeskOK(d, s) ==
    /\ DOMAIN d = {"open", "op", "at", "listed", "payload", "design", "created", "answer", "error"}
    /\ Valid(d.op, s) /\ d.payload \in Designs \cup {"none"}
    /\ \A x \in d.listed : x.id \in DOMAIN s

LensOK(l, s) ==
    /\ DOMAIN l = {"open", "op", "at", "listed", "notebook"}
    /\ Valid(l.op, s)
    /\ l.notebook # 0 => l.notebook \in DOMAIN s

\* A scan on its way is of a notebook that is there, and one that was resolved
\* again is of a page of its design.
OnTheWay(r, s) ==
    /\ DOMAIN r = {"notebook", "code", "at"}
    /\ r.notebook \in DOMAIN s /\ r.notebook # 0
    /\ r.code \in Shelf!Codes /\ r.code.kind = "page"
    /\ r.at = "insert" => s[r.notebook].design = r.code.design
Arrived(r, s) == r.notebook \in DOMAIN s /\ s[r.notebook].design = r.code.design

ShelfInv ==
    /\ shelf \in Seq(Row) /\ OneActive(shelf)
    /\ DeskOK(desk, shelf) /\ LensOK(lens, shelf)
    /\ \A op \in strays : Valid(op, shelf)
    /\ \A r \in mail : OnTheWay(r, shelf)
    /\ \A r \in received : Arrived(r, shelf)

LEMMA ShelfStep == [MCNext]_allVars => [Shelf!ShelfNext]_shelfVars
BY DEF MCNext, allVars, shelfVars

LEMMA NewDeskResult ==
    ASSUME NEW open, NEW s
    PROVE  LET d == Shelf!NewDesk(open) IN
           DeskOK(d, s) /\ d.listed = {} /\ d.op = Shelf!Idle
BY DEF DeskOK, Shelf!NewDesk, Shelf!Idle, Valid, OpKinds

LEMMA NoLensResult ==
    ASSUME NEW s
    PROVE  LensOK(Shelf!NoLens, s) /\ Shelf!NoLens.notebook = 0
BY DEF LensOK, Shelf!NoLens, Shelf!Idle, Valid, OpKinds

LEMMA ShelfInitial == Shelf!ShelfInit => ShelfInv
<1>. SUFFICES ASSUME Shelf!ShelfInit PROVE ShelfInv
  OBVIOUS
<1>. USE DEF Shelf!ShelfInit
<1>1. shelf \in Seq(Row) /\ OneActive(shelf)
  BY DEF OneActive
<1>2. DeskOK(desk, shelf) /\ LensOK(lens, shelf)
  BY NewDeskResult, NoLensResult
<1>. QED
  BY <1>1, <1>2 DEF ShelfInv

-----------------------------------------------------------------------------
\* What a call does to the rows: none goes away or changes its design.
Grows(s, t) ==
    /\ t \in Seq(Row) /\ OneActive(t)
    /\ Len(s) <= Len(t) /\ \A n \in DOMAIN s : t[n].design = s[n].design

WithActive(r, b) == [r EXCEPT !.active = b]

LEMMA WithActiveResult ==
    ASSUME NEW r \in Row, NEW b \in BOOLEAN
    PROVE  /\ WithActive(r, b) \in Row /\ WithActive(r, b).active = b
           /\ WithActive(r, b).design = r.design /\ WithActive(r, b).archived = r.archived
<1>1. WithActive(r, b) \in Row
  BY Zenon DEF Row, WithActive
<1>2. WithActive(r, b).active = b
  BY Zenon DEF Row, WithActive
<1>3. WithActive(r, b).design = r.design
  BY Zenon DEF Row, WithActive
<1>4. WithActive(r, b).archived = r.archived
  BY Zenon DEF Row, WithActive
<1>. QED
  BY <1>1, <1>2, <1>3, <1>4

\* Making one notebook active, or none, clears every other flag.
LEMMA ActivatedResult ==
    ASSUME NEW s \in Seq(Row), NEW n, n \in DOMAIN s => ~s[n].archived
    PROVE  Grows(s, Shelf!Activated(s, n))
<1>. DEFINE t == Shelf!Activated(s, n)
<1>1. t = [m \in DOMAIN s |-> WithActive(s[m], m = n)]
  BY Zenon DEF Shelf!Activated, WithActive
<1>2. \A m \in DOMAIN s : s[m] \in Row
  OBVIOUS
<1>3. \A m \in DOMAIN s : t[m] = WithActive(s[m], m = n)
  BY <1>1, Zenon
<1>4. \A m \in DOMAIN s : /\ t[m] \in Row /\ t[m].active = (m = n)
                          /\ t[m].design = s[m].design /\ t[m].archived = s[m].archived
  <2>. HIDE DEF t
  <2>. TAKE m \in DOMAIN s
  <2>. DEFINE b == m = n
              r == s[m]
  <2>1. b \in BOOLEAN /\ r \in Row /\ t[m] = WithActive(r, b)
    BY <1>2, <1>3, Zenon
  <2>. HIDE DEF b, r
  <2>2. /\ WithActive(r, b) \in Row /\ WithActive(r, b).active = b
        /\ WithActive(r, b).design = r.design /\ WithActive(r, b).archived = r.archived
    BY <2>1, WithActiveResult, Zenon
  <2>. QED
    BY <2>1, <2>2, Zenon DEF b, r
<1>5. DOMAIN t = DOMAIN s
  BY <1>1, Zenon
<1>. HIDE DEF t
<1>6. DOMAIN s = 1..Len(s) /\ Len(s) \in Nat
  OBVIOUS
<1>7. t = [m \in 1..Len(s) |-> t[m]]
  <2>1. t = [m \in DOMAIN t |-> t[m]]
    BY <1>1, Zenon DEF t
  <2>. QED
    BY <1>5, <1>6, <2>1
<1>8. t \in [1..Len(s) -> Row]
  BY <1>4, <1>6, <1>7
<1>9. t \in Seq(Row) /\ Len(t) = Len(s)
  BY <1>6, <1>8
<1>10. OneActive(t)
  BY <1>4, <1>5 DEF OneActive
<1>. QED
  BY <1>4, <1>6, <1>9, <1>10 DEF Grows, t

Shut(r) == [r EXCEPT !.archived = TRUE, !.active = FALSE]

LEMMA ShutResult ==
    ASSUME NEW r \in Row
    PROVE  Shut(r) \in Row /\ ~Shut(r).active /\ Shut(r).design = r.design
<1>1. Shut(r) \in Row
  BY Zenon DEF Row, Shut
<1>2. ~Shut(r).active
  BY Zenon DEF Row, Shut
<1>3. Shut(r).design = r.design
  BY Zenon DEF Row, Shut
<1>. QED
  BY <1>1, <1>2, <1>3

LEMMA ArchivedResult ==
    ASSUME NEW s \in Seq(Row), OneActive(s), NEW n \in DOMAIN s
    PROVE  Grows(s, Shelf!Archived(s, n))
<1>. DEFINE t == [s EXCEPT ![n] = Shut(s[n])]
<1>1. CASE s[n].archived
  <2>1. Shelf!Archived(s, n) = s
    BY <1>1 DEF Shelf!Archived
  <2>. QED
    BY <2>1 DEF Grows
<1>2. CASE ~s[n].archived
  <2>1. Shelf!Archived(s, n) = t
    <3>. DEFINE With(a, b) == [s EXCEPT ![n].archived = a, ![n].active = b]
                Then(a, b) == [s EXCEPT ![n] = [s[n] EXCEPT !.archived = a, !.active = b]]
    <3>1. ASSUME NEW a, NEW b PROVE With(a, b) = Then(a, b)
      OBVIOUS
    <3>2. Shelf!Archived(s, n) = With(TRUE, FALSE) /\ t = Then(TRUE, FALSE)
      BY <1>2, Zenon DEF Shelf!Archived, Shut
    <3>. HIDE DEF With, Then, t
    <3>. QED
      BY <3>1, <3>2, Zenon
  <2>2. s[n] \in Row
    OBVIOUS
  <2>3. Shut(s[n]) \in Row /\ ~Shut(s[n]).active /\ Shut(s[n]).design = s[n].design
    BY <2>2, ShutResult, Zenon
  <2>4. t \in Seq(Row) /\ Len(t) = Len(s) /\ DOMAIN t = DOMAIN s
    BY <2>3
  <2>5. \A m \in DOMAIN s : t[m] = IF m = n THEN Shut(s[n]) ELSE s[m]
    OBVIOUS
  <2>. HIDE DEF t
  <2>6. OneActive(t)
    BY <2>3, <2>4, <2>5 DEF OneActive
  <2>7. \A m \in DOMAIN s : t[m].design = s[m].design
    BY <2>3, <2>5
  <2>8. Len(s) <= Len(t)
    BY <2>4
  <2>. QED
    BY <2>1, <2>4, <2>6, <2>7, <2>8 DEF Grows
<1>. QED
  BY <1>1, <1>2

LEMMA CreatedResult ==
    ASSUME NEW s \in Seq(Row), OneActive(s), NEW d \in Designs, NEW make
    PROVE  Grows(s, Shelf!Created(s, d, make))
<1>. DEFINE r == [design |-> d, archived |-> FALSE, active |-> FALSE]
            t == Append(s, r)
<1>1. r \in Row
  BY Zenon DEF Row
<1>2. ~r.active
  BY Zenon
<1>3. ~r.archived
  BY Zenon
<1>4. Shelf!Created(s, d, make) = IF make THEN Shelf!Activated(t, Len(t)) ELSE t
  BY Zenon DEF Shelf!Created
<1>. HIDE DEF r
<1>5. /\ t \in Seq(Row) /\ Len(t) = Len(s) + 1 /\ Len(s) \in Nat /\ t[Len(t)] = r
      /\ \A m \in DOMAIN s : m \in DOMAIN t /\ t[m] = s[m]
      /\ \A m \in DOMAIN t : m \in DOMAIN s \/ m = Len(t)
  BY <1>1
<1>. HIDE DEF t
<1>6. OneActive(t)
  BY <1>2, <1>5 DEF OneActive
<1>7. Grows(s, t)
  BY <1>5, <1>6 DEF Grows
<1>8. Grows(t, Shelf!Activated(t, Len(t)))
  BY <1>3, <1>5, ActivatedResult
<1>. DEFINE u == Shelf!Activated(t, Len(t))
<1>9. Grows(s, u)
  <2>. HIDE DEF u
  <2>1. u \in Seq(Row) /\ OneActive(u) /\ Len(t) <= Len(u) /\ \A m \in DOMAIN t : u[m].design = t[m].design
    BY <1>8 DEF Grows, u
  <2>2. Len(u) \in Nat
    BY <2>1
  <2>3. Len(s) <= Len(u)
    BY <1>5, <2>1, <2>2
  <2>. QED
    BY <1>5, <2>1, <2>3 DEF Grows
<1>. QED
  BY <1>4, <1>7, <1>9

LEMMA CallResult ==
    ASSUME ShelfInv, NEW op, Valid(op, shelf), Shelf!Call(op)
    PROVE  Grows(shelf, shelf')
<1>1. shelf \in Seq(Row) /\ OneActive(shelf) /\ shelf' = Shelf!Rows(op)
  BY DEF ShelfInv, Shelf!Call
<1>2. CASE op.kind = "activate" /\ ~Shelf!Refused(op)
  <2>1. ~shelf[op.notebook].archived
    BY <1>2 DEF Shelf!Refused
  <2>2. shelf' = Shelf!Activated(shelf, op.notebook)
    BY <1>1, <1>2 DEF Shelf!Rows
  <2>. QED
    BY <1>1, <2>1, <2>2, ActivatedResult
<1>3. CASE op.kind = "clear"
  <2>1. shelf' = Shelf!Activated(shelf, 0)
    BY <1>1, <1>3 DEF Shelf!Rows
  <2>2. 0 \notin DOMAIN shelf
    BY <1>1
  <2>. QED
    BY <1>1, <2>1, <2>2, ActivatedResult
<1>4. CASE op.kind = "archive"
  <2>1. shelf' = Shelf!Archived(shelf, op.notebook)
    BY <1>1, <1>4 DEF Shelf!Rows
  <2>. QED
    BY <1>1, <1>4, <2>1, ArchivedResult DEF Valid, Shelf!Notebooks
<1>5. CASE op.kind = "create"
  <2>1. shelf' = Shelf!Created(shelf, op.design, op.make)
    BY <1>1, <1>5 DEF Shelf!Rows
  <2>. QED
    BY <1>1, <1>5, <2>1, CreatedResult DEF Valid
<1>6. CASE /\ ~(op.kind = "activate" /\ ~Shelf!Refused(op))
           /\ op.kind \notin {"clear", "archive", "create"}
  <2>1. shelf' = shelf
    BY <1>1, <1>6 DEF Shelf!Rows
  <2>. QED
    BY <1>1, <2>1 DEF Grows
<1>. QED
  BY <1>2, <1>3, <1>4, <1>5, <1>6

\* What held of the rows holds of more rows.
LEMMA MoreRows ==
    ASSUME NEW s \in Seq(Row), NEW t, Grows(s, t)
    PROVE  /\ t \in Seq(Row) /\ OneActive(t)
           /\ \A op : Valid(op, s) => Valid(op, t)
           /\ \A d : DeskOK(d, s) => DeskOK(d, t)
           /\ \A l : LensOK(l, s) => LensOK(l, t)
           /\ \A r : OnTheWay(r, s) => OnTheWay(r, t)
           /\ \A r : Arrived(r, s) => Arrived(r, t)
<1>1. t \in Seq(Row) /\ OneActive(t) /\ Len(s) <= Len(t)
      /\ \A n \in DOMAIN s : t[n].design = s[n].design
  BY DEF Grows
<1>2. \A n \in DOMAIN s : n \in DOMAIN t
  BY <1>1
<1>3. \A op : Valid(op, s) => Valid(op, t)
  BY <1>2 DEF Valid
<1>4. \A d : DeskOK(d, s) => DeskOK(d, t)
  BY <1>2, <1>3 DEF DeskOK
<1>5. \A l : LensOK(l, s) => LensOK(l, t)
  BY <1>2, <1>3 DEF LensOK
<1>6. \A r : OnTheWay(r, s) => OnTheWay(r, t)
  BY <1>1, <1>2 DEF OnTheWay
<1>7. \A r : Arrived(r, s) => Arrived(r, t)
  BY <1>1, <1>2 DEF Arrived
<1>. QED
  BY <1>1, <1>3, <1>4, <1>5, <1>6, <1>7

\* A step that calls nothing leaves the rows alone.
LEMMA QuietShelf ==
    ASSUME ShelfInv, shelf' = shelf, DeskOK(desk', shelf), LensOK(lens', shelf),
           \A op \in strays' : Valid(op, shelf),
           \A r \in mail' : OnTheWay(r, shelf), \A r \in received' : Arrived(r, shelf)
    PROVE  ShelfInv'
BY DEF ShelfInv

LEMMA CallKeeps ==
    ASSUME ShelfInv, NEW op, Valid(op, shelf), Shelf!Call(op), DeskOK(desk', shelf'), LensOK(lens', shelf'),
           strays' \subseteq strays, mail' = mail, received' = received
    PROVE  ShelfInv'
<1>1. Grows(shelf, shelf') /\ shelf \in Seq(Row)
  BY CallResult DEF ShelfInv
<1>2. /\ shelf' \in Seq(Row) /\ OneActive(shelf')
      /\ \A o : Valid(o, shelf) => Valid(o, shelf')
      /\ \A r : OnTheWay(r, shelf) => OnTheWay(r, shelf')
      /\ \A r : Arrived(r, shelf) => Arrived(r, shelf')
  BY <1>1, MoreRows
<1>. QED
  BY <1>2 DEF ShelfInv

\* Fields of the desk that a step sets.
LEMMA DeskFields ==
    ASSUME NEW d, NEW s, DeskOK(d, s), NEW op, Valid(op, s), NEW at, NEW error
    PROVE  /\ DeskOK([d EXCEPT !.op = op, !.at = at, !.error = error], s)
           /\ DeskOK([d EXCEPT !.op = op], s)
           /\ DeskOK([d EXCEPT !.at = at], s)
BY DEF DeskOK

LEMMA LensFields ==
    ASSUME NEW l, NEW s, LensOK(l, s), NEW op, Valid(op, s), NEW at
    PROVE  /\ LensOK([l EXCEPT !.op = op, !.at = at], s)
           /\ LensOK([l EXCEPT !.op = op], s)
           /\ LensOK([l EXCEPT !.at = at], s)
BY DEF LensOK

LEMMA ListingResult ==
    ASSUME NEW x \in Shelf!Listing
    PROVE  x.id \in DOMAIN shelf
BY DEF Shelf!Listing, Shelf!Notebooks

\* A code of a page is resolved for a notebook of its design only.
LEMMA ResolvedForNotebook ==
    ASSUME NEW c \in Shelf!Codes, c.kind = "page", NEW n, n # 0,
           Shelf!Resolve(c, n) = Shelf!Answer("resolved", n)
    PROVE  shelf[n].design = c.design
<1>1. c.page \in Nat
  BY ScreensAssumption DEF Shelf!Codes
<1>2. (CHOOSE m \in {n} : TRUE) = n
  OBVIOUS
<1>3. Shelf!Answer("resolved", n) # Shelf!Answer("unsupported", 0)
      /\ Shelf!Answer("resolved", n) # Shelf!Answer("conflicting", n)
  BY DEF Shelf!Answer
<1>4. CASE c.page > PageCount
  BY <1>3, <1>4 DEF Shelf!Resolve
<1>5. CASE c.page <= PageCount
  <2>1. Shelf!Resolve(c, n) = IF shelf[n].design # c.design THEN Shelf!Answer("conflicting", n)
                              ELSE IF shelf[n].archived THEN Shelf!Answer("error", n)
                              ELSE Shelf!Answer("resolved", n)
    BY <1>1, <1>2, <1>5, ScreensAssumption DEF Shelf!Resolve
  <2>. QED
    BY <1>3, <2>1
<1>. QED
  BY <1>1, <1>4, <1>5, ScreensAssumption

\* The other fields of the desk are free, but for the list and the payload.
LEMMA SetsDesk ==
    ASSUME NEW d, NEW s, DeskOK(d, s)
    PROVE  /\ \A design, created : DeskOK([d EXCEPT !.design = design, !.created = created], s)
           /\ \A design, created : DeskOK([d EXCEPT !.created = created, !.design = design], s)
           /\ \A answer : DeskOK([d EXCEPT !.answer = answer], s)
           /\ \A error : DeskOK([d EXCEPT !.error = error], s)
           /\ \A list : (\A x \in list : x.id \in DOMAIN s) => DeskOK([d EXCEPT !.listed = list], s)
           /\ \A payload \in Designs : DeskOK([d EXCEPT !.payload = payload], s)
           /\ \A payload \in Designs : \A design, created, answer, error :
                  DeskOK([d EXCEPT !.payload = payload, !.design = design, !.created = created,
                                   !.answer = answer, !.error = error], s)
BY DEF DeskOK

LEMMA IdleIsValid == \A s : Valid(Shelf!Idle, s)
BY DEF Valid, Shelf!Idle, OpKinds

\* An operation that is begun.
LEMMA RunKeeps ==
    ASSUME ShelfInv, NEW op, Valid(op, shelf), Shelf!Run(op)
    PROVE  ShelfInv'
<1>1. DeskOK(desk, shelf) /\ LensOK(lens, shelf)
  BY DEF ShelfInv
<1>2. /\ desk' = [desk EXCEPT !.op = op, !.at = "call", !.error = FALSE]
      /\ UNCHANGED <<shelf, lens, strays, mail, received>>
  BY DEF Shelf!Run
<1>3. DeskOK(desk', shelf)
  <2>. DEFINE Begun(e) == [desk EXCEPT !.op = op, !.at = "call", !.error = e]
  <2>1. \A e : DeskOK(Begun(e), shelf)
    BY <1>1, DeskFields
  <2>2. desk' = Begun(FALSE)
    BY <1>2, Zenon
  <2>. HIDE DEF Begun
  <2>. QED
    BY <2>1, <2>2, Zenon
<1>. QED
  BY <1>1, <1>2, <1>3, QuietShelf DEF ShelfInv

\* The call of the screen in front.
LEMMA DeskCallKeeps ==
    ASSUME ShelfInv, Shelf!DeskCall
    PROVE  ShelfInv'
<1>. DEFINE op == desk.op
            done == [desk EXCEPT !.op = Shelf!Idle]
            answered == [done EXCEPT !.answer = Shelf!Resolve(op.code, op.notebook)]
            failed == [done EXCEPT !.error = TRUE]
            listing == [done EXCEPT !.listed = Shelf!Listing]
            known == [done EXCEPT !.design = op.design, !.created = 0]
            made == [done EXCEPT !.created = Len(shelf'), !.design = "none"]
            again == [desk EXCEPT !.at = "list"]
<1>1. /\ Shelf!Call(op) /\ DeskOK(desk, shelf) /\ LensOK(lens, shelf) /\ Valid(op, shelf)
      /\ UNCHANGED <<lens, strays, mail, received>> /\ shelf \in Seq(Row)
  BY DEF ShelfInv, Shelf!DeskCall, DeskOK
<1>2. \/ desk' \in {listing, known, made, answered, again}
      \/ desk' = failed
  <2>1. op.kind \in OpKinds /\ op.kind # "idle"
    BY <1>1 DEF Valid, Shelf!DeskCall
  <2>. QED
    BY <2>1 DEF Shelf!DeskCall, OpKinds
<1>3. Grows(shelf, shelf')
  BY <1>1, CallResult
<1>4. /\ \A o : Valid(o, shelf) => Valid(o, shelf')
      /\ DeskOK(desk, shelf') /\ LensOK(lens, shelf')
  BY <1>1, <1>3, MoreRows
<1>5. Valid(Shelf!Idle, shelf')
  BY IdleIsValid
<1>6. \A x \in Shelf!Listing : x.id \in DOMAIN shelf'
  BY <1>1, <1>3, ListingResult DEF Grows
<1>7. DeskOK(done, shelf') /\ DeskOK(again, shelf')
  BY <1>1, <1>4, <1>5, DeskFields
<1>8. DeskOK(listing, shelf') /\ DeskOK(known, shelf') /\ DeskOK(made, shelf') /\ DeskOK(answered, shelf')
  <2>. DEFINE rest == Shelf!Listing
              answer == Shelf!Resolve(op.code, op.notebook)
              kind == op.design
              count == Len(shelf')
  <2>. HIDE DEF rest, answer, kind, count
  <2>1. /\ DeskOK([done EXCEPT !.listed = rest], shelf')
        /\ DeskOK([done EXCEPT !.design = kind, !.created = 0], shelf')
        /\ DeskOK([done EXCEPT !.created = count, !.design = "none"], shelf')
        /\ DeskOK([done EXCEPT !.answer = answer], shelf')
    <3>. HIDE DEF op
    <3>1. \A x \in rest : x.id \in DOMAIN shelf'
      BY <1>6 DEF rest
    <3>. QED
      BY <1>7, <3>1, SetsDesk
  <2>. QED
    BY <2>1 DEF rest, answer, kind, count
<1>9. DeskOK(failed, shelf')
  <2>. DEFINE Failed(e) == [done EXCEPT !.error = e]
  <2>1. \A e : DeskOK(Failed(e), shelf')
    <3>. HIDE DEF done
    <3>. QED
      BY <1>7, SetsDesk
  <2>2. failed = Failed(TRUE)
    BY Zenon
  <2>. HIDE DEF Failed, failed
  <2>. QED
    BY <2>1, <2>2, Zenon
<1>10. DeskOK(desk', shelf')
  <2>. HIDE DEF listing, known, made, answered, again, failed
  <2>. QED
    BY <1>2, <1>7, <1>8, <1>9
<1>. QED
  BY <1>1, <1>4, <1>10, CallKeeps

\* The same for the scanner.
LEMMA LensCallKeeps ==
    ASSUME ShelfInv, Shelf!LensCall
    PROVE  ShelfInv'
<1>1. /\ Shelf!Call(lens.op) /\ DeskOK(desk, shelf) /\ LensOK(lens, shelf) /\ Valid(lens.op, shelf)
      /\ UNCHANGED <<desk, strays, mail, received>> /\ shelf \in Seq(Row)
      /\ lens' \in {[lens EXCEPT !.op = Shelf!Idle], [lens EXCEPT !.at = "list"]}
  BY DEF ShelfInv, Shelf!LensCall, LensOK
<1>2. Grows(shelf, shelf')
  BY <1>1, CallResult
<1>3. DeskOK(desk, shelf') /\ LensOK(lens, shelf') /\ Valid(lens.op, shelf')
  BY <1>1, <1>2, MoreRows
<1>4. LensOK(lens', shelf')
  <2>1. LensOK([lens EXCEPT !.op = Shelf!Idle], shelf') /\ LensOK([lens EXCEPT !.at = "list"], shelf')
    BY <1>3, IdleIsValid DEF LensOK
  <2>. QED
    BY <1>1, <2>1
<1>. QED
  BY <1>1, <1>3, <1>4, CallKeeps

LEMMA StrayEndsKeeps ==
    ASSUME ShelfInv, NEW op \in strays, Shelf!StrayEnds(op)
    PROVE  ShelfInv'
<1>1. /\ Shelf!Call(op) /\ Valid(op, shelf) /\ DeskOK(desk, shelf) /\ LensOK(lens, shelf)
      /\ UNCHANGED <<desk, lens, mail, received>> /\ strays' \subseteq strays /\ shelf \in Seq(Row)
  BY DEF ShelfInv, Shelf!StrayEnds
<1>2. Grows(shelf, shelf')
  BY <1>1, CallResult
<1>3. DeskOK(desk, shelf') /\ LensOK(lens, shelf')
  BY <1>1, <1>2, MoreRows
<1>. QED
  BY <1>1, <1>3, CallKeeps

LEMMA ShelfKeeps == ShelfInv /\ [Shelf!ShelfNext]_shelfVars => ShelfInv'
<1>. SUFFICES ASSUME ShelfInv, [Shelf!ShelfNext]_shelfVars PROVE ShelfInv'
  OBVIOUS
<1>1. /\ shelf \in Seq(Row) /\ OneActive(shelf) /\ DeskOK(desk, shelf) /\ LensOK(lens, shelf)
      /\ (\A op \in strays : Valid(op, shelf)) /\ Valid(desk.op, shelf) /\ Valid(lens.op, shelf)
      /\ (\A r \in mail : OnTheWay(r, shelf)) /\ (\A r \in received : Arrived(r, shelf))
      /\ \A x \in desk.listed : x.id \in DOMAIN shelf
  BY DEF ShelfInv, DeskOK, LensOK
<1>2. \A x \in Shelf!Listing : x.id \in DOMAIN shelf
  BY ListingResult
<1>3. CASE Shelf!OpenDesk
  <2>1. /\ desk' = [Shelf!NewDesk(TRUE) EXCEPT !.op = [kind |-> "refresh"]]
        /\ UNCHANGED <<shelf, lens, strays, mail, received>>
    BY <1>3 DEF Shelf!OpenDesk
  <2>2. Valid([kind |-> "refresh"], shelf)
    BY DEF Valid, OpKinds
  <2>3. DeskOK(desk', shelf)
    BY <2>1, <2>2, NewDeskResult, DeskFields
  <2>. QED
    BY <1>1, <2>1, <2>3, QuietShelf
<1>4. CASE Shelf!LeaveDesk
  <2>1. /\ desk' = Shelf!NewDesk(FALSE) /\ strays' \in {strays, strays \cup {desk.op}}
        /\ UNCHANGED <<shelf, lens, mail, received>>
    BY <1>4 DEF Shelf!LeaveDesk
  <2>2. DeskOK(desk', shelf)
    BY <2>1, NewDeskResult
  <2>. QED
    BY <1>1, <2>1, <2>2, QuietShelf
<1>5. CASE Shelf!MakeActive
  <2>1. PICK x \in desk.listed : Shelf!Run([kind |-> "activate", notebook |-> x.id])
    BY <1>5 DEF Shelf!MakeActive
  <2>2. Valid([kind |-> "activate", notebook |-> x.id], shelf)
    BY DEF Valid, OpKinds
  <2>. QED
    BY <2>1, <2>2, RunKeeps
<1>6. CASE Shelf!ClearActive
  <2>1. Shelf!Run([kind |-> "clear"])
    BY <1>6 DEF Shelf!ClearActive
  <2>2. Valid([kind |-> "clear"], shelf)
    BY DEF Valid, OpKinds
  <2>. QED
    BY <2>1, <2>2, RunKeeps
<1>7. CASE Shelf!ArchiveOne
  <2>1. PICK x \in desk.listed : Shelf!Run([kind |-> "archive", notebook |-> x.id])
    BY <1>7 DEF Shelf!ArchiveOne
  <2>2. Valid([kind |-> "archive", notebook |-> x.id], shelf)
    BY <1>1 DEF Valid, OpKinds
  <2>. QED
    BY <2>1, <2>2, RunKeeps
<1>8. CASE Shelf!Recognize
  <2>1. PICK d \in Designs :
            desk' \in {[desk EXCEPT !.payload = d, !.op = [kind |-> "recognize", design |-> d],
                                    !.at = "call", !.error = FALSE],
                       [desk EXCEPT !.payload = d]}
    BY <1>8 DEF Shelf!Recognize
  <2>2. UNCHANGED <<shelf, lens, strays, mail, received>>
    BY <1>8 DEF Shelf!Recognize
  <2>. DEFINE op == [kind |-> "recognize", design |-> d]
              Asked(e) == [desk EXCEPT !.payload = d, !.op = op, !.at = "call", !.error = e]
  <2>3. Valid(op, shelf)
    BY DEF Valid, OpKinds
  <2>4. \A e : DeskOK(Asked(e), shelf)
    <3>. HIDE DEF op
    <3>1. DeskOK([desk EXCEPT !.payload = d], shelf)
      BY <1>1, SetsDesk
    <3>. QED
      BY <1>1, <2>3, <3>1 DEF DeskOK
  <2>5. desk' \in {Asked(FALSE), [desk EXCEPT !.payload = d]}
    BY <2>1, Zenon
  <2>6. DeskOK([desk EXCEPT !.payload = d], shelf)
    BY <1>1, SetsDesk
  <2>7. DeskOK(desk', shelf)
    <3>1. DeskOK(Asked(FALSE), shelf)
      <4>. HIDE DEF Asked
      <4>. QED
        BY <2>4, Zenon
    <3>. HIDE DEF Asked
    <3>. QED
      BY <2>5, <2>6, <3>1
  <2>. QED
    BY <1>1, <2>2, <2>7, QuietShelf
<1>9. CASE Shelf!CreateOne
  <2>1. PICK make \in BOOLEAN :
            Shelf!Run([kind |-> "create", design |-> desk.payload, make |-> make])
    BY <1>9 DEF Shelf!CreateOne
  <2>2. Valid([kind |-> "create", design |-> desk.payload, make |-> make], shelf)
    <3>1. desk.payload \in Designs
      BY <1>1, <1>9 DEF Shelf!CreateOne, DeskOK
    <3>2. ASSUME NEW b PROVE Valid([kind |-> "create", design |-> desk.payload, make |-> b], shelf)
      BY <3>1 DEF Valid, OpKinds
    <3>. QED
      BY <3>2, Zenon
  <2>. DEFINE op == [kind |-> "create", design |-> desk.payload, make |-> make]
  <2>. HIDE DEF op
  <2>3. Valid(op, shelf) /\ Shelf!Run(op)
    BY <2>1, <2>2, Zenon DEF op
  <2>. QED
    BY <2>3, RunKeeps
<1>10. CASE Shelf!ResolveCode
  <2>1. PICK c \in Shelf!Codes : \E x \in desk.listed :
            Shelf!Run([kind |-> "resolve", code |-> c, notebook |-> x.id])
    BY <1>10 DEF Shelf!ResolveCode
  <2>2. PICK x \in desk.listed : Shelf!Run([kind |-> "resolve", code |-> c, notebook |-> x.id])
    BY <2>1
  <2>3. Valid([kind |-> "resolve", code |-> c, notebook |-> x.id], shelf)
    BY DEF Valid, OpKinds
  <2>. QED
    BY <2>2, <2>3, RunKeeps
<1>11. CASE Shelf!TypePayload
  <2>1. PICK d \in Designs : desk' = [desk EXCEPT !.payload = d, !.design = "none", !.created = 0,
                                                  !.answer = Shelf!NoAnswer, !.error = FALSE]
    BY <1>11 DEF Shelf!TypePayload
  <2>2. UNCHANGED <<shelf, lens, strays, mail, received>>
    BY <1>11 DEF Shelf!TypePayload
  <2>. DEFINE Typed(design, created, answer, e) ==
                  [desk EXCEPT !.payload = d, !.design = design, !.created = created,
                               !.answer = answer, !.error = e]
  <2>3. \A design, created, answer, e : DeskOK(Typed(design, created, answer, e), shelf)
    BY <1>1, SetsDesk
  <2>4. desk' = Typed("none", 0, Shelf!NoAnswer, FALSE)
    BY <2>1, Zenon
  <2>5. DeskOK(desk', shelf)
    <3>. HIDE DEF Typed
    <3>. QED
      BY <2>3, <2>4, Zenon
  <2>. QED
    BY <1>1, <2>2, <2>5, QuietShelf
<1>12. CASE Shelf!DeskCall
  BY <1>12, DeskCallKeeps
<1>13. CASE Shelf!DeskList
  <2>1. /\ desk' = [desk EXCEPT !.op = Shelf!Idle, !.at = "call", !.listed = Shelf!Listing]
        /\ UNCHANGED <<shelf, lens, strays, mail, received>>
    BY <1>13 DEF Shelf!DeskList
  <2>2. DeskOK(desk', shelf)
    BY <1>1, <1>2, <2>1, IdleIsValid DEF DeskOK
  <2>. QED
    BY <1>1, <2>1, <2>2, QuietShelf
<1>14. CASE \E p \in SmartPages : Shelf!Generate(p)
  <2>1. UNCHANGED <<shelf, desk, lens, strays, mail, received>>
    BY <1>14 DEF Shelf!Generate
  <2>. QED
    BY <1>1, <2>1, QuietShelf
<1>15. CASE Shelf!OpenLens
  <2>1. UNCHANGED <<shelf, desk, strays, mail, received>>
    BY <1>15 DEF Shelf!OpenLens
  <2>. DEFINE Opened(b) == [Shelf!NoLens EXCEPT !.open = b, !.op = [kind |-> "refresh"], !.at = "list"]
  <2>2. \A b : LensOK(Opened(b), shelf)
    BY DEF LensOK, Shelf!NoLens, Valid, OpKinds
  <2>3. lens' = Opened(TRUE)
    BY <1>15, Zenon DEF Shelf!OpenLens
  <2>4. LensOK(lens', shelf)
    <3>. HIDE DEF Opened
    <3>. QED
      BY <2>2, <2>3, Zenon
  <2>. QED
    BY <1>1, <2>1, <2>4, QuietShelf
<1>16. CASE Shelf!LeaveLens
  <2>1. /\ lens' = Shelf!NoLens /\ strays' \in {strays, strays \cup {lens.op}}
        /\ UNCHANGED <<shelf, desk, mail, received>>
    BY <1>16 DEF Shelf!LeaveLens
  <2>2. LensOK(lens', shelf)
    BY <2>1, NoLensResult
  <2>. QED
    BY <1>1, <2>1, <2>2, QuietShelf
<1>17. CASE \E n \in {x.id : x \in lens.listed} \cup {r.notebook : r \in mail} : Shelf!SelectNotebook(n)
  <2>1. PICK n : Shelf!SelectNotebook(n)
    BY <1>17
  <2>2. /\ lens' = [lens EXCEPT !.op = [kind |-> "activate", notebook |-> n], !.at = "call"]
        /\ UNCHANGED <<shelf, desk, strays, mail, received>>
    BY <2>1 DEF Shelf!SelectNotebook
  <2>3. Valid([kind |-> "activate", notebook |-> n], shelf)
    BY DEF Valid, OpKinds
  <2>4. LensOK(lens', shelf)
    BY <1>1, <2>2, <2>3, LensFields
  <2>. QED
    BY <1>1, <2>2, <2>4, QuietShelf
<1>18. CASE Shelf!LensCall
  BY <1>18, LensCallKeeps
<1>19. CASE Shelf!LensList
  <2>. DEFINE n == IF Shelf!Active = {} THEN 0 ELSE CHOOSE m \in Shelf!Active : TRUE
  <2>1. /\ lens' = [lens EXCEPT !.op = Shelf!Idle, !.listed = Shelf!Listing, !.notebook = n]
        /\ UNCHANGED <<shelf, desk, strays, mail, received>>
    BY <1>19 DEF Shelf!LensList
  <2>2. n # 0 => n \in DOMAIN shelf
    BY DEF Shelf!Active, Shelf!Notebooks
  <2>. HIDE DEF n
  <2>3. LensOK(lens', shelf)
    BY <1>1, <2>1, <2>2, IdleIsValid DEF LensOK
  <2>. QED
    BY <1>1, <2>1, <2>3, QuietShelf
<1>20. CASE \E c \in Shelf!Codes : Shelf!Capture(c)
  <2>1. PICK c \in Shelf!Codes : Shelf!Capture(c)
    BY <1>20
  <2>. DEFINE r == [notebook |-> lens.notebook, code |-> c, at |-> "resolve"]
  <2>2. /\ mail' = mail \cup {r} /\ lens.notebook # 0 /\ c.kind = "page"
        /\ UNCHANGED <<shelf, desk, lens, strays, received>>
    BY <2>1 DEF Shelf!Capture
  <2>3. OnTheWay(r, shelf)
    BY <1>1, <2>2 DEF OnTheWay, LensOK
  <2>4. \A q \in mail' : OnTheWay(q, shelf)
    BY <1>1, <2>2, <2>3
  <2>. QED
    BY <1>1, <2>2, <2>4, QuietShelf
<1>21. CASE \E r \in mail : Shelf!ResolveAgain(r)
  <2>1. PICK r \in mail : Shelf!ResolveAgain(r)
    BY <1>21
  <2>2. UNCHANGED <<shelf, desk, lens, strays, received>>
    BY <2>1 DEF Shelf!ResolveAgain
  <2>. DEFINE q == [r EXCEPT !.at = "insert"]
  <2>3. OnTheWay(r, shelf) /\ r.at = "resolve"
    BY <1>1, <2>1 DEF Shelf!ResolveAgain
  <2>4. mail' \subseteq mail \cup {q}
    BY <2>1 DEF Shelf!ResolveAgain
  <2>5. q.notebook = r.notebook /\ q.code = r.code /\ DOMAIN q = DOMAIN r
    BY <2>3 DEF OnTheWay
  <2>6. q \in mail' => q \in mail \/ Shelf!Resolve(r.code, r.notebook) = Shelf!Answer("resolved", r.notebook)
    BY <2>1 DEF Shelf!ResolveAgain
  <2>. HIDE DEF q
  <2>7. q \in mail' => OnTheWay(q, shelf)
    BY <1>1, <2>3, <2>5, <2>6, ResolvedForNotebook DEF OnTheWay
  <2>8. \A m \in mail' : OnTheWay(m, shelf)
    BY <1>1, <2>4, <2>7
  <2>. QED
    BY <1>1, <2>2, <2>8, QuietShelf
<1>22. CASE \E r \in mail : Shelf!InsertScan(r)
  <2>1. PICK r \in mail : Shelf!InsertScan(r)
    BY <1>22
  <2>. DEFINE q == [notebook |-> r.notebook, code |-> r.code]
  <2>2. /\ mail' \subseteq mail /\ received' = received \cup {q} /\ r.at = "insert"
        /\ UNCHANGED <<shelf, desk, lens, strays>>
    BY <2>1 DEF Shelf!InsertScan
  <2>3. Arrived(q, shelf)
    BY <1>1, <2>2 DEF OnTheWay, Arrived
  <2>4. (\A m \in mail' : OnTheWay(m, shelf)) /\ \A m \in received' : Arrived(m, shelf)
    BY <1>1, <2>2, <2>3
  <2>. QED
    BY <1>1, <2>2, <2>4, QuietShelf
<1>23. CASE \E op \in strays : Shelf!StrayEnds(op)
  BY <1>23, StrayEndsKeeps
<1>24. CASE UNCHANGED shelfVars
  BY <1>1, <1>24, QuietShelf DEF shelfVars
<1>. QED
  BY <1>3, <1>4, <1>5, <1>6, <1>7, <1>8, <1>9, <1>10, <1>11, <1>12, <1>13, <1>14, <1>15, <1>16,
     <1>17, <1>18, <1>19, <1>20, <1>21, <1>22, <1>23, <1>24 DEF Shelf!ShelfNext

\* At most one element is at most one.
LEMMA OneOrNone ==
    ASSUME NEW S, \A m, n \in S : m = n
    PROVE  IsFiniteSet(S) /\ Cardinality(S) <= 1
<1>1. CASE S = {}
  BY <1>1, FS_EmptySet
<1>2. CASE S # {}
  <2>1. PICK n \in S : TRUE
    BY <1>2
  <2>2. S = {n}
    BY <2>1
  <2>3. IsFiniteSet({n}) /\ Cardinality({n}) = 1
    BY FS_Singleton, Zenon
  <2>. QED
    BY <2>2, <2>3
<1>. QED
  BY <1>1, <1>2

LEMMA SameCardinality == \A S : Shelf!Cardinality(S) = Cardinality(S)
BY DEF Shelf!Cardinality, Cardinality

\* A code that is resolved for nobody's choice.
LEMMA ResolvedForNobody ==
    ASSUME NEW c \in Shelf!Codes, c.kind = "page"
    PROVE  LET found == Shelf!Candidates(c.design)
               n == CHOOSE m \in Shelf!Active : TRUE
           IN  Shelf!Resolve(c, 0) =
                 IF c.page > PageCount THEN Shelf!Answer("unsupported", 0)
                 ELSE IF Shelf!Active # {}
                 THEN IF shelf[n].design # c.design THEN Shelf!Answer("conflicting", n)
                      ELSE IF shelf[n].archived THEN Shelf!Answer("error", n) ELSE Shelf!Answer("resolved", n)
                 ELSE IF found = {} THEN Shelf!Answer("registration", 0)
                 ELSE IF Cardinality(found) = 1 THEN Shelf!Answer("resolved", CHOOSE m \in found : TRUE)
                 ELSE Shelf!Answer("selection", 0)
<1>. DEFINE found == Shelf!Candidates(c.design)
            flagged == Shelf!Active
            n == CHOOSE m \in flagged : TRUE
            one == CHOOSE m \in found : TRUE
            chosen == IF 0 # 0 THEN {0} ELSE flagged
            k == CHOOSE m \in chosen : TRUE
            held == IF shelf[k].design # c.design THEN Shelf!Answer("conflicting", k)
                    ELSE IF shelf[k].archived THEN Shelf!Answer("error", k) ELSE Shelf!Answer("resolved", k)
            free == IF found = {} THEN Shelf!Answer("registration", 0)
                    ELSE IF Shelf!Cardinality(found) = 1 THEN Shelf!Answer("resolved", one)
                    ELSE Shelf!Answer("selection", 0)
            printedOne == Shelf!Answer(IF c.page \in printed THEN "resolved" ELSE "imported", 0)
            none == Shelf!Answer("unsupported", 0)
<1>1. Shelf!Cardinality(found) = Cardinality(found)
  BY SameCardinality
<1>2. c.page \in Nat /\ PageCount \in Nat
  BY ScreensAssumption DEF Shelf!Codes
<1>3. Shelf!Resolve(c, 0) =
        CASE c.kind = "setup" -> none
          [] c.kind = "smart" -> printedOne
          [] c.kind = "page" /\ c.page > PageCount -> none
          [] c.kind = "page" /\ c.page <= PageCount /\ chosen # {} -> held
          [] OTHER -> free
  BY Zenon DEF Shelf!Resolve
<1>4. chosen = flagged /\ k = n
  OBVIOUS
<1>. HIDE DEF found, flagged, n, one, chosen, k, held, free, printedOne, none
<1>5. Shelf!Resolve(c, 0) = IF c.page > PageCount THEN none ELSE IF flagged # {} THEN held ELSE free
  BY <1>2, <1>3, <1>4
<1>. QED
  BY <1>1, <1>4, <1>5, Zenon DEF found, flagged, n, one, held, free, none

LEMMA ShelfIsClear ==
    ASSUME ShelfInv
    PROVE  DestinationIsClear
<1>1. /\ shelf \in Seq(Row) /\ \A r \in received : Arrived(r, shelf)
      /\ \A m, n \in Shelf!Active : m = n
      /\ \A n \in Shelf!Active : n \in DOMAIN shelf /\ ~shelf[n].archived
  BY DEF ShelfInv, OneActive, Shelf!Active, Shelf!Notebooks
<1>2. ~Shelf!MultipleActive
  <2>1. IsFiniteSet(Shelf!Active) /\ Cardinality(Shelf!Active) <= 1
    BY <1>1, OneOrNone
  <2>. QED
    BY <2>1, SameCardinality, FS_CardinalityType DEF Shelf!MultipleActive
<1>3. \A r \in received : shelf[r.notebook].design = r.code.design
  BY <1>1 DEF Arrived
<1>4. ASSUME NEW c \in Shelf!Codes, c.kind = "page", Shelf!Resolve(c, 0).kind = "resolved"
      PROVE  LET a == Shelf!Resolve(c, 0) IN
             a.notebook \in Shelf!Candidates(c.design)
             /\ (Shelf!Active = {a.notebook} \/ Shelf!Candidates(c.design) = {a.notebook})
  <2>. DEFINE a == Shelf!Resolve(c, 0)
              found == Shelf!Candidates(c.design)
  <2>. DEFINE flagged == Shelf!Active
              n == CHOOSE m \in flagged : TRUE
              one == CHOOSE m \in found : TRUE
  <2>1. a = IF c.page > PageCount THEN Shelf!Answer("unsupported", 0)
            ELSE IF flagged # {}
            THEN IF shelf[n].design # c.design THEN Shelf!Answer("conflicting", n)
                 ELSE IF shelf[n].archived THEN Shelf!Answer("error", n) ELSE Shelf!Answer("resolved", n)
            ELSE IF found = {} THEN Shelf!Answer("registration", 0)
            ELSE IF Cardinality(found) = 1 THEN Shelf!Answer("resolved", one)
            ELSE Shelf!Answer("selection", 0)
    BY <1>4, ResolvedForNobody, Zenon
  <2>2. IsFiniteSet(found)
    <3>1. found \subseteq 1..Len(shelf)
      BY <1>1 DEF Shelf!Candidates, Shelf!Notebooks
    <3>2. Len(shelf) \in Nat /\ 1 \in Int /\ Len(shelf) \in Int
      BY <1>1
    <3>3. IsFiniteSet(1..Len(shelf))
      BY <3>2, FS_Interval
    <3>. QED
      BY <3>1, <3>3, FS_Subset
  <2>3. \A m : m \in flagged /\ shelf[m].design = c.design => m \in found
    BY <1>1 DEF Shelf!Candidates, Shelf!Notebooks
  <2>4. a.kind = "resolved"
    BY <1>4, Zenon
  <2>5. \A kind, k : Shelf!Answer(kind, k).kind = kind /\ Shelf!Answer(kind, k).notebook = k
    BY DEF Shelf!Answer
  <2>6. (\A m, k \in flagged : m = k) /\ (flagged # {} => n \in flagged) /\ (found # {} => one \in found)
    BY <1>1
  <2>7. Cardinality(found) = 1 => \E x : found = {x}
    BY <2>2, FS_Singleton
  <2>. HIDE DEF a, found, flagged, n, one
  <2>8. CASE flagged # {}
    <3>1. shelf[n].design = c.design /\ a.notebook = n
      BY <2>1, <2>4, <2>5, <2>8
    <3>2. n \in found /\ flagged = {n}
      BY <2>3, <2>6, <2>8, <3>1
    <3>. QED
      BY <3>1, <3>2 DEF a, found, flagged
  <2>9. CASE flagged = {}
    <3>1. found # {} /\ Cardinality(found) = 1 /\ a.notebook = one
      BY <2>1, <2>4, <2>5, <2>9
    <3>2. one \in found /\ found = {one}
      BY <2>6, <2>7, <3>1
    <3>. QED
      BY <3>1, <3>2 DEF a, found
  <2>. QED
    BY <2>8, <2>9
<1>. QED
  BY <1>1, <1>2, <1>3, <1>4 DEF DestinationIsClear, Shelf!DestinationIsClear

(* Scans go where the user was told: at most one notebook is active and it is *)
(* not archived, every scan received is of a page of the design of its        *)
(* notebook, though notebooks are archived, activated and created between the *)
(* two times its code is resolved, and a code that was resolved for nobody's  *)
(* choice had one notebook to go to.                                          *)
THEOREM DestinationsAreClear == MCSpec => []DestinationIsClear
<1>1. MCInit => ShelfInv
  BY ShelfInitial DEF MCInit
<1>2. ShelfInv /\ [MCNext]_allVars => ShelfInv'
  BY ShelfStep, ShelfKeeps
<1>3. ShelfInv => DestinationIsClear
  BY ShelfIsClear
<1>. QED
  BY <1>1, <1>2, <1>3, PTL DEF MCSpec, allVars

-----------------------------------------------------------------------------
(* Batch sessions.                                                            *)

SessionFile == [kind : {"none", "reserved", "session"}, started : Nat, completed : Nat]

\* The steps of a block that carry a copy of its session, those that found its
\* file, and those whose copy is as it was read.
Copying == {"reserve", "rename", "resume", "reopen", "replaceReopen", "complete", "close",
            "replaceClose", "change", "replaceChange"}
Held == {"read", "resume", "reopen", "replaceReopen", "open", "shown", "update", "change",
         "replaceChange", "finish", "complete", "close", "replaceClose", "summary",
         "acknowledge", "remove"}
AsRead == {"resume", "reopen", "replaceReopen", "complete", "change", "replaceChange"}
Steps == Copying \cup Held \cup {"off", "list", "begin", "failed"}

IOBlock == [pc : Steps, session : Directory!Sessions \cup {0}, copy : SessionFile]

CopyOK(b) ==
    /\ b.pc \in Copying \cup Held => b.session \in Directory!Sessions
    /\ b.pc \in Copying => b.copy.kind = "session"

SessionTypeOK ==
    /\ dir \in [Directory!Sessions -> SessionFile]
    /\ io \in [Directory!Screens -> IOBlock]
    /\ opened \in Directory!Screens /\ clock \in Nat \ {0}
    /\ \A k \in Directory!Screens : CopyOK(io[k])
    /\ \A k \in Directory!Screens : k > opened => io[k].pc = "off"

\* The one screen that works knows what it will find in the directory.
OneListed == \A s, t \in Directory!Listed : s = t
FewFiles  == Cardinality(Directory!Files) <= MaxSessions
FrontOK(b) ==
    /\ b.pc = "reserve" => /\ Directory!Listed = {} /\ Cardinality(Directory!Files) < MaxSessions
                           /\ b.session \notin Directory!Files
    /\ b.pc = "rename" => dir[b.session].kind = "reserved" /\ dir[b.session].completed = 0
    /\ b.pc \in Held => dir[b.session].kind = "session"
    /\ b.pc \in AsRead => b.copy = dir[b.session]
    /\ b.pc \in {"close", "replaceClose"} => b.copy.completed # 0
Alone == OneListed /\ FewFiles /\ FrontOK(io[opened])
OneWorks == \A k \in Directory!Screens : k # opened => io[k].pc = "off"

\* What is in the directory, or on its way there, can be read.
Sound(f) == Directory!Parses(f) /\ f.started <= clock
FilesAreSound == \A s \in Directory!Sessions : dir[s].kind = "session" => Sound(dir[s])
CopiesAreSound == \A k \in Directory!Screens : io[k].pc \in Copying => Sound(io[k].copy)

\* A name without a session is being filled.
NamesAreFilled ==
    \A s \in Directory!Files :
        dir[s].kind = "session" \/ \E k \in Directory!Screens : io[k].pc = "rename" /\ io[k].session = s

DirectoryInv ==
    /\ SessionTypeOK
    /\ "overlap" \notin troubles => OneWorks /\ Alone
    /\ "clock" \notin troubles => FilesAreSound /\ CopiesAreSound
    /\ "cut" \notin troubles => NamesAreFilled

LEMMA DirectoryStep == [MCNext]_allVars => [Directory!SessionsNext]_directoryVars
BY DEF MCNext, allVars, directoryVars

LEMMA SameSize == \A S : Directory!Cardinality(S) = Cardinality(S)
BY DEF Directory!Cardinality, Cardinality

LEMMA FilesAreFew ==
    /\ IsFiniteSet(Directory!Files) /\ Cardinality(Directory!Files) \in Nat
    /\ Directory!Listed \subseteq Directory!Files
<1>1. Directory!Files \subseteq 1..MaxBegun /\ 1 \in Int /\ MaxBegun \in Int
  BY ScreensAssumption DEF Directory!Files, Directory!Sessions
<1>2. IsFiniteSet(1..MaxBegun)
  BY <1>1, FS_Interval
<1>3. IsFiniteSet(Directory!Files)
  BY <1>1, <1>2, FS_Subset
<1>. QED
  BY <1>3, FS_CardinalityType DEF Directory!Listed

LEMMA DirectoryInitial == Directory!SessionsInit => DirectoryInv
<1>. SUFFICES ASSUME Directory!SessionsInit PROVE DirectoryInv
  OBVIOUS
<1>1. /\ dir = [s \in Directory!Sessions |-> Directory!NoFile] /\ opened = 1 /\ clock = 1 /\ troubles = {}
      /\ io = [k \in Directory!Screens |-> IF k = 1 THEN Directory!Start ELSE Directory!Off]
  BY DEF Directory!SessionsInit
<1>2. Directory!NoFile \in SessionFile /\ Directory!NoFile.kind = "none"
  BY DEF Directory!NoFile, Directory!File, SessionFile
<1>3. /\ Directory!Start \in IOBlock /\ Directory!Off \in IOBlock
      /\ Directory!Start.pc = "list" /\ Directory!Off.pc = "off"
  BY <1>2 DEF Directory!Start, Directory!Off, Directory!Block, Directory!NoSession, IOBlock, Steps
<1>4. SessionTypeOK
  BY <1>1, <1>2, <1>3, ScreensAssumption DEF SessionTypeOK, CopyOK, Copying, Held, Directory!Screens
<1>5. Directory!Files = {} /\ Directory!Listed = {}
  BY <1>1, <1>2 DEF Directory!Files, Directory!Listed
<1>6. OneWorks /\ Alone
  <2>1. Cardinality({}) = 0
    BY FS_EmptySet
  <2>2. io[opened].pc = "list"
    BY <1>1, <1>3, ScreensAssumption DEF Directory!Screens
  <2>. QED
    BY <1>1, <1>3, <1>5, <2>1, <2>2, ScreensAssumption
    DEF OneWorks, Alone, OneListed, FewFiles, FrontOK, Held, AsRead
<1>7. FilesAreSound /\ CopiesAreSound
  BY <1>1, <1>2, <1>3 DEF FilesAreSound, CopiesAreSound, Copying
<1>8. NamesAreFilled
  BY <1>5 DEF NamesAreFilled
<1>. QED
  BY <1>4, <1>6, <1>7, <1>8 DEF DirectoryInv
-----------------------------------------------------------------------------
\* A step of the block of one screen.
Moved(k, b) ==
    /\ io' = [io EXCEPT ![k] = b] /\ UNCHANGED <<opened, clock>> /\ troubles \subseteq troubles'

LEMMA MovedKeeps ==
    ASSUME DirectoryInv, NEW k \in Directory!Screens, NEW b \in IOBlock, Moved(k, b),
           io[k].pc # "off", CopyOK(b),
           dir' \in [Directory!Sessions -> SessionFile],
           "overlap" \notin troubles /\ k = opened => OneListed' /\ FewFiles' /\ FrontOK(b)',
           "clock" \notin troubles => FilesAreSound' /\ (b.pc \in Copying => Sound(b.copy)),
           "cut" \notin troubles' => NamesAreFilled'
    PROVE  DirectoryInv'
<1>1. /\ io \in [Directory!Screens -> IOBlock] /\ opened \in Directory!Screens /\ clock \in Nat \ {0}
      /\ \A j \in Directory!Screens : CopyOK(io[j])
      /\ \A j \in Directory!Screens : j > opened => io[j].pc = "off"
      /\ "overlap" \notin troubles => OneWorks
      /\ "clock" \notin troubles => CopiesAreSound
  BY DEF DirectoryInv, SessionTypeOK
<1>2. /\ io' = [io EXCEPT ![k] = b] /\ opened' = opened /\ clock' = clock /\ troubles \subseteq troubles'
      /\ io' \in [Directory!Screens -> IOBlock] /\ io'[k] = b
      /\ \A j \in Directory!Screens : j # k => io'[j] = io[j]
  BY <1>1 DEF Moved
<1>3. SessionTypeOK'
  BY <1>1, <1>2 DEF SessionTypeOK
<1>4. "overlap" \notin troubles => k = opened /\ OneWorks'
  BY <1>1, <1>2 DEF OneWorks
<1>5. "overlap" \notin troubles => Alone'
  BY <1>2, <1>4 DEF Alone
<1>6. "clock" \notin troubles => CopiesAreSound'
  BY <1>1, <1>2 DEF CopiesAreSound, Sound
<1>. QED
  BY <1>2, <1>3, <1>4, <1>5, <1>6 DEF DirectoryInv

\* A step that leaves the directory alone.
LEMMA QuietDirectory ==
    ASSUME DirectoryInv, NEW k \in Directory!Screens, NEW b \in IOBlock, Moved(k, b), dir' = dir,
           io[k].pc # "off", CopyOK(b),
           io[k].pc = "rename" => "cut" \in troubles',
           "overlap" \notin troubles /\ k = opened => FrontOK(b),
           "clock" \notin troubles => (b.pc \in Copying => Sound(b.copy))
    PROVE  DirectoryInv'
<1>1. /\ "overlap" \notin troubles => OneListed' /\ FewFiles'
      /\ FrontOK(b)' <=> FrontOK(b)
  BY DEF DirectoryInv, Alone, OneListed, FewFiles, FrontOK, Directory!Listed, Directory!Files
<1>2. "clock" \notin troubles => FilesAreSound'
  BY DEF DirectoryInv, FilesAreSound, Sound, Moved
<1>3. "cut" \notin troubles' => NamesAreFilled'
  <2>. SUFFICES ASSUME "cut" \notin troubles' PROVE NamesAreFilled'
    OBVIOUS
  <2>1. /\ io \in [Directory!Screens -> IOBlock] /\ NamesAreFilled /\ io[k].pc # "rename"
        /\ \A j \in Directory!Screens : j # k => io'[j] = io[j]
    BY DEF Moved, DirectoryInv, SessionTypeOK
  <2>. QED
    BY <2>1 DEF NamesAreFilled, Directory!Files
<1>4. dir' \in [Directory!Sessions -> SessionFile]
  BY DEF DirectoryInv, SessionTypeOK
<1>. QED
  BY <1>1, <1>2, <1>3, <1>4, MovedKeeps
-----------------------------------------------------------------------------
LEMMA BlockResult ==
    ASSUME NEW pc \in Steps, NEW s \in Directory!Sessions \cup {0}, NEW f \in SessionFile
    PROVE  LET b == Directory!Block(pc, s, f) IN
           b \in IOBlock /\ b.pc = pc /\ b.session = s /\ b.copy = f
BY DEF Directory!Block, IOBlock

\* What is shown when a block ends.
EndOf(k, p) == IF k # opened THEN Directory!Off
               ELSE Directory!Block(p, IF p = "failed" THEN 0 ELSE io[k].session, Directory!NoFile)

LEMMA EndResult ==
    ASSUME SessionTypeOK, NEW k \in Directory!Screens, NEW p \in {"failed", "shown", "summary"},
           p # "failed" => io[k].pc \in Held
    PROVE  /\ EndOf(k, p) \in IOBlock /\ CopyOK(EndOf(k, p)) /\ EndOf(k, p).pc \in {"off", p}
           /\ EndOf(k, p).pc \notin Copying
           /\ p # "failed" /\ EndOf(k, p).pc = p => EndOf(k, p).session = io[k].session
<1>1. Directory!NoFile \in SessionFile /\ p \in Steps /\ "off" \in Steps
  BY DEF Directory!NoFile, Directory!File, SessionFile, Steps, Held
<1>. DEFINE s == IF p = "failed" THEN 0 ELSE io[k].session
<1>2. s \in Directory!Sessions \cup {0} /\ (p # "failed" => s \in Directory!Sessions)
  BY DEF SessionTypeOK, IOBlock, CopyOK
<1>. HIDE DEF s
<1>3. LET b == Directory!Block(p, s, Directory!NoFile) IN
      b \in IOBlock /\ b.pc = p /\ b.session = s
  BY <1>1, <1>2, BlockResult
<1>4. Directory!Off \in IOBlock /\ Directory!Off.pc = "off"
  BY <1>1, BlockResult DEF Directory!Off, Directory!NoSession
<1>5. EndOf(k, p) = IF k # opened THEN Directory!Off ELSE Directory!Block(p, s, Directory!NoFile)
  BY DEF EndOf, s
<1>6. p \notin Copying /\ "off" \notin Copying /\ "off" \notin Held /\ "failed" \notin Held
  BY DEF Copying, Held
<1>7. EndOf(k, p) \in IOBlock /\ EndOf(k, p).pc \in {"off", p}
  BY <1>3, <1>4, <1>5
<1>8. EndOf(k, p).pc = p => EndOf(k, p).session = s
  BY <1>3, <1>4, <1>5
<1>9. CopyOK(EndOf(k, p))
  BY <1>2, <1>6, <1>7, <1>8 DEF CopyOK
<1>10. p # "failed" => s = io[k].session
  BY DEF s
<1>. QED
  BY <1>6, <1>7, <1>8, <1>9, <1>10

LEMMA EndsMoves ==
    ASSUME NEW k, NEW p, Directory!Ends(k, p), troubles \subseteq troubles'
    PROVE  Moved(k, EndOf(k, p))
BY DEF Directory!Ends, Directory!Becomes, Moved, EndOf, Directory!NoSession

LEMMA EndsKeeps ==
    ASSUME DirectoryInv, NEW k \in Directory!Screens, NEW p \in {"failed", "shown", "summary"},
           p # "failed" => io[k].pc \in Held, io[k].pc # "off",
           io[k].pc = "rename" => "cut" \in troubles',
           Directory!Ends(k, p), dir' = dir, troubles \subseteq troubles'
    PROVE  DirectoryInv'
<1>. DEFINE b == EndOf(k, p)
<1>1. SessionTypeOK
  BY DEF DirectoryInv
<1>2. /\ b \in IOBlock /\ CopyOK(b) /\ b.pc \in {"off", p} /\ b.pc \notin Copying
      /\ p # "failed" /\ b.pc = p => b.session = io[k].session
  BY <1>1, EndResult
<1>3. Moved(k, b)
  BY EndsMoves
<1>. HIDE DEF b
<1>4. "overlap" \notin troubles /\ k = opened => FrontOK(b)
  <2>. SUFFICES ASSUME "overlap" \notin troubles, k = opened PROVE FrontOK(b)
    OBVIOUS
  <2>1. FrontOK(io[k])
    BY DEF DirectoryInv, Alone
  <2>2. b.pc \in Held => dir[b.session].kind = "session"
    BY <1>2, <2>1 DEF FrontOK, Held
  <2>3. b.pc \notin {"reserve", "rename", "close", "replaceClose"} \cup AsRead
    BY <1>2 DEF AsRead
  <2>. QED
    BY <2>2, <2>3 DEF FrontOK
<1>. QED
  BY <1>2, <1>3, <1>4, QuietDirectory

\* A block goes to its next step, the session at hand and its copy are the same.
LEMMA GoesKeeps ==
    ASSUME DirectoryInv, NEW k \in Directory!Screens, NEW p \in Steps, Directory!Goes(k, p),
           dir' = dir, troubles' = troubles, io[k].pc \notin {"off", "rename"},
           p # "begin" => io[k].pc \in Held /\ p \notin {"reserve", "rename"},
           p \in Copying => io[k].pc \in Copying,
           p \in AsRead => io[k].pc \in AsRead,
           p \in {"close", "replaceClose"} => io[k].pc \in {"close", "replaceClose"}
    PROVE  DirectoryInv'
<1>. DEFINE b == [io[k] EXCEPT !.pc = p]
<1>1. SessionTypeOK /\ io[k] \in IOBlock /\ CopyOK(io[k])
  BY DEF DirectoryInv, SessionTypeOK
<1>2. b \in IOBlock /\ b.pc = p /\ b.session = io[k].session /\ b.copy = io[k].copy
  BY <1>1 DEF IOBlock
<1>3. Moved(k, b)
  BY DEF Directory!Goes, Directory!Becomes, Moved
<1>. HIDE DEF b
<1>4. CopyOK(b)
  BY <1>1, <1>2 DEF CopyOK, Copying, Held
<1>5. "clock" \notin troubles => (b.pc \in Copying => Sound(b.copy))
  BY <1>2 DEF DirectoryInv, CopiesAreSound
<1>6. "overlap" \notin troubles /\ k = opened => FrontOK(b)
  <2>. SUFFICES ASSUME "overlap" \notin troubles, k = opened PROVE FrontOK(b)
    OBVIOUS
  <2>1. FrontOK(io[k])
    BY DEF DirectoryInv, Alone
  <2>. QED
    BY <1>2, <2>1 DEF FrontOK, Held, AsRead
<1>. QED
  BY <1>2, <1>3, <1>4, <1>5, <1>6, QuietDirectory

\* One file is replaced.
LEMMA WrittenResult ==
    ASSUME SessionTypeOK, NEW s \in Directory!Sessions, NEW f \in SessionFile, dir' = [dir EXCEPT ![s] = f]
    PROVE  /\ dir' \in [Directory!Sessions -> SessionFile] /\ dir'[s] = f
           /\ \A t \in Directory!Sessions : t # s => dir'[t] = dir[t]
           /\ Directory!Files' = IF f.kind = "none" THEN Directory!Files \ {s} ELSE Directory!Files \cup {s}
           /\ Directory!Listed' = IF f.kind # "none" /\ f.completed = 0 THEN Directory!Listed \cup {s}
                                  ELSE Directory!Listed \ {s}
<1>1. /\ dir' \in [Directory!Sessions -> SessionFile] /\ dir'[s] = f
      /\ \A t \in Directory!Sessions : t # s => dir'[t] = dir[t]
  BY DEF SessionTypeOK
<1>2. Directory!Files' = IF f.kind = "none" THEN Directory!Files \ {s} ELSE Directory!Files \cup {s}
  BY <1>1 DEF Directory!Files
<1>3. Directory!Listed' = IF f.kind # "none" /\ f.completed = 0 THEN Directory!Listed \cup {s}
                          ELSE Directory!Listed \ {s}
  BY <1>1 DEF Directory!Files, Directory!Listed
<1>. QED
  BY <1>1, <1>2, <1>3

\* The step of a block after its session is written.
After(k, b) ==
    /\ b \in IOBlock /\ CopyOK(b) /\ b.pc \in {"open", "off", "shown", "summary"}
    /\ b.pc # "off" => b.session = io[k].session

\* A session is written to its file.
LEMMA WritesKeeps ==
    ASSUME DirectoryInv, NEW k \in Directory!Screens, NEW b, After(k, b), Moved(k, b), troubles' = troubles,
           io[k].pc \in {"rename", "replaceReopen", "replaceClose", "replaceChange"},
           dir' = [dir EXCEPT ![io[k].session] = io[k].copy]
    PROVE  DirectoryInv'
<1>. DEFINE s == io[k].session
            f == io[k].copy
<1>1. /\ SessionTypeOK /\ io[k] \in IOBlock /\ CopyOK(io[k])
      /\ "overlap" \notin troubles => OneWorks /\ Alone
      /\ "clock" \notin troubles => FilesAreSound /\ CopiesAreSound
      /\ "cut" \notin troubles => NamesAreFilled
  BY DEF DirectoryInv, SessionTypeOK
<1>2. s \in Directory!Sessions /\ f \in SessionFile /\ f.kind = "session" /\ io[k].pc \in Copying
  BY <1>1 DEF IOBlock, CopyOK, Copying
<1>3. dir' = [dir EXCEPT ![s] = f]
  OBVIOUS
<1>. HIDE DEF s, f
<1>4. /\ dir' \in [Directory!Sessions -> SessionFile] /\ dir'[s] = f
      /\ \A t \in Directory!Sessions : t # s => dir'[t] = dir[t]
      /\ Directory!Files' = Directory!Files \cup {s}
      /\ Directory!Listed' = IF f.completed = 0 THEN Directory!Listed \cup {s} ELSE Directory!Listed \ {s}
  BY <1>1, <1>2, <1>3, WrittenResult
<1>5. b \in IOBlock /\ CopyOK(b) /\ b.pc \in {"open", "off", "shown", "summary"}
      /\ (b.pc # "off" => b.session = s)
  BY DEF After, s
<1>6. "overlap" \notin troubles /\ k = opened => OneListed' /\ FewFiles' /\ FrontOK(b)'
  <2>. SUFFICES ASSUME "overlap" \notin troubles, k = opened PROVE OneListed' /\ FewFiles' /\ FrontOK(b)'
    OBVIOUS
  <2>1. OneListed /\ FewFiles /\ FrontOK(io[k])
    BY <1>1 DEF Alone
  <2>2. dir[s].kind # "none" /\ (f.completed = 0 => dir[s].completed = 0)
    <3>1. CASE io[k].pc = "rename"
      BY <2>1, <3>1 DEF FrontOK, s
    <3>2. CASE io[k].pc = "replaceClose"
      BY <2>1, <3>2 DEF FrontOK, Held, s, f
    <3>3. CASE io[k].pc \in {"replaceReopen", "replaceChange"}
      BY <2>1, <3>3 DEF FrontOK, Held, AsRead, s, f
    <3>. QED
      BY <3>1, <3>2, <3>3
  <2>3. Directory!Files' = Directory!Files /\ Directory!Listed' \subseteq Directory!Listed
    BY <1>2, <1>4, <2>2 DEF Directory!Files, Directory!Listed
  <2>4. OneListed' /\ FewFiles'
    BY <2>1, <2>3 DEF OneListed, FewFiles
  <2>5. FrontOK(b)'
    BY <1>2, <1>4, <1>5 DEF FrontOK, Held, AsRead
  <2>. QED
    BY <2>4, <2>5
<1>7. "clock" \notin troubles => FilesAreSound' /\ (b.pc \in Copying => Sound(b.copy))
  <2>. SUFFICES ASSUME "clock" \notin troubles PROVE FilesAreSound' /\ (b.pc \in Copying => Sound(b.copy))
    OBVIOUS
  <2>1. Sound(f)
    BY <1>1, <1>2 DEF CopiesAreSound, f
  <2>2. \A t \in Directory!Sessions : dir'[t].kind = "session" => Sound(dir'[t])
    BY <1>1, <1>4, <2>1 DEF FilesAreSound
  <2>3. FilesAreSound'
    BY <2>2 DEF FilesAreSound, Sound, Directory!Parses, Moved
  <2>. QED
    BY <1>5, <2>3 DEF Copying
<1>8. "cut" \notin troubles' => NamesAreFilled'
  <2>. SUFFICES ASSUME "cut" \notin troubles', NEW t \in Directory!Files', t # s
       PROVE  \/ dir'[t].kind = "session"
              \/ \E j \in Directory!Screens : io'[j].pc = "rename" /\ io'[j].session = t
    BY <1>2, <1>4 DEF NamesAreFilled
  <2>1. t \in Directory!Files /\ dir'[t] = dir[t]
    BY <1>4 DEF Directory!Files
  <2>2. CASE dir[t].kind = "session"
    BY <2>1, <2>2
  <2>3. CASE dir[t].kind # "session"
    <3>1. PICK j \in Directory!Screens : io[j].pc = "rename" /\ io[j].session = t
      BY <1>1, <2>1, <2>3 DEF NamesAreFilled
    <3>2. io'[j] = io[j]
      BY <1>1, <3>1 DEF Moved, SessionTypeOK, s
    <3>. QED
      BY <3>1, <3>2
  <2>. QED
    BY <2>2, <2>3
<1>9. io[k].pc # "off"
  OBVIOUS
<1>. QED
  BY <1>4, <1>5, <1>6, <1>7, <1>8, <1>9, MovedKeeps

\* The name is reserved.
LEMMA ReserveKeeps ==
    ASSUME DirectoryInv, NEW k \in Directory!Screens, Directory!Reserve(k)
    PROVE  DirectoryInv'
<1>. DEFINE s == io[k].session
            f == Directory!Reservation
            next == [io[k] EXCEPT !.pc = "rename"]
<1>0. PICK b : b = next
  OBVIOUS
<1>1. /\ SessionTypeOK /\ io[k] \in IOBlock /\ CopyOK(io[k]) /\ io[k].pc = "reserve"
      /\ "overlap" \notin troubles => OneWorks /\ Alone
      /\ "clock" \notin troubles => FilesAreSound /\ CopiesAreSound
      /\ "cut" \notin troubles => NamesAreFilled
  BY DEF DirectoryInv, SessionTypeOK, Directory!Reserve
<1>2. /\ s \in Directory!Sessions /\ f \in SessionFile /\ f.kind = "reserved" /\ f.completed = 0
      /\ b \in IOBlock /\ b.pc = "rename" /\ b.session = s /\ b.copy = io[k].copy /\ CopyOK(b)
  BY <1>0, <1>1 DEF IOBlock, CopyOK, Copying, SessionFile, Directory!Reservation, Directory!File, Steps
<1>3. dir' = [dir EXCEPT ![s] = f] /\ Moved(k, b) /\ troubles' = troubles
  BY <1>0 DEF Directory!Reserve, Directory!Goes, Directory!Becomes, Moved
<1>4. io' = [io EXCEPT ![k] = b]
  BY <1>3 DEF Moved
<1>. HIDE DEF s, f, next
<1>5. /\ dir' \in [Directory!Sessions -> SessionFile] /\ dir'[s] = f
      /\ \A t \in Directory!Sessions : t # s => dir'[t] = dir[t]
      /\ Directory!Files' = Directory!Files \cup {s} /\ Directory!Listed' = Directory!Listed \cup {s}
  BY <1>1, <1>2, <1>3, WrittenResult
<1>6. "overlap" \notin troubles /\ k = opened => OneListed' /\ FewFiles' /\ FrontOK(b)'
  <2>. SUFFICES ASSUME "overlap" \notin troubles, k = opened PROVE OneListed' /\ FewFiles' /\ FrontOK(b)'
    OBVIOUS
  <2>1. Directory!Listed = {} /\ Cardinality(Directory!Files) < MaxSessions /\ s \notin Directory!Files
    BY <1>1 DEF Alone, FrontOK, s
  <2>2. OneListed'
    BY <1>5, <2>1 DEF OneListed
  <2>3. Cardinality(Directory!Files \cup {s}) = Cardinality(Directory!Files) + 1
    BY <2>1, FilesAreFew, FS_AddElement
  <2>4. FewFiles'
    BY <1>5, <2>1, <2>3, FilesAreFew, ScreensAssumption DEF FewFiles
  <2>5. FrontOK(b)'
    BY <1>2, <1>5 DEF FrontOK, Held, AsRead
  <2>. QED
    BY <2>2, <2>4, <2>5
<1>7. "clock" \notin troubles => FilesAreSound' /\ (b.pc \in Copying => Sound(b.copy))
  <2>. SUFFICES ASSUME "clock" \notin troubles PROVE FilesAreSound' /\ (b.pc \in Copying => Sound(b.copy))
    OBVIOUS
  <2>1. Sound(b.copy)
    BY <1>1, <1>2 DEF CopiesAreSound, Copying
  <2>2. \A t \in Directory!Sessions : dir'[t].kind = "session" => Sound(dir'[t])
    BY <1>1, <1>2, <1>5 DEF FilesAreSound
  <2>3. FilesAreSound'
    BY <1>3, <2>2 DEF FilesAreSound, Sound, Directory!Parses, Moved
  <2>. QED
    BY <2>1, <2>3
<1>8. "cut" \notin troubles' => NamesAreFilled'
  <2>. SUFFICES ASSUME "cut" \notin troubles', NEW t \in Directory!Files'
       PROVE  \/ dir'[t].kind = "session"
              \/ \E j \in Directory!Screens : io'[j].pc = "rename" /\ io'[j].session = t
    BY DEF NamesAreFilled
  <2>1. io'[k] = b /\ \A j \in Directory!Screens : j # k => io'[j] = io[j]
    BY <1>1, <1>4 DEF SessionTypeOK
  <2>2. CASE t = s
    BY <1>2, <2>1, <2>2
  <2>3. CASE t # s
    <3>1. t \in Directory!Files /\ dir'[t] = dir[t]
      BY <1>5, <2>3 DEF Directory!Files
    <3>2. dir[t].kind = "session" \/ \E j \in Directory!Screens : io[j].pc = "rename" /\ io[j].session = t
      BY <1>1, <1>3, <3>1 DEF NamesAreFilled
    <3>. QED
      BY <1>1, <2>1, <3>1, <3>2
  <2>. QED
    BY <2>2, <2>3
<1>. QED
  BY <1>1, <1>2, <1>3, <1>5, <1>6, <1>7, <1>8, MovedKeeps

\* The file is removed.
LEMMA RemoveKeeps ==
    ASSUME DirectoryInv, NEW k \in Directory!Screens, Directory!Remove(k)
    PROVE  DirectoryInv'
<1>. DEFINE s == io[k].session
            f == Directory!NoFile
            next == IF Directory!Present(k) THEN Directory!Off ELSE EndOf(k, "summary")
<1>0. PICK b : b = next
  OBVIOUS
<1>1. /\ SessionTypeOK /\ io[k] \in IOBlock /\ CopyOK(io[k]) /\ io[k].pc = "remove"
      /\ "overlap" \notin troubles => OneWorks /\ Alone
      /\ "clock" \notin troubles => FilesAreSound /\ CopiesAreSound
      /\ "cut" \notin troubles => NamesAreFilled
  BY DEF DirectoryInv, SessionTypeOK, Directory!Remove
<1>2. /\ s \in Directory!Sessions /\ f \in SessionFile /\ f.kind = "none"
      /\ b \in IOBlock /\ b.pc \in {"off", "summary"} /\ CopyOK(b)
  <2>1. EndOf(k, "summary") \in IOBlock /\ EndOf(k, "summary").pc \in {"off", "summary"} /\ CopyOK(EndOf(k, "summary"))
    BY <1>1, EndResult DEF Held
  <2>2. f \in SessionFile /\ f.kind = "none"
    BY DEF Directory!NoFile, Directory!File, SessionFile
  <2>3. Directory!Off \in IOBlock /\ Directory!Off.pc = "off"
    BY <2>2, BlockResult DEF Directory!Off, Directory!NoSession, Steps
  <2>4. CopyOK(Directory!Off)
    BY <2>3 DEF CopyOK, Copying, Held
  <2>. QED
    BY <1>0, <1>1, <2>1, <2>2, <2>3, <2>4 DEF CopyOK, Held
<1>3. dir' = [dir EXCEPT ![s] = f] /\ troubles' = troubles
  BY DEF Directory!Remove
<1>4. Moved(k, b)
  <2>1. CASE Directory!Present(k)
    BY <1>0, <1>3, <2>1 DEF Directory!Remove, Directory!Becomes, Moved
  <2>2. CASE ~Directory!Present(k)
    BY <1>0, <1>3, <2>2, EndsMoves DEF Directory!Remove
  <2>. QED
    BY <2>1, <2>2
<1>5. Directory!Present(k) => b.pc = "off"
  BY <1>0 DEF Directory!Off, Directory!Block
<1>6. io' = [io EXCEPT ![k] = b]
  BY <1>4 DEF Moved
<1>. HIDE DEF f, next
<1>7. /\ dir' \in [Directory!Sessions -> SessionFile] /\ dir'[s] = f
      /\ \A t \in Directory!Sessions : t # s => dir'[t] = dir[t]
      /\ Directory!Files' = Directory!Files \ {s} /\ Directory!Listed' = Directory!Listed \ {s}
  BY <1>1, <1>2, <1>3, WrittenResult
<1>8. "overlap" \notin troubles /\ k = opened => OneListed' /\ FewFiles' /\ FrontOK(b)'
  <2>. SUFFICES ASSUME "overlap" \notin troubles, k = opened PROVE OneListed' /\ FewFiles' /\ FrontOK(b)'
    OBVIOUS
  <2>1. OneListed /\ FewFiles /\ FrontOK(io[k])
    BY <1>1 DEF Alone
  <2>2. Directory!Present(k)
    BY <1>1, <2>1 DEF FrontOK, Held, Directory!Present
  <2>3. Cardinality(Directory!Files \ {s}) \in Nat
        /\ Cardinality(Directory!Files \ {s}) <= Cardinality(Directory!Files)
    BY FilesAreFew, FS_Subset, FS_CardinalityType
  <2>4. OneListed' /\ FewFiles'
    BY <1>7, <2>1, <2>3, FilesAreFew, ScreensAssumption DEF OneListed, FewFiles
  <2>5. FrontOK(b)'
    BY <1>5, <2>2 DEF FrontOK, Held, AsRead
  <2>. QED
    BY <2>4, <2>5
<1>9. "clock" \notin troubles => FilesAreSound' /\ (b.pc \in Copying => Sound(b.copy))
  <2>. SUFFICES ASSUME "clock" \notin troubles PROVE FilesAreSound' /\ (b.pc \in Copying => Sound(b.copy))
    OBVIOUS
  <2>2. \A t \in Directory!Sessions : dir'[t].kind = "session" => Sound(dir'[t])
    BY <1>1, <1>2, <1>7 DEF FilesAreSound
  <2>3. FilesAreSound'
    BY <1>4, <2>2 DEF FilesAreSound, Sound, Directory!Parses, Moved
  <2>. QED
    BY <1>2, <2>3 DEF Copying
<1>10. "cut" \notin troubles' => NamesAreFilled'
  <2>. SUFFICES ASSUME "cut" \notin troubles', NEW t \in Directory!Files'
       PROVE  \/ dir'[t].kind = "session"
              \/ \E j \in Directory!Screens : io'[j].pc = "rename" /\ io'[j].session = t
    BY DEF NamesAreFilled
  <2>1. \A j \in Directory!Screens : j # k => io'[j] = io[j]
    BY <1>1, <1>6 DEF SessionTypeOK
  <2>2. t \in Directory!Files /\ dir'[t] = dir[t]
    BY <1>7 DEF Directory!Files
  <2>3. dir[t].kind = "session" \/ \E j \in Directory!Screens : io[j].pc = "rename" /\ io[j].session = t
    BY <1>1, <1>3, <2>2 DEF NamesAreFilled
  <2>. QED
    BY <1>1, <2>1, <2>2, <2>3
<1>. QED
  BY <1>1, <1>2, <1>4, <1>7, <1>8, <1>9, <1>10, MovedKeeps
-----------------------------------------------------------------------------
LEMMA Unmoved ==
    ASSUME DirectoryInv, NEW k \in Directory!Screens
    PROVE  /\ SessionTypeOK /\ io[k] \in IOBlock /\ CopyOK(io[k]) /\ opened \in Directory!Screens
           /\ io[k].session \in Directory!Sessions \cup {0} /\ io[k].copy \in SessionFile
           /\ dir \in [Directory!Sessions -> SessionFile] /\ clock \in Nat \ {0}
           /\ io[k].pc \in Held => io[k].session \in Directory!Sessions
           /\ "overlap" \notin troubles /\ io[k].pc # "off" => k = opened /\ Alone
BY DEF DirectoryInv, SessionTypeOK, IOBlock, CopyOK, OneWorks

\* The block goes on with a session it has read, or found.
LEMMA ListActiveKeeps ==
    ASSUME DirectoryInv, NEW k \in Directory!Screens, Directory!ListActive(k)
    PROVE  DirectoryInv'
<1>1. io[k].pc = "list" /\ dir' = dir /\ troubles' = troubles
  BY DEF Directory!ListActive, Directory!Undisturbed
<1>2. CASE Directory!Ends(k, "failed")
  BY <1>1, <1>2, EndsKeeps
<1>3. CASE Directory!Goes(k, "begin")
  BY <1>1, <1>3, GoesKeeps DEF Steps, Copying, Held, AsRead
<1>4. CASE /\ Directory!Listable /\ Directory!Listed # {}
           /\ Directory!Becomes(k, [io[k] EXCEPT !.pc = "read", !.session = CHOOSE s \in Directory!Listed : TRUE])
  <2>. DEFINE s == CHOOSE s \in Directory!Listed : TRUE
              b == [io[k] EXCEPT !.pc = "read", !.session = s]
  <2>1. s \in Directory!Sessions /\ dir[s].kind = "session"
    <3>1. s \in Directory!Listed
      BY <1>4
    <3>. HIDE DEF s
    <3>. QED
      BY <1>4, <3>1 DEF Directory!Listable, Directory!Listed, Directory!Files, Directory!Readable
  <2>2. Moved(k, b)
    BY <1>1, <1>4 DEF Directory!Becomes, Moved
  <2>. HIDE DEF s
  <2>3. b \in IOBlock /\ b.pc = "read" /\ b.session = s
    BY <2>1, Unmoved DEF IOBlock, Steps, Held
  <2>. HIDE DEF b
  <2>4. CopyOK(b) /\ FrontOK(b) /\ b.pc \notin Copying
    BY <2>1, <2>3 DEF CopyOK, FrontOK, Copying, Held, AsRead
  <2>. QED
    BY <1>1, <2>2, <2>3, <2>4, QuietDirectory
<1>. QED
  BY <1>2, <1>3, <1>4 DEF Directory!ListActive

LEMMA BeginKeeps ==
    ASSUME DirectoryInv, NEW k \in Directory!Screens, Directory!BeginSession(k)
    PROVE  DirectoryInv'
<1>1. io[k].pc = "begin" /\ dir' = dir /\ troubles' = troubles
  BY DEF Directory!BeginSession, Directory!Undisturbed
<1>2. CASE Directory!Ends(k, "failed")
  BY <1>1, <1>2, EndsKeeps
<1>3. CASE ~Directory!Ends(k, "failed")
  <2>1. Directory!Listed = {} /\ Directory!Cardinality(Directory!Files) < MaxSessions
    BY <1>3 DEF Directory!BeginSession
  <2>2. PICK s \in Directory!Fresh :
            Directory!Becomes(k, Directory!Block("reserve", s, Directory!File("session", clock, 0)))
    BY <1>3 DEF Directory!BeginSession
  <2>. DEFINE f == Directory!File("session", clock, 0)
              b == Directory!Block("reserve", s, f)
  <2>3. s \in Directory!Sessions /\ s \notin Directory!Files
    BY <2>2 DEF Directory!Fresh
  <2>4. f \in SessionFile /\ f.kind = "session" /\ f.started = clock /\ f.completed = 0 /\ clock \in Nat \ {0}
    BY Unmoved DEF Directory!File, SessionFile
  <2>5. Moved(k, b)
    BY <1>1, <2>2 DEF Directory!Becomes, Moved
  <2>. HIDE DEF f
  <2>6. b \in IOBlock /\ b.pc = "reserve" /\ b.session = s /\ b.copy = f
    BY <2>3, <2>4 DEF Directory!Block, IOBlock, Steps, Copying
  <2>. HIDE DEF b
  <2>7. CopyOK(b)
    BY <2>3, <2>4, <2>6 DEF CopyOK
  <2>8. FrontOK(b)
    BY <2>1, <2>3, <2>6, SameSize DEF FrontOK, Held, AsRead
  <2>9. Sound(b.copy)
    BY <2>4, <2>6 DEF Sound, Directory!Parses
  <2>. QED
    BY <1>1, <2>5, <2>6, <2>7, <2>8, <2>9, QuietDirectory
<1>. QED
  BY <1>2, <1>3

LEMMA ReadKeeps ==
    ASSUME DirectoryInv, NEW k \in Directory!Screens, Directory!ReadSession(k)
    PROVE  DirectoryInv'
<1>1. io[k].pc \in {"read", "finish", "update"} /\ dir' = dir /\ troubles' = troubles
  BY DEF Directory!ReadSession, Directory!Undisturbed, Directory!Reads
<1>2. CASE Directory!Ends(k, "failed")
  BY <1>1, <1>2, EndsKeeps
<1>3. CASE ~Directory!Ends(k, "failed")
  <2>. DEFINE p == Directory!Reads[io[k].pc]
              s == io[k].session
              f == dir[s]
              b == Directory!Block(p, s, f)
  <2>1. p \in {"resume", "complete", "change"}
    BY <1>1 DEF Directory!Reads
  <2>2. s \in Directory!Sessions /\ f \in SessionFile /\ f.kind = "session"
    BY <1>1, <1>3, Unmoved DEF Held, Directory!ReadSession, Directory!Readable
  <2>3. Moved(k, b)
    BY <1>1, <1>3 DEF Directory!ReadSession, Directory!Becomes, Moved
  <2>. HIDE DEF p, s, f
  <2>4. b \in IOBlock /\ b.pc = p /\ b.session = s /\ b.copy = f
    BY <2>1, <2>2 DEF Directory!Block, IOBlock, Steps, Copying
  <2>. HIDE DEF b
  <2>5. CopyOK(b) /\ FrontOK(b)
    BY <2>1, <2>2, <2>4 DEF CopyOK, FrontOK, AsRead, f
  <2>6. "clock" \notin troubles => Sound(b.copy)
    BY <2>2, <2>4 DEF DirectoryInv, FilesAreSound, f
  <2>. QED
    BY <1>1, <2>3, <2>4, <2>5, <2>6, QuietDirectory
<1>. QED
  BY <1>2, <1>3

LEMMA CompletedKeeps ==
    ASSUME DirectoryInv, NEW k \in Directory!Screens, Directory!Completed(k)
    PROVE  DirectoryInv'
<1>1. io[k].pc = "complete" /\ dir' = dir /\ troubles' = troubles
  BY DEF Directory!Completed, Directory!Undisturbed
<1>2. CASE Directory!Ends(k, "summary")
  BY <1>1, <1>2, EndsKeeps DEF Held
<1>3. CASE ~Directory!Ends(k, "summary")
  <2>. DEFINE s == io[k].session
              f == [io[k].copy EXCEPT !.completed = clock]
              b == Directory!Block("close", s, f)
  <2>1. /\ s \in Directory!Sessions /\ io[k].copy \in SessionFile /\ io[k].copy.kind = "session"
        /\ clock \in Nat \ {0}
    BY <1>1, Unmoved DEF Held, Copying, CopyOK
  <2>2. f \in SessionFile /\ f.kind = "session" /\ f.started = io[k].copy.started /\ f.completed = clock
    BY <2>1 DEF SessionFile
  <2>3. Moved(k, b)
    BY <1>1, <1>3 DEF Directory!Completed, Directory!Becomes, Moved
  <2>4. "clock" \notin troubles => Sound(io[k].copy)
    BY <1>1 DEF DirectoryInv, CopiesAreSound, Copying
  <2>5. "overlap" \notin troubles /\ k = opened => dir[s].kind = "session"
    BY <1>1, Unmoved DEF Alone, FrontOK, Held
  <2>. HIDE DEF s, f
  <2>6. b \in IOBlock /\ b.pc = "close" /\ b.session = s /\ b.copy = f
    BY <2>1, <2>2, BlockResult DEF Steps, Copying
  <2>. HIDE DEF b
  <2>7. CopyOK(b)
    BY <2>1, <2>2, <2>6 DEF CopyOK
  <2>8. "overlap" \notin troubles /\ k = opened => FrontOK(b)
    BY <2>1, <2>2, <2>5, <2>6 DEF FrontOK, AsRead
  <2>9. "clock" \notin troubles => Sound(b.copy)
    BY <2>1, <2>2, <2>4, <2>6 DEF Sound, Directory!Parses, SessionFile
  <2>. QED
    BY <1>1, <2>3, <2>6, <2>7, <2>8, <2>9, QuietDirectory
<1>. QED
  BY <1>2, <1>3

\* The file is renamed to its name, or replaced.
LEMMA FileKeeps ==
    ASSUME DirectoryInv, NEW k \in Directory!Screens, Directory!Rename(k) \/ Directory!Replace(k)
    PROVE  DirectoryInv'
<1>0. {Directory!Writes[p] : p \in DOMAIN Directory!Writes} = {"replaceReopen", "replaceClose", "replaceChange"}
  BY DEF Directory!Writes
<1>1. /\ io[k].pc \in {"rename", "replaceReopen", "replaceClose", "replaceChange"}
      /\ dir' = [dir EXCEPT ![io[k].session] = io[k].copy] /\ troubles' = troubles
  <2>2. CASE Directory!Rename(k)
    BY <2>2 DEF Directory!Rename
  <2>3. CASE Directory!Replace(k)
    BY <1>0, <2>3 DEF Directory!Replace
  <2>. QED
    BY <2>2, <2>3
<1>2. \/ Directory!Goes(k, "open")
      \/ \E p \in {"summary", "shown"} : io[k].pc \in Held /\ Directory!Ends(k, p)
  <2>1. CASE io[k].pc = "rename"
    <3>1. Directory!Rename(k)
      BY <1>0, <2>1 DEF Directory!Replace
    <3>. QED
      BY <3>1 DEF Directory!Rename
  <2>2. CASE io[k].pc # "rename"
    <3>1. Directory!Replace(k)
      BY <2>2 DEF Directory!Rename
    <3>2. CASE io[k].pc = "replaceReopen"
      BY <3>1, <3>2 DEF Directory!Replace
    <3>3. CASE io[k].pc = "replaceClose"
      BY <3>1, <3>3 DEF Directory!Replace, Held
    <3>4. CASE io[k].pc = "replaceChange"
      BY <3>1, <3>4 DEF Directory!Replace, Held
    <3>. QED
      BY <1>1, <2>2, <3>2, <3>3, <3>4
  <2>. QED
    BY <2>1, <2>2
<1>3. CASE Directory!Goes(k, "open")
  <2>1. PICK b : b = [io[k] EXCEPT !.pc = "open"]
    OBVIOUS
  <2>2. io[k].session \in Directory!Sessions
    BY <1>1, Unmoved DEF CopyOK, Copying
  <2>3. b \in IOBlock /\ b.pc = "open" /\ b.session = io[k].session
    BY <2>1, Unmoved DEF IOBlock, Steps, Held
  <2>4. After(k, b)
    BY <2>2, <2>3 DEF After, CopyOK, Copying, Held
  <2>5. Moved(k, b)
    BY <1>1, <1>3, <2>1 DEF Directory!Goes, Directory!Becomes, Moved
  <2>. QED
    BY <1>1, <2>4, <2>5, WritesKeeps
<1>4. ASSUME NEW p \in {"summary", "shown"}, io[k].pc \in Held, Directory!Ends(k, p) PROVE DirectoryInv'
  <2>1. PICK b : b = EndOf(k, p)
    OBVIOUS
  <2>2. After(k, b)
    BY <1>4, <2>1, Unmoved, EndResult DEF After
  <2>3. Moved(k, b)
    BY <1>1, <1>4, <2>1, EndsMoves
  <2>. QED
    BY <1>1, <2>2, <2>3, WritesKeeps
<1>. QED
  BY <1>2, <1>3, <1>4

LEMMA FailsKeeps ==
    ASSUME DirectoryInv, NEW k \in Directory!Screens, Directory!CallFails(k)
    PROVE  DirectoryInv'
<1>1. /\ io[k].pc \notin {"off", "failed", "shown", "summary"} /\ dir' = dir /\ troubles \subseteq troubles'
      /\ io[k].pc = "rename" => "cut" \in troubles'
  BY DEF Directory!CallFails, Directory!Waiting
<1>2. \E p \in {"failed", "shown", "summary"} :
          Directory!Ends(k, p) /\ (p # "failed" => io[k].pc \in Held)
  BY DEF Directory!CallFails, Held
<1>. QED
  BY <1>1, <1>2, EndsKeeps

LEMMA LeaveKeeps ==
    ASSUME DirectoryInv, Directory!Leave \/ Directory!ProcessDies
    PROVE  DirectoryInv'
<1>1. /\ SessionTypeOK /\ MaxScreens \in Nat \ {0}
      /\ "overlap" \notin troubles => OneWorks /\ Alone
      /\ "clock" \notin troubles => FilesAreSound /\ CopiesAreSound
      /\ "cut" \notin troubles => NamesAreFilled
  BY ScreensAssumption DEF DirectoryInv
<1>2. /\ opened < MaxScreens /\ opened' = opened + 1 /\ dir' = dir /\ clock' = clock
      /\ troubles \subseteq troubles'
  BY DEF Directory!Leave, Directory!ProcessDies
<1>3. /\ opened' \in Directory!Screens /\ opened \in Directory!Screens
      /\ opened \in Nat /\ opened' > opened
  BY <1>1, <1>2 DEF SessionTypeOK, Directory!Screens
<1>4. /\ io' = [k \in Directory!Screens |-> io'[k]] /\ io'[opened'] = Directory!Start
      /\ \A k \in Directory!Screens :
             k # opened' => io'[k] = Directory!Off \/ (io'[k] = io[k] /\ io[k].pc \notin Directory!Waiting)
  BY <1>3 DEF Directory!Leave, Directory!ProcessDies
<1>5. Directory!NoFile \in SessionFile
  BY DEF Directory!NoFile, Directory!File, SessionFile
<1>6. /\ Directory!Start \in IOBlock /\ Directory!Off \in IOBlock
      /\ Directory!Start.pc = "list" /\ Directory!Off.pc = "off"
      /\ "list" \notin Copying \cup Held /\ "off" \notin Copying \cup Held
  BY <1>5 DEF Directory!Start, Directory!Off, Directory!Block, Directory!NoSession, IOBlock, Steps, Copying, Held
<1>7. SessionTypeOK'
  <2>1. \A k \in Directory!Screens : io'[k] \in IOBlock /\ CopyOK(io'[k])
    BY <1>1, <1>4, <1>6 DEF SessionTypeOK, CopyOK
  <2>2. \A k \in Directory!Screens : k > opened' => io'[k].pc = "off"
    <3>1. \A k \in Directory!Screens : k \in Nat
      BY <1>1 DEF Directory!Screens
    <3>. QED
      BY <1>1, <1>2, <1>3, <1>4, <1>6, <3>1 DEF SessionTypeOK
  <2>3. io' \in [Directory!Screens -> IOBlock]
    BY <1>4, <2>1
  <2>. QED
    BY <1>1, <1>2, <1>3, <2>1, <2>2, <2>3 DEF SessionTypeOK, CopyOK
<1>8. "overlap" \notin troubles' => OneWorks' /\ Alone'
  <2>. SUFFICES ASSUME "overlap" \notin troubles' PROVE OneWorks' /\ Alone'
    OBVIOUS
  <2>1. OneWorks /\ Alone
    BY <1>1, <1>2
  <2>2. OneWorks'
    <3>1. CASE Directory!ProcessDies
      BY <1>4, <1>6, <3>1 DEF OneWorks, Directory!ProcessDies
    <3>2. CASE Directory!Leave
      <4>1. io[opened].pc \in Directory!Waiting
        BY <3>2 DEF Directory!Leave
      <4>2. \A k \in Directory!Screens : io[k].pc \in Directory!Waiting
        BY <1>1, <2>1, <4>1 DEF OneWorks, Directory!Waiting
      <4>. QED
        BY <1>4, <1>6, <4>2 DEF OneWorks
    <3>. QED
      BY <3>1, <3>2
  <2>3. OneListed' /\ FewFiles'
    BY <1>2, <2>1 DEF Alone, OneListed, FewFiles, Directory!Listed, Directory!Files
  <2>4. FrontOK(io[opened])'
    BY <1>4, <1>6 DEF FrontOK, Held, AsRead
  <2>. QED
    BY <2>2, <2>3, <2>4 DEF Alone
<1>9. "clock" \notin troubles' => FilesAreSound' /\ CopiesAreSound'
  <2>. SUFFICES ASSUME "clock" \notin troubles' PROVE FilesAreSound' /\ CopiesAreSound'
    OBVIOUS
  <2>1. FilesAreSound /\ CopiesAreSound
    BY <1>1, <1>2
  <2>. QED
    BY <1>2, <1>4, <1>6, <2>1 DEF FilesAreSound, CopiesAreSound, Sound, Directory!Parses
<1>10. "cut" \notin troubles' => NamesAreFilled'
  <2>. SUFFICES ASSUME "cut" \notin troubles', NEW s \in Directory!Files'
       PROVE  \/ dir'[s].kind = "session"
              \/ \E j \in Directory!Screens : io'[j].pc = "rename" /\ io'[j].session = s
    BY DEF NamesAreFilled
  <2>1. s \in Directory!Files /\ dir'[s] = dir[s]
    BY <1>2 DEF Directory!Files
  <2>2. CASE dir[s].kind = "session"
    BY <2>1, <2>2
  <2>3. CASE dir[s].kind # "session"
    <3>1. PICK j \in Directory!Screens : io[j].pc = "rename" /\ io[j].session = s
      BY <1>1, <1>2, <2>1, <2>3 DEF NamesAreFilled
    <3>2. j # opened'
      BY <1>1, <1>3, <3>1 DEF SessionTypeOK
    <3>3. CASE Directory!Leave
      <4>1. io'[j] = io[j]
        BY <3>1, <3>2, <3>3 DEF Directory!Leave, Directory!Waiting
      <4>. QED
        BY <3>1, <4>1
    <3>4. CASE Directory!ProcessDies
      BY <3>1, <3>4 DEF Directory!ProcessDies, Directory!Cut
    <3>. QED
      BY <3>3, <3>4
  <2>. QED
    BY <2>2, <2>3
<1>. QED
  BY <1>7, <1>8, <1>9, <1>10 DEF DirectoryInv

LEMMA ClockKeeps ==
    ASSUME DirectoryInv, Directory!ClockMoves
    PROVE  DirectoryInv'
<1>1. /\ SessionTypeOK
      /\ "overlap" \notin troubles => OneWorks /\ Alone
      /\ "clock" \notin troubles => FilesAreSound /\ CopiesAreSound
      /\ "cut" \notin troubles => NamesAreFilled
  BY DEF DirectoryInv
<1>2. /\ UNCHANGED <<dir, io, opened>> /\ clock' \in Nat \ {0} /\ troubles \subseteq troubles'
      /\ "clock" \notin troubles' => ~(clock' < clock)
  BY ScreensAssumption DEF Directory!ClockMoves
<1>3. SessionTypeOK'
  BY <1>1, <1>2 DEF SessionTypeOK
<1>4. "overlap" \notin troubles' => OneWorks' /\ Alone'
  BY <1>1, <1>2 DEF OneWorks, Alone, OneListed, FewFiles, FrontOK, Directory!Listed, Directory!Files
<1>5. "clock" \notin troubles' => FilesAreSound' /\ CopiesAreSound'
  <2>. SUFFICES ASSUME "clock" \notin troubles' PROVE FilesAreSound' /\ CopiesAreSound'
    OBVIOUS
  <2>1. FilesAreSound /\ CopiesAreSound /\ clock \in Nat /\ clock' \in Nat /\ clock <= clock'
    BY <1>1, <1>2 DEF SessionTypeOK
  <2>2. ASSUME NEW f \in SessionFile, Directory!Parses(f), f.started <= clock
        PROVE  f.started <= clock'
    BY <2>1, <2>2 DEF SessionFile
  <2>3. \A s \in Directory!Sessions : dir[s] \in SessionFile
    BY <1>1 DEF SessionTypeOK
  <2>4. \A k \in Directory!Screens : io[k].copy \in SessionFile
    BY <1>1 DEF SessionTypeOK, IOBlock
  <2>5. FilesAreSound'
    BY <1>2, <2>1, <2>2, <2>3 DEF FilesAreSound, Sound, Directory!Parses
  <2>6. CopiesAreSound'
    BY <1>2, <2>1, <2>2, <2>4 DEF CopiesAreSound, Sound, Directory!Parses
  <2>. QED
    BY <2>5, <2>6
<1>6. "cut" \notin troubles' => NamesAreFilled'
  BY <1>1, <1>2 DEF NamesAreFilled, Directory!Files
<1>. QED
  BY <1>3, <1>4, <1>5, <1>6 DEF DirectoryInv

LEMMA DirectoryKeeps == DirectoryInv /\ [Directory!SessionsNext]_directoryVars => DirectoryInv'
<1>. SUFFICES ASSUME DirectoryInv, [Directory!SessionsNext]_directoryVars PROVE DirectoryInv'
  OBVIOUS
<1>1. ASSUME NEW k \in Directory!Screens,
             \/ Directory!ListActive(k) \/ Directory!BeginSession(k) \/ Directory!Reserve(k) \/ Directory!Rename(k)
             \/ Directory!ReadSession(k) \/ Directory!Resumed(k) \/ Directory!Completed(k)
             \/ Directory!CheckPresent(k) \/ Directory!Replace(k) \/ Directory!OpenSession(k)
             \/ Directory!Acknowledge(k) \/ Directory!Remove(k) \/ Directory!CallFails(k)
      PROVE  DirectoryInv'
  <2>1. CASE Directory!ListActive(k)
    BY <2>1, ListActiveKeeps
  <2>2. CASE Directory!BeginSession(k)
    BY <2>2, BeginKeeps
  <2>3. CASE Directory!Reserve(k)
    BY <2>3, ReserveKeeps
  <2>4. CASE Directory!Rename(k) \/ Directory!Replace(k)
    BY <2>4, FileKeeps
  <2>5. CASE Directory!ReadSession(k)
    BY <2>5, ReadKeeps
  <2>6. CASE Directory!Resumed(k)
    <3>1. io[k].pc = "resume" /\ dir' = dir /\ troubles' = troubles
          /\ (Directory!Goes(k, "open") \/ Directory!Goes(k, "reopen"))
      BY <2>6 DEF Directory!Resumed, Directory!Undisturbed
    <3>2. CASE Directory!Goes(k, "open")
      BY <3>1, <3>2, GoesKeeps DEF Steps, Copying, Held, AsRead
    <3>3. CASE Directory!Goes(k, "reopen")
      BY <3>1, <3>3, GoesKeeps DEF Steps, Copying, Held, AsRead
    <3>. QED
      BY <3>1, <3>2, <3>3
  <2>7. CASE Directory!Completed(k)
    BY <2>7, CompletedKeeps
  <2>8. CASE Directory!CheckPresent(k)
    <3>1. io[k].pc \in {"reopen", "close", "change"} /\ dir' = dir /\ troubles' = troubles
          /\ (Directory!Goes(k, Directory!Writes[io[k].pc]) \/ Directory!Ends(k, "failed"))
      BY <2>8 DEF Directory!CheckPresent, Directory!Undisturbed, Directory!Writes
    <3>2. CASE Directory!Ends(k, "failed")
      BY <3>1, <3>2, EndsKeeps
    <3>3. CASE ~Directory!Ends(k, "failed")
      <4>1. CASE io[k].pc = "reopen"
        <5>1. Directory!Goes(k, "replaceReopen")
          BY <3>1, <3>3, <4>1 DEF Directory!Writes
        <5>. QED
          BY <3>1, <4>1, <5>1, GoesKeeps DEF Steps, Copying, Held, AsRead
      <4>2. CASE io[k].pc = "close"
        <5>1. Directory!Goes(k, "replaceClose")
          BY <3>1, <3>3, <4>2 DEF Directory!Writes
        <5>. QED
          BY <3>1, <4>2, <5>1, GoesKeeps DEF Steps, Copying, Held, AsRead
      <4>3. CASE io[k].pc = "change"
        <5>1. Directory!Goes(k, "replaceChange")
          BY <3>1, <3>3, <4>3 DEF Directory!Writes
        <5>. QED
          BY <3>1, <4>3, <5>1, GoesKeeps DEF Steps, Copying, Held, AsRead
      <4>. QED
        BY <3>1, <4>1, <4>2, <4>3
    <3>. QED
      BY <3>2, <3>3
  <2>9. CASE Directory!OpenSession(k)
    <3>1. io[k].pc = "open" /\ Directory!Ends(k, "shown") /\ dir' = dir /\ troubles' = troubles
      BY <2>9 DEF Directory!OpenSession, Directory!Undisturbed
    <3>. QED
      BY <3>1, EndsKeeps DEF Held
  <2>10. CASE Directory!Acknowledge(k)
    <3>1. io[k].pc = "acknowledge" /\ dir' = dir /\ troubles' = troubles
          /\ (Directory!Goes(k, "remove") \/ Directory!Ends(k, "summary"))
      BY <2>10 DEF Directory!Acknowledge, Directory!Undisturbed
    <3>2. CASE Directory!Ends(k, "summary")
      BY <3>1, <3>2, EndsKeeps DEF Held
    <3>3. CASE Directory!Goes(k, "remove")
      BY <3>1, <3>3, GoesKeeps DEF Steps, Copying, Held, AsRead
    <3>. QED
      BY <3>1, <3>2, <3>3
  <2>11. CASE Directory!Remove(k)
    BY <2>11, RemoveKeeps
  <2>12. CASE Directory!CallFails(k)
    BY <2>12, FailsKeeps
  <2>. QED
    BY <1>1, <2>1, <2>2, <2>3, <2>4, <2>5, <2>6, <2>7, <2>8, <2>9, <2>10, <2>11, <2>12
<1>2. CASE Directory!UseScreen
  <2>1. opened \in Directory!Screens
    BY DEF DirectoryInv, SessionTypeOK
  <2>2. dir' = dir /\ troubles' = troubles
    BY <1>2 DEF Directory!UseScreen, Directory!Front, Directory!Undisturbed
  <2>3. \/ io[opened].pc = "shown" /\ Directory!Goes(opened, "update")
        \/ io[opened].pc = "shown" /\ Directory!Goes(opened, "finish")
        \/ io[opened].pc = "summary" /\ Directory!Goes(opened, "acknowledge")
    BY <1>2 DEF Directory!UseScreen, Directory!Front
  <2>. QED
    BY <2>1, <2>2, <2>3, GoesKeeps DEF Steps, Copying, Held, AsRead
<1>3. CASE Directory!Leave \/ Directory!ProcessDies
  BY <1>3, LeaveKeeps
<1>4. CASE Directory!ClockMoves
  BY <1>4, ClockKeeps
<1>5. CASE UNCHANGED directoryVars
  BY <1>5 DEF directoryVars, DirectoryInv, SessionTypeOK, OneWorks, Alone, OneListed, FewFiles, FrontOK,
     FilesAreSound, CopiesAreSound, Sound, Directory!Parses, NamesAreFilled, Directory!Listed, Directory!Files
<1>. QED
  BY <1>1, <1>2, <1>3, <1>4, <1>5 DEF Directory!SessionsNext

LEMMA DirectoryIsUsable ==
    ASSUME DirectoryInv
    PROVE  SessionsStayUsable
<1>1. opened \in Directory!Screens /\ Directory!NoSession = 0
  BY DEF DirectoryInv, SessionTypeOK, Directory!NoSession
<1>2. ASSUME "overlap" \notin troubles
      PROVE  /\ Directory!Cardinality(Directory!Listed) <= 1
             /\ Directory!Cardinality(Directory!Files) <= MaxSessions
             /\ io[opened].pc \in {"shown", "summary"} => dir[io[opened].session].kind = "session"
  <2>1. OneListed /\ FewFiles /\ FrontOK(io[opened])
    BY <1>2 DEF DirectoryInv, Alone
  <2>2. Cardinality(Directory!Listed) <= 1
    BY <2>1, OneOrNone DEF OneListed
  <2>. QED
    BY <2>1, <2>2, SameSize DEF FewFiles, FrontOK, Held
<1>3. ASSUME troubles \cap {"cut", "clock"} = {}
      PROVE  \A s \in Directory!Files :
                 \/ Directory!Readable(s)
                 \/ \E k \in Directory!Screens : io[k].pc = "rename" /\ io[k].session = s
  <2>1. NamesAreFilled /\ FilesAreSound
    BY <1>3 DEF DirectoryInv
  <2>. QED
    BY <2>1 DEF NamesAreFilled, FilesAreSound, Sound, Directory!Readable, Directory!Files
<1>. QED
  BY <1>2, <1>3 DEF SessionsStayUsable, Directory!SessionsStayUsable

(* Unless a screen was left while one of its calls was running, one batch     *)
(* session at most is active, the directory keeps within its limit and the    *)
(* session on the screen is there, whatever failed, died or was archived; and *)
(* whichever calls overlap, every file can be read but a name that its owner  *)
(* will still fill, unless a cut between the reservation and the rename or a  *)
(* clock set back left it.                                                    *)
THEOREM SessionsAreUsable == MCSpec => []SessionsStayUsable
<1>1. MCInit => DirectoryInv
  BY DirectoryInitial DEF MCInit
<1>2. DirectoryInv /\ [MCNext]_allVars => DirectoryInv'
  BY DirectoryStep, DirectoryKeeps
<1>3. DirectoryInv => SessionsStayUsable
  BY DirectoryIsUsable
<1>. QED
  BY <1>1, <1>2, <1>3, PTL DEF MCSpec, allVars

-----------------------------------------------------------------------------
(* The version history: what its list may be, what a coroutine of it carries, *)
(* and that no step of the screen or of the page makes it tell anything else. *)

\* A set of naturals that is not empty has a least element.
LEMMA LeastNatural ==
  ASSUME NEW T \in SUBSET Nat, T # {}
  PROVE  \E n \in T : \A k \in T : n <= k
<1>1. PICK n \in T : \A k \in T : ~(<<k, n>> \in OpToRel(<, Nat))
  BY WFMin, NatLessThanWellFounded
<1>2. \A k \in T : ~(k < n)
  BY <1>1 DEF OpToRel
<1> QED BY <1>2

ListedItem == [scan : Nat, preferred : BOOLEAN, decided : BOOLEAN]

\* In the captures c the scan s is later than t.
AboveIn(c, s, t) == \E p, q \in DOMAIN c : p < q /\ c[p] = s /\ c[q] = t

\* Each of n scans has one place in the timeline.
CapturesOk(c, n) ==
    /\ c \in Seq(Nat) /\ Len(c) = n
    /\ \A p \in 1 .. n : c[p] \in 1 .. n
    /\ \A p, q \in 1 .. n : c[p] = c[q] => p = q
    /\ \A s \in 1 .. n : \E p \in 1 .. n : c[p] = s

ScansIn(list, n) == \A i \in DOMAIN list : list[i].scan \in 1 .. n

\* A list when there are n scans.
ListOk(list, n) ==
    /\ list \in Seq(ListedItem) /\ ScansIn(list, n)
    /\ \A i, j \in DOMAIN list : list[i].scan = list[j].scan => i = j

\* Of the scans that were known when it was begun, it shows the later captures first,
OrderOk(list, known, c) ==
    \A i, j \in DOMAIN list :
       i < j /\ list[i].scan <= known /\ list[j].scan <= known => AboveIn(c, list[i].scan, list[j].scan)

\* and none is missing above one of the set S, above the next page, or at the end.
Whole(S, known, c) == \A s, t \in 1 .. known : t \in S /\ AboveIn(c, s, t) => s \in S

Reaches(S, next, known, c) ==
    IF next = NoMore THEN 1 .. known \subseteq S
    ELSE \A p \in 1 .. next : c[p] <= known => c[p] \in S

TimelineOk(timeline, c, n) ==
    /\ DOMAIN timeline = {"items", "preferred", "next", "known"}
    /\ timeline.next \in 0 .. n /\ timeline.known \in 0 .. n
    /\ ListOk(timeline.items, n) /\ OrderOk(timeline.items, timeline.known, c)
    /\ Whole(Listed(timeline.items), timeline.known, c)
    /\ Reaches(Listed(timeline.items), timeline.next, timeline.known, c)

\* A page that was read to continue a timeline.
PageOk(timeline, page, c, n) ==
    /\ page.items \in Seq(ListedItem) /\ ScansIn(page.items, n) /\ page.next \in 0 .. n
    /\ OrderOk(page.items, timeline.known, c)
    /\ Whole(Listed(timeline.items) \cup Listed(page.items), timeline.known, c)
    /\ Reaches(Listed(timeline.items) \cup Listed(page.items), page.next, timeline.known, c)

VersionIn(d, s) == [scan |-> s, preferred |-> d.scans[s].preferred, decided |-> d.scans[s].decision # "none"]

Tells(list, d) == \A i \in DOMAIN list : list[i] = VersionIn(d, list[i].scan)

ProposalOk(p, d) == p \in ProposalsOf(d) \cup {NoProposal}

CallOk(call, d) ==
    \/ call.op = "decide" /\ call.input.proposal \in ProposalsOf(d)
    \/ call.op = "review" /\ call.input \in ScansOf(d)

ScreenOk ==
    /\ DOMAIN screen = {"timeline", "selected", "comparison", "proposal"}
    /\ TimelineOk(screen.timeline, captures, Len(db.scans))
    /\ ProposalOk(screen.proposal, db)
    /\ outrun \/ task.op = "reload" \/ Tells(screen.timeline.items, db)

TaskOk ==
    /\ task.op \in {"load", "reload"} /\ task.done =>
         TimelineOk(task.input, captures, Len(db.scans)) /\ (outrun \/ Tells(task.input.items, db))
    /\ task.op = "more" =>
         IF task.done
         THEN /\ task.input.timeline = screen.timeline
              /\ PageOk(screen.timeline, task.input.next, captures, Len(db.scans))
              /\ outrun \/ Tells(task.input.next.items, db)
         ELSE task.input = screen.timeline /\ screen.timeline.next # NoMore
    /\ task.op = "details" =>
         IF task.done THEN ProposalOk(task.input.proposal, db) ELSE task.input.candidate \in ScansOf(db)
    /\ task.op \in {"decide", "review"} => CallOk(task, db)
    /\ \A call \in late : CallOk(call, db)

VersionInv == HistoryInv /\ LogInv /\ CapturesOk(captures, Len(db.scans)) /\ ScreenOk /\ TaskOk

-----------------------------------------------------------------------------
\* What stays true of lists when scans are registered: the scans that were there
\* keep their order, and none comes nearer to the top.
Follows(c, n, b, m) ==
    /\ n <= m
    /\ \A s, t \in 1 .. n : AboveIn(b, s, t) <=> AboveIn(c, s, t)
    /\ \A p \in 1 .. m : b[p] \in 1 .. n => \E q \in 1 .. p : q <= n /\ c[q] = b[p]

LEMMA ListStays ==
  ASSUME NEW c, NEW n \in Nat, NEW b, NEW m \in Nat, Follows(c, n, b, m), NEW known \in 0 .. n
  PROVE  /\ \A list : ListOk(list, n) => ListOk(list, m)
         /\ \A list : ScansIn(list, n) => ScansIn(list, m)
         /\ \A list : ScansIn(list, n) /\ OrderOk(list, known, c) => OrderOk(list, known, b)
         /\ \A S : Whole(S, known, c) => Whole(S, known, b)
         /\ \A S : \A next \in 0 .. n : Reaches(S, next, known, c) /\ CapturesOk(b, m) => Reaches(S, next, known, b)
<1>1. n <= m /\ 0 .. n \subseteq 0 .. m /\ 1 .. n \subseteq 1 .. m /\ 1 .. known \subseteq 1 .. n
  BY DEF Follows
<1>2. \A s, t \in 1 .. n : AboveIn(b, s, t) <=> AboveIn(c, s, t)
  BY DEF Follows
<1>3. \A list : ScansIn(list, n) => ScansIn(list, m)
  BY <1>1 DEF ScansIn
<1>4. \A list : ScansIn(list, n) /\ OrderOk(list, known, c) => OrderOk(list, known, b)
  BY <1>2 DEF ScansIn, OrderOk
<1>5. \A S : Whole(S, known, c) => Whole(S, known, b)
  BY <1>1, <1>2 DEF Whole
<1>6. ASSUME NEW S, NEW next \in 0 .. n, Reaches(S, next, known, c), CapturesOk(b, m)
      PROVE  Reaches(S, next, known, b)
  <2>1. CASE next = NoMore
    BY <1>6, <2>1 DEF Reaches
  <2>2. CASE next # NoMore
    <3>1. ASSUME NEW p \in 1 .. next, b[p] <= known PROVE b[p] \in S
      <4>1. p \in 1 .. m /\ b[p] \in 1 .. n
        <5>1. p \in 1 .. m
          BY <1>1
        <5>2. b[p] \in 1 .. m
          BY <1>6, <5>1 DEF CapturesOk
        <5> QED BY <3>1, <5>1, <5>2
      <4>2. PICK q \in 1 .. p : q <= n /\ c[q] = b[p]
        BY <4>1 DEF Follows
      <4>3. q \in 1 .. next
        BY <4>2
      <4> QED BY <1>6, <2>2, <3>1, <4>2, <4>3 DEF Reaches
    <3> QED BY <2>2, <3>1 DEF Reaches
  <2> QED BY <2>1, <2>2
<1> QED BY <1>3, <1>4, <1>5, <1>6 DEF ListOk

LEMMA TimelineStays ==
  ASSUME NEW c, NEW n \in Nat, NEW b, NEW m \in Nat, Follows(c, n, b, m), CapturesOk(b, m),
         NEW timeline, TimelineOk(timeline, c, n)
  PROVE  /\ TimelineOk(timeline, b, m)
         /\ \A page : PageOk(timeline, page, c, n) => PageOk(timeline, page, b, m)
<1>1. timeline.known \in 0 .. n /\ 0 .. n \subseteq 0 .. m
  BY DEF TimelineOk, Follows
<1>2. /\ \A list : ListOk(list, n) => ListOk(list, m)
      /\ \A list : ScansIn(list, n) => ScansIn(list, m)
      /\ \A list : ScansIn(list, n) /\ OrderOk(list, timeline.known, c) => OrderOk(list, timeline.known, b)
      /\ \A S : Whole(S, timeline.known, c) => Whole(S, timeline.known, b)
      /\ \A S : \A next \in 0 .. n : Reaches(S, next, timeline.known, c) => Reaches(S, next, timeline.known, b)
  BY <1>1, ListStays
<1> DEFINE S == Listed(timeline.items)
           known == timeline.known
<1> HIDE DEF S, known
<1>3. TimelineOk(timeline, b, m)
  <2>1. /\ DOMAIN timeline = {"items", "preferred", "next", "known"} /\ timeline.next \in 0 .. n
        /\ ListOk(timeline.items, n) /\ OrderOk(timeline.items, known, c)
        /\ Whole(S, known, c) /\ Reaches(S, timeline.next, known, c)
    BY DEF TimelineOk, S, known
  <2>2. ListOk(timeline.items, m) /\ ScansIn(timeline.items, n)
    BY <1>2, <2>1 DEF ListOk
  <2>3. OrderOk(timeline.items, known, b) /\ Whole(S, known, b) /\ Reaches(S, timeline.next, known, b)
    BY <1>2, <2>1, <2>2 DEF known
  <2> QED BY <1>1, <2>1, <2>2, <2>3 DEF TimelineOk, S, known
<1>4. ASSUME NEW page, PageOk(timeline, page, c, n) PROVE PageOk(timeline, page, b, m)
  <2> DEFINE T == S \cup Listed(page.items)
  <2> HIDE DEF T
  <2>1. /\ page.items \in Seq(ListedItem) /\ ScansIn(page.items, n) /\ page.next \in 0 .. n
        /\ OrderOk(page.items, known, c) /\ Whole(T, known, c) /\ Reaches(T, page.next, known, c)
    BY <1>4 DEF PageOk, S, T, known
  <2>2. /\ ScansIn(page.items, m) /\ OrderOk(page.items, known, b)
        /\ Whole(T, known, b) /\ Reaches(T, page.next, known, b)
    BY <1>2, <2>1 DEF known
  <2> QED BY <1>1, <2>1, <2>2 DEF PageOk, S, T, known
<1> QED BY <1>3, <1>4

\* A scan is placed anywhere.
LEMMA PlacedKeeps ==
  ASSUME NEW c, NEW n \in Nat, CapturesOk(c, n), NEW k \in 1 .. n + 1, NEW b, b = InsertAt(c, k, n + 1)
  PROVE  CapturesOk(b, n + 1) /\ Follows(c, n, b, n + 1)
<1>1. c \in Seq(Nat) /\ Len(c) = n /\ DOMAIN c = 1 .. n
  BY DEF CapturesOk
<1>2. /\ b \in Seq(Nat) /\ Len(b) = n + 1 /\ DOMAIN b = 1 .. n + 1
      /\ \A p \in 1 .. n + 1 : b[p] = IF p < k THEN c[p] ELSE IF p = k THEN n + 1 ELSE c[p - 1]
  <2> DEFINE low == SubSeq(c, 1, k - 1)
             high == SubSeq(c, k, n)
  <2>1. /\ low \in Seq(Nat) /\ Len(low) = k - 1 /\ \A p \in 1 .. k - 1 : low[p] = c[p]
        /\ high \in Seq(Nat) /\ Len(high) = n + 1 - k /\ \A p \in 1 .. n + 1 - k : high[p] = c[k - 1 + p]
    <3>1. k - 1 \in Nat /\ k - 1 <= n /\ n + 1 - k \in Nat /\ k \in Nat /\ 1 \in Int /\ k - 1 \in Int
          /\ k \in Int /\ n \in Int
      OBVIOUS
    <3>2. \A i \in 1 .. n : c[i] \in Nat
      BY <1>1
    <3>3. (\A i \in 1 .. k - 1 : c[i] \in Nat) /\ \A i \in k .. n : c[i] \in Nat
      BY <3>1, <3>2
    <3>4. /\ low \in Seq(Nat) /\ Len(low) = IF 1 <= k - 1 THEN k - 1 - 1 + 1 ELSE 0
          /\ \A i \in 1 .. k - 1 - 1 + 1 : low[i] = c[1 + i - 1]
      BY <3>1, <3>3, SubSeqProperties
    <3>5. /\ high \in Seq(Nat) /\ Len(high) = IF k <= n THEN n - k + 1 ELSE 0
          /\ \A i \in 1 .. n - k + 1 : high[i] = c[k + i - 1]
      BY <3>1, <3>3, SubSeqProperties
    <3> HIDE DEF low, high
    <3>6. Len(low) = k - 1 /\ \A p \in 1 .. k - 1 : low[p] = c[p]
      <4>1. \A p \in 1 .. k - 1 : p \in 1 .. k - 1 - 1 + 1 /\ 1 + p - 1 = p
        BY <3>1
      <4>2. Len(low) = k - 1
        BY <3>1, <3>4
      <4> QED BY <3>4, <4>1, <4>2
    <3>7. Len(high) = n + 1 - k /\ \A p \in 1 .. n + 1 - k : high[p] = c[k - 1 + p]
      <4>1. \A p \in 1 .. n + 1 - k : p \in 1 .. n - k + 1 /\ k + p - 1 = k - 1 + p
        BY <3>1
      <4>2. Len(high) = n + 1 - k
        BY <3>1, <3>5
      <4> QED BY <3>5, <4>1, <4>2
    <3> QED BY <3>4, <3>5, <3>6, <3>7
  <2>2. b = (low \o <<n + 1>>) \o high
    BY <1>1 DEF InsertAt
  <2> HIDE DEF low, high
  <2> DEFINE mid == low \o <<n + 1>>
  <2>3. mid \in Seq(Nat) /\ Len(mid) = k /\ mid[k] = n + 1 /\ \A p \in 1 .. k - 1 : mid[p] = c[p]
    <3> DEFINE one == <<n + 1>>
    <3>1. one \in Seq(Nat) /\ Len(one) = 1 /\ one[1] = n + 1
      OBVIOUS
    <3> HIDE DEF one
    <3>2. /\ mid \in Seq(Nat) /\ Len(mid) = Len(low) + 1
          /\ \A i \in 1 .. Len(low) + 1 : mid[i] = IF i <= Len(low) THEN low[i] ELSE one[i - Len(low)]
      BY <2>1, <3>1, ConcatProperties DEF one
    <3> HIDE DEF mid
    <3>3. k \in 1 .. Len(low) + 1 /\ Len(low) + 1 = k /\ k - Len(low) = 1 /\ ~(k <= Len(low))
      BY <2>1
    <3>4. mid[k] = n + 1
      BY <3>1, <3>2, <3>3
    <3>5. ASSUME NEW p \in 1 .. k - 1 PROVE mid[p] = c[p]
      <4>1. p \in 1 .. Len(low) + 1 /\ p <= Len(low)
        BY <2>1
      <4> QED BY <2>1, <3>2, <4>1
    <3> QED BY <3>2, <3>3, <3>4, <3>5
  <2> HIDE DEF mid
  <2>0. /\ b \in Seq(Nat) /\ Len(b) = k + Len(high)
        /\ \A i \in 1 .. k + Len(high) : b[i] = IF i <= k THEN mid[i] ELSE high[i - k]
    <3>1. b = mid \o high
      BY <2>2 DEF mid
    <3>2. /\ mid \o high \in Seq(Nat) /\ Len(mid \o high) = Len(mid) + Len(high)
          /\ \A i \in 1 .. Len(mid) + Len(high) :
                (mid \o high)[i] = IF i <= Len(mid) THEN mid[i] ELSE high[i - Len(mid)]
      BY <2>1, <2>3, ConcatProperties
    <3> QED BY <2>3, <3>1, <3>2
  <2>4. b \in Seq(Nat) /\ Len(b) = n + 1 /\ k + Len(high) = n + 1
    BY <2>0, <2>1
  <2>5. ASSUME NEW p \in 1 .. n + 1
        PROVE  b[p] = IF p < k THEN c[p] ELSE IF p = k THEN n + 1 ELSE c[p - 1]
    <3>1. b[p] = IF p <= k THEN mid[p] ELSE high[p - k]
      BY <2>0, <2>4
    <3>2. CASE p <= k
      BY <2>3, <3>1, <3>2
    <3>3. CASE p > k
      <4>1. p - k \in 1 .. n + 1 - k /\ k - 1 + (p - k) = p - 1
        BY <3>3
      <4> QED BY <2>1, <3>1, <3>3, <4>1
    <3> QED BY <3>2, <3>3
  <2> QED BY <2>4, <2>5
<1>3. ASSUME NEW p \in 1 .. n PROVE (p < k => b[p] = c[p]) /\ (p >= k => b[p + 1] = c[p])
  <2>1. p \in 1 .. n + 1 /\ p + 1 \in 1 .. n + 1 /\ p + 1 - 1 = p
    OBVIOUS
  <2> QED BY <1>2, <2>1
<1>4. b[k] = n + 1
  BY <1>2
<1>5. ASSUME NEW p \in 1 .. n + 1, p # k
      PROVE  \E q \in 1 .. n : /\ q <= p /\ c[q] = b[p] /\ b[p] \in 1 .. n
                               /\ q = IF p < k THEN p ELSE p - 1
  <2> DEFINE q == IF p < k THEN p ELSE p - 1
  <2>1. q \in 1 .. n /\ q <= p /\ c[q] = b[p]
    BY <1>2, <1>5
  <2>2. c[q] \in 1 .. n
    BY <2>1 DEF CapturesOk
  <2> HIDE DEF q
  <2> QED BY <2>1, <2>2 DEF q
<1>6. CapturesOk(b, n + 1)
  <2>1. \A p \in 1 .. n + 1 : b[p] \in 1 .. n + 1
    BY <1>4, <1>5
  <2>2. ASSUME NEW p \in 1 .. n + 1, NEW q \in 1 .. n + 1, b[p] = b[q] PROVE p = q
    <3>1. CASE p = k \/ q = k
      BY <1>4, <1>5, <2>2, <3>1
    <3>2. CASE p # k /\ q # k
      <4>1. PICK x \in 1 .. n : c[x] = b[p] /\ x = IF p < k THEN p ELSE p - 1
        BY <1>5, <3>2
      <4>2. PICK y \in 1 .. n : c[y] = b[q] /\ y = IF q < k THEN q ELSE q - 1
        BY <1>5, <3>2
      <4>3. x = y
        <5>1. c[x] = c[y] /\ \A i, j \in 1 .. n : c[i] = c[j] => i = j
          BY <2>2, <4>1, <4>2 DEF CapturesOk
        <5> QED BY <5>1
      <4> QED BY <3>2, <4>1, <4>2, <4>3
    <3> QED BY <3>1, <3>2
  <2>3. ASSUME NEW s \in 1 .. n + 1 PROVE \E p \in 1 .. n + 1 : b[p] = s
    <3>1. CASE s = n + 1
      BY <1>4, <3>1
    <3>2. CASE s # n + 1
      <4>1. PICK q \in 1 .. n : c[q] = s
        BY <3>2 DEF CapturesOk
      <4>2. q \in 1 .. n + 1 /\ q + 1 \in 1 .. n + 1
        OBVIOUS
      <4> QED BY <1>3, <4>1, <4>2
    <3> QED BY <3>1, <3>2
  <2> QED BY <1>2, <2>1, <2>2, <2>3 DEF CapturesOk
<1>7. ASSUME NEW s \in 1 .. n, NEW t \in 1 .. n PROVE AboveIn(b, s, t) <=> AboveIn(c, s, t)
  <2>1. ASSUME AboveIn(b, s, t) PROVE AboveIn(c, s, t)
    <3>1. PICK p \in 1 .. n + 1, q \in 1 .. n + 1 : p < q /\ b[p] = s /\ b[q] = t
      BY <1>2, <2>1 DEF AboveIn
    <3>2. p # k /\ q # k
      BY <1>4, <3>1
    <3>3. PICK x \in 1 .. n : c[x] = b[p] /\ x = IF p < k THEN p ELSE p - 1
      BY <1>5, <3>2
    <3>4. PICK y \in 1 .. n : c[y] = b[q] /\ y = IF q < k THEN q ELSE q - 1
      BY <1>5, <3>2
    <3>5. x < y
      BY <3>1, <3>2, <3>3, <3>4
    <3> QED BY <1>1, <3>1, <3>3, <3>4, <3>5 DEF AboveIn
  <2>2. ASSUME AboveIn(c, s, t) PROVE AboveIn(b, s, t)
    <3>1. PICK p \in 1 .. n, q \in 1 .. n : p < q /\ c[p] = s /\ c[q] = t
      BY <1>1, <2>2 DEF AboveIn
    <3> DEFINE x == IF p < k THEN p ELSE p + 1
               y == IF q < k THEN q ELSE q + 1
    <3>2. x \in 1 .. n + 1 /\ y \in 1 .. n + 1 /\ x < y
      BY <3>1
    <3>3. b[x] = s /\ b[y] = t
      BY <1>3, <3>1
    <3> HIDE DEF x, y
    <3> QED BY <1>2, <3>2, <3>3 DEF AboveIn
  <2> QED BY <2>1, <2>2
<1>8. ASSUME NEW p \in 1 .. n + 1, b[p] \in 1 .. n PROVE \E q \in 1 .. p : q <= n /\ c[q] = b[p]
  <2>1. p # k
    BY <1>4, <1>8
  <2> QED BY <1>5, <2>1
<1> QED BY <1>6, <1>7, <1>8 DEF Follows

\* A page of the timeline, from the offset on.
LEMMA PageOfTimeline ==
  ASSUME HistoryInv, CapturesOk(captures, Len(db.scans)), NEW offset \in 0 .. Len(db.scans)
  PROVE  LET page == TimelinePage(offset)
             n == Len(db.scans)
         IN  /\ DOMAIN page = {"items", "preferred", "next", "known"}
             /\ page.items \in Seq(ListedItem) /\ Tells(page.items, db)
             /\ \A i \in DOMAIN page.items : offset + i \in 1 .. n /\ page.items[i].scan = captures[offset + i]
             /\ n \in Nat /\ page.known = n /\ page.next \in 0 .. n
             /\ \A p \in 1 .. (IF page.next = NoMore THEN n ELSE page.next) :
                   p <= offset \/ p - offset \in DOMAIN page.items
<1> DEFINE n == Len(db.scans)
           left == Len(captures) - offset
           len == IF left < PageSize THEN left ELSE PageSize
           f == [i \in 1 .. len |-> Version(captures[offset + i])]
           page == TimelinePage(offset)
<1>1. /\ PageSize \in Nat \ {0} /\ n \in Nat /\ Len(captures) = n /\ left \in Nat /\ len \in Nat /\ len <= left
      /\ ScansOf(db) = 1 .. n /\ n - offset = left /\ offset + left = n /\ offset \in Nat
  BY VersionAssumption, ScansAreNumbered DEF HistoryInv, HistoryTypeOK, CapturesOk
<1>2. page.items = f /\ page.next = (IF left > PageSize THEN offset + PageSize ELSE NoMore)
      /\ DOMAIN page = {"items", "preferred", "next", "known"} /\ page.known = n
  BY DEF TimelinePage
<1>3. \A s \in ScansOf(db) : db.scans[s].preferred \in BOOLEAN
  BY ScansAreNumbered DEF HistoryInv, HistoryTypeOK, ScanType
<1> HIDE DEF n
<1>4. ASSUME NEW i \in 1 .. len PROVE offset + i \in 1 .. n /\ captures[offset + i] \in 1 .. n
  <2>1. offset + i \in 1 .. n
    BY <1>1
  <2> QED BY <2>1 DEF CapturesOk, n
<1>5. ASSUME NEW i \in 1 .. len
      PROVE  f[i] \in ListedItem /\ f[i].scan = captures[offset + i] /\ f[i] = VersionIn(db, f[i].scan)
  <2> DEFINE s == captures[offset + i]
  <2>1. f[i] = Version(s)
    BY <1>5
  <2>2. s \in ScansOf(db) /\ s \in Nat
    <3>1. s \in 1 .. n
      BY <1>4
    <3> HIDE DEF s
    <3> QED BY <1>1, <3>1
  <2>3. db.scans[s].preferred \in BOOLEAN
    BY <1>3, <2>2
  <2> HIDE DEF s, f
  <2>4. f[i].scan = s
    BY <2>1 DEF Version
  <2>5. f[i] \in ListedItem
    BY <2>1, <2>2, <2>3 DEF Version, ListedItem
  <2>6. f[i] = VersionIn(db, s)
    BY <2>1 DEF Version, VersionIn
  <2> QED BY <2>4, <2>5, <2>6 DEF s
<1>6. f \in Seq(ListedItem) /\ DOMAIN f = 1 .. len
  <2>1. f \in [1 .. len -> ListedItem] /\ DOMAIN f = 1 .. len
    BY <1>5
  <2> HIDE DEF f, len
  <2> QED BY <1>1, <2>1
<1>7. /\ page.next \in 0 .. n
      /\ \A p \in 1 .. (IF page.next = NoMore THEN n ELSE page.next) : p <= offset \/ p - offset \in 1 .. len
  <2>1. CASE left > PageSize
    <3>1. page.next = offset + PageSize /\ page.next # NoMore /\ len = PageSize /\ page.next \in 0 .. n
      BY <1>1, <1>2, <2>1 DEF NoMore
    <3> QED BY <1>1, <3>1
  <2>2. CASE ~(left > PageSize)
    <3>1. page.next = NoMore /\ len = left /\ page.next \in 0 .. n
      BY <1>1, <1>2, <2>2 DEF NoMore
    <3> QED BY <1>1, <3>1
  <2> QED BY <2>1, <2>2
<1>8. page.items \in Seq(ListedItem) /\ DOMAIN page.items = 1 .. len
  BY <1>2, <1>6
<1>9. \A i \in DOMAIN page.items : /\ offset + i \in 1 .. n /\ page.items[i].scan = captures[offset + i]
                                   /\ page.items[i] = VersionIn(db, page.items[i].scan)
  BY <1>2, <1>4, <1>5, <1>8
<1> HIDE DEF f, page, len, left
<1> QED BY <1>1, <1>2, <1>7, <1>8, <1>9 DEF Tells, page, n

\* The page that continues a timeline that shows what is above the offset.
LEMMA ContinuedIsOk ==
  ASSUME HistoryInv, CapturesOk(captures, Len(db.scans)), NEW timeline, NEW offset \in 0 .. Len(db.scans),
         timeline.known \in 0 .. Len(db.scans), Whole(Listed(timeline.items), timeline.known, captures),
         \A p \in 1 .. offset : captures[p] <= timeline.known => captures[p] \in Listed(timeline.items)
  PROVE  /\ PageOk(timeline, TimelinePage(offset), captures, Len(db.scans))
         /\ ListOk(TimelinePage(offset).items, Len(db.scans))
<1> DEFINE page == TimelinePage(offset)
           n == Len(db.scans)
           known == timeline.known
           S == Listed(timeline.items)
           P == Listed(page.items)
<1>1. /\ page.items \in Seq(ListedItem) /\ n \in Nat /\ page.next \in 0 .. n
      /\ \A i \in DOMAIN page.items : offset + i \in 1 .. n /\ page.items[i].scan = captures[offset + i]
      /\ \A p \in 1 .. (IF page.next = NoMore THEN n ELSE page.next) :
            p <= offset \/ p - offset \in DOMAIN page.items
  BY PageOfTimeline
<1>2. /\ DOMAIN captures = 1 .. n /\ \A p \in 1 .. n : captures[p] \in 1 .. n
      /\ \A p, q \in 1 .. n : captures[p] = captures[q] => p = q
      /\ \A s \in 1 .. n : \E p \in 1 .. n : captures[p] = s
  BY DEF CapturesOk
<1>3. \A s \in P : \E i \in DOMAIN page.items : page.items[i].scan = s
  BY DEF Listed
<1>4. \A i \in DOMAIN page.items : page.items[i].scan \in P
  BY DEF Listed
<1>5. /\ known \in 0 .. n /\ Whole(S, known, captures) /\ offset \in 0 .. n
      /\ \A p \in 1 .. offset : captures[p] <= known => captures[p] \in S
  OBVIOUS
<1>6. DOMAIN page.items \subseteq Nat \ {0} /\ \A i, j \in Nat : i \in 1 .. j /\ j \in DOMAIN page.items => i \in DOMAIN page.items
  BY <1>1
<1> HIDE DEF page, n, known, S, P
<1>7. ASSUME NEW p \in 1 .. n, captures[p] <= known, p <= offset \/ p - offset \in DOMAIN page.items
      PROVE  captures[p] \in S \cup P
  <2>1. CASE p <= offset
    <3>1. p \in 1 .. offset
      BY <1>5, <2>1
    <3> QED BY <1>5, <1>7, <3>1
  <2>2. CASE p - offset \in DOMAIN page.items
    <3>1. offset + (p - offset) = p
      BY <1>5
    <3>2. page.items[p - offset].scan = captures[p]
      BY <1>1, <2>2, <3>1
    <3> QED BY <1>4, <2>2, <3>2
  <2> QED BY <1>7, <2>1, <2>2
<1>8. ScansIn(page.items, n)
  BY <1>1, <1>2 DEF ScansIn
<1>9. OrderOk(page.items, known, captures)
  <2>1. ASSUME NEW i \in DOMAIN page.items, NEW j \in DOMAIN page.items, i < j
        PROVE  AboveIn(captures, page.items[i].scan, page.items[j].scan)
    <3>1. offset + i < offset + j /\ offset + i \in 1 .. n /\ offset + j \in 1 .. n
      BY <1>1, <1>5, <1>6, <2>1
    <3> QED BY <1>1, <1>2, <3>1 DEF AboveIn
  <2> QED BY <2>1 DEF OrderOk
<1>10. ASSUME NEW i \in DOMAIN page.items, NEW j \in DOMAIN page.items, page.items[i].scan = page.items[j].scan
       PROVE  i = j
  <2>1. offset + i \in 1 .. n /\ offset + j \in 1 .. n /\ captures[offset + i] = captures[offset + j]
    BY <1>1, <1>10
  <2>2. offset + i = offset + j
    BY <1>2, <2>1
  <2> QED BY <1>5, <1>6, <2>2
<1>11. Whole(S \cup P, known, captures)
  <2>1. ASSUME NEW s \in 1 .. known, NEW t \in 1 .. known, t \in S \cup P, AboveIn(captures, s, t)
        PROVE  s \in S \cup P
    <3>1. CASE t \in S
      BY <1>5, <2>1, <3>1 DEF Whole
    <3>2. CASE t \in P
      <4>1. PICK p \in 1 .. n, q \in 1 .. n : p < q /\ captures[p] = s /\ captures[q] = t
        BY <1>2, <2>1 DEF AboveIn
      <4>2. PICK i \in DOMAIN page.items : page.items[i].scan = t
        BY <1>3, <3>2
      <4>3. q = offset + i
        <5>1. offset + i \in 1 .. n /\ captures[offset + i] = captures[q]
          BY <1>1, <4>1, <4>2
        <5> QED BY <1>2, <5>1
      <4>4. p <= offset \/ p - offset \in 1 .. i
        BY <1>5, <1>6, <4>1, <4>3
      <4>5. p <= offset \/ p - offset \in DOMAIN page.items
        BY <1>5, <1>6, <4>4
      <4> QED BY <1>7, <4>1, <4>5
    <3> QED BY <2>1, <3>1, <3>2
  <2> QED BY <2>1 DEF Whole
<1>12. Reaches(S \cup P, page.next, known, captures)
  <2>1. CASE page.next = NoMore
    <3>1. ASSUME NEW s \in 1 .. known PROVE s \in S \cup P
      <4>1. s \in 1 .. n
        BY <1>1, <1>5
      <4>2. PICK p \in 1 .. n : captures[p] = s
        BY <1>2, <4>1
      <4>3. p <= offset \/ p - offset \in DOMAIN page.items
        BY <1>1, <2>1
      <4> QED BY <1>7, <4>2, <4>3
    <3> QED BY <2>1, <3>1 DEF Reaches
  <2>2. CASE page.next # NoMore
    <3>1. ASSUME NEW p \in 1 .. page.next, captures[p] <= known PROVE captures[p] \in S \cup P
      <4>1. p \in 1 .. n
        BY <1>1
      <4>2. p <= offset \/ p - offset \in DOMAIN page.items
        BY <1>1, <2>2
      <4> QED BY <1>7, <3>1, <4>1, <4>2
    <3> QED BY <2>2, <3>1 DEF Reaches
  <2> QED BY <2>1, <2>2
<1> QED BY <1>1, <1>8, <1>9, <1>10, <1>11, <1>12 DEF PageOk, ListOk, page, n, known, S, P

\* The first page of the timeline is a list to start with.
LEMMA FirstPageIsOk ==
  ASSUME HistoryInv, CapturesOk(captures, Len(db.scans))
  PROVE  TimelineOk(TimelinePage(0), captures, Len(db.scans)) /\ Tells(TimelinePage(0).items, db)
<1> DEFINE page == TimelinePage(0)
           n == Len(db.scans)
           none == [items |-> <<>>, known |-> n]
<1>1. n \in Nat /\ 0 \in 0 .. n /\ n \in 0 .. n
  BY ScansAreNumbered DEF HistoryInv, HistoryTypeOK
<1>2. /\ DOMAIN page = {"items", "preferred", "next", "known"} /\ Tells(page.items, db)
      /\ page.known = n /\ page.next \in 0 .. n
  BY <1>1, PageOfTimeline
<1>3. none.known = n /\ Listed(none.items) = {}
  BY DEF Listed
<1> HIDE DEF none
<1>4. Whole(Listed(none.items), none.known, captures) /\ \A p \in 1 .. 0 : FALSE
  BY <1>3 DEF Whole
<1>5. PageOk(none, page, captures, n) /\ ListOk(page.items, n)
  BY <1>1, <1>3, <1>4, ContinuedIsOk
<1>6. Listed(none.items) \cup Listed(page.items) = Listed(page.items)
  BY <1>3
<1> HIDE DEF page, n
<1> QED BY <1>1, <1>2, <1>3, <1>5, <1>6 DEF PageOk, TimelineOk, page, n

\* The page that continues a list.
LEMMA NextPageIsOk ==
  ASSUME HistoryInv, CapturesOk(captures, Len(db.scans)),
         NEW timeline, TimelineOk(timeline, captures, Len(db.scans)), timeline.next # NoMore
  PROVE  LET page == TimelinePage(timeline.next) IN
         PageOk(timeline, page, captures, Len(db.scans)) /\ Tells(page.items, db)
<1>1. /\ timeline.next \in 0 .. Len(db.scans) /\ timeline.known \in 0 .. Len(db.scans)
      /\ Whole(Listed(timeline.items), timeline.known, captures)
      /\ \A p \in 1 .. timeline.next : captures[p] <= timeline.known => captures[p] \in Listed(timeline.items)
  BY DEF TimelineOk, Reaches
<1> QED BY <1>1, PageOfTimeline, ContinuedIsOk

-----------------------------------------------------------------------------
\* The loop that adds a page to a list, up to the item m.
IsLoop(f, list, new, m) ==
    f = [n \in 0 .. m |-> IF n = 0 THEN list
                          ELSE IF new[n].scan \in Listed(f[n - 1]) THEN f[n - 1]
                          ELSE Append(f[n - 1], new[n])]

LEMMA LoopExists ==
  ASSUME NEW list, NEW new, NEW m \in Nat
  PROVE  \E f : IsLoop(f, list, new, m)
<1> DEFINE Less == {n \in Nat : ~ \E f : IsLoop(f, list, new, n)}
<1>1. SUFFICES ASSUME Less # {} PROVE FALSE
  OBVIOUS
<1>2. PICK k \in Less : \A n \in Less : k <= n
  <2> HIDE DEF Less
  <2>1. Less \in SUBSET Nat
    BY DEF Less
  <2> QED BY <1>1, <2>1, LeastNatural
<1>3. k \in Nat /\ ~ \E f : IsLoop(f, list, new, k)
  OBVIOUS
<1>4. CASE k = 0
  <2> DEFINE f == [n \in 0 .. 0 |-> list]
  <2>1. IsLoop(f, list, new, 0)
    BY DEF IsLoop
  <2> QED BY <1>3, <1>4, <2>1
<1>5. CASE k # 0
  <2>1. k - 1 \in Nat /\ k - 1 \notin Less
    BY <1>2, <1>3, <1>5
  <2>2. PICK f : IsLoop(f, list, new, k - 1)
    BY <2>1
  <2> DEFINE g == [n \in 0 .. k |-> IF n < k THEN f[n]
                                    ELSE IF new[k].scan \in Listed(f[k - 1]) THEN f[k - 1]
                                    ELSE Append(f[k - 1], new[k])]
             h == [n \in 0 .. k |-> IF n = 0 THEN list
                                    ELSE IF new[n].scan \in Listed(g[n - 1]) THEN g[n - 1]
                                    ELSE Append(g[n - 1], new[n])]
  <2>3. ASSUME NEW n \in 0 .. k PROVE g[n] = h[n]
    <3>1. CASE n = 0
      <4>1. f[0] = list
        BY <2>1, <2>2 DEF IsLoop
      <4> QED BY <1>3, <1>5, <3>1, <4>1
    <3>2. CASE n # 0 /\ n < k
      <4>1. n \in 0 .. k - 1 /\ n - 1 \in 0 .. k - 1 /\ n - 1 \in 0 .. k /\ n - 1 < k
        BY <1>3, <3>2
      <4>2. f[n] = IF new[n].scan \in Listed(f[n - 1]) THEN f[n - 1] ELSE Append(f[n - 1], new[n])
        BY <3>2, <4>1, <2>2 DEF IsLoop
      <4>3. g[n - 1] = f[n - 1] /\ g[n] = f[n]
        BY <3>2, <4>1
      <4> HIDE DEF g
      <4> QED BY <3>2, <4>2, <4>3
    <3>3. CASE n = k
      <4>1. k - 1 \in 0 .. k /\ k - 1 < k
        BY <1>3, <2>1
      <4>2. g[k - 1] = f[k - 1]
        BY <4>1
      <4>3. g[k] = IF new[k].scan \in Listed(f[k - 1]) THEN f[k - 1] ELSE Append(f[k - 1], new[k])
        BY <1>3
      <4> HIDE DEF g
      <4> QED BY <1>3, <1>5, <3>3, <4>2, <4>3
    <3> QED BY <1>3, <3>1, <3>2, <3>3
  <2>4. g = h
    <3>1. DOMAIN g = 0 .. k /\ DOMAIN h = 0 .. k
      OBVIOUS
    <3>2. g = [n \in 0 .. k |-> g[n]] /\ h = [n \in 0 .. k |-> h[n]]
      OBVIOUS
    <3> HIDE DEF g, h
    <3> QED BY <2>3, <3>2
  <2>5. IsLoop(g, list, new, k)
    BY <2>4, Zenon DEF IsLoop
  <2> QED BY <1>3, <2>5
<1> QED BY <1>4, <1>5

LEMMA AppendedIs ==
  ASSUME NEW timeline, NEW page, Len(page.items) \in Nat
  PROVE  \E f : /\ IsLoop(f, timeline.items, page.items, Len(page.items))
                /\ Appended(timeline, page) = f[Len(page.items)]
<1> DEFINE m == Len(page.items)
           f == CHOOSE g : IsLoop(g, timeline.items, page.items, m)
<1>1. IsLoop(f, timeline.items, page.items, m)
  BY LoopExists
<1>2. Appended(timeline, page) = f[m]
  BY Zenon DEF Appended, IsLoop
<1> QED BY <1>1, <1>2

\* One turn of the loop: the item of the page is added below the list, or is listed.
Turn(list, item) == IF item.scan \in Listed(list) THEN list ELSE Append(list, item)

\* What the list is after k turns.
TurnsOk(list, timeline, page, k, c, n, d) ==
    /\ ListOk(list, n) /\ OrderOk(list, timeline.known, c)
    /\ Listed(list) = Listed(timeline.items) \cup {page.items[j].scan : j \in 1 .. k}
    /\ Tells(timeline.items, d) /\ Tells(page.items, d) => Tells(list, d)

\* Of two scans, one is above the other.
LEMMA AboveIsTotal ==
  ASSUME NEW c, NEW n \in Nat, CapturesOk(c, n), NEW s \in 1 .. n, NEW t \in 1 .. n, s # t
  PROVE  AboveIn(c, s, t) \/ AboveIn(c, t, s)
<1>0. \A x \in 1 .. n : \E p \in 1 .. n : c[p] = x
  BY DEF CapturesOk
<1>1. PICK p \in 1 .. n, q \in 1 .. n : c[p] = s /\ c[q] = t
  BY <1>0
<1>2. p < q \/ q < p
  BY <1>1
<1>3. DOMAIN c = 1 .. n
  BY DEF CapturesOk
<1> QED BY <1>1, <1>2, <1>3 DEF AboveIn

LEMMA TurnKeeps ==
  ASSUME NEW n \in Nat, NEW c, CapturesOk(c, n), NEW d, NEW timeline, NEW page, PageOk(timeline, page, c, n),
         TimelineOk(timeline, c, n),
         NEW k \in 1 .. Len(page.items), NEW list, TurnsOk(list, timeline, page, k - 1, c, n, d)
  PROVE  TurnsOk(Turn(list, page.items[k]), timeline, page, k, c, n, d)
<1> DEFINE item == page.items[k]
           s == item.scan
           known == timeline.known
           old == Listed(timeline.items)
           new == Turn(list, item)
           len == Len(list)
<1>1. /\ page.items \in Seq(ListedItem) /\ k \in DOMAIN page.items /\ item \in ListedItem /\ s \in 1 .. n
      /\ DOMAIN page.items = 1 .. Len(page.items) /\ Len(page.items) \in Nat
  BY DEF PageOk, ScansIn
<1>2. list \in Seq(ListedItem) /\ len \in Nat /\ DOMAIN list = 1 .. len
  BY DEF TurnsOk, ListOk
<1>3. /\ ListOk(list, n) /\ OrderOk(list, known, c)
      /\ Listed(list) = old \cup {page.items[j].scan : j \in 1 .. k - 1}
      /\ Tells(timeline.items, d) /\ Tells(page.items, d) => Tells(list, d)
  BY DEF TurnsOk
<1>4. {page.items[j].scan : j \in 1 .. k} = {page.items[j].scan : j \in 1 .. k - 1} \cup {s}
  <2>1. 1 .. k = 1 .. k - 1 \cup {k}
    BY <1>1
  <2> QED BY <2>1
<1>5. known \in 0 .. n /\ Whole(old, known, c) /\ OrderOk(page.items, known, c)
  BY DEF TimelineOk, PageOk
<1>6. CASE s \in Listed(list)
  <2>1. new = list
    BY <1>6 DEF Turn
  <2>2. Listed(list) = old \cup {page.items[j].scan : j \in 1 .. k}
    BY <1>3, <1>4, <1>6
  <2> HIDE DEF new, known, old
  <2> QED BY <1>3, <2>1, <2>2 DEF TurnsOk, new, known, old
<1>7. CASE s \notin Listed(list)
  <2>1. new = Append(list, item)
    BY <1>7 DEF Turn
  <2>2. \A i \in DOMAIN list : list[i].scan # s /\ list[i].scan \in Listed(list)
    BY <1>7 DEF Listed
  <2> HIDE DEF new, item, s, known, old, len
  <2>3. /\ new \in Seq(ListedItem) /\ DOMAIN new = 1 .. len + 1
        /\ new[len + 1] = item /\ \A i \in DOMAIN list : i \in DOMAIN new /\ new[i] = list[i]
    BY <1>1, <1>2, <2>1 DEF len
  <2>4. \A i \in DOMAIN new : i \in DOMAIN list \/ i = len + 1
    BY <1>2, <2>3
  <2>5. new[len + 1].scan = s
    BY <2>3 DEF s
  <2>6. ScansIn(new, n)
    BY <1>1, <1>3, <2>3, <2>4, <2>5 DEF ListOk, ScansIn
  <2>7. ASSUME NEW i \in DOMAIN new, NEW j \in DOMAIN new, new[i].scan = new[j].scan PROVE i = j
    <3>1. CASE i \in DOMAIN list /\ j \in DOMAIN list
      <4>1. list[i].scan = list[j].scan
        BY <2>3, <2>7, <3>1
      <4> QED BY <1>3, <3>1, <4>1 DEF ListOk
    <3>2. CASE i \in DOMAIN list /\ j = len + 1
      BY <2>2, <2>3, <2>5, <2>7, <3>2
    <3>3. CASE i = len + 1 /\ j \in DOMAIN list
      BY <2>2, <2>3, <2>5, <2>7, <3>3
    <3> QED BY <2>4, <3>1, <3>2, <3>3
  <2>8. ASSUME NEW i \in DOMAIN list, list[i].scan <= known, s <= known PROVE AboveIn(c, list[i].scan, s)
    <3> DEFINE u == list[i].scan
    <3>1. u # s /\ u \in 1 .. n /\ u \in Listed(list) /\ u \in 1 .. known /\ s \in 1 .. known
      <4>1. u \in 1 .. n
        BY <1>3 DEF ListOk, ScansIn
      <4> QED BY <1>1, <1>5, <2>2, <2>8, <4>1
    <3>2. CASE u \in old
      <4>1. AboveIn(c, s, u) => s \in old
        BY <1>5, <3>1, <3>2 DEF Whole
      <4>2. s \notin old
        BY <1>3, <1>7
      <4> QED BY <1>1, <3>1, <4>1, <4>2, AboveIsTotal
    <3>3. CASE u \notin old
      <4>1. PICK j \in 1 .. k - 1 : page.items[j].scan = u
        BY <1>3, <3>1, <3>3
      <4>2. j \in DOMAIN page.items /\ j < k
        BY <1>1
      <4>3. page.items[j].scan <= known /\ page.items[k].scan <= known
        BY <2>8, <4>1 DEF s, item
      <4>4. AboveIn(c, page.items[j].scan, page.items[k].scan)
        BY <1>1, <1>5, <4>2, <4>3 DEF OrderOk
      <4> QED BY <4>1, <4>4 DEF s, item
    <3> QED BY <3>2, <3>3
  <2>9. OrderOk(new, known, c)
    <3>1. ASSUME NEW i \in DOMAIN new, NEW j \in DOMAIN new,
                 i < j, new[i].scan <= known, new[j].scan <= known
          PROVE  AboveIn(c, new[i].scan, new[j].scan)
      <4>1. i \in DOMAIN list
        BY <1>2, <2>3, <2>4, <3>1
      <4>2. CASE j \in DOMAIN list
        BY <1>3, <2>3, <3>1, <4>1, <4>2 DEF OrderOk
      <4>3. CASE j = len + 1
        BY <2>3, <2>5, <2>8, <3>1, <4>1, <4>3
      <4> QED BY <2>4, <4>2, <4>3
    <3> QED BY <3>1 DEF OrderOk
  <2>10. Listed(new) = Listed(list) \cup {s}
    <3>1. \A x : x \in Listed(new) <=> \E i \in DOMAIN new : x = new[i].scan
      BY DEF Listed
    <3>2. \A x : x \in Listed(list) <=> \E i \in DOMAIN list : x = list[i].scan
      BY DEF Listed
    <3>3. len + 1 \in DOMAIN new
      BY <1>2, <2>3
    <3> QED BY <2>3, <2>4, <2>5, <3>1, <3>2, <3>3
  <2>11. ASSUME Tells(timeline.items, d), Tells(page.items, d) PROVE Tells(new, d)
    <3>1. Tells(list, d)
      BY <1>3, <2>11
    <3>2. item = VersionIn(d, item.scan)
      BY <1>1, <2>11 DEF Tells, item
    <3> QED BY <2>3, <2>4, <3>1, <3>2 DEF Tells
  <2>12. Listed(new) = old \cup {page.items[j].scan : j \in 1 .. k}
    BY <1>3, <1>4, <2>10
  <2> QED BY <2>3, <2>6, <2>7, <2>9, <2>11, <2>12 DEF TurnsOk, ListOk, new, item, known, old
<1> QED BY <1>6, <1>7

\* Adding a page to the timeline that it continues.
LEMMA AppendedIsOk ==
  ASSUME NEW n \in Nat, NEW c, CapturesOk(c, n), NEW timeline, NEW page, TimelineOk(timeline, c, n),
         PageOk(timeline, page, c, n)
  PROVE  /\ ListOk(Appended(timeline, page), n) /\ OrderOk(Appended(timeline, page), timeline.known, c)
         /\ Listed(Appended(timeline, page)) = Listed(timeline.items) \cup Listed(page.items)
         /\ \A d : Tells(timeline.items, d) /\ Tells(page.items, d) => Tells(Appended(timeline, page), d)
<1> DEFINE list == Appended(timeline, page)
<1> SUFFICES ASSUME NEW d
             PROVE  /\ ListOk(list, n) /\ OrderOk(list, timeline.known, c)
                    /\ Listed(list) = Listed(timeline.items) \cup Listed(page.items)
                    /\ Tells(timeline.items, d) /\ Tells(page.items, d) => Tells(list, d)
  OBVIOUS
<1> DEFINE m == Len(page.items)
<1>1. m \in Nat /\ DOMAIN page.items = 1 .. m
  BY DEF PageOk
<1>2. PICK f : IsLoop(f, timeline.items, page.items, m) /\ Appended(timeline, page) = f[m]
  BY <1>1, AppendedIs
<1>3. f[0] = timeline.items /\ \A k \in 1 .. m : f[k] = Turn(f[k - 1], page.items[k])
  <2>1. f[0] = timeline.items
    BY <1>1, <1>2 DEF IsLoop
  <2>2. ASSUME NEW k \in 1 .. m PROVE f[k] = Turn(f[k - 1], page.items[k])
    <3>1. k \in 0 .. m /\ k # 0
      BY <1>1
    <3> QED BY <1>2, <3>1 DEF IsLoop, Turn
  <2> QED BY <2>1, <2>2
<1> HIDE DEF m
<1>4. TurnsOk(f[0], timeline, page, 0, c, n, d)
  <2>1. {page.items[j].scan : j \in 1 .. 0} = {}
    OBVIOUS
  <2> QED BY <1>3, <2>1 DEF TurnsOk, TimelineOk
<1> DEFINE Bad == {k \in Nat : k <= m /\ ~TurnsOk(f[k], timeline, page, k, c, n, d)}
<1>5. Bad = {}
  <2>1. SUFFICES ASSUME Bad # {} PROVE FALSE
    OBVIOUS
  <2>2. PICK k \in Bad : \A j \in Bad : k <= j
    <3> HIDE DEF Bad
    <3>1. Bad \in SUBSET Nat
      BY DEF Bad
    <3> QED BY <2>1, <3>1, LeastNatural
  <2>3. k \in Nat /\ k <= m /\ ~TurnsOk(f[k], timeline, page, k, c, n, d)
    OBVIOUS
  <2>4. k # 0
    BY <1>4, <2>3
  <2>5. k \in 1 .. m /\ k - 1 \in Nat /\ k - 1 <= m /\ k - 1 \notin Bad
    BY <1>1, <2>2, <2>3, <2>4
  <2>6. TurnsOk(f[k - 1], timeline, page, k - 1, c, n, d)
    BY <2>5
  <2>7. f[k] = Turn(f[k - 1], page.items[k])
    BY <1>3, <2>5
  <2>8. TurnsOk(Turn(f[k - 1], page.items[k]), timeline, page, k, c, n, d)
    BY <2>5, <2>6, TurnKeeps DEF m
  <2> QED BY <2>3, <2>7, <2>8
<1>6. TurnsOk(f[m], timeline, page, m, c, n, d)
  BY <1>1, <1>5
<1>7. Listed(page.items) = {page.items[j].scan : j \in 1 .. m}
  BY <1>1 DEF Listed
<1> QED BY <1>2, <1>6, <1>7 DEF TurnsOk

-----------------------------------------------------------------------------
\* What a selection may be: a version listed, or none.
LEMMA SelectionIsListed ==
  ASSUME NEW timeline, NEW n, ListOk(timeline.items, n), NEW previous
  PROVE  Selection(timeline, previous) \in Shown(timeline) \cup {NoScan}
<1> DEFINE others == {i \in DOMAIN timeline.items : ~timeline.items[i].preferred}
           first == CHOOSE i \in others : \A j \in others : i <= j
<1>1. timeline.items \in Seq(ListedItem)
  BY DEF ListOk
<1>2. others # {} => first \in DOMAIN timeline.items
  <2> SUFFICES ASSUME others # {} PROVE first \in DOMAIN timeline.items
    OBVIOUS
  <2>1. others \in SUBSET Nat
    BY <1>1
  <2>2. others \subseteq DOMAIN timeline.items
    OBVIOUS
  <2> HIDE DEF others
  <2>3. \E i \in others : \A j \in others : i <= j
    BY <2>1, LeastNatural
  <2>4. first \in others
    BY <2>3
  <2> QED BY <2>2, <2>4
<1>3. timeline.items # <<>> => 1 \in DOMAIN timeline.items /\ Head(timeline.items) = timeline.items[1]
  BY <1>1
<1>4. Selection(timeline, previous) =
        CASE previous \in Shown(timeline) -> previous
          [] previous \notin Shown(timeline) /\ others # {} -> timeline.items[first].scan
          [] previous \notin Shown(timeline) /\ others = {} /\ timeline.items # <<>> -> Head(timeline.items).scan
          [] OTHER -> NoScan
  BY DEF Selection
<1> HIDE DEF others, first
<1> QED BY <1>2, <1>3, <1>4 DEF Shown, Listed

LEMMA ShownAreScans ==
  ASSUME HistoryInv, NEW timeline, NEW c, TimelineOk(timeline, c, Len(db.scans))
  PROVE  Shown(timeline) \subseteq ScansOf(db) /\ NoScan \notin Shown(timeline)
<1>1. ScansOf(db) = 1 .. Len(db.scans)
  BY ScansAreNumbered DEF HistoryInv, HistoryTypeOK
<1> QED BY <1>1 DEF TimelineOk, ListOk, ScansIn, Shown, Listed, NoScan

LEMMA DetailsAreOf ==
  ASSUME NEW timeline, NEW s
  PROVE  LET t == Details(timeline, s) IN
         \/ t.op = "none"
         \/ t.op = "details" /\ ~t.done /\ t.input.candidate = s /\ s # NoScan
BY DEF Details, Task, NoTask, NoScan

-----------------------------------------------------------------------------
\* What a step of the history leaves true of what was shown or asked before.
LEMMA WiderKeeps ==
  ASSUME HistoryInv, HistoryInv', ScansOf(db) \subseteq ScansOf(db')
  PROVE  /\ Len(db.scans) \in Nat /\ Len(db.scans)' \in Nat /\ Len(db.scans) <= Len(db.scans)'
         /\ \A p : ProposalOk(p, db) => ProposalOk(p, db')
         /\ \A call : CallOk(call, db) => CallOk(call, db')
<1>1. ScansOf(db) = 1 .. Len(db.scans) /\ Len(db.scans) \in Nat
  BY ScansAreNumbered DEF HistoryInv, HistoryTypeOK
<1>2. ScansOf(db') = 1 .. Len(db'.scans) /\ Len(db'.scans) \in Nat
  BY ScansAreNumbered DEF HistoryInv, HistoryTypeOK
<1>3. Len(db.scans) <= Len(db'.scans)
  <2>1. CASE Len(db.scans) = 0
    BY <1>1, <1>2, <2>1
  <2>2. CASE Len(db.scans) # 0
    <3>1. Len(db.scans) \in 1 .. Len(db'.scans)
      BY <1>1, <1>2, <2>2
    <3> QED BY <1>1, <1>2, <3>1
  <2> QED BY <2>1, <2>2
<1>5. ProposalsOf(db) \subseteq ProposalsOf(db')
  BY DEF ProposalsOf
<1> QED BY <1>1, <1>2, <1>3, <1>5 DEF ProposalOk, CallOk

\* A version that a list tells of as the database does is told so after a registration.
LEMMA RegisterTells ==
  ASSUME HistoryInv, HistoryInv', RegisterScan
  PROVE  /\ ScansOf(db) \subseteq ScansOf(db')
         /\ Len(db'.scans) = Len(db.scans) + 1 /\ db' # db
         /\ \A list : ScansIn(list, Len(db.scans)) /\ Tells(list, db) => Tells(list, db')
<1>1. /\ ScansOf(db') = ScansOf(db) \cup {Len(db.scans) + 1}
      /\ db'.pointer = IF db.pointer = NoScan THEN Len(db.scans) + 1 ELSE db.pointer
      /\ \A r \in ScansOf(db) : Like(db'.scans[r], db.scans[r])
  BY RegisterStep
<1>2. /\ ScansOf(db) = 1 .. Len(db.scans) /\ ScansOf(db') = 1 .. Len(db'.scans)
      /\ \A s \in ScansOf(db) : db.scans[s].preferred \in BOOLEAN
      /\ \A s \in ScansOf(db') : db'.scans[s].preferred \in BOOLEAN
  BY ScansAreNumbered DEF HistoryInv, HistoryTypeOK, ScanType
<1>3. ASSUME NEW s \in ScansOf(db) PROVE db'.scans[s].preferred = db.scans[s].preferred
  <2>1. db.pointer # NoScan /\ db'.pointer = db.pointer
    BY <1>1 DEF HistoryInv, RowsAgree
  <2>2. s \in ScansOf(db')
    BY <1>1
  <2>3. (db.scans[s].preferred <=> s \in Flagged(db)) /\ (db'.scans[s].preferred <=> s \in Flagged(db'))
    BY <2>2 DEF Flagged
  <2>4. Flagged(db) = {db.pointer} /\ Flagged(db') = {db'.pointer}
    BY <2>1 DEF HistoryInv, RowsAgree
  <2> QED BY <1>2, <2>1, <2>2, <2>3, <2>4
<1>4. \A s \in ScansOf(db) : VersionIn(db', s) = VersionIn(db, s)
  BY <1>1, <1>3 DEF VersionIn, Like
<1>5. \A list : ScansIn(list, Len(db.scans)) /\ Tells(list, db) => Tells(list, db')
  BY <1>2, <1>4 DEF ScansIn, Tells
<1>6. Len(db'.scans) = Len(db.scans) + 1
  <2>1. Len(db.scans) \in Nat /\ Len(db'.scans) \in Nat
    BY ScansAreNumbered DEF HistoryInv, HistoryTypeOK
  <2>2. 1 .. Len(db'.scans) = 1 .. Len(db.scans) \cup {Len(db.scans) + 1}
    BY <1>1, <1>2
  <2> DEFINE a == Len(db.scans)
             b == Len(db'.scans)
  <2>3. a \in Nat /\ b \in Nat /\ 1 .. b = 1 .. a \cup {a + 1}
    BY <2>1, <2>2
  <2> HIDE DEF a, b
  <2>4. a + 1 \in 1 .. b /\ b + 1 \notin 1 .. a \cup {a + 1}
    BY <2>3
  <2>5. b >= 1 => b \in 1 .. a \cup {a + 1}
    BY <2>3
  <2>6. b = a + 1
    BY <2>3, <2>4, <2>5
  <2> QED BY <2>6 DEF a, b
<1>7. db' # db
  <2>1. Len(db.scans) + 1 # Len(db.scans)
    BY ScansAreNumbered DEF HistoryInv, HistoryTypeOK
  <2> QED BY <1>6, <2>1
<1> QED BY <1>1, <1>5, <1>6, <1>7

-----------------------------------------------------------------------------
\* A mutation adds no scan and takes none away.
LEMMA RecordKeepsScans ==
  ASSUME HistoryInv, NEW p, NEW scans, NEW decision, DOMAIN scans = ScansOf(db), Record(p, scans, decision)
  PROVE  ScansOf(db') = ScansOf(db)
<1> DEFINE d == [db EXCEPT !.scans = scans, !.state = ReviewState(scans)]
<1>1. db' = d \/ db' = db
  BY DEF Record, Commit
<1>2. d.scans = scans
  BY DEF HistoryInv, HistoryTypeOK, DbType
<1> QED BY <1>1, <1>2 DEF ScansOf

LEMMA ResolveKeepsScans ==
  ASSUME HistoryInv, NEW p \in ProposalsOf(db), Resolve(p)
  PROVE  ScansOf(db') = ScansOf(db)
<1>1. CASE ReplacePreferred(p)
  BY <1>1, ReplaceStep
<1>2. CASE SaveAsNewVersion(p)
  <2> DEFINE scans == [db.scans EXCEPT ![p.candidate].decision = "version",
                                       ![p.candidate].copy = db.scans[p.baseline].copy,
                                       ![p.candidate].supersedes = p.baseline]
  <2>1. DOMAIN scans = ScansOf(db)
    BY DEF ScansOf
  <2>2. Record(p, scans, "version")
    BY <1>2 DEF SaveAsNewVersion
  <2> HIDE DEF scans
  <2> QED BY <2>1, <2>2, RecordKeepsScans
<1>3. CASE AnotherPhysicalCopy(p)
  <2> DEFINE new == IF db.scans[p.baseline].copy = NoCopy THEN 1 ELSE 0
             assigned == IF new = 1 THEN copies + 1 ELSE db.scans[p.baseline].copy
             scans == [db.scans EXCEPT ![p.baseline].copy = assigned,
                                       ![p.candidate].decision = "copy",
                                       ![p.candidate].copy = copies']
  <2>1. DOMAIN scans = ScansOf(db)
    BY DEF ScansOf
  <2>2. Record(p, scans, "copy")
    BY <1>3 DEF AnotherPhysicalCopy
  <2> HIDE DEF scans
  <2> QED BY <2>1, <2>2, RecordKeepsScans
<1>4. CASE WrongScan(p)
  <2> DEFINE scans == [db.scans EXCEPT ![p.candidate].decision = "wrong",
                                       ![p.candidate].copy = NoCopy,
                                       ![p.candidate].quality = "Rejected"]
  <2>1. DOMAIN scans = ScansOf(db)
    BY DEF ScansOf
  <2>2. Record(p, scans, "wrong")
    BY <1>4 DEF WrongScan
  <2> HIDE DEF scans
  <2> QED BY <2>1, <2>2, RecordKeepsScans
<1> QED BY <1>1, <1>2, <1>3, <1>4 DEF Resolve

LEMMA PerformKeeps ==
  ASSUME HistoryInv, LogInv, NEW call, CallOk(call, db), Perform(call)
  PROVE  /\ HistoryInv' /\ LogInv' /\ ScansOf(db') = ScansOf(db)
         /\ ~Effective(call) \/ call.op = "review" => db' = db
<1>1. CASE UNCHANGED historyVars
  BY <1>1, NothingKeeps DEF historyVars
<1>2. CASE call.op = "review" /\ MoveToReview(call.input)
  <2>1. call.input \in ScansOf(db)
    BY <1>2 DEF CallOk
  <2>2. db' = db
    BY <1>2 DEF MoveToReview
  <2> QED BY <1>2, <2>1, <2>2, MoveKeeps
<1>3. CASE Effective(call) /\ call.op = "decide" /\ Resolution(call.input.decision, call.input.proposal)
  <2>1. call.input.proposal \in ProposalsOf(db)
    BY <1>3 DEF CallOk
  <2>2. Resolve(call.input.proposal)
    BY <1>3 DEF Resolution, Resolve
  <2> QED BY <1>3, <2>1, <2>2, ResolveKeeps, ResolveKeepsScans
<1> QED BY <1>1, <1>2, <1>3 DEF Perform

-----------------------------------------------------------------------------
\* The actions.
LEMMA RegisterKeepsScreen ==
  ASSUME VersionInv, RegisterCapture
  PROVE  VersionInv'
<1>1. RegisterScan /\ HistoryInv' /\ LogInv'
  BY RegisterKeeps DEF VersionInv, RegisterCapture
<1>2. /\ UNCHANGED <<screen, task, late, outrun>> /\ HistoryInv /\ ScreenOk /\ TaskOk
      /\ CapturesOk(captures, Len(db.scans))
  BY DEF screenVars, VersionInv, RegisterCapture
<1> DEFINE n == Len(db.scans)
           m == Len(db'.scans)
<1>3. /\ n \in Nat /\ m \in Nat /\ m = n + 1 /\ db' # db
      /\ \A p : ProposalOk(p, db) => ProposalOk(p, db')
      /\ \A call : CallOk(call, db) => CallOk(call, db')
      /\ ScansOf(db) \subseteq ScansOf(db')
      /\ \A list : ScansIn(list, n) /\ Tells(list, db) => Tells(list, db')
  BY <1>1, <1>2, WiderKeeps, RegisterTells
<1>4. CapturesOk(captures', m) /\ Follows(captures, n, captures', m)
  <2>1. PICK k \in 1 .. n + 1 : captures' = InsertAt(captures, k, n + 1)
    <3>1. Len(captures) = n
      BY <1>2 DEF CapturesOk
    <3>2. captures' \in {InsertAt(captures, k, Len(db'.scans)) : k \in 1 .. Len(captures) + 1}
      BY <1>3 DEF RegisterCapture
    <3> QED BY <1>3, <3>1, <3>2
  <2> QED BY <1>2, <1>3, <2>1, PlacedKeeps
<1>5. \A timeline : TimelineOk(timeline, captures, n) =>
         /\ TimelineOk(timeline, captures', m)
         /\ \A page : PageOk(timeline, page, captures, n) => PageOk(timeline, page, captures', m)
  BY <1>3, <1>4, TimelineStays
<1> HIDE DEF n, m
<1>6. ScreenOk'
  <2>1. TimelineOk(screen.timeline, captures, n) /\ ProposalOk(screen.proposal, db)
        /\ DOMAIN screen = {"timeline", "selected", "comparison", "proposal"}
        /\ (outrun \/ task.op = "reload" \/ Tells(screen.timeline.items, db))
    BY <1>2 DEF ScreenOk, n
  <2>2. ScansIn(screen.timeline.items, n)
    BY <2>1 DEF TimelineOk, ListOk
  <2>3. TimelineOk(screen.timeline, captures', m) /\ ProposalOk(screen.proposal, db')
        /\ (outrun \/ task.op = "reload" \/ Tells(screen.timeline.items, db'))
    BY <1>3, <1>5, <2>1, <2>2
  <2> QED BY <1>2, <2>1, <2>3 DEF ScreenOk, m
<1>7. TaskOk'
  <2>1. TimelineOk(screen.timeline, captures, n)
    BY <1>2 DEF ScreenOk, n
  <2>2. task.op \in {"load", "reload"} /\ task.done =>
           TimelineOk(task.input, captures', m) /\ (outrun \/ Tells(task.input.items, db'))
    <3>1. TimelineOk(task.input, captures, n) => ScansIn(task.input.items, n)
      BY DEF TimelineOk, ListOk
    <3> QED BY <1>2, <1>3, <1>5, <3>1 DEF TaskOk, n
  <2>3. task.op = "more" =>
         IF task.done
         THEN /\ task.input.timeline = screen.timeline
              /\ PageOk(screen.timeline, task.input.next, captures', m)
              /\ outrun \/ Tells(task.input.next.items, db')
         ELSE task.input = screen.timeline /\ screen.timeline.next # NoMore
    <3>1. PageOk(screen.timeline, task.input.next, captures, n) => ScansIn(task.input.next.items, n)
      BY DEF PageOk
    <3> QED BY <1>2, <1>3, <1>5, <2>1, <3>1 DEF TaskOk, n
  <2>4. task.op = "details" =>
         IF task.done THEN ProposalOk(task.input.proposal, db') ELSE task.input.candidate \in ScansOf(db')
    BY <1>2, <1>3 DEF TaskOk
  <2>5. (task.op \in {"decide", "review"} => CallOk(task, db')) /\ \A call \in late : CallOk(call, db')
    BY <1>2, <1>3 DEF TaskOk
  <2> QED BY <1>2, <2>2, <2>3, <2>4, <2>5 DEF TaskOk, m
<1> QED BY <1>1, <1>4, <1>6, <1>7 DEF VersionInv, m

\* The steps of the screen that leave the history alone.
LEMMA HistoryStays ==
  ASSUME VersionInv, UNCHANGED <<historyVars, captures>>
  PROVE  /\ HistoryInv /\ HistoryInv' /\ LogInv' /\ ScreenOk /\ TaskOk /\ db' = db /\ captures' = captures
         /\ ScansOf(db)' = ScansOf(db) /\ Len(db.scans)' = Len(db.scans)
         /\ CapturesOk(captures, Len(db.scans)) /\ CapturesOk(captures, Len(db.scans))'
<1>1. db' = db
  BY DEF historyVars
<1> QED BY <1>1, NothingKeeps DEF VersionInv

LEMMA TapsKeep ==
  ASSUME VersionInv, UNCHANGED captures,
         Load \/ LoadMore \/ MoveSelectedToReview \/ Leave \/ \E decision \in Decisions : ApplyDecision(decision)
  PROVE  VersionInv'
<1>1. UNCHANGED historyVars
  BY DEF Load, LoadMore, MoveSelectedToReview, Leave, ApplyDecision
<1>2. /\ HistoryInv /\ HistoryInv' /\ LogInv' /\ ScreenOk /\ TaskOk /\ db' = db /\ captures' = captures
      /\ CapturesOk(captures, Len(db.scans)) /\ CapturesOk(captures, Len(db.scans))'
  BY <1>1, HistoryStays
<1>3. Shown(screen.timeline) \subseteq ScansOf(db)
  BY <1>2, ShownAreScans DEF ScreenOk
<1>4. CASE Load
  <2>1. task' = Task("load", NoScan) /\ UNCHANGED <<screen, late, outrun>> /\ Idle
    BY <1>4 DEF Load
  <2>2. task'.op = "load" /\ task'.done = FALSE /\ task.op # "reload"
    BY <2>1 DEF Task, Idle, Mutating
  <2> QED BY <1>2, <2>1, <2>2 DEF VersionInv, ScreenOk, TaskOk
<1>5. CASE LoadMore
  <2>1. task' = Task("more", screen.timeline) /\ UNCHANGED <<screen, late, outrun>> /\ Idle
        /\ screen.timeline.next # NoMore
    BY <1>5 DEF LoadMore
  <2>2. task'.op = "more" /\ task'.done = FALSE /\ task'.input = screen.timeline /\ task.op # "reload"
    BY <2>1 DEF Task, Idle, Mutating
  <2> QED BY <1>2, <2>1, <2>2 DEF VersionInv, ScreenOk, TaskOk
<1>6. CASE MoveSelectedToReview
  <2>1. task' = Task("review", screen.selected) /\ UNCHANGED <<screen, late, outrun>> /\ Idle
        /\ screen.selected \in ScansOf(db)
    BY <1>3, <1>6 DEF MoveSelectedToReview
  <2>2. task'.op = "review" /\ task'.input = screen.selected /\ task.op # "reload"
    BY <2>1 DEF Task, Idle, Mutating
  <2>3. CallOk(task', db)
    BY <2>1, <2>2 DEF CallOk
  <2> QED BY <1>2, <2>1, <2>2, <2>3 DEF VersionInv, ScreenOk, TaskOk
<1>7. ASSUME NEW decision \in Decisions, ApplyDecision(decision) PROVE VersionInv'
  <2>1. /\ task' = Task("decide", [proposal |-> screen.proposal, decision |-> decision])
        /\ UNCHANGED <<screen, late, outrun>> /\ Idle /\ screen.proposal \in ProposalsOf(db)
    BY <1>2, <1>7 DEF ApplyDecision, ScreenOk, ProposalOk
  <2>2. task'.op = "decide" /\ task'.input.proposal = screen.proposal /\ task.op # "reload"
    BY <2>1 DEF Task, Idle, Mutating
  <2>3. CallOk(task', db)
    BY <2>1, <2>2 DEF CallOk
  <2> QED BY <1>2, <2>1, <2>2, <2>3 DEF VersionInv, ScreenOk, TaskOk
<1>8. CASE Leave
  <2>1. screen' = NewScreen /\ task' = NoTask /\ UNCHANGED outrun
        /\ (late' = late \/ (late' = {task} /\ task.op \in {"decide", "review"}))
    BY <1>8 DEF Leave, Mutating
  <2>2. /\ DOMAIN screen' = {"timeline", "selected", "comparison", "proposal"}
        /\ screen'.timeline = NoTimeline /\ screen'.proposal = NoProposal /\ task'.op = "none"
    BY <2>1 DEF NewScreen, NoTask, Task
  <2>3. TimelineOk(NoTimeline, captures, Len(db.scans)) /\ Tells(NoTimeline.items, db)
    <3>1. NoTimeline.items = <<>> /\ NoTimeline.next = 0 /\ DOMAIN NoTimeline = {"items", "preferred", "next", "known"}
          /\ NoTimeline.known = 0 /\ Len(db.scans) \in Nat
      BY <1>2, ScansAreNumbered DEF NoTimeline, NoMore, HistoryInv, HistoryTypeOK
    <3>2. DOMAIN <<>> = {} /\ <<>> \in Seq(ListedItem)
      OBVIOUS
    <3> QED BY <3>1, <3>2 DEF TimelineOk, ListOk, ScansIn, OrderOk, Whole, Reaches, Listed, Tells, NoMore
  <2>4. \A call \in late' : CallOk(call, db)
    BY <1>2, <2>1 DEF TaskOk
  <2>5. ScreenOk'
    BY <1>2, <2>2, <2>3 DEF ScreenOk, ProposalOk
  <2>6. TaskOk'
    BY <1>2, <2>2, <2>4 DEF TaskOk
  <2> QED BY <1>2, <2>5, <2>6 DEF VersionInv
<1> QED BY <1>4, <1>5, <1>6, <1>7, <1>8

LEMMA SelectKeeps ==
  ASSUME VersionInv, UNCHANGED captures, NEW s, SelectVersion(s)
  PROVE  VersionInv'
<1>1. UNCHANGED historyVars /\ s \in Shown(screen.timeline) /\ screen' = Select(s)
      /\ task' = (IF Idle THEN Details(screen.timeline, s) ELSE task) /\ UNCHANGED <<late, outrun>>
  BY DEF SelectVersion
<1>2. HistoryInv /\ HistoryInv' /\ LogInv' /\ ScreenOk /\ TaskOk /\ db' = db /\ captures' = captures
      /\ CapturesOk(captures, Len(db.scans)) /\ CapturesOk(captures, Len(db.scans))'
  BY <1>1, HistoryStays
<1>3. s \in ScansOf(db)
  BY <1>1, <1>2, ShownAreScans DEF ScreenOk
<1>4. /\ DOMAIN screen' = {"timeline", "selected", "comparison", "proposal"}
      /\ screen'.timeline = screen.timeline /\ screen'.proposal = NoProposal
  BY <1>1, <1>2 DEF Select, ScreenOk
<1>5. \/ task' = task
      \/ task'.op = "none" /\ Idle
      \/ task'.op = "details" /\ ~task'.done /\ task'.input.candidate = s /\ Idle
  BY <1>1, DetailsAreOf
<1>6. Idle => task.op # "reload"
  BY DEF Idle, Mutating
<1>7. ScreenOk'
  BY <1>1, <1>2, <1>4, <1>5, <1>6 DEF ScreenOk, ProposalOk
<1>8. TaskOk'
  BY <1>1, <1>2, <1>3, <1>4, <1>5 DEF TaskOk
<1> QED BY <1>2, <1>7, <1>8 DEF VersionInv

LEMMA ReadsKeep ==
  ASSUME VersionInv, UNCHANGED captures, ReadTimeline \/ ReadMore \/ ReadDetails
  PROVE  VersionInv'
<1>1. UNCHANGED historyVars /\ UNCHANGED <<screen, late, outrun>>
  BY DEF ReadTimeline, ReadMore, ReadDetails
<1>2. HistoryInv /\ HistoryInv' /\ LogInv' /\ ScreenOk /\ TaskOk /\ db' = db /\ captures' = captures
      /\ CapturesOk(captures, Len(db.scans)) /\ CapturesOk(captures, Len(db.scans))'
  BY <1>1, HistoryStays
<1>3. CASE ReadTimeline
  <2>1. task'.op = task.op /\ task.op \in {"load", "reload"} /\ task'.input = TimelinePage(0)
    BY <1>3 DEF ReadTimeline, Result
  <2>2. TimelineOk(TimelinePage(0), captures, Len(db.scans)) /\ Tells(TimelinePage(0).items, db)
    BY <1>2, FirstPageIsOk
  <2>3. ScreenOk'
    BY <1>1, <1>2, <2>1 DEF ScreenOk
  <2>4. TaskOk'
    BY <1>1, <1>2, <2>1, <2>2 DEF TaskOk
  <2> QED BY <1>2, <2>3, <2>4 DEF VersionInv
<1>4. CASE ReadMore
  <2>1. /\ task'.op = "more" /\ task.op = "more" /\ ~task.done /\ task'.done
        /\ task'.input.timeline = task.input
        /\ task'.input.next = TimelinePage(task.input.next)
    BY <1>4 DEF ReadMore, Result
  <2>2. task.input = screen.timeline /\ screen.timeline.next # NoMore
    BY <1>2, <2>1 DEF TaskOk
  <2>3. TimelineOk(screen.timeline, captures, Len(db.scans))
    BY <1>2, <2>2 DEF ScreenOk
  <2>4. /\ PageOk(screen.timeline, TimelinePage(screen.timeline.next), captures, Len(db.scans))
        /\ Tells(TimelinePage(screen.timeline.next).items, db)
    BY <1>2, <2>2, <2>3, NextPageIsOk
  <2>5. ScreenOk'
    BY <1>1, <1>2, <2>1 DEF ScreenOk
  <2>6. TaskOk'
    BY <1>1, <1>2, <2>1, <2>2, <2>3, <2>4 DEF TaskOk
  <2> QED BY <1>2, <2>5, <2>6 DEF VersionInv
<1>5. CASE ReadDetails
  <2>1. task.op = "details" /\ ~task.done /\ task.input.candidate \in ScansOf(db)
    BY <1>2, <1>5 DEF ReadDetails, TaskOk
  <2>2. \/ task'.op = "none"
        \/ task'.op = "details" /\ task'.done /\ task'.input.proposal = NoProposal
        \/ /\ task'.op = "details" /\ task'.done /\ task'.input.proposal = Proposal(task.input.candidate)
           /\ Proposable(task.input.candidate)
    BY <1>5, <2>1 DEF ReadDetails, Result, NoTask, Task
  <2>3. Proposable(task.input.candidate) => Proposal(task.input.candidate) \in ProposalsOf(db)
    BY <1>2, <2>1 DEF Proposable, Proposal, ProposalsOf, HistoryInv, RowsAgree, NoScan
  <2>4. ScreenOk'
    BY <1>1, <1>2, <2>1, <2>2 DEF ScreenOk
  <2>5. TaskOk'
    BY <1>1, <1>2, <2>1, <2>2, <2>3 DEF TaskOk, ProposalOk
  <2> QED BY <1>2, <2>4, <2>5 DEF VersionInv
<1> QED BY <1>3, <1>4, <1>5

\* What a mutation does to the screen it was asked on, and after it was left.
LEMMA MutationsKeep ==
  ASSUME VersionInv, UNCHANGED captures,
         PerformDecision \/ PerformReview \/ \E call \in late : PerformLate(call)
  PROVE  VersionInv'
<1> DEFINE n == Len(db.scans)
<1>1. ASSUME NEW call, CallOk(call, db), Perform(call)
      PROVE  /\ HistoryInv /\ HistoryInv' /\ LogInv' /\ ScreenOk /\ TaskOk
             /\ ScansOf(db') = ScansOf(db) /\ Len(db'.scans) = n
             /\ \A p : ProposalOk(p, db) => ProposalOk(p, db')
             /\ \A c : CallOk(c, db) => CallOk(c, db')
             /\ ~Effective(call) \/ call.op = "review" => db' = db
             /\ CapturesOk(captures, n)
  <2>1. HistoryInv /\ HistoryInv' /\ LogInv' /\ ScreenOk /\ TaskOk
        /\ ScansOf(db') = ScansOf(db)
        /\ (~Effective(call) \/ call.op = "review" => db' = db)
        /\ CapturesOk(captures, n)
    BY <1>1, PerformKeeps DEF VersionInv
  <2>2. Len(db'.scans) = n
    <3>1. 1 .. Len(db'.scans) = 1 .. n /\ Len(db'.scans) \in Nat /\ n \in Nat
      BY <2>1, ScansAreNumbered DEF HistoryInv, HistoryTypeOK
    <3>2. \A i \in Nat : i \in 1 .. Len(db'.scans) <=> i \in 1 .. n
      BY <3>1
    <3> HIDE DEF n
    <3>3. \A a, b \in Nat : (\A i \in Nat : i \in 1 .. a <=> i \in 1 .. b) => a <= b
      OBVIOUS
    <3> QED BY <3>1, <3>2, <3>3
  <2> QED BY <2>1, <2>2, WiderKeeps
<1> HIDE DEF n
<1>2. CASE PerformDecision
  <2>1. Perform(task) /\ task.op = "decide" /\ UNCHANGED <<screen, late, outrun>> /\ task' = AfterDecision(task)
    BY <1>2 DEF PerformDecision
  <2>2. CallOk(task, db)
    BY <2>1 DEF VersionInv, TaskOk
  <2>3. /\ HistoryInv /\ HistoryInv' /\ LogInv' /\ ScreenOk /\ TaskOk
        /\ ScansOf(db') = ScansOf(db) /\ Len(db'.scans) = n /\ CapturesOk(captures, n)
        /\ \A p : ProposalOk(p, db) => ProposalOk(p, db')
        /\ \A c : CallOk(c, db) => CallOk(c, db')
        /\ ~Effective(task) => db' = db
    BY <1>1, <2>1, <2>2
  <2>4. \/ task'.op = "reload" /\ ~task'.done
        \/ task'.op = "none" /\ db' = db
    BY <2>1, <2>3 DEF AfterDecision, NoTask, Task
  <2>5. ScreenOk'
    BY <2>1, <2>3, <2>4 DEF ScreenOk, n
  <2>6. TaskOk'
    BY <2>1, <2>3, <2>4 DEF TaskOk
  <2> QED BY <2>3, <2>5, <2>6 DEF VersionInv, n
<1>3. CASE PerformReview
  <2>1. Perform(task) /\ task.op = "review" /\ UNCHANGED <<screen, late, outrun>> /\ task'.op = "none"
    BY <1>3 DEF PerformReview, NoTask, Task
  <2>2. CallOk(task, db)
    BY <2>1 DEF VersionInv, TaskOk
  <2>3. HistoryInv' /\ LogInv' /\ ScreenOk /\ TaskOk /\ db' = db /\ captures' = captures
      /\ CapturesOk(captures, Len(db.scans)) /\ CapturesOk(captures, Len(db.scans))'
    BY <1>1, <2>1, <2>2
  <2>4. ScreenOk'
    BY <2>1, <2>3 DEF ScreenOk
  <2>5. TaskOk'
    BY <2>1, <2>3 DEF TaskOk
  <2> QED BY <2>3, <2>4, <2>5 DEF VersionInv, n
<1>4. ASSUME NEW call \in late, PerformLate(call) PROVE VersionInv'
  <2>1. Perform(call) /\ UNCHANGED <<screen, task>> /\ late' \subseteq late /\ outrun'
    BY <1>4 DEF PerformLate
  <2>2. CallOk(call, db)
    BY <1>4 DEF VersionInv, TaskOk
  <2>3. /\ HistoryInv /\ HistoryInv' /\ LogInv' /\ ScreenOk /\ TaskOk
        /\ ScansOf(db') = ScansOf(db) /\ Len(db'.scans) = n /\ CapturesOk(captures, n)
        /\ \A p : ProposalOk(p, db) => ProposalOk(p, db')
        /\ \A c : CallOk(c, db) => CallOk(c, db')
    BY <1>1, <2>1, <2>2
  <2>4. ScreenOk'
    BY <2>1, <2>3 DEF ScreenOk, n
  <2>5. TaskOk'
    BY <2>1, <2>3 DEF TaskOk, n
  <2> QED BY <2>3, <2>4, <2>5 DEF VersionInv, n
<1> QED BY <1>2, <1>3, <1>4

\* What the main thread shows.
LEMMA ShowsKeep ==
  ASSUME VersionInv, UNCHANGED captures, ShowTimeline \/ ShowMore \/ ShowDetails
  PROVE  VersionInv'
<1>1. UNCHANGED historyVars /\ UNCHANGED <<late, outrun>>
  BY DEF ShowTimeline, ShowMore, ShowDetails
<1>2. HistoryInv /\ HistoryInv' /\ LogInv' /\ ScreenOk /\ TaskOk /\ db' = db /\ captures' = captures /\ Len(db.scans) \in Nat
      /\ CapturesOk(captures, Len(db.scans)) /\ CapturesOk(captures, Len(db.scans))'
  BY <1>1, HistoryStays, ScansAreNumbered DEF HistoryInv, HistoryTypeOK
<1>3. CASE ShowTimeline
  <2> DEFINE selected == Selection(task.input, screen.selected)
  <2>1. /\ task.op \in {"load", "reload"} /\ task.done
        /\ screen' = [NewScreen EXCEPT !.timeline = task.input, !.selected = selected]
        /\ task' = Details(task.input, selected)
    BY <1>3 DEF ShowTimeline
  <2>2. TimelineOk(task.input, captures, Len(db.scans)) /\ (outrun \/ Tells(task.input.items, db))
    BY <1>2, <2>1 DEF TaskOk
  <2>3. selected \in Shown(task.input) \cup {NoScan}
    BY <2>2, SelectionIsListed DEF TimelineOk
  <2>4. Shown(task.input) \subseteq ScansOf(db)
    BY <1>2, <2>2, ShownAreScans
  <2> HIDE DEF selected
  <2>5. /\ DOMAIN screen' = {"timeline", "selected", "comparison", "proposal"}
        /\ screen'.timeline = task.input /\ screen'.proposal = NoProposal
    BY <2>1 DEF NewScreen
  <2>6. \/ task'.op = "none"
        \/ task'.op = "details" /\ ~task'.done /\ task'.input.candidate \in ScansOf(db)
    BY <2>1, <2>3, <2>4, DetailsAreOf
  <2>7. ScreenOk'
    BY <1>1, <1>2, <2>2, <2>5, <2>6 DEF ScreenOk, ProposalOk
  <2>8. TaskOk'
    BY <1>1, <1>2, <2>6 DEF TaskOk
  <2> QED BY <1>2, <2>7, <2>8 DEF VersionInv
<1>4. CASE ShowMore
  <2> DEFINE page == task.input.next
             list == Appended(task.input.timeline, page)
             timeline == [task.input.timeline EXCEPT !.items = list, !.next = page.next]
  <2>1. /\ task.op = "more" /\ task.done /\ screen' = [screen EXCEPT !.timeline = timeline] /\ task' = NoTask
    BY <1>4 DEF ShowMore
  <2>2. /\ task.input.timeline = screen.timeline
        /\ PageOk(screen.timeline, page, captures, Len(db.scans))
        /\ outrun \/ Tells(page.items, db)
    BY <1>2, <2>1 DEF TaskOk
  <2>3. TimelineOk(screen.timeline, captures, Len(db.scans)) /\ DOMAIN screen = {"timeline", "selected", "comparison", "proposal"}
        /\ ProposalOk(screen.proposal, db) /\ (outrun \/ Tells(screen.timeline.items, db))
    BY <1>2, <2>1 DEF ScreenOk
  <2>4. /\ ListOk(list, Len(db.scans)) /\ OrderOk(list, screen.timeline.known, captures)
        /\ Listed(list) = Listed(screen.timeline.items) \cup Listed(page.items)
        /\ outrun \/ Tells(list, db)
    <3>1. /\ ListOk(list, Len(db.scans)) /\ OrderOk(list, screen.timeline.known, captures)
          /\ Listed(list) = Listed(screen.timeline.items) \cup Listed(page.items)
          /\ Tells(screen.timeline.items, db) /\ Tells(page.items, db) => Tells(list, db)
      <4> DEFINE tl == task.input.timeline
                 n == Len(db.scans)
      <4>1. /\ n \in Nat /\ CapturesOk(captures, n)
            /\ TimelineOk(tl, captures, n) /\ PageOk(tl, page, captures, n) /\ tl = screen.timeline
        BY <1>2, <2>2, <2>3
      <4> HIDE DEF page, tl, n
      <4>2. /\ ListOk(Appended(tl, page), n) /\ OrderOk(Appended(tl, page), tl.known, captures)
            /\ Listed(Appended(tl, page)) = Listed(tl.items) \cup Listed(page.items)
            /\ \A d : Tells(tl.items, d) /\ Tells(page.items, d) => Tells(Appended(tl, page), d)
        BY ONLY <4>1, AppendedIsOk
      <4>3. list = Appended(tl, page)
        BY DEF tl
      <4> HIDE DEF list
      <4> QED BY <4>1, <4>2, <4>3 DEF n
    <3> HIDE DEF list, page
    <3> QED BY <2>2, <2>3, <3>1
  <2> HIDE DEF list, page
  <2>5. timeline.items = list /\ timeline.next = page.next /\ timeline.known = screen.timeline.known
        /\ DOMAIN timeline = {"items", "preferred", "next", "known"}
    BY <2>2, <2>3 DEF TimelineOk
  <2> HIDE DEF timeline
  <2>6. /\ DOMAIN screen' = {"timeline", "selected", "comparison", "proposal"}
        /\ screen'.timeline = timeline /\ screen'.proposal = screen.proposal /\ task'.op = "none"
    BY <2>1, <2>3 DEF NoTask, Task
  <2>7. TimelineOk(timeline, captures, Len(db.scans))
    BY <2>2, <2>3, <2>4, <2>5 DEF TimelineOk, PageOk
  <2>8. ScreenOk'
    BY <1>1, <1>2, <2>3, <2>4, <2>5, <2>6, <2>7 DEF ScreenOk
  <2>9. TaskOk'
    BY <1>1, <1>2, <2>6 DEF TaskOk
  <2> QED BY <1>2, <2>8, <2>9 DEF VersionInv
<1>5. CASE ShowDetails
  <2>1. /\ task.op = "details" /\ task.done /\ task' = NoTask
        /\ screen' = [screen EXCEPT !.comparison = task.input.comparison, !.proposal = task.input.proposal]
    BY <1>5 DEF ShowDetails
  <2>2. ProposalOk(task.input.proposal, db) /\ DOMAIN screen = {"timeline", "selected", "comparison", "proposal"}
    BY <1>2, <2>1 DEF TaskOk, ScreenOk
  <2>3. /\ DOMAIN screen' = {"timeline", "selected", "comparison", "proposal"}
        /\ screen'.timeline = screen.timeline /\ screen'.proposal = task.input.proposal /\ task'.op = "none"
    BY <2>1, <2>2 DEF NoTask, Task
  <2>4. ScreenOk'
    BY <1>1, <1>2, <2>1, <2>2, <2>3 DEF ScreenOk
  <2>5. TaskOk'
    BY <1>1, <1>2, <2>3 DEF TaskOk
  <2> QED BY <1>2, <2>4, <2>5 DEF VersionInv
<1> QED BY <1>3, <1>4, <1>5

LEMMA VersionsInitial ==
  ASSUME VersionInit
  PROVE  VersionInv
<1>1. HistoryInv /\ LogInv
  BY HistoryInitial DEF VersionInit
<1>2. screen = NewScreen /\ task = NoTask /\ late = {} /\ captures = <<>> /\ db.scans = <<>>
  BY DEF VersionInit, HistoryInit
<1>3. /\ DOMAIN screen = {"timeline", "selected", "comparison", "proposal"}
      /\ screen.timeline = NoTimeline /\ screen.proposal = NoProposal /\ task.op = "none"
  BY <1>2 DEF NewScreen, NoTask, Task
<1>4. TimelineOk(NoTimeline, captures, Len(db.scans)) /\ Tells(NoTimeline.items, db)
  <2>1. NoTimeline.items = <<>> /\ NoTimeline.next = 0 /\ DOMAIN NoTimeline = {"items", "preferred", "next", "known"}
        /\ NoTimeline.known = 0 /\ Len(db.scans) \in Nat
    BY <1>1, ScansAreNumbered DEF NoTimeline, NoMore, HistoryInv, HistoryTypeOK
  <2>2. DOMAIN <<>> = {} /\ <<>> \in Seq(ListedItem)
    OBVIOUS
  <2> QED BY <2>1, <2>2 DEF TimelineOk, ListOk, ScansIn, OrderOk, Whole, Reaches, Listed, Tells, NoMore
<1>5. ScreenOk
  BY <1>3, <1>4 DEF ScreenOk, ProposalOk
<1>6. TaskOk
  BY <1>2, <1>3 DEF TaskOk
<1>7. CapturesOk(captures, Len(db.scans))
  BY <1>2 DEF CapturesOk
<1> QED BY <1>1, <1>5, <1>6, <1>7 DEF VersionInv

LEMMA VersionsKept ==
  ASSUME VersionInv, [VersionNext]_versionVars
  PROVE  VersionInv'
<1>1. CASE UNCHANGED versionVars
  <2>1. UNCHANGED <<historyVars, captures, screen, task, late, outrun>>
    BY <1>1 DEF versionVars, screenVars
  <2>2. HistoryInv' /\ LogInv' /\ ScreenOk /\ TaskOk /\ db' = db /\ captures' = captures
        /\ CapturesOk(captures, Len(db.scans)) /\ CapturesOk(captures, Len(db.scans))'
    BY <2>1, HistoryStays
  <2> QED BY <2>1, <2>2 DEF VersionInv, ScreenOk, TaskOk
<1>2. CASE RegisterCapture
  BY <1>2, RegisterKeepsScreen
<1>3. CASE UNCHANGED captures /\ (Load \/ LoadMore \/ MoveSelectedToReview \/ Leave \/ \E decision \in Decisions : ApplyDecision(decision))
  BY <1>3, TapsKeep
<1>4. CASE UNCHANGED captures /\ \E s \in ScansOf(db) : SelectVersion(s)
  BY <1>4, SelectKeeps
<1>5. CASE UNCHANGED captures /\ (ReadTimeline \/ ReadMore \/ ReadDetails)
  BY <1>5, ReadsKeep
<1>6. CASE UNCHANGED captures /\ (PerformDecision \/ PerformReview \/ \E call \in late : PerformLate(call))
  BY <1>6, MutationsKeep
<1>7. CASE UNCHANGED captures /\ (ShowTimeline \/ ShowMore \/ ShowDetails)
  BY <1>7, ShowsKeep
<1> QED BY <1>1, <1>2, <1>3, <1>4, <1>5, <1>6, <1>7 DEF VersionNext

LEMMA VersionsTold ==
  ASSUME VersionInv
  PROVE  ScreenTellsTruth
<1> DEFINE timeline == screen.timeline
           listed == timeline.items
           n == Len(db.scans)
<1>1. TimelineOk(timeline, captures, n) /\ (outrun \/ Mutating \/ Tells(listed, db))
  BY DEF VersionInv, ScreenOk, Mutating
<1>2. n \in Nat
  BY ScansAreNumbered DEF VersionInv, HistoryInv, HistoryTypeOK
<1> HIDE DEF timeline, n
<1>3. /\ timeline.known \in 0 .. n /\ ListOk(listed, n) /\ OrderOk(listed, timeline.known, captures)
      /\ Whole(Listed(listed), timeline.known, captures)
      /\ timeline.next = NoMore => 1 .. timeline.known \subseteq Listed(listed)
  BY <1>1 DEF TimelineOk, Reaches
<1>4. \A s, t : AboveIn(captures, s, t) <=> Above(s, t)
  BY DEF AboveIn, Above
<1>5. \A i, j \in DOMAIN listed :
         i < j /\ {listed[i].scan, listed[j].scan} \subseteq 1 .. timeline.known => Above(listed[i].scan, listed[j].scan)
  BY <1>2, <1>3, <1>4 DEF OrderOk, ListOk, ScansIn
<1>6. \A s \in 1 .. timeline.known :
         timeline.next = NoMore \/ (\E t \in Shown(timeline) \cap (1 .. timeline.known) : Above(s, t))
         => s \in Shown(timeline)
  BY <1>3, <1>4 DEF Whole, Shown
<1>7. Tells(listed, db) => \A i \in DOMAIN listed : listed[i] = Version(listed[i].scan)
  BY DEF Tells, VersionIn, Version
<1>8. \A i, j \in DOMAIN listed : listed[i].scan = listed[j].scan => i = j
  BY <1>3 DEF ListOk
<1> QED BY <1>1, <1>5, <1>6, <1>7, <1>8 DEF ScreenTellsTruth, timeline

(* The version history of MCScreens, for any number of scans, events and      *)
(* items and any page size: no version is listed twice, whatever is           *)
(* registered between the pages and wherever its capture belongs; of the      *)
(* versions there were when the list was begun none is missing above one that *)
(* is shown, nor at the end, and they are in order of capture; and the list   *)
(* tells what the database says.                                              *)
THEOREM VersionsAreTold == MCSpec => []ScreenTellsTruth
<1>1. MCInit => VersionInv
  BY VersionsInitial DEF MCInit
<1>2. VersionInv /\ [MCNext]_allVars => VersionInv'
  <2>1. [MCNext]_allVars => [VersionNext]_versionVars
    BY DEF MCNext, allVars
  <2> QED BY <2>1, VersionsKept
<1>3. VersionInv => ScreenTellsTruth
  BY VersionsTold
<1> QED BY <1>1, <1>2, <1>3, PTL DEF MCSpec, allVars

-----------------------------------------------------------------------------
(* Recognized text.                                                           *)

ViewerFields == {"view", "open", "scan", "ocr", "run", "overlay", "job", "retry", "cancel", "notes"}
SearchFields == {"open", "query", "hits", "asked"}
TaskFields   == {"kind", "at", "of", "run", "total", "offset", "seen"}

Ones(s) == {s[i] : i \in DOMAIN s}
OneByOne(s) == \A i, j \in DOMAIN s : s[i] = s[j] => i = j

\* The text over a page is a list that its run once had.
ViewerOk(v, had) == DOMAIN v = ViewerFields /\ (v.ocr = "Detected" => <<v.run, v.overlay>> \in had)

TableOk ==
    /\ DOMAIN table = {"order", "status", "regions"}
    /\ table.order \in Seq(Runs)
    /\ table.status \in [Runs -> Text!Statuses \cup {"none"}]
    /\ table.regions \in [Runs -> Seq(Regions)]
    /\ \A r \in Runs : OneByOne(table.regions[r])
    /\ \A r \in Runs : table.status[r] = "Detected" => <<r, table.regions[r]>> \in lists

Documents(t) == Text!TextDocuments(t) \cup Text!RegionDocuments(t)

IndexOk ==
    /\ Text!Migrated => index = Documents(table)
    /\ ~Text!Migrated => search = Text!NoSearch
    /\ DOMAIN search = SearchFields
    /\ search.hits \subseteq index

NotesOk == notes \in Seq(Runs) /\ \A i \in DOMAIN notes : table.status[notes[i]] = "Detected"

\* What a coroutine that reads pages has seen is what stands there, unless regions
\* came meanwhile; then there are more than it was told.
PagesOk(t, rows) ==
    /\ t.run \in Runs /\ rows.status[t.run] = "Detected"
    /\ t.total \in Nat /\ t.total <= Len(rows.regions[t.run])
    /\ t.total = Len(rows.regions[t.run]) =>
         /\ t.offset \in Nat /\ t.offset <= t.total
         /\ t.seen = SubSeq(rows.regions[t.run], 1, t.offset)

TaskIsOk(t, had, rows) ==
    /\ DOMAIN t = TaskFields /\ ViewerOk(t.of, had)
    /\ t.at = "pages" => PagesOk(t, rows)
    /\ t.at \in {"metadata", "active", "run"} => t.offset = 0 /\ t.seen = <<>>

TextInv ==
    /\ TableOk /\ IndexOk /\ NotesOk /\ ViewerOk(viewer, lists)
    /\ \A t \in tasks : TaskIsOk(t, lists, table)

LEMMA SameNames ==
  /\ \A s : Text!ToSet(s) = Ones(s)
  /\ \A s : Text!IsInjective(s) <=> OneByOne(s)
  /\ \A s : Text!Cardinality(s) = Cardinality(s)
<1>1. \A s : Text!ToSet(s) = Ones(s)
  BY DEF Text!ToSet, Ones
<1>2. \A s : Text!IsInjective(s) <=> OneByOne(s)
  BY DEF Text!IsInjective, OneByOne
<1>3. \A s : Text!Cardinality(s) = Cardinality(s)
  BY DEF Text!Cardinality, Cardinality
<1> QED BY <1>1, <1>2, <1>3

\* The regions of a list with others among them: each once, and no others.
LEMMA WithIs ==
  ASSUME NEW s \in Seq(Regions), OneByOne(s), NEW xs \in SUBSET Regions, xs \cap Ones(s) = {},
         NEW list \in Text!With(s, xs)
  PROVE  /\ list \in Seq(Regions) /\ OneByOne(list) /\ Ones(list) = Ones(s) \cup xs
         /\ Len(list) = Len(s) + Cardinality(xs) /\ Cardinality(xs) \in Nat
<1> DEFINE T == Ones(s) \cup xs
           n == Len(s) + Cardinality(xs)
<1>1. list \in [1 .. n -> T] /\ OneByOne(list)
  <2>1. list \in [1 .. (Len(s) + Text!Cardinality(xs)) -> Text!ToSet(s) \cup xs] /\ Text!IsInjective(list)
    BY DEF Text!With
  <2> QED BY <2>1, SameNames
<1>2. IsFiniteSet(xs) /\ Cardinality(xs) \in Nat
  BY ReadingAssumption, FS_Subset, FS_CardinalityType
<1>3. IsFiniteSet(Ones(s)) /\ Cardinality(Ones(s)) = Len(s) /\ Len(s) \in Nat /\ Ones(s) \subseteq Regions
  <2>1. Len(s) \in Nat /\ DOMAIN s = 1 .. Len(s) /\ \A i \in 1 .. Len(s) : s[i] \in Regions
    OBVIOUS
  <2>2. IsFiniteSet(1 .. Len(s)) /\ Cardinality(1 .. Len(s)) = Len(s)
    <3>1. /\ IsFiniteSet(1 .. Len(s))
          /\ Cardinality(1 .. Len(s)) = IF 1 > Len(s) THEN 0 ELSE Len(s) - 1 + 1
      BY <2>1, FS_Interval
    <3> DEFINE k == Len(s)
               c == Cardinality(1 .. Len(s))
    <3>2. k \in Nat /\ c = IF 1 > k THEN 0 ELSE k - 1 + 1
      BY <2>1, <3>1
    <3> HIDE DEF k, c
    <3>3. c = k
      BY <3>2
    <3> QED BY <3>1, <3>3 DEF k, c
  <2>3. s \in [1 .. Len(s) -> Ones(s)]
    BY <2>1 DEF Ones
  <2>4. s \in Surjection(1 .. Len(s), Ones(s)) /\ s \in Injection(1 .. Len(s), Ones(s))
    BY <2>1, <2>3 DEF Surjection, Injection, IsInjective, OneByOne, Ones
  <2> QED BY <2>1, <2>2, <2>4, FS_Surjection DEF Ones
<1>4. IsFiniteSet(T) /\ Cardinality(T) = n /\ T \subseteq Regions /\ n \in Nat
  <2>1. Cardinality(Ones(s) \cap xs) = 0
    <3>1. Ones(s) \cap xs = {}
      OBVIOUS
    <3> QED BY <3>1, FS_EmptySet
  <2>2. IsFiniteSet(T) /\ Cardinality(T) = Cardinality(Ones(s)) + Cardinality(xs) - Cardinality(Ones(s) \cap xs)
    BY <1>2, <1>3, FS_Union
  <2>3. T \subseteq Regions
    BY <1>3
  <2> HIDE DEF T
  <2>4. Cardinality(T) = Len(s) + Cardinality(xs) - 0
    BY <1>3, <2>1, <2>2
  <2> QED BY <1>2, <1>3, <2>2, <2>3, <2>4
<1> HIDE DEF T, n
<1>5. list \in Surjection(1 .. n, T)
  <2>1. list \in Injection(1 .. n, T)
    BY <1>1 DEF Injection, IsInjective, OneByOne
  <2>2. Cardinality(1 .. n) = n
    BY <1>4, FS_Interval
  <2> QED BY <1>4, <2>1, <2>2, FS_Injection
<1>6. Ones(list) = T
  BY <1>1, <1>5 DEF Surjection, Ones
<1>7. list \in Seq(Regions) /\ Len(list) = n
  <2>1. list \in [1 .. n -> Regions]
    BY <1>1, <1>4
  <2> QED BY <1>4, <2>1
<1> QED BY <1>1, <1>2, <1>6, <1>7 DEF T, n

LEMMA PrefixIs ==
  ASSUME NEW list \in Seq(Regions), NEW k \in 0 .. Len(list)
  PROVE  /\ SubSeq(list, 1, k) \in Seq(Regions) /\ Len(SubSeq(list, 1, k)) = k
         /\ \A i \in 1 .. k : SubSeq(list, 1, k)[i] = list[i]
<1>1. \A i \in 1 .. k : list[i] \in Regions
  OBVIOUS
<1>2. k \in Int /\ k >= 0
  OBVIOUS
<1>3. /\ SubSeq(list, 1, k) \in Seq(Regions) /\ Len(SubSeq(list, 1, k)) = IF 1 <= k THEN k - 1 + 1 ELSE 0
      /\ \A i \in 1 .. k - 1 + 1 : SubSeq(list, 1, k)[i] = list[1 + i - 1]
  BY <1>1, <1>2, SubSeqProperties
<1>4. k - 1 + 1 = k /\ \A i \in 1 .. k : 1 + i - 1 = i
  BY <1>2
<1> QED BY <1>2, <1>3, <1>4

LEMMA PrefixGrows ==
  ASSUME NEW list \in Seq(Regions), NEW k \in 1 .. Len(list)
  PROVE  Append(SubSeq(list, 1, k - 1), list[k]) = SubSeq(list, 1, k)
<1> DEFINE a == SubSeq(list, 1, k - 1)
           b == SubSeq(list, 1, k)
           c == Append(a, list[k])
<1>1. k \in Nat /\ k - 1 \in 0 .. Len(list) /\ k \in 0 .. Len(list) /\ Len(list) \in Nat /\ list[k] \in Regions
  OBVIOUS
<1>2. /\ a \in Seq(Regions) /\ Len(a) = k - 1
      /\ \A i \in 1 .. k - 1 : a[i] = list[i]
  BY <1>1, PrefixIs
<1>3. /\ b \in Seq(Regions) /\ Len(b) = k
      /\ \A i \in 1 .. k : b[i] = list[i]
  BY <1>1, PrefixIs
<1> HIDE DEF a, b
<1>4. c \in Seq(Regions) /\ Len(c) = k /\ (\A i \in 1 .. k - 1 : c[i] = a[i]) /\ c[k] = list[k]
  <2>1. /\ c \in Seq(Regions) /\ Len(c) = Len(a) + 1
        /\ \A i \in 1 .. Len(a) : c[i] = a[i]
        /\ c[Len(a) + 1] = list[k]
    BY <1>1, <1>2, AppendProperties
  <2>2. Len(a) + 1 = k
    BY <1>1, <1>2
  <2> QED BY <1>2, <2>1, <2>2
<1> HIDE DEF c
<1>5. \A i \in 1 .. k : i = k \/ i \in 1 .. k - 1
  BY <1>1
<1>6. \A i \in 1 .. k : c[i] = b[i]
  BY <1>2, <1>3, <1>4, <1>5
<1> QED BY <1>3, <1>4, <1>6, SeqEqual DEF a, b, c

IsSeen(f, seen, new) ==
    f = [n \in 0 .. Len(new) |-> IF n = 0 THEN seen
                                 ELSE IF new[n] \in Text!ToSet(f[n - 1]) THEN f[n - 1]
                                 ELSE Append(f[n - 1], new[n])]

\* Seen to the offset o, and a page that goes to m: then seen to m.
LEMMA SeenIs ==
  ASSUME NEW list \in Seq(Regions), OneByOne(list), NEW m \in 0 .. Len(list), NEW o \in 0 .. m,
         NEW t, t.seen = SubSeq(list, 1, o), NEW page, page.items = SubSeq(list, o + 1, m)
  PROVE  Text!Seen(t, page) = SubSeq(list, 1, m)
<1> DEFINE new == page.items
           w == [n \in 0 .. m - o |-> SubSeq(list, 1, o + n)]
           f == CHOOSE g : IsSeen(g, t.seen, new)
<1>1. m \in Nat /\ o \in Nat /\ o <= m /\ Len(list) \in Nat /\ m <= Len(list) /\ m - o \in Nat
  OBVIOUS
<1>2. Len(new) = m - o /\ \A n \in 1 .. m - o : new[n] = list[o + n]
  <2>1. \A i \in o + 1 .. m : list[i] \in Regions
    BY <1>1
  <2>2. /\ Len(SubSeq(list, o + 1, m)) = IF o + 1 <= m THEN m - (o + 1) + 1 ELSE 0
        /\ \A i \in 1 .. m - (o + 1) + 1 : SubSeq(list, o + 1, m)[i] = list[o + 1 + i - 1]
    BY <1>1, <2>1, SubSeqProperties
  <2>3. m - (o + 1) + 1 = m - o /\ \A i \in 1 .. m - o : o + 1 + i - 1 = o + i
    BY <1>1
  <2> QED BY <1>1, <2>2, <2>3
<1>3. ASSUME NEW n \in 1 .. m - o
      PROVE  /\ new[n] \notin Text!ToSet(SubSeq(list, 1, o + n - 1))
             /\ Append(SubSeq(list, 1, o + n - 1), new[n]) = SubSeq(list, 1, o + n)
  <2>1. o + n \in 1 .. Len(list) /\ o + n - 1 \in 0 .. Len(list) /\ n \in Nat
    BY <1>1
  <2>2. new[n] = list[o + n]
    BY <1>2
  <2>3. /\ Len(SubSeq(list, 1, o + n - 1)) = o + n - 1 /\ SubSeq(list, 1, o + n - 1) \in Seq(Regions)
        /\ \A i \in 1 .. o + n - 1 : SubSeq(list, 1, o + n - 1)[i] = list[i]
    BY <2>1, PrefixIs
  <2>4. Ones(SubSeq(list, 1, o + n - 1)) = {list[i] : i \in 1 .. o + n - 1}
    <3>1. DOMAIN SubSeq(list, 1, o + n - 1) = 1 .. o + n - 1
      BY <2>3
    <3> QED BY <2>3, <3>1 DEF Ones
  <2>5. \A i \in 1 .. o + n - 1 : i \in DOMAIN list /\ i # o + n
    BY <1>1, <2>1
  <2>6. o + n \in DOMAIN list
    BY <2>1
  <2>7. \A i \in 1 .. o + n - 1 : list[i] # list[o + n]
    BY <2>5, <2>6 DEF OneByOne
  <2>8. new[n] \notin Text!ToSet(SubSeq(list, 1, o + n - 1))
    BY <2>2, <2>4, <2>7, SameNames
  <2> QED BY <2>1, <2>2, <2>8, PrefixGrows
<1> HIDE DEF new
<1>4. IsSeen(w, t.seen, new)
  <2> DEFINE h == [n \in 0 .. m - o |-> IF n = 0 THEN t.seen
                                        ELSE IF new[n] \in Text!ToSet(w[n - 1]) THEN w[n - 1]
                                        ELSE Append(w[n - 1], new[n])]
  <2>1. ASSUME NEW n \in 0 .. m - o PROVE w[n] = h[n]
    <3>1. CASE n = 0
      <4>1. o + 0 = o /\ w[n] = SubSeq(list, 1, o + n)
        BY <1>1
      <4> QED BY <1>1, <3>1, <4>1
    <3>2. CASE n # 0
      <4>1. n \in 1 .. m - o /\ n - 1 \in 0 .. m - o /\ o + (n - 1) = o + n - 1
        BY <1>1, <3>2
      <4>2. w[n - 1] = SubSeq(list, 1, o + n - 1) /\ w[n] = SubSeq(list, 1, o + n)
        BY <4>1
      <4>3. h[n] = IF new[n] \in Text!ToSet(w[n - 1]) THEN w[n - 1] ELSE Append(w[n - 1], new[n])
        BY <3>2
      <4> HIDE DEF w, h
      <4> QED BY <1>3, <4>1, <4>2, <4>3
    <3> QED BY <3>1, <3>2
  <2>2. w = [n \in 0 .. m - o |-> w[n]] /\ h = [n \in 0 .. m - o |-> h[n]]
    OBVIOUS
  <2>3. w = h
    <3> HIDE DEF w, h
    <3> QED BY <2>1, <2>2
  <2> QED BY <1>2, <2>3, Zenon DEF IsSeen
<1>5. IsSeen(f, t.seen, new)
  BY <1>4
<1>6. Text!Seen(t, page) = f[Len(new)]
  BY Zenon DEF Text!Seen, IsSeen, new
<1> HIDE DEF f
<1> DEFINE Bad == {n \in Nat : n <= m - o /\ f[n] # SubSeq(list, 1, o + n)}
<1>7. Bad = {}
  <2>1. SUFFICES ASSUME Bad # {} PROVE FALSE
    OBVIOUS
  <2>2. PICK n \in Bad : \A j \in Bad : n <= j
    <3>1. Bad \in SUBSET Nat
      OBVIOUS
    <3> HIDE DEF Bad
    <3> QED BY <2>1, <3>1, LeastNatural
  <2>3. n \in Nat /\ n <= m - o /\ f[n] # SubSeq(list, 1, o + n)
    OBVIOUS
  <2>4. n # 0
    <3>1. f[0] = t.seen /\ o + 0 = o
      BY <1>1, <1>2, <1>5 DEF IsSeen
    <3> QED BY <2>3, <3>1
  <2>5. n \in 1 .. m - o /\ n - 1 \in Nat /\ n - 1 <= m - o /\ n - 1 \notin Bad /\ o + (n - 1) = o + n - 1
    BY <1>1, <2>2, <2>3, <2>4
  <2>6. f[n - 1] = SubSeq(list, 1, o + n - 1)
    BY <2>5
  <2>7. f[n] = IF new[n] \in Text!ToSet(f[n - 1]) THEN f[n - 1] ELSE Append(f[n - 1], new[n])
    <3>1. n \in 0 .. Len(new)
      BY <1>2, <2>3
    <3> QED BY <1>5, <2>4, <3>1 DEF IsSeen
  <2> QED BY <1>3, <2>3, <2>5, <2>6, <2>7
<1>8. f[m - o] = SubSeq(list, 1, o + (m - o)) /\ o + (m - o) = m
  <2>1. m - o \in Nat /\ m - o <= m - o
    BY <1>1
  <2>3. m - o \notin Bad
    <3> HIDE DEF Bad
    <3> QED BY <1>7
  <2>2. f[m - o] = SubSeq(list, 1, o + (m - o))
    BY <2>1, <2>3
  <2> QED BY <1>1, <2>2
<1> QED BY <1>2, <1>6, <1>8

\* A run is put anywhere among the runs.
LEMMA InsertAtIs ==
  ASSUME NEW s \in Seq(Runs), NEW i \in 1 .. Len(s) + 1, NEW r \in Runs
  PROVE  Text!InsertAt(s, i, r) \in Seq(Runs)
<1>1. i \in Int /\ Len(s) \in Nat
  OBVIOUS
<1>2. \A k \in 1 .. i - 1 : s[k] \in Runs
  OBVIOUS
<1>3. \A k \in i .. Len(s) : s[k] \in Runs
  OBVIOUS
<1>4. SubSeq(s, 1, i - 1) \in Seq(Runs) /\ SubSeq(s, i, Len(s)) \in Seq(Runs) /\ <<r>> \in Seq(Runs)
  BY <1>1, <1>2, <1>3, SubSeqProperties
<1> QED BY <1>4 DEF Text!InsertAt

LEMMA InsertedIs ==
  ASSUME NEW rows, rows.order \in Seq(Runs), NEW r \in Runs, NEW s, NEW list,
         NEW t \in Text!Inserted(rows, r, s, list)
  PROVE  /\ DOMAIN t = {"order", "status", "regions"} /\ t.order \in Seq(Runs)
         /\ t.status = [rows.status EXCEPT ![r] = s]
         /\ t.regions = [rows.regions EXCEPT ![r] = list]
<1>1. PICK i \in 1 .. (Len(rows.order) + 1) :
        t = [order |-> Text!InsertAt(rows.order, i, r), status |-> [rows.status EXCEPT ![r] = s],
             regions |-> [rows.regions EXCEPT ![r] = list]]
  BY Zenon DEF Text!Inserted
<1>2. Text!InsertAt(rows.order, i, r) \in Seq(Runs)
  BY InsertAtIs
<1> QED BY <1>1, <1>2

LEMMA DocumentsAre ==
  ASSUME NEW t, NEW d
  PROVE  d \in Documents(t) <=>
           \E r \in Runs : t.status[r] = "Detected" /\ (d = <<r, "text">> \/ \E x \in Ones(t.regions[r]) : d = <<r, x>>)
<1>1. d \in Text!TextDocuments(t) <=> \E r \in Runs : t.status[r] = "Detected" /\ d = <<r, "text">>
  BY Zenon DEF Text!TextDocuments
<1>2. d \in Text!RegionDocuments(t) <=>
        \E r \in Runs : t.status[r] = "Detected" /\ \E x \in Ones(t.regions[r]) : d = <<r, x>>
  <2> DEFINE D == {x \in Runs : t.status[x] = "Detected"}
             part1(r) == {<<r, x>> : x \in Text!ToSet(t.regions[r])}
  <2>1. Text!RegionDocuments(t) = UNION {part1(r) : r \in D}
    BY DEF Text!RegionDocuments
  <2>2. \A r : d \in part1(r) <=> \E x \in Ones(t.regions[r]) : d = <<r, x>>
    <3>1. \A r : Text!ToSet(t.regions[r]) = Ones(t.regions[r])
      BY SameNames
    <3> QED BY <3>1
  <2>3. \A r : r \in D <=> r \in Runs /\ t.status[r] = "Detected"
    OBVIOUS
  <2> HIDE DEF part1, D
  <2>4. d \in UNION {part1(r) : r \in D} <=> \E r \in D : d \in part1(r)
    BY Zenon
  <2> QED BY <2>1, <2>2, <2>3, <2>4
<1> QED BY <1>1, <1>2 DEF Documents

-----------------------------------------------------------------------------
\* Rows are added: what was a run's list stays one, and is its list still or is
\* longer now.
RowsGrow ==
    /\ lists \subseteq lists'
    /\ \A r \in Runs : table.status[r] = "Detected" =>
         /\ table'.status[r] = "Detected"
         /\ \/ table'.regions[r] = table.regions[r]
            \/ Len(table'.regions[r]) > Len(table.regions[r])

LEMMA GrownRows ==
  ASSUME TextInv, RowsGrow, TableOk', IndexOk', UNCHANGED <<notes, viewer, tasks>>
  PROVE  TextInv'
<1>1. \A v : ViewerOk(v, lists) => ViewerOk(v, lists')
  BY DEF ViewerOk, RowsGrow
<1>2. ASSUME NEW t \in tasks PROVE TaskIsOk(t, lists', table')
  <2>1. TaskIsOk(t, lists, table)
    BY DEF TextInv
  <2>2. ASSUME PagesOk(t, table) PROVE PagesOk(t, table')
    <3>1. table.regions[t.run] \in Seq(Regions) /\ table'.regions[t.run] \in Seq(Regions) /\ t.run \in Runs
      BY <2>2 DEF PagesOk, TextInv, TableOk
    <3> DEFINE a == Len(table.regions[t.run])
               b == Len(table'.regions[t.run])
    <3>2. a \in Nat /\ b \in Nat
      BY <3>1
    <3>3. t.total \in Nat /\ t.total <= a /\ table.status[t.run] = "Detected"
      BY <2>2 DEF PagesOk
    <3>4. table'.status[t.run] = "Detected" /\ (table'.regions[t.run] = table.regions[t.run] \/ b > a)
      BY <3>1, <3>3 DEF RowsGrow
    <3>5. CASE table'.regions[t.run] = table.regions[t.run]
      BY <2>2, <3>4, <3>5 DEF PagesOk
    <3>6. CASE b > a
      <4> HIDE DEF a, b
      <4>1. t.total <= b /\ t.total # b
        BY <3>2, <3>3, <3>6
      <4> QED BY <3>1, <3>3, <3>4, <4>1 DEF PagesOk, a, b
    <3> QED BY <3>4, <3>5, <3>6
  <2> QED BY <1>1, <2>1, <2>2 DEF TaskIsOk
<1>3. NotesOk'
  <2>1. \A i \in DOMAIN notes : notes[i] \in Runs
    BY DEF TextInv, NotesOk
  <2> QED BY <2>1 DEF TextInv, NotesOk, RowsGrow
<1>4. ViewerOk(viewer, lists)'
  BY <1>1 DEF TextInv
<1> QED BY <1>2, <1>3, <1>4 DEF TextInv

\* The index grows by documents of runs.
LEMMA IndexGrows ==
  ASSUME NEW D, \A d \in D : \E r \in Runs : \E x : d = <<r, x>>, index' = index \cup D
  PROVE  (Text!Migrated' <=> Text!Migrated) /\ index \subseteq index'
<1>1. <<"unmigrated", NoRun>> \notin D
  <2>1. SUFFICES ASSUME <<"unmigrated", NoRun>> \in D PROVE FALSE
    OBVIOUS
  <2>2. PICK r \in Runs : \E x : <<"unmigrated", NoRun>> = <<r, x>>
    BY <2>1
  <2>3. r = "unmigrated"
    BY <2>2
  <2> QED BY <2>3, ReadingAssumption
<1> QED BY <1>1 DEF Text!Migrated

LEMMA TriggersAre ==
  ASSUME NEW r, NEW s, NEW t, NEW xs, NEW d
  PROVE  /\ d \in Text!RunTrigger(r, s) <=> s = "Detected" /\ d = <<r, "text">>
         /\ d \in Text!RegionTrigger(t, r, xs) <=> t.status[r] = "Detected" /\ \E x \in xs : d = <<r, x>>
BY DEF Text!RunTrigger, Text!RegionTrigger

LEMMA InsertRunKeeps ==
  ASSUME TextInv, NEW r \in Runs, NEW s \in Text!Statuses, NEW xs \in SUBSET Regions,
         Text!InsertRun(r, s, xs), UNCHANGED search
  PROVE  RowsGrow /\ TableOk' /\ IndexOk'
<1>1. TableOk /\ IndexOk
  BY DEF TextInv
<1>2. PICK list \in Text!With(<<>>, xs) :
        \E t \in Text!Inserted(table, r, s, list) :
          /\ table' = t
          /\ index' = index \cup Text!RunTrigger(r, s) \cup Text!RegionTrigger(t, r, xs)
          /\ lists' = lists \cup {<<r, list>>}
  BY Zenon DEF Text!InsertRun
<1>3. r \notin Text!Taken(table) /\ (xs # {} => s = "Detected")
  BY DEF Text!InsertRun
<1>4. table.status[r] = "none"
  BY <1>3 DEF Text!Taken
<1>5. list \in Seq(Regions) /\ OneByOne(list) /\ Ones(list) = xs
  <2>1. <<>> \in Seq(Regions) /\ OneByOne(<<>>) /\ Ones(<<>>) = {}
    BY DEF OneByOne, Ones
  <2>2. list \in Seq(Regions) /\ OneByOne(list) /\ Ones(list) = Ones(<<>>) \cup xs
    BY <2>1, WithIs
  <2> QED BY <2>1, <2>2
<1>6. table' \in Text!Inserted(table, r, s, list)
  BY <1>2
<1>7. /\ DOMAIN table' = {"order", "status", "regions"} /\ table'.order \in Seq(Runs)
      /\ table'.status = [table.status EXCEPT ![r] = s]
      /\ table'.regions = [table.regions EXCEPT ![r] = list]
  <2>1. table.order \in Seq(Runs)
    BY <1>1 DEF TableOk
  <2> QED BY <1>6, <2>1, InsertedIs
<1>8. /\ table'.status[r] = s /\ table'.regions[r] = list
      /\ \A q \in Runs \ {r} : table'.status[q] = table.status[q] /\ table'.regions[q] = table.regions[q]
  BY <1>1, <1>7 DEF TableOk
<1>9. lists' = lists \cup {<<r, list>>}
      /\ index' = index \cup (Text!RunTrigger(r, s) \cup Text!RegionTrigger(table', r, xs))
  BY <1>2
<1>10. RowsGrow
  BY <1>4, <1>8, <1>9 DEF RowsGrow
<1>11. TableOk'
  <2>1. table'.status \in [Runs -> Text!Statuses \cup {"none"}] /\ table'.regions \in [Runs -> Seq(Regions)]
    BY <1>1, <1>5, <1>7 DEF TableOk
  <2>2. \A q \in Runs : OneByOne(table'.regions[q])
    BY <1>1, <1>5, <1>8 DEF TableOk
  <2>3. \A q \in Runs : table'.status[q] = "Detected" => <<q, table'.regions[q]>> \in lists'
    BY <1>1, <1>8, <1>9 DEF TableOk
  <2> QED BY <1>7, <2>1, <2>2, <2>3 DEF TableOk
<1>12. IndexOk'
  <2> DEFINE D == Text!RunTrigger(r, s) \cup Text!RegionTrigger(table', r, xs)
  <2>1. \A d : d \in D <=> s = "Detected" /\ (d = <<r, "text">> \/ \E x \in xs : d = <<r, x>>)
    <3>1. \A d : d \in Text!RunTrigger(r, s) <=> s = "Detected" /\ d = <<r, "text">>
      BY TriggersAre
    <3>2. \A d : d \in Text!RegionTrigger(table', r, xs) <=> s = "Detected" /\ \E x \in xs : d = <<r, x>>
      <4>1. table'.status[r] = s
        BY <1>8
      <4>2. Text!RegionTrigger(table', r, xs) = IF s = "Detected" THEN {<<r, x>> : x \in xs} ELSE {}
        BY <4>1 DEF Text!RegionTrigger
      <4> QED BY <4>2
    <3> QED BY <3>1, <3>2
  <2>2. index' = index \cup D
    BY <1>9
  <2> HIDE DEF D
  <2>3. (Text!Migrated' <=> Text!Migrated) /\ index \subseteq index'
    BY <2>1, <2>2, IndexGrows
  <2>4. \A d : d \in Documents(table') <=> d \in Documents(table) \/ d \in D
    <3>1. \A d : d \in Documents(table') <=>
             \E q \in Runs : table'.status[q] = "Detected"
                             /\ (d = <<q, "text">> \/ \E x \in Ones(table'.regions[q]) : d = <<q, x>>)
      BY DocumentsAre
    <3>2. \A d : d \in Documents(table) <=>
             \E q \in Runs : table.status[q] = "Detected"
                             /\ (d = <<q, "text">> \/ \E x \in Ones(table.regions[q]) : d = <<q, x>>)
      BY DocumentsAre
    <3>3. ASSUME NEW d, d \in Documents(table') PROVE d \in Documents(table) \/ d \in D
      <4>1. PICK q \in Runs : table'.status[q] = "Detected"
                              /\ (d = <<q, "text">> \/ \E x \in Ones(table'.regions[q]) : d = <<q, x>>)
        BY <3>1, <3>3
      <4>2. CASE q = r
        BY <1>5, <1>8, <2>1, <4>1, <4>2
      <4>3. CASE q # r
        BY <1>8, <3>2, <4>1, <4>3
      <4> QED BY <4>2, <4>3
    <3>4. ASSUME NEW d, d \in Documents(table) PROVE d \in Documents(table')
      <4>1. PICK q \in Runs : table.status[q] = "Detected"
                              /\ (d = <<q, "text">> \/ \E x \in Ones(table.regions[q]) : d = <<q, x>>)
        BY <3>2, <3>4
      <4>2. q # r
        BY <1>4, <4>1
      <4> QED BY <1>8, <3>1, <4>1, <4>2
    <3>5. ASSUME NEW d, d \in D PROVE d \in Documents(table')
      BY <1>5, <1>8, <2>1, <3>1, <3>5
    <3> QED BY <3>3, <3>4, <3>5
  <2>5. Text!Migrated' => index' = Documents(table')
    BY <1>1, <2>2, <2>3, <2>4 DEF IndexOk
  <2>6. Documents(table)' = Documents(table')
    BY DEF Documents, Text!TextDocuments, Text!RegionDocuments
  <2> QED BY <1>1, <2>3, <2>5, <2>6 DEF IndexOk
<1> QED BY <1>10, <1>11, <1>12

LEMMA RecordRegionsKeeps ==
  ASSUME TextInv, NEW r \in Runs, NEW xs \in SUBSET Regions, xs \cap Text!RegionsOf(table) = {},
         Text!RecordRegions(r, xs)
  PROVE  RowsGrow /\ TableOk' /\ IndexOk'
<1>1. TableOk /\ IndexOk
  BY DEF TextInv
<1>2. PICK list \in Text!With(table.regions[r], xs) :
        /\ table' = [table EXCEPT !.regions[r] = list]
        /\ lists' = lists \cup {<<r, list>>}
  BY Zenon DEF Text!RecordRegions
<1>3. /\ xs # {} /\ table.status[r] = "Detected" /\ UNCHANGED search
      /\ index' = index \cup Text!RegionTrigger(table, r, xs)
  BY DEF Text!RecordRegions
<1>4. table.regions[r] \in Seq(Regions) /\ OneByOne(table.regions[r])
  BY <1>1 DEF TableOk
<1>5. xs \cap Ones(table.regions[r]) = {}
  <2>1. Text!ToSet(table.regions[r]) \subseteq Text!RegionsOf(table)
    BY DEF Text!RegionsOf
  <2> QED BY <2>1, SameNames
<1>6. /\ list \in Seq(Regions) /\ OneByOne(list) /\ Ones(list) = Ones(table.regions[r]) \cup xs
      /\ Len(list) = Len(table.regions[r]) + Cardinality(xs) /\ Cardinality(xs) \in Nat
  BY <1>4, <1>5, WithIs
<1>7. Len(list) > Len(table.regions[r])
  <2>1. IsFiniteSet(xs)
    BY ReadingAssumption, FS_Subset
  <2>2. Cardinality(xs) # 0
    BY <1>3, <2>1, FS_EmptySet
  <2>3. Len(table.regions[r]) \in Nat
    BY <1>4
  <2> DEFINE a == Len(table.regions[r])
             b == Cardinality(xs)
             c == Len(list)
  <2>4. a \in Nat /\ b \in Nat /\ b # 0 /\ c = a + b
    BY <1>6, <2>2, <2>3
  <2> HIDE DEF a, b, c
  <2>5. c > a
    BY <2>4
  <2> QED BY <2>5 DEF a, c
<1>8. /\ DOMAIN table' = {"order", "status", "regions"} /\ table'.order = table.order
      /\ table'.status = table.status
      /\ table'.regions = [table.regions EXCEPT ![r] = list]
  BY <1>1, <1>2 DEF TableOk
<1>9. /\ table'.regions[r] = list
      /\ \A q \in Runs \ {r} : table'.regions[q] = table.regions[q]
  BY <1>1, <1>8 DEF TableOk
<1>10. RowsGrow
  BY <1>2, <1>7, <1>8, <1>9 DEF RowsGrow
<1>11. TableOk'
  <2>1. table'.regions \in [Runs -> Seq(Regions)]
    BY <1>1, <1>6, <1>8 DEF TableOk
  <2>2. \A q \in Runs : OneByOne(table'.regions[q])
    BY <1>1, <1>6, <1>9 DEF TableOk
  <2>3. \A q \in Runs : table'.status[q] = "Detected" => <<q, table'.regions[q]>> \in lists'
    BY <1>1, <1>2, <1>8, <1>9 DEF TableOk
  <2> QED BY <1>1, <1>8, <2>1, <2>2, <2>3 DEF TableOk
<1>12. IndexOk'
  <2> DEFINE D == Text!RegionTrigger(table, r, xs)
  <2>1. \A d : d \in D <=> \E x \in xs : d = <<r, x>>
    BY <1>3, TriggersAre
  <2>2. index' = index \cup D
    BY <1>3
  <2> HIDE DEF D
  <2>3. (Text!Migrated' <=> Text!Migrated) /\ index \subseteq index'
    BY <2>1, <2>2, IndexGrows
  <2>4. \A d : d \in Documents(table') <=> d \in Documents(table) \/ d \in D
    <3>1. \A d : d \in Documents(table') <=>
             \E q \in Runs : table'.status[q] = "Detected"
                             /\ (d = <<q, "text">> \/ \E x \in Ones(table'.regions[q]) : d = <<q, x>>)
      BY DocumentsAre
    <3>2. \A d : d \in Documents(table) <=>
             \E q \in Runs : table.status[q] = "Detected"
                             /\ (d = <<q, "text">> \/ \E x \in Ones(table.regions[q]) : d = <<q, x>>)
      BY DocumentsAre
    <3>3. ASSUME NEW d, d \in Documents(table') PROVE d \in Documents(table) \/ d \in D
      <4>1. PICK q \in Runs : table'.status[q] = "Detected"
                              /\ (d = <<q, "text">> \/ \E x \in Ones(table'.regions[q]) : d = <<q, x>>)
        BY <3>1, <3>3
      <4>2. CASE q = r
        BY <1>6, <1>8, <1>9, <2>1, <3>2, <4>1, <4>2
      <4>3. CASE q # r
        BY <1>8, <1>9, <3>2, <4>1, <4>3
      <4> QED BY <4>2, <4>3
    <3>4. ASSUME NEW d, d \in Documents(table) PROVE d \in Documents(table')
      <4>1. PICK q \in Runs : table.status[q] = "Detected"
                              /\ (d = <<q, "text">> \/ \E x \in Ones(table.regions[q]) : d = <<q, x>>)
        BY <3>2, <3>4
      <4>2. Ones(table.regions[q]) \subseteq Ones(table'.regions[q])
        BY <1>6, <1>9
      <4> QED BY <1>8, <3>1, <4>1, <4>2
    <3>5. ASSUME NEW d, d \in D PROVE d \in Documents(table')
      <4>1. table'.status[r] = "Detected" /\ \E x \in Ones(table'.regions[r]) : d = <<r, x>>
        BY <1>3, <1>6, <1>8, <1>9, <2>1, <3>5
      <4> QED BY <3>1, <4>1
    <3> QED BY <3>3, <3>4, <3>5
  <2>5. Text!Migrated' => index' = Documents(table')
    BY <1>1, <2>2, <2>3, <2>4 DEF IndexOk
  <2>6. Documents(table)' = Documents(table')
    BY DEF Documents, Text!TextDocuments, Text!RegionDocuments
  <2> QED BY <1>1, <1>3, <2>3, <2>5, <2>6 DEF IndexOk
<1> QED BY <1>10, <1>11, <1>12

LEMMA MigrateKeeps ==
  ASSUME TextInv, Text!Migrate
  PROVE  TextInv'
<1>1. ~Text!Migrated /\ index' = Documents(table) /\ UNCHANGED <<table, notes, queued, lists, viewer, tasks, search, taps>>
  BY DEF Text!Migrate, Documents
<1>2. TableOk' /\ RowsGrow
  BY <1>1 DEF TextInv, TableOk, RowsGrow
<1>3. search = Text!NoSearch /\ search.hits = {} /\ DOMAIN search = SearchFields
  <2>1. search = Text!NoSearch /\ DOMAIN search = SearchFields
    BY <1>1 DEF TextInv, IndexOk
  <2>2. Text!NoSearch.hits = {}
    BY DEF Text!NoSearch
  <2> QED BY <2>1, <2>2
<1>4. Documents(table)' = Documents(table)
  BY <1>1 DEF Documents, Text!TextDocuments, Text!RegionDocuments
<1>5. IndexOk'
  BY <1>1, <1>3, <1>4 DEF IndexOk
<1> QED BY <1>1, <1>2, <1>5, GrownRows

LEMMA RowsKeep ==
  ASSUME TextInv, NEW r \in Runs
  PROVE  /\ Text!RecordRun(r) => TextInv'
         /\ \A xs \in SUBSET Regions : xs \cap Text!RegionsOf(table) = {} =>
              /\ Text!RecordRegions(r, xs) => TextInv'
              /\ \A j, s : s \in Text!Statuses /\ Text!Finalize(j, r, s, xs) => TextInv'
<1>1. ASSUME Text!RecordRun(r) PROVE TextInv'
  <2>1. PICK s \in Text!Statuses : Text!InsertRun(r, s, {})
    BY <1>1 DEF Text!RecordRun
  <2>2. UNCHANGED <<notes, queued, viewer, tasks, search, taps>>
    BY <1>1 DEF Text!RecordRun
  <2>3. RowsGrow /\ TableOk' /\ IndexOk'
    BY <2>1, <2>2, InsertRunKeeps
  <2> QED BY <2>2, <2>3, GrownRows
<1>2. ASSUME NEW xs \in SUBSET Regions, xs \cap Text!RegionsOf(table) = {}, Text!RecordRegions(r, xs) PROVE TextInv'
  <2>1. UNCHANGED <<notes, queued, viewer, tasks, search, taps>>
    BY <1>2 DEF Text!RecordRegions
  <2> QED BY <1>2, <2>1, RecordRegionsKeeps, GrownRows
<1>3. ASSUME NEW xs \in SUBSET Regions, NEW j, NEW s \in Text!Statuses, Text!Finalize(j, r, s, xs) PROVE TextInv'
  <2>1. UNCHANGED <<notes, viewer, tasks, search, taps>>
    BY <1>3 DEF Text!Finalize
  <2>2. CASE Text!InsertRun(r, s, xs)
    BY <1>3, <2>1, <2>2, InsertRunKeeps, GrownRows
  <2>3. CASE UNCHANGED <<table, index, lists>>
    <3>1. Documents(table)' = Documents(table)
      BY <2>3 DEF Documents, Text!TextDocuments, Text!RegionDocuments
    <3>2. RowsGrow /\ TableOk'
      BY <2>3 DEF TextInv, TableOk, RowsGrow
    <3>3. IndexOk'
      BY <2>1, <2>3, <3>1 DEF TextInv, IndexOk, Text!Migrated
    <3> QED BY <2>1, <3>2, <3>3, GrownRows
  <2> QED BY <1>3, <2>2, <2>3 DEF Text!Finalize
<1> QED BY <1>1, <1>2, <1>3

-----------------------------------------------------------------------------
\* What leaves the rows alone: the viewer and the search screen.
LEMMA SameRows ==
  ASSUME TextInv, UNCHANGED <<table, index, notes, lists>>, search' = search \/ search' = Text!NoSearch,
         ViewerOk(viewer', lists), \A t \in tasks' : TaskIsOk(t, lists, table)
  PROVE  TextInv'
<1>1. TableOk' /\ NotesOk'
  BY DEF TextInv, TableOk, NotesOk
<1>2. Documents(table)' = Documents(table) /\ (Text!Migrated' <=> Text!Migrated)
  BY DEF Documents, Text!TextDocuments, Text!RegionDocuments, Text!Migrated
<1>3. Text!NoSearch.hits = {} /\ DOMAIN Text!NoSearch = SearchFields
  BY DEF Text!NoSearch, SearchFields
<1>4. IndexOk'
  <2>1. IndexOk
    BY DEF TextInv
  <2> QED BY <1>2, <1>3, <2>1 DEF IndexOk
<1> QED BY <1>1, <1>4 DEF TextInv

LEMMA ViewersAre ==
  ASSUME NEW had, NEW v, ViewerOk(v, had)
  PROVE  /\ ViewerOk([v EXCEPT !.scan = TRUE], had)
         /\ ViewerOk(Text!Failed(v), had)
         /\ ViewerOk([Text!Failed(v) EXCEPT !.job = 0], had)
         /\ \A list : ViewerOk([v EXCEPT !.notes = list], had)
         /\ \A id, j : ViewerOk(Text!JobShown(v, id, j), had)
         /\ \A r, list : <<r, list>> \in had => ViewerOk(Text!Text(v, r, list), had)
<1>1. DOMAIN v = ViewerFields
  BY DEF ViewerOk
<1>2. ViewerOk([v EXCEPT !.scan = TRUE], had)
  BY DEF ViewerOk, ViewerFields
<1>3. ViewerOk(Text!Failed(v), had)
  BY DEF ViewerOk, ViewerFields, Text!Failed
<1>4. ViewerOk([Text!Failed(v) EXCEPT !.job = 0], had)
  <2>1. DOMAIN Text!Failed(v) = ViewerFields /\ Text!Failed(v).ocr = "Failed"
    BY <1>1 DEF ViewerFields, Text!Failed
  <2> DEFINE w == Text!Failed(v)
  <2> HIDE DEF w
  <2>2. DOMAIN w = ViewerFields /\ w.ocr = "Failed"
    BY <2>1 DEF w
  <2>3. ViewerOk([w EXCEPT !.job = 0], had)
    BY <2>2 DEF ViewerOk, ViewerFields
  <2> QED BY <2>3 DEF w
<1>5. ASSUME NEW list PROVE ViewerOk([v EXCEPT !.notes = list], had)
  BY DEF ViewerOk, ViewerFields
<1>6. ASSUME NEW id, NEW j PROVE ViewerOk(Text!JobShown(v, id, j), had)
  <2> DEFINE w == Text!JobShown(v, id, j)
  <2>1. DOMAIN w = ViewerFields
    BY <1>1 DEF Text!JobShown
  <2>2. w.ocr = CASE j.status = "queued" -> "Preparing"
                  [] j.status = "running" -> "Recognizing"
                  [] j.status = "recognized" -> "Recording"
                  [] j.status = "unavailable" -> "Unavailable"
                  [] OTHER -> "Cancelled"
    BY <1>1 DEF Text!JobShown, ViewerFields
  <2> HIDE DEF w
  <2>3. w.ocr # "Detected"
    BY <2>2
  <2> QED BY <2>1, <2>3 DEF ViewerOk, w
<1>7. ASSUME NEW r, NEW list, <<r, list>> \in had PROVE ViewerOk(Text!Text(v, r, list), had)
  <2> DEFINE w == Text!Text(v, r, list)
  <2>1. DOMAIN w = ViewerFields
    BY <1>1 DEF Text!Text
  <2>2. w.run = r /\ w.overlay = list
    BY <1>1 DEF Text!Text, ViewerFields
  <2> HIDE DEF w
  <2> QED BY <1>7, <2>1, <2>2 DEF ViewerOk, w
<1> QED BY <1>2, <1>3, <1>4, <1>5, <1>6, <1>7

LEMMA NoTextIs ==
  ASSUME NEW had, NEW v, ViewerOk(v, had), ~Text!HasText, NEW w \in Text!NoText(v)
  PROVE  ViewerOk(w, had)
<1>1. PICK again : w = [v EXCEPT !.ocr = IF Text!LatestRun = NoRun THEN "NotStarted" ELSE table.status[Text!LatestRun],
               !.run = Text!LatestRun, !.overlay = <<>>, !.job = 0, !.cancel = FALSE, !.retry = again]
  BY Zenon DEF Text!NoText
<1>2. DOMAIN w = ViewerFields /\ w.ocr = IF Text!LatestRun = NoRun THEN "NotStarted" ELSE table.status[Text!LatestRun]
  BY <1>1 DEF ViewerOk, ViewerFields
<1>3. w.ocr # "Detected"
  BY <1>2 DEF Text!HasText
<1> QED BY <1>2, <1>3 DEF ViewerOk

LEMMA NewViewersAre ==
  ASSUME NEW had, NEW n
  PROVE  (\A scan : ViewerOk(Text!NewViewer(n, scan), had)) /\ ViewerOk(Text!NoViewer(n), had)
<1>1. \A scan : ViewerOk(Text!NewViewer(n, scan), had) /\ Text!NewViewer(n, scan).ocr = "NotStarted"
  BY DEF ViewerOk, ViewerFields, Text!NewViewer
<1> DEFINE w == Text!NewViewer(n, FALSE)
<1>2. DOMAIN w = ViewerFields /\ w.ocr = "NotStarted"
  BY <1>1 DEF ViewerOk
<1> HIDE DEF w
<1>3. ViewerOk([w EXCEPT !.open = FALSE], had)
  BY <1>2 DEF ViewerOk, ViewerFields
<1> QED BY <1>1, <1>3 DEF Text!NoViewer, w

LEMMA EndsKeep ==
  ASSUME TextInv, NEW t \in tasks, NEW v, ViewerOk(v, lists), Text!Ends(t, v)
  PROVE  ViewerOk(viewer', lists) /\ \A u \in tasks' : TaskIsOk(u, lists, table)
BY DEF Text!Ends, TextInv

LEMMA TaskGoesKeeps ==
  ASSUME TextInv, NEW t \in tasks, NEW u, TaskIsOk(u, lists, table), Text!Goes(t, u)
  PROVE  \A w \in tasks' : TaskIsOk(w, lists, table)
BY DEF Text!Goes, TextInv

LEMMA ThenReviewKeeps ==
  ASSUME TextInv, NEW t \in tasks, NEW v, ViewerOk(v, lists), Text!ThenReview(t, v)
  PROVE  ViewerOk(viewer', lists) /\ \A u \in tasks' : TaskIsOk(u, lists, table)
<1> DEFINE u == [t EXCEPT !.at = "review", !.of = v]
<1>1. viewer' = v /\ Text!Goes(t, u)
  BY DEF Text!ThenReview
<1>2. DOMAIN t = TaskFields
  BY DEF TextInv, TaskIsOk
<1>3. DOMAIN u = TaskFields /\ u.at = "review" /\ u.of = v
  BY <1>2 DEF TaskFields
<1> HIDE DEF u
<1>4. TaskIsOk(u, lists, table)
  BY <1>3 DEF TaskIsOk
<1> QED BY <1>1, <1>4, TaskGoesKeeps

LEMMA TaskIsNew ==
  ASSUME NEW kind, NEW at, at # "pages", ViewerOk(viewer', lists)
  PROVE  TaskIsOk(Text!Task(kind, at), lists, table)
BY DEF Text!Task, TaskIsOk, TaskFields

\* The steps of a coroutine that reads, but for a page of regions.
LEMMA ReadingsKeep ==
  ASSUME TextInv, NEW t \in tasks,
         \/ Text!ReadMetadata(t) \/ Text!FindActive(t) \/ Text!Unresolved(t) \/ Text!ReadRun(t)
         \/ Text!ReadReview(t) \/ Text!CallFails(t)
  PROVE  TextInv'
<1>1. UNCHANGED <<table, index, notes, lists>> /\ search' = search
  BY DEF Text!ReadMetadata, Text!FindActive, Text!Unresolved, Text!ReadRun, Text!ReadReview, Text!CallFails, Text!Read
<1>2. TaskIsOk(t, lists, table) /\ ViewerOk(t.of, lists) /\ ViewerOk(viewer, lists) /\ DOMAIN t = TaskFields
      /\ \A u \in tasks : TaskIsOk(u, lists, table)
  BY DEF TextInv, TaskIsOk
<1>3. SUFFICES ViewerOk(viewer', lists) /\ \A u \in tasks' : TaskIsOk(u, lists, table)
  BY <1>1, SameRows
<1>4. CASE Text!ReadMetadata(t)
  <2>1. CASE viewer' = [t.of EXCEPT !.scan = TRUE] /\ Text!Goes(t, [t EXCEPT !.at = "active", !.of = viewer'])
    <3> DEFINE u == [t EXCEPT !.at = "active", !.of = viewer']
    <3>1. ViewerOk(viewer', lists)
      BY <1>2, <2>1, ViewersAre
    <3>2. DOMAIN u = TaskFields /\ u.at = "active" /\ u.of = viewer' /\ u.offset = t.offset /\ u.seen = t.seen
      BY <1>2 DEF TaskFields
    <3>3. t.at = "metadata"
      BY <1>4 DEF Text!ReadMetadata
    <3>4. t.offset = 0 /\ t.seen = <<>>
      BY <1>2, <3>3 DEF TaskIsOk
    <3> HIDE DEF u
    <3>5. TaskIsOk(u, lists, table)
      BY <3>1, <3>2, <3>4 DEF TaskIsOk
    <3>6. Text!Goes(t, u)
      BY <2>1 DEF u
    <3> QED BY <3>1, <3>5, <3>6, TaskGoesKeeps
  <2>2. CASE tasks' = tasks \ {t} /\ UNCHANGED viewer
    BY <1>2, <2>2
  <2> QED BY <1>4, <2>1, <2>2 DEF Text!ReadMetadata
<1>5. CASE Text!FindActive(t)
  <2>1. CASE Text!Goes(t, [t EXCEPT !.at = "run"]) /\ UNCHANGED viewer
    <3> DEFINE u == [t EXCEPT !.at = "run"]
    <3>1. DOMAIN u = TaskFields /\ u.at = "run" /\ u.of = t.of /\ u.offset = t.offset /\ u.seen = t.seen
      BY <1>2 DEF TaskFields
    <3>2. t.at = "active"
      BY <1>5 DEF Text!FindActive
    <3>3. t.offset = 0 /\ t.seen = <<>>
      BY <1>2, <3>2 DEF TaskIsOk
    <3> HIDE DEF u
    <3>4. TaskIsOk(u, lists, table)
      BY <1>2, <3>1, <3>3 DEF TaskIsOk
    <3>5. Text!Goes(t, u)
      BY <2>1 DEF u
    <3> QED BY <1>2, <2>1, <3>4, <3>5, TaskGoesKeeps
  <2>2. CASE \E j \in Text!Active : Text!ThenReview(t, Text!JobShown(t.of, j, queued[j]))
    BY <1>2, <2>2, ViewersAre, ThenReviewKeeps
  <2> QED BY <1>5, <2>1, <2>2 DEF Text!FindActive
<1>6. CASE Text!Unresolved(t)
  BY <1>2, <1>6, ViewersAre, ThenReviewKeeps DEF Text!Unresolved
<1>7. CASE Text!ReadRun(t)
  <2>1. CASE Text!HasText /\ UNCHANGED viewer
             /\ Text!Goes(t, [t EXCEPT !.at = "pages", !.run = Text!LatestRun, !.total = Len(table.regions[Text!LatestRun])])
    <3> DEFINE r == Text!LatestRun
               u == [t EXCEPT !.at = "pages", !.run = r, !.total = Len(table.regions[r])]
    <3>1. /\ DOMAIN u = TaskFields /\ u.at = "pages" /\ u.of = t.of /\ u.run = r
          /\ u.total = Len(table.regions[r]) /\ u.offset = t.offset /\ u.seen = t.seen
      BY <1>2 DEF TaskFields
    <3>2. t.at = "run"
      BY <1>7 DEF Text!ReadRun
    <3>3. t.offset = 0 /\ t.seen = <<>>
      BY <1>2, <3>2 DEF TaskIsOk
    <3>4. r \in Runs /\ table.status[r] = "Detected"
      <4>1. r # NoRun /\ table.status[r] = "Detected"
        BY <2>1 DEF Text!HasText
      <4>2. table.order # <<>> /\ r = Head(table.order)
        BY <4>1 DEF Text!LatestRun
      <4>3. table.order \in Seq(Runs)
        BY DEF TextInv, TableOk
      <4> QED BY <4>1, <4>2, <4>3
    <3> HIDE DEF u, r
    <3>5. table.regions[r] \in Seq(Regions)
      BY <3>4 DEF TextInv, TableOk
    <3>6. Len(table.regions[r]) \in Nat
      BY <3>5
    <3>7. SubSeq(table.regions[r], 1, 0) = <<>>
      BY SubSeqEmpty
    <3>8. PagesOk(u, table)
      BY <3>1, <3>3, <3>4, <3>6, <3>7 DEF PagesOk
    <3>9. TaskIsOk(u, lists, table)
      BY <1>2, <3>1, <3>8 DEF TaskIsOk
    <3>10. Text!Goes(t, u)
      BY <2>1 DEF u, r
    <3> QED BY <1>2, <2>1, <3>9, <3>10, TaskGoesKeeps
  <2>2. CASE ~Text!HasText /\ \E v \in Text!NoText(t.of) : Text!ThenReview(t, v)
    BY <1>2, <2>2, NoTextIs, ThenReviewKeeps
  <2> QED BY <1>7, <2>1, <2>2 DEF Text!ReadRun
<1>8. CASE Text!ReadReview(t)
  <2>1. Text!Ends(t, [t.of EXCEPT !.notes = Text!Listed])
    BY <1>8 DEF Text!ReadReview
  <2> QED BY <1>2, <2>1, ViewersAre, EndsKeep
<1>9. CASE Text!CallFails(t)
  <2>1. Text!Ends(t, t.of) \/ Text!Ends(t, Text!Failed(t.of))
    BY <1>9 DEF Text!CallFails
  <2> QED BY <1>2, <2>1, ViewersAre, EndsKeep
<1> QED BY <1>4, <1>5, <1>6, <1>7, <1>8, <1>9

\* A page of regions: what is seen is a prefix of the list, and is shown when it is
\* the whole of it.
LEMMA PageKeeps ==
  ASSUME TextInv, NEW t \in tasks, Text!ReadPage(t)
  PROVE  TextInv'
<1> DEFINE page == Text!RegionPageAt(t.offset)
           seen == Text!Seen(t, page)
           fits == t.offset <= page.total /\ Text!Accepts(t, page)
                   /\ (page.complete => Len(seen) = t.total) /\ (page.complete \/ page.items # <<>>)
           r == t.run
           list == table.regions[r]
           o == t.offset
           m == IF o + RegionPage < Len(list) THEN o + RegionPage ELSE Len(list)
<1>1. UNCHANGED <<table, index, notes, lists>> /\ search' = search
  BY DEF Text!ReadPage, Text!Read
<1>2. TaskIsOk(t, lists, table) /\ ViewerOk(t.of, lists) /\ ViewerOk(viewer, lists) /\ DOMAIN t = TaskFields
  BY DEF TextInv, TaskIsOk
<1>3. SUFFICES ViewerOk(viewer', lists) /\ \A u \in tasks' : TaskIsOk(u, lists, table)
  BY <1>1, SameRows
<1>4. /\ t.at = "pages"
      /\ \/ fits /\ page.complete /\ Text!ThenReview(t, Text!Text(t.of, t.run, seen))
         \/ /\ fits /\ ~page.complete
            /\ Text!Goes(t, [t EXCEPT !.offset = @ + Len(page.items), !.seen = seen])
            /\ UNCHANGED viewer
         \/ ~fits /\ Text!ThenReview(t, [Text!Failed(t.of) EXCEPT !.job = 0])
  BY DEF Text!ReadPage
<1>5. /\ r \in Runs /\ table.status[r] = "Detected" /\ t.total \in Nat
      /\ t.total = Len(list) =>
           /\ t.offset \in Nat /\ t.offset <= t.total
           /\ t.seen = SubSeq(list, 1, t.offset)
  BY <1>2, <1>4 DEF TaskIsOk, PagesOk
<1>6. list \in Seq(Regions) /\ OneByOne(list) /\ <<r, list>> \in lists /\ Len(list) \in Nat
  BY <1>5 DEF TextInv, TableOk
<1>7. ASSUME fits
      PROVE  /\ page.total = Len(list) /\ t.total = Len(list)
             /\ o \in Nat /\ o <= Len(list) /\ t.seen = SubSeq(list, 1, o)
             /\ page.items = SubSeq(list, o + 1, m)
             /\ page.complete <=> o + Len(page.items) >= Len(list)
  <2>1. page.run = r /\ page.total = t.total
    BY <1>7 DEF Text!Accepts
  <2>2. Text!LatestRun = r
    BY <2>1 DEF Text!RegionPageAt
  <2>3. page.total = Len(list)
    BY <2>2 DEF Text!RegionPageAt
  <2>4. page.items = SubSeq(list, o + 1, m)
    BY <1>5, <2>2 DEF Text!RegionPageAt
  <2>5. page.complete <=> o + Len(page.items) >= Len(list)
    BY <2>2 DEF Text!RegionPageAt
  <2> HIDE DEF page
  <2> QED BY <1>5, <2>1, <2>3, <2>4, <2>5
<1> HIDE DEF page
<1>8. ASSUME fits
      PROVE  /\ m \in 0 .. Len(list) /\ o \in 0 .. m /\ Len(page.items) = m - o
             /\ seen = SubSeq(list, 1, m) /\ m \in Nat /\ o \in Nat
  <2>1. /\ o \in Nat /\ o <= Len(list) /\ t.seen = SubSeq(list, 1, o)
        /\ page.items = SubSeq(list, o + 1, m) /\ RegionPage \in Nat
    BY <1>7, <1>8, ReadingAssumption
  <2> DEFINE len == Len(list)
  <2>2. len \in Nat /\ m = IF o + RegionPage < len THEN o + RegionPage ELSE len
    BY <1>6
  <2>7. o \in Nat /\ o <= len /\ RegionPage \in Nat
    BY <2>1
  <2> HIDE DEF len, o, m, list
  <2>3. m \in Nat /\ m <= len /\ o <= m
    BY <2>2, <2>7
  <2>4. m \in 0 .. Len(list) /\ o \in 0 .. m
    BY <2>3, <2>7 DEF len
  <2>5. Len(page.items) = m - o
    <3>1. \A i \in o + 1 .. m : list[i] \in Regions
      <4>1. \A i \in o + 1 .. m : i \in 1 .. Len(list)
        BY <2>3, <2>7 DEF len
      <4> QED BY <1>6, <4>1
    <3>2. Len(SubSeq(list, o + 1, m)) = IF o + 1 <= m THEN m - (o + 1) + 1 ELSE 0
      <4>1. o + 1 \in Int /\ m \in Int
        BY <2>3, <2>7
      <4> QED BY <3>1, <4>1, SubSeqProperties
    <3> QED BY <2>1, <2>3, <2>7, <3>2
  <2>6. seen = SubSeq(list, 1, m)
    BY <1>6, <2>1, <2>4, SeenIs
  <2> QED BY <2>1, <2>3, <2>4, <2>5, <2>6
<1>9. CASE fits /\ page.complete /\ Text!ThenReview(t, Text!Text(t.of, t.run, seen))
  <2>1. m = Len(list)
    <3>1. o + Len(page.items) >= Len(list) /\ Len(page.items) = m - o /\ m \in 0 .. Len(list) /\ m \in Nat /\ o \in Nat
      BY <1>7, <1>8, <1>9
    <3> HIDE DEF o, m, list
    <3> QED BY <1>6, <3>1
  <2>2. seen = list
    <3>1. seen = SubSeq(list, 1, Len(list))
      BY <1>8, <1>9, <2>1
    <3> QED BY <1>6, <3>1, SubSeqFull
  <2>3. ViewerOk(Text!Text(t.of, t.run, seen), lists)
    BY <1>2, <1>6, <2>2, ViewersAre
  <2> QED BY <1>9, <2>3, ThenReviewKeeps
<1>10. CASE fits /\ ~page.complete /\ UNCHANGED viewer
            /\ Text!Goes(t, [t EXCEPT !.offset = @ + Len(page.items), !.seen = seen])
  <2> DEFINE u == [t EXCEPT !.offset = @ + Len(page.items), !.seen = seen]
  <2>1. /\ DOMAIN u = TaskFields /\ u.at = t.at /\ u.of = t.of /\ u.run = r /\ u.total = t.total
        /\ u.offset = o + Len(page.items) /\ u.seen = seen
    BY <1>2 DEF TaskFields
  <2>2. Text!Goes(t, u)
    BY <1>10
  <2> HIDE DEF u, seen, o, m, list, r
  <2>3. Len(page.items) = m - o /\ seen = SubSeq(list, 1, m) /\ m \in Nat /\ o \in Nat /\ m \in 0 .. Len(list)
        /\ t.total = Len(list)
    BY <1>7, <1>8, <1>10
  <2>4. u.offset = m /\ m <= t.total
    BY <2>1, <2>3
  <2>5. PagesOk(u, table)
    BY <1>5, <1>6, <2>1, <2>3, <2>4 DEF PagesOk, list
  <2>6. TaskIsOk(u, lists, table)
    BY <1>2, <1>4, <2>1, <2>5 DEF TaskIsOk
  <2> QED BY <1>2, <1>10, <2>2, <2>6, TaskGoesKeeps
<1>11. CASE ~fits /\ Text!ThenReview(t, [Text!Failed(t.of) EXCEPT !.job = 0])
  BY <1>2, <1>11, ViewersAre, ThenReviewKeeps
<1> QED BY <1>4, <1>9, <1>10, <1>11

\* What the user does in the viewer, and the calls that follow.
LEMMA CallsKeep ==
  ASSUME TextInv, NEW t \in tasks, Text!Enqueue(t) \/ Text!Retry(t) \/ Text!Cancel(t)
  PROVE  TextInv'
<1>1. UNCHANGED <<table, index, notes, lists>> /\ search' = search
  BY DEF Text!Enqueue, Text!Retry, Text!Cancel, Text!KeepRows
<1>2. \E id, j : Text!Ends(t, Text!JobShown(t.of, id, j))
  BY DEF Text!Enqueue, Text!Retry, Text!Cancel
<1>3. ViewerOk(t.of, lists)
  BY DEF TextInv, TaskIsOk
<1>4. ViewerOk(viewer', lists) /\ \A u \in tasks' : TaskIsOk(u, lists, table)
  BY <1>2, <1>3, ViewersAre, EndsKeep
<1> QED BY <1>1, <1>4, SameRows

LEMMA CorrectKeeps ==
  ASSUME TextInv, NEW t \in tasks, Text!Correct(t)
  PROVE  TextInv'
<1> DEFINE u == [t EXCEPT !.at = "review"]
<1>1. /\ Text!HasText /\ notes' = Append(notes, Text!LatestRun) /\ Text!Goes(t, u)
      /\ UNCHANGED <<table, index, queued, lists, viewer, search, taps>>
  BY DEF Text!Correct
<1>2. TaskIsOk(t, lists, table) /\ DOMAIN t = TaskFields /\ ViewerOk(t.of, lists)
  BY DEF TextInv, TaskIsOk
<1>3. DOMAIN u = TaskFields /\ u.at = "review" /\ u.of = t.of
  BY <1>2 DEF TaskFields
<1> HIDE DEF u
<1>4. TaskIsOk(u, lists, table)
  BY <1>2, <1>3 DEF TaskIsOk
<1>5. \A w \in tasks' : TaskIsOk(w, lists, table)
  BY <1>1, <1>4, TaskGoesKeeps
<1>6. Text!LatestRun \in Runs /\ table.status[Text!LatestRun] = "Detected"
  <2>1. Text!LatestRun # NoRun /\ table.status[Text!LatestRun] = "Detected"
    BY <1>1 DEF Text!HasText
  <2>2. table.order # <<>> /\ Text!LatestRun = Head(table.order)
    BY <2>1 DEF Text!LatestRun
  <2>3. table.order \in Seq(Runs)
    BY DEF TextInv, TableOk
  <2> QED BY <2>1, <2>2, <2>3
<1>7. NotesOk'
  <2> DEFINE r == Text!LatestRun
  <2>1. notes \in Seq(Runs) /\ \A i \in DOMAIN notes : table.status[notes[i]] = "Detected"
    BY DEF TextInv, NotesOk
  <2>2. r \in Runs /\ table.status[r] = "Detected" /\ notes' = Append(notes, r)
    BY <1>1, <1>6
  <2> HIDE DEF r
  <2>3. notes' \in Seq(Runs) /\ DOMAIN notes' = 1 .. Len(notes) + 1 /\ DOMAIN notes = 1 .. Len(notes)
    BY <2>1, <2>2
  <2>4. \A i \in DOMAIN notes' : notes'[i] = r \/ (i \in DOMAIN notes /\ notes'[i] = notes[i])
    BY <2>1, <2>2, <2>3
  <2> QED BY <1>1, <2>1, <2>2, <2>3, <2>4 DEF NotesOk
<1>8. TableOk'
  BY <1>1 DEF TextInv, TableOk
<1>9. IndexOk'
  <2>1. Documents(table)' = Documents(table) /\ (Text!Migrated' <=> Text!Migrated)
    BY <1>1 DEF Documents, Text!TextDocuments, Text!RegionDocuments, Text!Migrated
  <2> QED BY <1>1, <2>1 DEF TextInv, IndexOk
<1> QED BY <1>1, <1>5, <1>7, <1>8, <1>9 DEF TextInv

LEMMA ViewerActionsKeep ==
  ASSUME TextInv, \/ Text!OpenViewer \/ Text!LeaveViewer \/ Text!TapStart \/ Text!TapRetry \/ Text!TapCancel \/ Text!TapCorrect
                  \/ \E j \in DOMAIN queued : Text!Claim(j)
  PROVE  TextInv'
<1>1. ViewerOk(viewer, lists) /\ \A t \in tasks : TaskIsOk(t, lists, table)
  BY DEF TextInv
<1>2. CASE Text!OpenViewer
  <2>1. UNCHANGED <<table, index, notes, lists>> /\ search' = Text!NoSearch
        /\ (\E scan \in BOOLEAN : viewer' = Text!NewViewer(viewer.view, scan))
        /\ tasks' = tasks \cup {Text!Task("hydrate", "metadata")}
    BY <1>2 DEF Text!OpenViewer
  <2>2. ViewerOk(viewer', lists)
    BY <2>1, NewViewersAre
  <2>3. TaskIsOk(Text!Task("hydrate", "metadata"), lists, table)
    BY <2>2, TaskIsNew
  <2> QED BY <1>1, <2>1, <2>2, <2>3, SameRows
<1>3. CASE Text!LeaveViewer
  <2>1. UNCHANGED <<table, index, notes, lists, search>> /\ viewer' = Text!NoViewer(viewer.view + 1)
        /\ tasks' \subseteq tasks
    BY <1>3 DEF Text!LeaveViewer
  <2>2. ViewerOk(viewer', lists)
    BY <2>1, NewViewersAre
  <2> QED BY <1>1, <2>1, <2>2, SameRows
<1>4. ASSUME NEW kind, NEW enabled, Text!Tap(kind, enabled) PROVE TextInv'
  <2>1. UNCHANGED <<table, index, notes, queued, lists, viewer, search>>
        /\ tasks' = tasks \cup {Text!Task(kind, "call")}
    BY <1>4 DEF Text!Tap
  <2>2. TaskIsOk(Text!Task(kind, "call"), lists, table)
    BY <1>1, <2>1, TaskIsNew
  <2> QED BY <1>1, <2>1, <2>2, SameRows
<1>5. CASE \E j \in DOMAIN queued : Text!Claim(j)
  <2>1. UNCHANGED <<table, index, notes, lists, viewer, tasks, search, taps>>
    BY <1>5 DEF Text!Claim
  <2> QED BY <1>1, <2>1, SameRows
<1> QED BY <1>2, <1>3, <1>4, <1>5 DEF Text!TapStart, Text!TapRetry, Text!TapCancel, Text!TapCorrect

LEMMA SearchKeeps ==
  ASSUME TextInv, Text!OpenSearch \/ Text!TypeQuery \/ Text!SubmitQuery \/ \E q \in search.asked : Text!AnswerQuery(q)
  PROVE  TextInv'
<1>1. UNCHANGED <<table, index, notes, queued, lists, viewer, tasks>>
  BY DEF Text!OpenSearch, Text!TypeQuery, Text!SubmitQuery, Text!AnswerQuery, Text!KeepLibrary
<1>2. Documents(table)' = Documents(table) /\ (Text!Migrated' <=> Text!Migrated)
  BY <1>1 DEF Documents, Text!TextDocuments, Text!RegionDocuments, Text!Migrated
<1>3. IndexOk /\ DOMAIN search = SearchFields /\ search.hits \subseteq index
  BY DEF TextInv, IndexOk
<1>4. Text!NoSearch.hits = {} /\ DOMAIN Text!NoSearch = SearchFields /\ Text!NoSearch.asked = {} /\ ~Text!NoSearch.open
  BY DEF Text!NoSearch, SearchFields
<1>5. ASSUME ~Text!Migrated PROVE FALSE
  <2>1. search.asked = {} /\ ~search.open
    BY <1>3, <1>4, <1>5 DEF IndexOk
  <2> QED BY <1>5, <2>1 DEF Text!OpenSearch, Text!TypeQuery, Text!SubmitQuery
<1>6. DOMAIN search' = SearchFields /\ search'.hits \subseteq index
  <2>1. CASE Text!OpenSearch
    <3> DEFINE w == Text!NoSearch
    <3>1. DOMAIN w = SearchFields /\ w.hits = {}
      BY <1>4
    <3> HIDE DEF w
    <3>2. search' = [w EXCEPT !.open = TRUE]
      BY <2>1 DEF Text!OpenSearch, w
    <3> QED BY <3>1, <3>2 DEF SearchFields
  <2>2. CASE Text!TypeQuery
    BY <1>3, <2>2 DEF Text!TypeQuery, SearchFields
  <2>3. CASE Text!SubmitQuery
    BY <1>3, <2>3 DEF Text!SubmitQuery, SearchFields
  <2>4. ASSUME NEW q \in search.asked, Text!AnswerQuery(q)
        PROVE  DOMAIN search' = SearchFields /\ search'.hits \subseteq index
    <3>1. PICK hits \in SUBSET index : search' = [search EXCEPT !.query = q, !.hits = hits, !.asked = @ \ {q}]
      BY <2>4 DEF Text!AnswerQuery
    <3> QED BY <1>3, <3>1 DEF SearchFields
  <2> QED BY <2>1, <2>2, <2>3, <2>4
<1>7. IndexOk'
  BY <1>1, <1>2, <1>3, <1>5, <1>6 DEF IndexOk
<1>8. TableOk' /\ NotesOk'
  BY <1>1 DEF TextInv, TableOk, NotesOk
<1> QED BY <1>1, <1>7, <1>8 DEF TextInv

\* The table a library starts with: no run, or one that came without regions or with one.
LEMMA FirstRowsAre ==
  ASSUME NEW r \in Runs, NEW s \in Text!Statuses, NEW list \in Seq(Regions), OneByOne(list),
         table \in Text!Inserted(Text!NoRuns, r, s, list),
         lists = {<<q, table.regions[q]>> : q \in Text!Taken(table)}
  PROVE  TableOk /\ table.status = [q \in Runs |-> IF q = r THEN s ELSE "none"]
<1> DEFINE none == Text!NoRuns
<1>1. /\ none.order = <<>> /\ none.status = [q \in Runs |-> "none"]
      /\ none.regions = [q \in Runs |-> <<>>]
  BY DEF Text!NoRuns
<1>2. <<>> \in Seq(Runs) /\ <<>> \in Seq(Regions) /\ OneByOne(<<>>)
  BY DEF OneByOne
<1> HIDE DEF none
<1>3. table \in Text!Inserted(none, r, s, list)
  BY DEF none
<1>4. /\ DOMAIN table = {"order", "status", "regions"} /\ table.order \in Seq(Runs)
      /\ table.status = [none.status EXCEPT ![r] = s]
      /\ table.regions = [none.regions EXCEPT ![r] = list]
  <2>1. none.order \in Seq(Runs)
    BY <1>1, <1>2
  <2> QED BY ONLY <1>3, <2>1, r \in Runs, InsertedIs
<1>5. /\ table.status = [q \in Runs |-> IF q = r THEN s ELSE "none"]
      /\ table.status \in [Runs -> Text!Statuses \cup {"none"}] /\ table.regions \in [Runs -> Seq(Regions)]
  <2>1. table.status = [q \in Runs |-> IF q = r THEN s ELSE "none"]
        /\ table.regions = [q \in Runs |-> IF q = r THEN list ELSE <<>>]
    BY <1>1, <1>4
  <2>2. <<>> \in Seq(Regions) /\ list \in Seq(Regions)
    BY <1>2
  <2>3. table.status \in [Runs -> Text!Statuses \cup {"none"}]
    BY <2>1
  <2>4. table.regions \in [Runs -> Seq(Regions)]
    BY ONLY <2>1, <2>2
  <2> QED BY <2>1, <2>3, <2>4
<1>6. \A q \in Runs : table.regions[q] = list \/ table.regions[q] = <<>>
  BY <1>1, <1>4
<1>7. ASSUME NEW q \in Runs, table.status[q] = "Detected" PROVE <<q, table.regions[q]>> \in lists
  <2>1. q \in Text!Taken(table)
    BY <1>7 DEF Text!Taken
  <2> QED BY <2>1
<1> QED BY <1>2, <1>4, <1>5, <1>6, <1>7 DEF TableOk

LEMMA TextInitial ==
  ASSUME Text!ReadingInit
  PROVE  TextInv
<1>1. /\ lists = {<<q, table.regions[q]>> : q \in Text!Taken(table)}
      /\ notes = <<>> /\ tasks = {} /\ viewer = Text!NoViewer(1) /\ search = Text!NoSearch
  BY DEF Text!ReadingInit
<1>2. <<>> \in Seq(Regions) /\ OneByOne(<<>>) /\ \A x \in Regions : <<x>> \in Seq(Regions) /\ OneByOne(<<x>>)
  BY DEF OneByOne
<1>3. \/ table \in Text!Older /\ index = {<<"unmigrated", NoRun>>}
      \/ index = {} /\ \E r \in Runs : table \in Text!Inserted(Text!NoRuns, r, "Unavailable", <<>>)
  BY DEF Text!ReadingInit
<1>4. ViewerOk(viewer, lists)
  BY <1>1, NewViewersAre
<1>5. NotesOk
  BY <1>1 DEF NotesOk
<1>6. Text!NoSearch.hits = {} /\ DOMAIN Text!NoSearch = SearchFields
  BY DEF Text!NoSearch, SearchFields
<1>7. CASE table \in Text!Older /\ index = {<<"unmigrated", NoRun>>}
  <2>1. TableOk
    <3>1. CASE table = Text!NoRuns
      <4>1. /\ DOMAIN table = {"order", "status", "regions"} /\ table.order = <<>>
            /\ table.status = [q \in Runs |-> "none"] /\ table.regions = [q \in Runs |-> <<>>]
        BY <3>1 DEF Text!NoRuns
      <4>2. <<>> \in Seq(Runs)
        OBVIOUS
      <4> QED BY <1>2, <4>1, <4>2 DEF TableOk
    <3>2. CASE table # Text!NoRuns
      <4>1. PICK r \in Runs, list \in {<<>>} \cup {<<x>> : x \in Regions} :
              table \in Text!Inserted(Text!NoRuns, r, "Detected", list)
        <5> DEFINE sets == {Text!Inserted(Text!NoRuns, q, "Detected", l) : q \in Runs, l \in {<<>>} \cup {<<x>> : x \in Regions}}
        <5>1. table \in UNION sets
          BY <1>7, <3>2 DEF Text!Older
        <5>2. PICK rows \in sets : table \in rows
          BY ONLY <5>1
        <5>3. \E q \in Runs, l \in {<<>>} \cup {<<x>> : x \in Regions} : rows = Text!Inserted(Text!NoRuns, q, "Detected", l)
          BY ONLY <5>2
        <5> QED BY <5>2, <5>3
      <4>2. list \in Seq(Regions) /\ OneByOne(list)
        BY <1>2, <4>1
      <4>3. "Detected" \in Text!Statuses
        BY DEF Text!Statuses
      <4> QED BY <1>1, <4>1, <4>2, <4>3, FirstRowsAre
    <3> QED BY <3>1, <3>2
  <2>2. ~Text!Migrated
    BY <1>7 DEF Text!Migrated
  <2>3. IndexOk
    BY <1>1, <1>6, <2>2 DEF IndexOk
  <2> QED BY <1>1, <1>4, <1>5, <2>1, <2>3 DEF TextInv
<1>8. CASE index = {} /\ \E r \in Runs : table \in Text!Inserted(Text!NoRuns, r, "Unavailable", <<>>)
  <2>1. PICK r \in Runs : table \in Text!Inserted(Text!NoRuns, r, "Unavailable", <<>>)
    BY <1>8
  <2>2. TableOk /\ table.status = [q \in Runs |-> IF q = r THEN "Unavailable" ELSE "none"]
    <3>1. "Unavailable" \in Text!Statuses
      BY DEF Text!Statuses
    <3> QED BY <1>1, <1>2, <2>1, <3>1, FirstRowsAre
  <2>3. \A q \in Runs : table.status[q] # "Detected"
    BY <2>2
  <2>4. Documents(table) = {}
    BY <2>3, DocumentsAre
  <2>5. Text!Migrated
    BY <1>8 DEF Text!Migrated
  <2>6. IndexOk
    BY <1>1, <1>6, <1>8, <2>4, <2>5 DEF IndexOk
  <2> QED BY <1>1, <1>4, <1>5, <2>2, <2>6 DEF TextInv
<1> QED BY <1>3, <1>7, <1>8

LEMMA TextKept ==
  ASSUME TextInv, [Text!ReadingNext]_textVars
  PROVE  TextInv'
<1>1. CASE UNCHANGED textVars
  <2>1. UNCHANGED <<table, index, notes, lists, viewer, tasks, search>>
    BY <1>1 DEF textVars
  <2>2. ViewerOk(viewer', lists) /\ \A t \in tasks' : TaskIsOk(t, lists, table)
    BY <2>1 DEF TextInv
  <2> QED BY <2>1, <2>2, SameRows
<1>2. CASE Text!Migrate
  BY <1>2, MigrateKeeps
<1>3. CASE \E r \in Runs : Text!RecordRun(r)
  BY <1>3, RowsKeep
<1>4. ASSUME NEW r \in Runs, NEW xs \in SUBSET Regions, xs \cap Text!RegionsOf(table) = {},
             \/ Text!RecordRegions(r, xs)
             \/ \E j \in DOMAIN queued, s \in Text!Statuses : Text!Finalize(j, r, s, xs)
      PROVE  TextInv'
  BY <1>4, RowsKeep
<1>5. CASE \/ Text!OpenViewer \/ Text!LeaveViewer \/ Text!TapStart \/ Text!TapRetry \/ Text!TapCancel \/ Text!TapCorrect
           \/ \E j \in DOMAIN queued : Text!Claim(j)
  BY <1>5, ViewerActionsKeep
<1>6. ASSUME NEW t \in tasks,
             \/ Text!ReadMetadata(t) \/ Text!FindActive(t) \/ Text!Unresolved(t) \/ Text!ReadRun(t)
             \/ Text!ReadPage(t) \/ Text!ReadReview(t) \/ Text!CallFails(t)
             \/ Text!Enqueue(t) \/ Text!Retry(t) \/ Text!Cancel(t) \/ Text!Correct(t)
      PROVE  TextInv'
  BY <1>6, ReadingsKeep, PageKeeps, CallsKeep, CorrectKeeps
<1>7. CASE Text!OpenSearch \/ Text!TypeQuery \/ Text!SubmitQuery \/ \E q \in search.asked : Text!AnswerQuery(q)
  BY <1>7, SearchKeeps
<1> QED BY <1>1, <1>2, <1>3, <1>4, <1>5, <1>6, <1>7 DEF Text!ReadingNext

(* The recognized text of MCScreens, for any runs, any finitely many regions  *)
(* and any number of coroutines, views and taps: the regions over a page that *)
(* shows text are the whole list its run once had, the search index holds the *)
(* Detected runs and their regions and nothing else, what is found is in it,  *)
(* and a correction replaces text that was detected.                          *)
THEOREM TextsAreWhole == MCSpec => []TextIsWhole
<1>1. MCInit => TextInv
  BY TextInitial DEF MCInit
<1>2. TextInv /\ [MCNext]_allVars => TextInv'
  <2>1. [MCNext]_allVars => [Text!ReadingNext]_textVars
    BY DEF MCNext, allVars
  <2> QED BY <2>1, TextKept
<1>3. TextInv => TextIsWhole
  BY DEF TextInv, IndexOk, NotesOk, ViewerOk, Documents, TextIsWhole, Text!TextIsWhole
<1> QED BY <1>1, <1>2, <1>3, PTL DEF MCSpec, allVars
=============================================================================
