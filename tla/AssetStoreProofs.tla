--------------------------- MODULE AssetStoreProofs ---------------------------
(* Theorems about the asset files, for any number of assets of a scan and of  *)
(* mishaps: what a row names is a complete file, what an interrupted          *)
(* registration leaves stays visible, and the integrity check reports it.     *)
EXTENDS IntegrityCheck, TLAPS

Working == Before \cup Finalized
Places  == Working \cup {"idle", "rows", "complete", "unstage", "done", "failed", "dead"}
Stages  == {"none", "before_finalization", "finalized_unregistered", "database_registration_rolled_back"}

EntryType  == [now : BOOLEAN, disk : BOOLEAN]
FileType   == [content : {"none", "partial", "full"}, synced : BOOLEAN, readonly : BOOLEAN]
WriterType == [at : Places, asset : Assets]

AssetTypeOK ==
    /\ writer \in [Writers -> WriterType]
    /\ data \in [Assets -> FileType]
    /\ tmp \in [Assets -> EntryType] /\ final \in [Assets -> EntryType]
    /\ row \in [Assets -> EntryType]
    /\ staging \in EntryType
    /\ journal \in BOOLEAN /\ powered \in BOOLEAN
    /\ mutex \in {"free", "scan", "check"}
    /\ report \in [Writers -> Stages]

-----------------------------------------------------------------------------
(* The invariant: of each asset, of each writer, and of the picture.          *)

\* A file that a loss of power leaves as it is.
Secure(a) ==
    /\ final[a].now /\ final[a].disk
    /\ data[a].content = "full" /\ data[a].synced
    /\ a = OriginalAsset => data[a].readonly

NoFinal(a) == ~final[a].now /\ ~final[a].disk
NoRow(a)   == ~row[a].now /\ ~row[a].disk

\* How far the asset at hand has come.
StageInv(w) ==
    LET at == writer[w].at
        a  == writer[w].asset IN
    /\ at \in Before => NoFinal(a)
    /\ at \in {"protect", "sync", "verify", "finalize"} \cup Finalized => data[a].content = "full"
    /\ at \in {"sync", "verify", "finalize"} \cup Finalized => (a = OriginalAsset => data[a].readonly)
    /\ at \in {"verify", "finalize"} \cup Finalized => data[a].synced
    /\ at \in Finalized => final[a].now
    /\ at \in {"unlink", "syncTmp"} => final[a].disk

\* The assets before it are secure, those after it have not begun.
OrderInv(w) ==
    LET a == writer[w].asset IN
    writer[w].at \in Working =>
        /\ a \in OwnAssets(w)
        /\ \A b \in OwnAssets(w) : (b < a => Secure(b)) /\ (b > a => NoFinal(b))

OwnInv(w) ==
    LET at == writer[w].at IN
    /\ at = "idle" => \A b \in OwnAssets(w) : NoFinal(b)
    /\ at \in {"rows", "complete", "unstage", "done"} => \A b \in OwnAssets(w) : Secure(b)
    /\ at \in {"idle", "rows"} \cup Working => \A b \in OwnAssets(w) : NoRow(b)
    /\ at = "rows" => writer[w].asset \in OwnAssets(w)

ReportInv(w) ==
    LET a == writer[w].asset IN
    /\ report[w] # "none" =>
         writer[w].at = "failed" /\ a \in OwnAssets(w) /\ \A b \in OwnAssets(w) : NoRow(b)
    /\ report[w] = "before_finalization" => NoFinal(a)
    /\ report[w] = "database_registration_rolled_back" => \A b \in OwnAssets(w) : Secure(b)

WriterInv(w) == StageInv(w) /\ OrderInv(w) /\ OwnInv(w) /\ ReportInv(w)

\* What a row names is secure, and a row on the disk is in the table.
RowInv ==
    \A a \in Assets : /\ row[a].now => Secure(a)
                      /\ row[a].disk => row[a].now

\* The picture and the journal of the scan.
PictureInv ==
    LET at == writer["scan"].at IN
    /\ staging.now => staging.disk
    /\ ~staging.now => Secure(OriginalAsset)
    /\ at \in Working \cup {"rows"} => mutex = "scan" /\ journal /\ staging.now
    /\ at \in {"complete", "unstage"} => \A b \in 1..ScanAssets : row[b].now
    /\ powered => \/ \A b \in 1..ScanAssets : NoFinal(b)
                  \/ journal /\ staging.now
                  \/ \A b \in 1..ScanAssets : row[b].now

AssetInv ==
    /\ AssetTypeOK
    /\ \A w \in Writers : WriterInv(w)
    /\ RowInv
    /\ PictureInv

-----------------------------------------------------------------------------
(* Entries, and the assets of the two operations.                             *)

LEMMA EntryChanges ==
  ASSUME NEW e \in EntryType
  PROVE  /\ Created(e) \in EntryType /\ Created(e).now = TRUE /\ Created(e).disk = e.disk
         /\ Removed(e) \in EntryType /\ Removed(e).now = FALSE /\ Removed(e).disk = e.disk
         /\ Synced(e) \in EntryType /\ Synced(e).now = e.now /\ Synced(e).disk = e.now
<1>1. Created(e) \in EntryType /\ Created(e).now = TRUE /\ Created(e).disk = e.disk
  BY Zenon DEF Created, EntryType
<1>2. Removed(e) \in EntryType /\ Removed(e).now = FALSE /\ Removed(e).disk = e.disk
  BY Zenon DEF Removed, EntryType
<1>3. Synced(e) \in EntryType /\ Synced(e).now = e.now /\ Synced(e).disk = e.now
  BY Zenon DEF Synced, EntryType
<1> QED BY <1>1, <1>2, <1>3

\* After a loss of power an entry is what the process saw or what was synced.
LEMMA PowerlessEntry ==
  ASSUME NEW e \in EntryType, NEW lost \in BOOLEAN
  PROVE  /\ After(e, lost) \in EntryType
         /\ After(e, lost).now = After(e, lost).disk
         /\ After(e, lost).now = IF lost THEN e.disk ELSE e.now
<1>1. CASE lost = TRUE
  <2>1. After(e, lost) = [e EXCEPT !.now = e.disk]
    BY <1>1 DEF After
  <2>2. e.disk \in BOOLEAN
    BY DEF EntryType
  <2>3. [e EXCEPT !.now = e.disk] \in EntryType /\ [e EXCEPT !.now = e.disk].now = e.disk
        /\ [e EXCEPT !.now = e.disk].disk = e.disk
    BY <2>2, Zenon DEF EntryType
  <2> QED BY <1>1, <2>1, <2>3
<1>2. CASE lost = FALSE
  BY <1>2, EntryChanges, ZenonT(40) DEF After
<1> QED BY <1>1, <1>2

LEMMA OwnedAssets ==
  /\ Writers = {"scan", "set"} /\ OwnAssets("scan") = 1..ScanAssets /\ OwnAssets("set") = {0}
  /\ OriginalAsset \in OwnAssets("scan") /\ OriginalAsset \in Assets /\ 0 \in Assets
  /\ \A w \in Writers :
       /\ OwnAssets(w) \subseteq Assets /\ OwnAssets(w) \subseteq Nat
       /\ LastAsset(w) \in OwnAssets(w)
       /\ \A b \in OwnAssets(w) : b <= LastAsset(w) /\ (b # LastAsset(w) => b + 1 \in OwnAssets(w))
       /\ \A v \in Writers \ {w} : OwnAssets(v) \cap OwnAssets(w) = {}
  /\ Assets = OwnAssets("scan") \cup OwnAssets("set") /\ Assets \subseteq Nat
BY AssetsAssumption DEF Writers, OwnAssets, OriginalAsset, Assets, LastAsset

LEMMA WriterMoves ==
  ASSUME AssetTypeOK, NEW w \in Writers, NEW p \in Places, WriterTo(w, p)
  PROVE  /\ writer' \in [Writers -> WriterType]
         /\ writer'[w].at = p /\ writer'[w].asset = writer[w].asset
         /\ \A v \in Writers \ {w} : writer'[v] = writer[v]
BY DEF AssetTypeOK, WriterTo, WriterType

LEMMA WriterCommits ==
  ASSUME AssetTypeOK, NEW w \in Writers, NEW a \in Assets, Commits(w, a)
  PROVE  /\ writer' \in [Writers -> WriterType]
         /\ writer'[w].at = "create" /\ writer'[w].asset = a
         /\ \A v \in Writers \ {w} : writer'[v] = writer[v]
BY DEF AssetTypeOK, Commits, WriterType, Places, Working, Before

LEMMA WriterFails ==
  ASSUME AssetTypeOK, NEW w \in Writers, NEW s \in Stages, GivesUp(w, s)
  PROVE  /\ writer' \in [Writers -> WriterType] /\ report' \in [Writers -> Stages]
         /\ writer'[w].at = "failed" /\ writer'[w].asset = writer[w].asset /\ report'[w] = s
         /\ \A v \in Writers \ {w} : writer'[v] = writer[v] /\ report'[v] = report[v]
         /\ mutex' \in {"free", "scan", "check"} /\ (mutex' # mutex => mutex' = "free" /\ w = "scan")
<1>1. WriterTo(w, "failed") /\ "failed" \in Places
  BY DEF GivesUp, Places
<1>2. /\ writer' \in [Writers -> WriterType]
      /\ writer'[w].at = "failed" /\ writer'[w].asset = writer[w].asset
      /\ \A v \in Writers \ {w} : writer'[v] = writer[v]
  BY <1>1, WriterMoves
<1>3. /\ report' \in [Writers -> Stages] /\ report'[w] = s
      /\ \A v \in Writers \ {w} : report'[v] = report[v]
  BY DEF AssetTypeOK, GivesUp
<1>4. mutex' \in {"free", "scan", "check"} /\ (mutex' # mutex => mutex' = "free" /\ w = "scan")
  BY DEF AssetTypeOK, GivesUp, Unlocked, Writers
<1> QED BY <1>2, <1>3, <1>4

-----------------------------------------------------------------------------
(* What does not touch a writer or its assets keeps its invariant.            *)

LEMMA UntouchedWriter ==
  ASSUME NEW w \in Writers, WriterInv(w),
         writer'[w] = writer[w], report'[w] = report[w],
         \A b \in OwnAssets(w) :
           /\ data'[b] = data[b] /\ final'[b] = final[b]
           /\ NoRow(b) => NoRow(b)'
  PROVE  WriterInv(w)'
<1> DEFINE a == writer[w].asset
<1>1. \A b \in OwnAssets(w) : (Secure(b) => Secure(b)') /\ (NoFinal(b) => NoFinal(b)')
  BY DEF Secure, NoFinal
<1>2. writer[w].at \in Working => a \in OwnAssets(w)
  BY DEF WriterInv, OrderInv
<1>3. StageInv(w)'
  <2>1. CASE writer[w].at \in Working
    BY <1>1, <1>2, <2>1 DEF WriterInv, StageInv
  <2>2. CASE writer[w].at \notin Working
    BY <2>2 DEF StageInv, Working, Before, Finalized
  <2> QED BY <2>1, <2>2
<1>4. OrderInv(w)'
  BY <1>1 DEF WriterInv, OrderInv
<1>5. OwnInv(w)'
  BY <1>1 DEF WriterInv, OwnInv
<1>6. ReportInv(w)'
  BY <1>1 DEF WriterInv, ReportInv
<1> QED BY <1>3, <1>4, <1>5, <1>6 DEF WriterInv

\* The other operation works on assets of its own.
LEMMA OtherWriter ==
  ASSUME NEW w \in Writers, NEW v \in Writers \ {w}, WriterInv(v),
         writer'[v] = writer[v], report'[v] = report[v],
         \A b \in Assets \ OwnAssets(w) :
           data'[b] = data[b] /\ final'[b] = final[b] /\ (NoRow(b) => NoRow(b)')
  PROVE  WriterInv(v)'
<1>1. \A b \in OwnAssets(v) : b \in Assets \ OwnAssets(w)
  BY OwnedAssets
<1> QED BY <1>1, UntouchedWriter

\* A file that has its row does not belong to an asset at work.
LEMMA RowsUntouched ==
  ASSUME AssetTypeOK, RowInv, NEW a \in Assets, NoRow(a), row' = row,
         \A b \in Assets \ {a} : data'[b] = data[b] /\ final'[b] = final[b]
  PROVE  RowInv'
<1>1. \A b \in Assets : row[b].now => b # a
  BY DEF NoRow
<1> QED BY <1>1 DEF RowInv, Secure

-----------------------------------------------------------------------------
(* One call of a commit: the asset at hand moves to its next stage.           *)

CommitFrame(w, a) ==
    /\ data' \in [Assets -> FileType] /\ tmp' \in [Assets -> EntryType] /\ final' \in [Assets -> EntryType]
    /\ \A b \in Assets \ {a} :
         data'[b] = data[b] /\ final'[b] = final[b] /\ tmp'[b].now = tmp[b].now
    /\ writer' \in [Writers -> WriterType]
    /\ writer'[w].at \in Working \cup {"rows"}
    /\ \A v \in Writers \ {w} : writer'[v] = writer[v]

\* A call that goes on with the same asset.
LEMMA SameAsset ==
  ASSUME AssetTypeOK, NEW w \in Writers, WriterInv(w), report[w] = "none", report' = report, row' = row,
         writer[w].at \in Working,
         writer'[w].at \in Working, writer'[w].asset = writer[w].asset,
         \A b \in Assets \ {writer[w].asset} : data'[b] = data[b] /\ final'[b] = final[b],
         StageInv(w)'
  PROVE  WriterInv(w)'
<1> DEFINE a == writer[w].asset
<1>1. /\ a \in OwnAssets(w)
      /\ \A b \in OwnAssets(w) : (b < a => Secure(b)) /\ (b > a => NoFinal(b))
      /\ \A b \in OwnAssets(w) : NoRow(b)
  BY DEF WriterInv, OrderInv, OwnInv
<1>2. \A b \in OwnAssets(w) : b \in Assets /\ b \in Nat
  BY OwnedAssets
<1>3. \A b \in OwnAssets(w) \ {a} : (Secure(b) => Secure(b)') /\ (NoFinal(b) => NoFinal(b)')
  BY <1>2 DEF Secure, NoFinal
<1>4. OrderInv(w)'
  BY <1>1, <1>2, <1>3 DEF OrderInv
<1>5. OwnInv(w)'
  BY <1>1 DEF OwnInv, Working, Before, Finalized, NoRow
<1>6. ReportInv(w)'
  BY DEF ReportInv
<1> QED BY <1>4, <1>5, <1>6 DEF WriterInv

LEMMA CommitStep ==
  ASSUME AssetTypeOK, NEW w \in Writers, WriterInv(w), CommitAsset(w)
  PROVE  LET a == writer[w].asset IN
         /\ writer[w].at \in Working /\ a \in OwnAssets(w)
         /\ CommitFrame(w, a) /\ WriterInv(w)'
<1> DEFINE a == writer[w].asset
<1>1. /\ writer[w].at \in Working
      /\ UNCHANGED <<platform, row, staging, journal, mutex, report, orphans, powered, mishaps>>
  BY DEF CommitAsset, CreateTemp, WriteTemp, ProtectOriginal, SyncFile, VerifyTemp,
     FinalizeNoReplace, CheckFinal, SyncFinalDirectory, UnlinkTemp, SyncTempDirectory,
     Working, Before, Finalized
<1>2. /\ a \in OwnAssets(w) /\ a \in Assets /\ report[w] = "none"
      /\ data[a] \in FileType /\ tmp[a] \in EntryType /\ final[a] \in EntryType
      /\ \A b \in OwnAssets(w) : NoRow(b)
  BY <1>1, OwnedAssets DEF AssetTypeOK, WriterInv, OrderInv, OwnInv, ReportInv, Working, Before, Finalized
<1>3. StageInv(w)
  BY DEF WriterInv
<1>4. CASE CreateTemp(w, a)
  <2>1. WriterTo(w, "write") /\ "write" \in Places /\ writer[w].at = "create" /\ UNCHANGED final
    BY <1>4 DEF CreateTemp, Places, Working, Before
  <2>2. /\ writer' \in [Writers -> WriterType]
        /\ writer'[w].at = "write" /\ writer'[w].asset = a
        /\ \A v \in Writers \ {w} : writer'[v] = writer[v]
    BY <2>1, WriterMoves
  <2>3. /\ data' \in [Assets -> FileType] /\ \A b \in Assets \ {a} : data'[b] = data[b]
    BY <1>2, <1>4 DEF CreateTemp, AssetTypeOK, FileType
  <2>4. tmp' \in [Assets -> EntryType] /\ \A b \in Assets \ {a} : tmp'[b] = tmp[b]
    <3>1. Created(tmp[a]) \in EntryType
      BY <1>2, EntryChanges
    <3> QED BY <1>4, <3>1 DEF CreateTemp, AssetTypeOK
  <2>5. StageInv(w)'
    BY <1>3, <2>1, <2>2 DEF StageInv, NoFinal, Before, Finalized
  <2>6. WriterInv(w)'
    BY <1>1, <1>2, <2>1, <2>2, <2>3, <2>5, SameAsset DEF Working, Before
  <2> QED BY <1>1, <1>2, <2>1, <2>2, <2>3, <2>4, <2>6 DEF CommitFrame, AssetTypeOK, Working, Before
<1>5. CASE WriteTemp(w, a)
  <2>1. WriterTo(w, "protect") /\ "protect" \in Places /\ writer[w].at = "write" /\ UNCHANGED <<tmp, final>>
    BY <1>5 DEF WriteTemp, Places, Working, Before
  <2>2. /\ writer' \in [Writers -> WriterType]
        /\ writer'[w].at = "protect" /\ writer'[w].asset = a
        /\ \A v \in Writers \ {w} : writer'[v] = writer[v]
    BY <2>1, WriterMoves
  <2>3. /\ data' \in [Assets -> FileType] /\ \A b \in Assets \ {a} : data'[b] = data[b]
        /\ data'[a].content = "full"
    BY <1>2, <1>5 DEF WriteTemp, AssetTypeOK, FileType
  <2>5. StageInv(w)'
    BY <1>3, <2>1, <2>2, <2>3 DEF StageInv, NoFinal, Before, Finalized
  <2>6. WriterInv(w)'
    BY <1>1, <1>2, <2>1, <2>2, <2>3, <2>5, SameAsset DEF Working, Before
  <2> QED BY <1>1, <1>2, <2>1, <2>2, <2>3, <2>6 DEF CommitFrame, AssetTypeOK, Working, Before
<1>6. CASE ProtectOriginal(w, a)
  <2>1. WriterTo(w, "sync") /\ "sync" \in Places /\ writer[w].at = "protect" /\ UNCHANGED <<tmp, final>>
    BY <1>6 DEF ProtectOriginal, Places, Working, Before, Finalized
  <2>2. /\ writer' \in [Writers -> WriterType]
        /\ writer'[w].at = "sync" /\ writer'[w].asset = a
        /\ \A v \in Writers \ {w} : writer'[v] = writer[v]
    BY <2>1, WriterMoves
  <2>3. /\ data' \in [Assets -> FileType] /\ \A b \in Assets \ {a} : data'[b] = data[b]
        /\ data'[a].content = data[a].content /\ (a = OriginalAsset => data'[a].readonly)
    <3>1. (a = OriginalAsset) \in BOOLEAN
      OBVIOUS
    <3>2. /\ [data[a] EXCEPT !.readonly = (a = OriginalAsset)] \in FileType
          /\ [data[a] EXCEPT !.readonly = (a = OriginalAsset)].readonly = (a = OriginalAsset)
          /\ [data[a] EXCEPT !.readonly = (a = OriginalAsset)].content = data[a].content
      BY <1>2, <3>1, Zenon DEF FileType
    <3>3. data' = [data EXCEPT ![a] = [data[a] EXCEPT !.readonly = (a = OriginalAsset)]]
      BY <1>6, Zenon DEF ProtectOriginal
    <3> HIDE DEF a
    <3>4. data'[a] = [data[a] EXCEPT !.readonly = (a = OriginalAsset)]
      BY <1>2, <3>3 DEF AssetTypeOK
    <3> QED BY <1>2, <3>2, <3>3, <3>4 DEF AssetTypeOK
  <2>5. StageInv(w)'
    BY <1>2, <1>3, <1>6, <2>1, <2>2, <2>3 DEF ProtectOriginal, StageInv, NoFinal, Before, Finalized
  <2>6. WriterInv(w)'
    BY <1>1, <1>2, <2>1, <2>2, <2>3, <2>5, SameAsset DEF Working, Before, Finalized
  <2> QED BY <1>1, <1>2, <2>1, <2>2, <2>3, <2>6 DEF CommitFrame, AssetTypeOK, Working, Before, Finalized
<1>7. CASE SyncFile(w, a)
  <2>1. WriterTo(w, "verify") /\ "verify" \in Places /\ writer[w].at = "sync" /\ UNCHANGED <<tmp, final>>
    BY <1>7 DEF SyncFile, Places, Working, Before, Finalized
  <2>2. /\ writer' \in [Writers -> WriterType]
        /\ writer'[w].at = "verify" /\ writer'[w].asset = a
        /\ \A v \in Writers \ {w} : writer'[v] = writer[v]
    BY <2>1, WriterMoves
  <2>3. /\ data' \in [Assets -> FileType] /\ \A b \in Assets \ {a} : data'[b] = data[b]
        /\ data'[a].content = data[a].content /\ data'[a].readonly = data[a].readonly /\ data'[a].synced
    BY <1>2, <1>7 DEF SyncFile, AssetTypeOK, FileType
  <2>5. StageInv(w)'
    BY <1>2, <1>3, <1>7, <2>1, <2>2, <2>3 DEF SyncFile, StageInv, NoFinal, Before, Finalized
  <2>6. WriterInv(w)'
    BY <1>1, <1>2, <2>1, <2>2, <2>3, <2>5, SameAsset DEF Working, Before, Finalized
  <2> QED BY <1>1, <1>2, <2>1, <2>2, <2>3, <2>6 DEF CommitFrame, AssetTypeOK, Working, Before, Finalized
<1>8. CASE VerifyTemp(w, a)
  <2>1. WriterTo(w, "finalize") /\ "finalize" \in Places /\ writer[w].at = "verify" /\ UNCHANGED <<data, tmp, final>>
    BY <1>8 DEF VerifyTemp, Places, Working, Before, Finalized
  <2>2. /\ writer' \in [Writers -> WriterType]
        /\ writer'[w].at = "finalize" /\ writer'[w].asset = a
        /\ \A v \in Writers \ {w} : writer'[v] = writer[v]
    BY <2>1, WriterMoves
  <2>3. \A b \in Assets \ {a} : data'[b] = data[b]
    BY <2>1
  <2>5. StageInv(w)'
    BY <1>2, <1>3, <1>8, <2>1, <2>2, <2>3 DEF VerifyTemp, StageInv, NoFinal, Before, Finalized
  <2>6. WriterInv(w)'
    BY <1>1, <1>2, <2>1, <2>2, <2>3, <2>5, SameAsset DEF Working, Before, Finalized
  <2> QED BY <1>1, <1>2, <2>1, <2>2, <2>3, <2>6 DEF CommitFrame, AssetTypeOK, Working, Before, Finalized
<1>9. CASE FinalizeNoReplace(w, a)
  <2>1. WriterTo(w, "check") /\ "check" \in Places /\ writer[w].at = "finalize" /\ UNCHANGED data
    BY <1>9 DEF FinalizeNoReplace, Places, Working, Finalized
  <2>2. /\ writer' \in [Writers -> WriterType]
        /\ writer'[w].at = "check" /\ writer'[w].asset = a
        /\ \A v \in Writers \ {w} : writer'[v] = writer[v]
    BY <2>1, WriterMoves
  <2>3. /\ final' \in [Assets -> EntryType] /\ final'[a].now
        /\ \A b \in Assets \ {a} : final'[b] = final[b]
    <3>1. Created(final[a]) \in EntryType /\ Created(final[a]).now
      BY <1>2, EntryChanges
    <3> QED BY <1>2, <1>9, <3>1 DEF FinalizeNoReplace, AssetTypeOK
  <2>4. tmp' \in [Assets -> EntryType] /\ \A b \in Assets \ {a} : tmp'[b] = tmp[b]
    <3>1. Removed(tmp[a]) \in EntryType
      BY <1>2, EntryChanges
    <3> QED BY <1>9, <3>1 DEF FinalizeNoReplace, AssetTypeOK
  <2>5. StageInv(w)'
    BY <1>3, <2>1, <2>2, <2>3 DEF StageInv, Before, Finalized
  <2>6. WriterInv(w)'
    BY <1>1, <1>2, <2>1, <2>2, <2>3, <2>5, SameAsset DEF Working, Before, Finalized
  <2> QED BY <1>1, <1>2, <2>1, <2>2, <2>3, <2>4, <2>6 DEF CommitFrame, AssetTypeOK, Working, Finalized
<1>10. CASE CheckFinal(w, a)
  <2>1. WriterTo(w, "syncFinal") /\ "syncFinal" \in Places /\ writer[w].at = "check" /\ UNCHANGED <<data, tmp, final>>
    BY <1>10 DEF CheckFinal, Places, Working, Before, Finalized
  <2>2. /\ writer' \in [Writers -> WriterType]
        /\ writer'[w].at = "syncFinal" /\ writer'[w].asset = a
        /\ \A v \in Writers \ {w} : writer'[v] = writer[v]
    BY <2>1, WriterMoves
  <2>3. \A b \in Assets \ {a} : data'[b] = data[b]
    BY <2>1
  <2>5. StageInv(w)'
    BY <1>2, <1>3, <1>10, <2>1, <2>2, <2>3 DEF CheckFinal, StageInv, NoFinal, Before, Finalized
  <2>6. WriterInv(w)'
    BY <1>1, <1>2, <2>1, <2>2, <2>3, <2>5, SameAsset DEF Working, Before, Finalized
  <2> QED BY <1>1, <1>2, <2>1, <2>2, <2>3, <2>6 DEF CommitFrame, AssetTypeOK, Working, Before, Finalized
<1>11. CASE SyncFinalDirectory(w, a)
  <2>1. WriterTo(w, "unlink") /\ "unlink" \in Places /\ writer[w].at = "syncFinal" /\ UNCHANGED <<data, tmp>>
    BY <1>11 DEF SyncFinalDirectory, Places, Working, Before, Finalized
  <2>2. /\ writer' \in [Writers -> WriterType]
        /\ writer'[w].at = "unlink" /\ writer'[w].asset = a
        /\ \A v \in Writers \ {w} : writer'[v] = writer[v]
    BY <2>1, WriterMoves
  <2>3. /\ final' \in [Assets -> EntryType] /\ final'[a].now = final[a].now
        /\ final'[a].disk = final[a].now /\ \A b \in Assets \ {a} : final'[b] = final[b]
    <3>1. /\ Synced(final[a]) \in EntryType
          /\ Synced(final[a]).now = final[a].now /\ Synced(final[a]).disk = final[a].now
      BY <1>2, EntryChanges
    <3>2. final' = [final EXCEPT ![a] = Synced(final[a])]
      BY <1>11 DEF SyncFinalDirectory
    <3> QED BY <1>2, <3>1, <3>2 DEF AssetTypeOK
  <2>5. StageInv(w)'
    BY <1>2, <1>3, <2>1, <2>2, <2>3 DEF StageInv, NoFinal, Before, Finalized
  <2>6. WriterInv(w)'
    BY <1>1, <1>2, <2>1, <2>2, <2>3, <2>5, SameAsset DEF Working, Before, Finalized
  <2> QED BY <1>1, <1>2, <2>1, <2>2, <2>3, <2>6 DEF CommitFrame, AssetTypeOK, Working, Before, Finalized
<1>12. CASE UnlinkTemp(w, a)
  <2>1. WriterTo(w, "syncTmp") /\ "syncTmp" \in Places /\ writer[w].at = "unlink" /\ UNCHANGED <<data, final>>
    BY <1>12 DEF UnlinkTemp, Places, Working, Before, Finalized
  <2>2. /\ writer' \in [Writers -> WriterType]
        /\ writer'[w].at = "syncTmp" /\ writer'[w].asset = a
        /\ \A v \in Writers \ {w} : writer'[v] = writer[v]
    BY <2>1, WriterMoves
  <2>3. tmp' \in [Assets -> EntryType] /\ \A b \in Assets \ {a} : tmp'[b] = tmp[b]
    <3>1. Removed(tmp[a]) \in EntryType
      BY <1>2, EntryChanges
    <3> QED BY <1>12, <3>1 DEF UnlinkTemp, AssetTypeOK
  <2>5. StageInv(w)'
    BY <1>2, <1>3, <1>12, <2>1, <2>2, <2>3 DEF UnlinkTemp, StageInv, NoFinal, Before, Finalized
  <2>6. WriterInv(w)'
    BY <1>1, <1>2, <2>1, <2>2, <2>3, <2>5, SameAsset DEF Working, Before, Finalized
  <2> QED BY <1>1, <1>2, <2>1, <2>2, <2>3, <2>6 DEF CommitFrame, AssetTypeOK, Working, Before, Finalized
<1>13. CASE SyncTempDirectory(w, a)
  <2>1. /\ writer[w].at = "syncTmp" /\ UNCHANGED <<data, final>>
        /\ tmp' = [b \in Assets |-> Synced(tmp[b])]
    BY <1>13 DEF SyncTempDirectory
  <2>2. tmp' \in [Assets -> EntryType] /\ \A b \in Assets : tmp'[b].now = tmp[b].now
    <3>1. \A b \in Assets : Synced(tmp[b]) \in EntryType /\ Synced(tmp[b]).now = tmp[b].now
      BY EntryChanges DEF AssetTypeOK
    <3> QED BY <2>1, <3>1
  <2>3. Secure(a)
    BY <1>3, <2>1 DEF StageInv, Secure, Finalized
  <2>4. \A b \in OwnAssets(w) : (b < a => Secure(b)) /\ (b > a => NoFinal(b))
    BY <1>1 DEF WriterInv, OrderInv
  <2>5. \A b \in OwnAssets(w) : /\ Secure(b)' <=> Secure(b)
                                /\ NoFinal(b)' <=> NoFinal(b)
                                /\ NoRow(b)'
    BY <1>1, <1>2, <2>1 DEF Secure, NoFinal, NoRow
  <2>6. CASE a = LastAsset(w)
    <3>1. WriterTo(w, "rows") /\ "rows" \in Places
      BY <1>13, <2>6 DEF SyncTempDirectory, Places
    <3>2. /\ writer' \in [Writers -> WriterType]
          /\ writer'[w].at = "rows" /\ writer'[w].asset = a
          /\ \A v \in Writers \ {w} : writer'[v] = writer[v]
      BY <3>1, WriterMoves
    <3>3. \A b \in OwnAssets(w) : b \in Nat /\ b <= a
      BY <2>6, OwnedAssets
    <3>4. \A b \in OwnAssets(w) : Secure(b)
      BY <1>2, <2>3, <2>4, <3>3
    <3>5. WriterInv(w)'
      BY <1>1, <1>2, <2>5, <3>2, <3>4 DEF WriterInv, StageInv, OrderInv, OwnInv, ReportInv, Working,
         Before, Finalized
    <3> QED BY <1>1, <1>2, <2>1, <2>2, <3>2, <3>5 DEF CommitFrame, AssetTypeOK
  <2>7. CASE a # LastAsset(w)
    <3>1. a + 1 \in OwnAssets(w) /\ a + 1 \in Assets /\ a \in Nat
      BY <1>2, <2>7, OwnedAssets
    <3>2. Commits(w, a + 1)
      BY <1>13, <2>7 DEF SyncTempDirectory
    <3>3. /\ writer' \in [Writers -> WriterType]
          /\ writer'[w].at = "create" /\ writer'[w].asset = a + 1
          /\ \A v \in Writers \ {w} : writer'[v] = writer[v]
      BY <3>1, <3>2, WriterCommits
    <3>4. \A b \in OwnAssets(w) : b \in Nat /\ (b < a + 1 => Secure(b)) /\ (b >= a + 1 => NoFinal(b))
      <4>1. \A b \in OwnAssets(w) : b \in Nat
        BY OwnedAssets
      <4> QED BY <2>3, <2>4, <3>1, <4>1
    <3>5. StageInv(w)'
      BY <2>5, <3>1, <3>3, <3>4 DEF StageInv, Before, Finalized
    <3>6. OrderInv(w)'
      BY <2>5, <3>1, <3>3, <3>4 DEF OrderInv
    <3>7. OwnInv(w)' /\ ReportInv(w)'
      BY <1>1, <1>2, <2>5, <3>3 DEF OwnInv, ReportInv
    <3> QED BY <1>1, <1>2, <2>1, <2>2, <3>3, <3>5, <3>6, <3>7 DEF CommitFrame, WriterInv, AssetTypeOK,
            Working, Before
  <2> QED BY <2>6, <2>7
<1> QED BY <1>4, <1>5, <1>6, <1>7, <1>8, <1>9, <1>10, <1>11, <1>12, <1>13 DEF CommitAsset

-----------------------------------------------------------------------------
(* The invariant over each step.                                              *)

LEMMA BeginKeeps ==
  ASSUME AssetInv, BeginScan \/ BeginSet
  PROVE  AssetInv'
<1>1. PICK w \in Writers :
        /\ writer[w].at = "idle" /\ Commits(w, IF w = "scan" THEN OriginalAsset ELSE 0)
        /\ w = "scan" => mutex = "free" /\ StagedCapture /\ mutex' = "scan" /\ journal'
        /\ w # "scan" => UNCHANGED <<mutex, journal>>
        /\ UNCHANGED <<data, tmp, final, row, staging, report, powered>>
  BY OwnedAssets DEF BeginScan, BeginSet
<1> DEFINE a == IF w = "scan" THEN OriginalAsset ELSE 0
<1>2. a \in OwnAssets(w) /\ a \in Assets /\ \A b \in OwnAssets(w) : b \in Nat /\ b >= a
  BY OwnedAssets DEF OriginalAsset
<1>3. AssetTypeOK /\ WriterInv(w) /\ RowInv /\ PictureInv
  BY DEF AssetInv
<1> HIDE DEF a
<1>4. /\ writer' \in [Writers -> WriterType]
      /\ writer'[w].at = "create" /\ writer'[w].asset = a
      /\ \A v \in Writers \ {w} : writer'[v] = writer[v]
  BY <1>1, <1>2, <1>3, WriterCommits DEF a
<1>5. \A b \in Assets : /\ Secure(b)' <=> Secure(b)
                        /\ NoFinal(b)' <=> NoFinal(b)
                        /\ NoRow(b)' <=> NoRow(b)
  BY <1>1 DEF Secure, NoFinal, NoRow
<1>6. /\ report[w] = "none"
      /\ \A b \in OwnAssets(w) : b \in Assets /\ NoFinal(b) /\ NoRow(b)
  BY <1>1, <1>3, OwnedAssets DEF WriterInv, OwnInv, ReportInv
<1>7. WriterInv(w)'
  <2>1. StageInv(w)' /\ OrderInv(w)'
    BY <1>2, <1>4, <1>5, <1>6 DEF StageInv, OrderInv, Before, Finalized
  <2>2. OwnInv(w)' /\ ReportInv(w)'
    BY <1>1, <1>4, <1>5, <1>6 DEF OwnInv, ReportInv
  <2> QED BY <2>1, <2>2 DEF WriterInv
<1>8. \A v \in Writers : WriterInv(v)'
  BY <1>1, <1>4, <1>7, OtherWriter, UntouchedWriter DEF AssetInv, NoRow
<1>9. AssetTypeOK'
  BY <1>1, <1>3, <1>4 DEF AssetTypeOK
<1>10. RowInv'
  BY <1>1, <1>3, <1>5 DEF RowInv
<1>11. PictureInv'
  <2>1. CASE w = "scan"
    BY <1>1, <1>3, <1>4, <1>5, <2>1, OwnedAssets DEF PictureInv, StagedCapture
  <2>2. CASE w # "scan"
    <3>1. writer'["scan"] = writer["scan"]
      BY <1>4, <2>2, OwnedAssets
    <3> QED BY <1>1, <1>3, <1>5, <2>2, <3>1, OwnedAssets DEF PictureInv
  <2> QED BY <2>1, <2>2
<1> QED BY <1>8, <1>9, <1>10, <1>11 DEF AssetInv

LEMMA CommitKeeps ==
  ASSUME AssetInv, NEW w \in Writers, CommitAsset(w)
  PROVE  AssetInv'
<1> DEFINE a == writer[w].asset
<1>1. AssetTypeOK /\ WriterInv(w) /\ RowInv /\ PictureInv
  BY DEF AssetInv
<1>2. /\ writer[w].at \in Working /\ a \in OwnAssets(w)
      /\ CommitFrame(w, a) /\ WriterInv(w)'
  BY <1>1, CommitStep
<1>3. UNCHANGED <<platform, row, staging, journal, mutex, report, orphans, powered, mishaps>>
  BY DEF CommitAsset
<1>4. a \in Assets /\ NoRow(a)
  BY <1>1, <1>2, OwnedAssets DEF WriterInv, OwnInv
<1>5. RowInv'
  BY <1>1, <1>2, <1>3, <1>4, RowsUntouched DEF CommitFrame
<1>6. \A v \in Writers : WriterInv(v)'
  <2> SUFFICES ASSUME NEW v \in Writers \ {w}
               PROVE  WriterInv(v)'
    BY <1>2
  <2>1. \A b \in Assets \ OwnAssets(w) : data'[b] = data[b] /\ final'[b] = final[b] /\ (NoRow(b) => NoRow(b)')
    BY <1>2, <1>3 DEF CommitFrame, NoRow
  <2> QED BY <1>2, <1>3, <2>1, OtherWriter DEF AssetInv, CommitFrame
<1>7. AssetTypeOK'
  BY <1>1, <1>2, <1>3 DEF AssetTypeOK, CommitFrame
<1>8. PictureInv'
  <2>1. CASE w = "scan"
    BY <1>1, <1>2, <1>3, <2>1 DEF PictureInv, CommitFrame, Working, Before, Finalized
  <2>2. CASE w # "scan"
    <3>1. writer'["scan"] = writer["scan"]
      BY <1>2, <2>2, OwnedAssets DEF CommitFrame
    <3>2. \A b \in 1..ScanAssets : b \in Assets /\ b # a
      BY <1>2, <2>2, OwnedAssets
    <3>3. \A b \in 1..ScanAssets : (Secure(b)' <=> Secure(b)) /\ (NoFinal(b)' <=> NoFinal(b))
      BY <1>2, <3>2 DEF CommitFrame, Secure, NoFinal
    <3> QED BY <1>1, <1>3, <3>1, <3>3, OwnedAssets DEF PictureInv
  <2> QED BY <2>1, <2>2
<1> QED BY <1>5, <1>6, <1>7, <1>8 DEF AssetInv

\* An operation that fails leaves its files and has no rows.
LEMMA FailKeeps ==
  ASSUME AssetInv, NEW w \in Writers, CommitFails(w) \/ InsertFails(w)
  PROVE  AssetInv'
<1> DEFINE a == writer[w].asset
<1>1. AssetTypeOK /\ WriterInv(w) /\ RowInv /\ PictureInv
  BY DEF AssetInv
<1>2. PICK s \in Stages :
        /\ GivesUp(w, s)
        /\ writer[w].at \in Working \cup {"rows"}
        /\ s = "before_finalization" => writer[w].at \in Before
        /\ s = "database_registration_rolled_back" => writer[w].at = "rows"
        /\ UNCHANGED <<data, final, row, staging, journal, powered>>
        /\ tmp' \in {tmp, [tmp EXCEPT ![a] = Removed(tmp[a])]}
  BY DEF CommitFails, InsertFails, Stages, Working
<1>3. /\ writer' \in [Writers -> WriterType] /\ report' \in [Writers -> Stages]
      /\ writer'[w].at = "failed" /\ writer'[w].asset = a /\ report'[w] = s
      /\ \A v \in Writers \ {w} : writer'[v] = writer[v] /\ report'[v] = report[v]
      /\ mutex' \in {"free", "scan", "check"} /\ (mutex' # mutex => mutex' = "free" /\ w = "scan")
  BY <1>1, <1>2, WriterFails
<1>4. a \in OwnAssets(w) /\ a \in Assets /\ \A b \in OwnAssets(w) : NoRow(b)
  BY <1>1, <1>2, OwnedAssets DEF WriterInv, OrderInv, OwnInv
<1>5. tmp' \in [Assets -> EntryType]
  <2>1. Removed(tmp[a]) \in EntryType
    BY <1>1, <1>4, EntryChanges DEF AssetTypeOK
  <2> QED BY <1>1, <1>2, <2>1 DEF AssetTypeOK
<1>6. /\ \A b \in Assets : /\ Secure(b)' <=> Secure(b)
                           /\ NoFinal(b)' <=> NoFinal(b)
                           /\ NoRow(b)' <=> NoRow(b)
      /\ \A b \in OwnAssets(w) : b \in Assets
  BY <1>2, OwnedAssets DEF Secure, NoFinal, NoRow
<1>7. WriterInv(w)'
  <2>1. StageInv(w)' /\ OrderInv(w)' /\ OwnInv(w)'
    BY <1>3 DEF StageInv, OrderInv, OwnInv, Working, Before, Finalized
  <2>2. s = "before_finalization" => NoFinal(a)
    BY <1>1, <1>2 DEF WriterInv, StageInv
  <2>3. s = "database_registration_rolled_back" => \A b \in OwnAssets(w) : Secure(b)
    BY <1>1, <1>2 DEF WriterInv, OwnInv
  <2>4. ReportInv(w)'
    BY <1>3, <1>4, <1>6, <2>2, <2>3 DEF ReportInv
  <2> QED BY <2>1, <2>4 DEF WriterInv
<1>8. \A v \in Writers : WriterInv(v)'
  BY <1>2, <1>3, <1>6, <1>7, OtherWriter DEF AssetInv
<1>9. AssetTypeOK'
  BY <1>1, <1>2, <1>3, <1>5 DEF AssetTypeOK
<1>10. RowInv'
  BY <1>1, <1>2, <1>6 DEF RowInv
<1>11. PictureInv'
  <2>1. CASE w = "scan"
    BY <1>1, <1>2, <1>3, <1>6, <2>1, OwnedAssets DEF PictureInv, Working, Before, Finalized
  <2>2. CASE w # "scan"
    <3>1. writer'["scan"] = writer["scan"] /\ mutex' = mutex
      BY <1>3, <2>2, OwnedAssets
    <3> QED BY <1>1, <1>2, <1>6, <3>1, OwnedAssets DEF PictureInv
  <2> QED BY <2>1, <2>2
<1> QED BY <1>8, <1>9, <1>10, <1>11 DEF AssetInv

\* The transaction names secure files only.
LEMMA InsertKeeps ==
  ASSUME AssetInv, NEW w \in Writers, InsertRows(w)
  PROVE  AssetInv'
<1> DEFINE place == IF w = "scan" THEN "complete" ELSE "done"
<1>1. AssetTypeOK /\ WriterInv(w) /\ RowInv /\ PictureInv
  BY DEF AssetInv
<1>2. /\ writer[w].at = "rows" /\ WriterTo(w, place) /\ place \in Places
      /\ mutex' = "free" /\ mutex \in {w, "free"}
      /\ row' = [a \in Assets |-> IF a \in OwnAssets(w) THEN Created(row[a]) ELSE row[a]]
      /\ UNCHANGED <<data, tmp, final, staging, journal, report, powered>>
  BY DEF InsertRows, Places
<1> HIDE DEF place
<1>3. /\ writer' \in [Writers -> WriterType] /\ writer'[w].at = place
      /\ \A v \in Writers \ {w} : writer'[v] = writer[v]
  BY <1>1, <1>2, WriterMoves
<1>4. /\ row' \in [Assets -> EntryType]
      /\ \A b \in OwnAssets(w) : row'[b].now /\ b \in Assets
      /\ \A b \in Assets \ OwnAssets(w) : row'[b] = row[b]
  <2>1. \A b \in Assets : Created(row[b]) \in EntryType /\ Created(row[b]).now /\ row[b] \in EntryType
    BY <1>1, EntryChanges DEF AssetTypeOK
  <2> QED BY <1>2, <2>1, OwnedAssets
<1>5. \A b \in Assets : (Secure(b)' <=> Secure(b)) /\ (NoFinal(b)' <=> NoFinal(b))
  BY <1>2 DEF Secure, NoFinal
<1>6. \A b \in OwnAssets(w) : Secure(b)
  BY <1>1, <1>2 DEF WriterInv, OwnInv
<1>7. WriterInv(w)'
  <2>1. report[w] = "none"
    BY <1>1, <1>2 DEF WriterInv, ReportInv
  <2> QED BY <1>2, <1>3, <1>4, <1>5, <1>6, <2>1 DEF place, WriterInv, StageInv, OrderInv, OwnInv,
          ReportInv, Working, Before, Finalized
<1>8. \A v \in Writers : WriterInv(v)'
  BY <1>2, <1>3, <1>4, <1>7, OtherWriter DEF AssetInv, NoRow
<1>9. AssetTypeOK'
  BY <1>1, <1>2, <1>3, <1>4 DEF AssetTypeOK
<1>10. RowInv'
  BY <1>1, <1>4, <1>5, <1>6 DEF RowInv
<1>11. PictureInv'
  <2>1. CASE w = "scan"
    BY <1>1, <1>2, <1>3, <1>4, <1>5, <2>1, OwnedAssets DEF place, PictureInv, Working, Before, Finalized
  <2>2. CASE w # "scan"
    <3>1. writer'["scan"] = writer["scan"] /\ \A b \in 1..ScanAssets : row'[b] = row[b]
      BY <1>3, <1>4, <2>2, OwnedAssets
    <3>2. writer["scan"].at \notin Working \cup {"rows"}
      BY <1>1, <1>2, <2>2, OwnedAssets DEF PictureInv
    <3> QED BY <1>1, <1>2, <1>5, <3>1, <3>2, OwnedAssets DEF PictureInv
  <2> QED BY <2>1, <2>2
<1> QED BY <1>8, <1>9, <1>10, <1>11 DEF AssetInv

\* After its transaction the scan removes the journal and the staging file.
LEMMA EndKeeps ==
  ASSUME AssetInv, CompleteJournal \/ RemoveStaging
  PROVE  AssetInv'
<1>1. AssetTypeOK /\ WriterInv("scan") /\ RowInv /\ PictureInv /\ "scan" \in Writers
  BY OwnedAssets DEF AssetInv
<1>2. PICK place \in {"unstage", "done"} :
        /\ writer["scan"].at \in {"complete", "unstage"} /\ WriterTo("scan", place) /\ place \in Places
        /\ journal' \in BOOLEAN
        /\ staging' = staging \/ staging' = Removed(staging)
        /\ UNCHANGED <<data, tmp, final, row, mutex, report, powered>>
  BY <1>1 DEF CompleteJournal, RemoveStaging, Places, AssetTypeOK
<1>3. /\ writer' \in [Writers -> WriterType] /\ writer'["scan"].at = place
      /\ \A v \in Writers \ {"scan"} : writer'[v] = writer[v]
  BY <1>1, <1>2, WriterMoves
<1>4. staging' \in EntryType /\ (staging'.now => staging.now) /\ staging'.disk = staging.disk
  <2>1. staging \in EntryType
    BY <1>1 DEF AssetTypeOK
  <2>2. Removed(staging) \in EntryType /\ ~Removed(staging).now /\ Removed(staging).disk = staging.disk
    BY <2>1, EntryChanges
  <2>3. CASE staging' = staging
    BY <2>1, <2>3
  <2>4. CASE staging' = Removed(staging)
    BY <2>2, <2>4
  <2> QED BY <1>2, <2>3, <2>4
<1>5. \A b \in Assets : /\ Secure(b)' <=> Secure(b)
                        /\ NoFinal(b)' <=> NoFinal(b)
                        /\ NoRow(b)' <=> NoRow(b)
  BY <1>2 DEF Secure, NoFinal, NoRow
<1>6. (\A b \in OwnAssets("scan") : Secure(b)) /\ report["scan"] = "none"
  BY <1>1, <1>2 DEF WriterInv, OwnInv, ReportInv
<1>7. WriterInv("scan")'
  BY <1>2, <1>3, <1>5, <1>6, OwnedAssets DEF WriterInv, StageInv, OrderInv, OwnInv, ReportInv, Working,
     Before, Finalized
<1>8. \A v \in Writers : WriterInv(v)'
  BY <1>1, <1>2, <1>3, <1>5, <1>7, OtherWriter DEF AssetInv
<1>9. AssetTypeOK'
  BY <1>1, <1>2, <1>3, <1>4 DEF AssetTypeOK
<1>10. RowInv'
  BY <1>1, <1>2, <1>5 DEF RowInv
<1>11. PictureInv'
  BY <1>1, <1>2, <1>3, <1>4, <1>5, <1>6, OwnedAssets DEF PictureInv, Working, Before, Finalized
<1> QED BY <1>8, <1>9, <1>10, <1>11 DEF AssetInv

LEMMA CheckpointKeeps ==
  ASSUME AssetInv, Checkpoint
  PROVE  AssetInv'
<1>1. AssetTypeOK /\ RowInv /\ PictureInv
  BY DEF AssetInv
<1>2. /\ UNCHANGED <<writer, data, tmp, final, staging, journal, mutex, report, powered>>
      /\ row' = [a \in Assets |-> Synced(row[a])]
  BY DEF Checkpoint
<1>3. /\ row' \in [Assets -> EntryType]
      /\ \A b \in Assets : row'[b].now = row[b].now /\ row'[b].disk = row[b].now
  <2>1. \A b \in Assets : /\ Synced(row[b]) \in EntryType
                          /\ Synced(row[b]).now = row[b].now /\ Synced(row[b]).disk = row[b].now
    BY <1>1, EntryChanges DEF AssetTypeOK
  <2> QED BY <1>2, <2>1
<1>4. \A b \in Assets : /\ Secure(b)' <=> Secure(b)
                        /\ NoFinal(b)' <=> NoFinal(b)
                        /\ NoRow(b) => NoRow(b)'
  BY <1>2, <1>3 DEF Secure, NoFinal, NoRow
<1>5. \A v \in Writers : WriterInv(v)'
  <2> SUFFICES ASSUME NEW v \in Writers PROVE WriterInv(v)'
    OBVIOUS
  <2>1. \A b \in OwnAssets(v) : b \in Assets
    BY OwnedAssets
  <2> QED BY <1>2, <1>4, <2>1, UntouchedWriter DEF AssetInv
<1>6. AssetTypeOK'
  BY <1>1, <1>2, <1>3 DEF AssetTypeOK
<1>7. RowInv'
  BY <1>1, <1>3, <1>4 DEF RowInv
<1>8. PictureInv'
  BY <1>1, <1>2, <1>3, <1>4, OwnedAssets DEF PictureInv
<1> QED BY <1>5, <1>6, <1>7, <1>8 DEF AssetInv

\* Steps that change the lock, the last discovery or the running check alone.
LEMMA LockKeeps ==
  ASSUME AssetInv, mutex' \in {"free", "scan", "check"},
         writer["scan"].at \in Working \cup {"rows"} => mutex' = mutex,
         UNCHANGED <<writer, data, tmp, final, row, staging, journal, report, powered>>
  PROVE  AssetInv'
<1>1. AssetTypeOK'
  BY DEF AssetInv, AssetTypeOK
<1>2. \A v \in Writers : WriterInv(v)'
  BY UntouchedWriter DEF AssetInv, NoRow
<1>3. RowInv'
  BY DEF AssetInv, RowInv, Secure
<1>4. PictureInv'
  BY DEF AssetInv, PictureInv, Secure, NoFinal
<1> QED BY <1>1, <1>2, <1>3, <1>4 DEF AssetInv

\* A process that ends halts the writers that were at work; what a loss of
\* power takes is not secure.
LEMMA HaltKeeps ==
  ASSUME AssetInv, writer' = [w \in Writers |-> Halted(w)], mutex' = "free", report' = report,
         data' \in [Assets -> FileType], tmp' \in [Assets -> EntryType],
         final' \in [Assets -> EntryType], row' \in [Assets -> EntryType],
         staging' \in EntryType, journal' \in BOOLEAN, powered' \in BOOLEAN,
         \A a \in Assets : /\ Secure(a) => Secure(a)'
                           /\ NoFinal(a) => NoFinal(a)'
                           /\ NoRow(a) => NoRow(a)'
                           /\ row'[a].disk => row'[a].now,
         staging'.now => staging'.disk, staging.now => staging'.now,
         powered' => powered /\ UNCHANGED <<final, row, staging, journal>>
  PROVE  AssetInv'
<1>1. AssetTypeOK /\ RowInv /\ PictureInv
  BY DEF AssetInv
<1>2. \A w \in Writers :
        /\ writer'[w] \in WriterType /\ writer'[w].asset = writer[w].asset
        /\ writer'[w].at = IF writer[w].at \in {"idle", "done", "failed"} THEN writer[w].at ELSE "dead"
  BY <1>1 DEF AssetTypeOK, Halted, WriterType, Places
<1>3. writer' \in [Writers -> WriterType]
  BY <1>2
<1>4. AssetTypeOK'
  BY <1>1, <1>3 DEF AssetTypeOK
<1>5. ASSUME NEW w \in Writers
      PROVE  WriterInv(w)'
  <2>1. WriterInv(w) /\ \A b \in OwnAssets(w) : b \in Assets
    BY OwnedAssets DEF AssetInv
  <2>2. writer'[w].at \in {"idle", "done", "failed", "dead"}
    BY <1>2
  <2>3. StageInv(w)' /\ OrderInv(w)'
    BY <2>2 DEF StageInv, OrderInv, Working, Before, Finalized
  <2>4. OwnInv(w)'
    BY <1>2, <2>1, <2>2 DEF WriterInv, OwnInv, Working, Before, Finalized
  <2>5. ReportInv(w)'
    BY <1>2, <2>1 DEF WriterInv, ReportInv
  <2> QED BY <2>3, <2>4, <2>5 DEF WriterInv
<1>6. RowInv'
  BY <1>1 DEF RowInv, NoRow
<1>7. PictureInv'
  <2>1. writer'["scan"].at \in {"idle", "done", "failed", "dead"}
    BY <1>2, OwnedAssets
  <2>2. /\ ~staging'.now => Secure(OriginalAsset)'
        /\ \A b \in 1..ScanAssets : b \in Assets
    BY <1>1, OwnedAssets DEF PictureInv
  <2> QED BY <1>1, <2>1, <2>2 DEF PictureInv, NoFinal, Working, Before, Finalized
<1> QED BY <1>4, <1>5, <1>6, <1>7 DEF AssetInv

LEMMA DeathKeeps ==
  ASSUME AssetInv, ProcessDies
  PROVE  AssetInv'
<1>1. AssetTypeOK /\ RowInv /\ PictureInv
  BY DEF AssetInv
<1>2. /\ writer' = [w \in Writers |-> Halted(w)] /\ mutex' = "free"
      /\ UNCHANGED <<data, tmp, final, row, staging, journal, report, powered>>
  BY DEF ProcessDies
<1>3. \A a \in Assets : /\ Secure(a) => Secure(a)'
                        /\ NoFinal(a) => NoFinal(a)'
                        /\ NoRow(a) => NoRow(a)'
                        /\ row'[a].disk => row'[a].now
  BY <1>1, <1>2 DEF Secure, NoFinal, NoRow, RowInv
<1>4. staging'.now => staging'.disk
  BY <1>1, <1>2 DEF PictureInv
<1> QED BY <1>1, <1>2, <1>3, <1>4, HaltKeeps DEF AssetTypeOK

LEMMA PowerKeeps ==
  ASSUME AssetInv, LosePower
  PROVE  AssetInv'
<1>1. AssetTypeOK /\ RowInv /\ PictureInv
  BY DEF AssetInv
<1>2. /\ writer' = [w \in Writers |-> Halted(w)] /\ mutex' = "free" /\ powered' = FALSE
      /\ journal' \in BOOLEAN /\ report' = report
  BY <1>1 DEF LosePower, AssetTypeOK
<1>3. PICK torn, lost \in SUBSET Assets, unlogged \in SUBSET Writers, unstaged \in BOOLEAN :
        /\ torn \subseteq {a \in Assets : data[a].content = "full" /\ ~data[a].synced}
        /\ lost \subseteq {a \in Assets : final[a] # Synced(final[a]) \/ tmp[a] # Synced(tmp[a])}
        /\ data' = [a \in Assets |-> IF a \in torn THEN [data[a] EXCEPT !.content = "partial"] ELSE data[a]]
        /\ final' = [a \in Assets |-> After(final[a], a \in lost)]
        /\ tmp' = [a \in Assets |-> After(tmp[a], a \in lost)]
        /\ row' = [a \in Assets |-> After(row[a], \E w \in unlogged : a \in OwnAssets(w))]
        /\ staging' = After(staging, unstaged)
  BY Zenon DEF LosePower
<1>4. /\ data' \in [Assets -> FileType]
      /\ \A a \in Assets : data[a].synced => data'[a] = data[a]
  <2>1. \A a \in Assets : data[a] \in FileType /\ [data[a] EXCEPT !.content = "partial"] \in FileType
    BY <1>1 DEF AssetTypeOK, FileType
  <2> QED BY <1>3, <2>1
<1>5. /\ final' \in [Assets -> EntryType]
      /\ \A a \in Assets : /\ final[a].now /\ final[a].disk => final'[a].now /\ final'[a].disk
                           /\ NoFinal(a) => NoFinal(a)'
  <2> SUFFICES ASSUME NEW a \in Assets
               PROVE  /\ After(final[a], a \in lost) \in EntryType
                      /\ final[a].now /\ final[a].disk => final'[a].now /\ final'[a].disk
                      /\ NoFinal(a) => NoFinal(a)'
    BY <1>3
  <2>1. final[a] \in EntryType /\ (a \in lost) \in BOOLEAN
    BY <1>1 DEF AssetTypeOK
  <2>2. /\ After(final[a], a \in lost) \in EntryType
        /\ After(final[a], a \in lost).now = After(final[a], a \in lost).disk
        /\ After(final[a], a \in lost).now = IF a \in lost THEN final[a].disk ELSE final[a].now
    BY <2>1, PowerlessEntry
  <2> QED BY <1>3, <2>2 DEF NoFinal
<1>6. /\ row' \in [Assets -> EntryType]
      /\ \A a \in Assets : /\ NoRow(a) => NoRow(a)'
                           /\ row'[a].disk => row'[a].now
  <2> SUFFICES ASSUME NEW a \in Assets
               PROVE  /\ After(row[a], \E w \in unlogged : a \in OwnAssets(w)) \in EntryType
                      /\ NoRow(a) => NoRow(a)'
                      /\ row'[a].disk => row'[a].now
    BY <1>3
  <2> DEFINE gone == \E w \in unlogged : a \in OwnAssets(w)
  <2>1. row[a] \in EntryType /\ gone \in BOOLEAN
    BY <1>1 DEF AssetTypeOK
  <2>2. /\ After(row[a], gone) \in EntryType
        /\ After(row[a], gone).now = After(row[a], gone).disk
        /\ After(row[a], gone).now = IF gone THEN row[a].disk ELSE row[a].now
    BY <2>1, PowerlessEntry
  <2>3. row'[a] = After(row[a], gone)
    BY <1>3
  <2> HIDE DEF gone
  <2> QED BY <2>2, <2>3 DEF NoRow, gone
<1>7. tmp' \in [Assets -> EntryType]
  <2>1. \A a \in Assets : After(tmp[a], a \in lost) \in EntryType
    <3> SUFFICES ASSUME NEW a \in Assets PROVE After(tmp[a], a \in lost) \in EntryType
      OBVIOUS
    <3>1. tmp[a] \in EntryType /\ (a \in lost) \in BOOLEAN
      BY <1>1 DEF AssetTypeOK
    <3> QED BY <3>1, PowerlessEntry
  <2> QED BY <1>3, <2>1
<1>8. staging' \in EntryType /\ (staging'.now => staging'.disk) /\ (staging.now => staging'.now)
  <2>1. /\ After(staging, unstaged) \in EntryType
        /\ After(staging, unstaged).now = After(staging, unstaged).disk
        /\ After(staging, unstaged).now = IF unstaged THEN staging.disk ELSE staging.now
    BY <1>1, PowerlessEntry DEF AssetTypeOK
  <2> QED BY <1>1, <1>3, <2>1 DEF PictureInv
<1>9. \A a \in Assets : Secure(a) => Secure(a)'
  BY <1>4, <1>5 DEF Secure
<1> QED BY <1>2, <1>4, <1>5, <1>6, <1>7, <1>8, <1>9, HaltKeeps

-----------------------------------------------------------------------------
(* The integrity check.                                                       *)

Kinds == {"final", "tmp", "staging", "journal"}
Codes == {"ORPHAN_FINAL_ASSET", "ORPHAN_TEMP_FILE", "RECOVERABLE_STAGING_FILE", "INCOMPLETE_COMMIT_JOURNAL"}

\* The registration of the scan will not insert rows any more.
GivenUp(a) == ~row[a].now /\ writer["scan"].at \notin {"idle", "rows"} \cup Working

CheckTypeOK ==
    /\ check.at \in {"none", "rows", "assets", "final", "temporary", "tmp", "complete"}
    /\ check.listed \subseteq Kinds \X Assets
    /\ check.found \subseteq Codes \X Assets
    /\ check.at # "none" => mutex = "check"

\* What is listed of the scan is all there is, for nothing is added to it.
ListedInv ==
    /\ check.at = "final" =>
         /\ \A l \in check.listed : l[1] = "final"
         /\ \A b \in 1..ScanAssets : final[b].now => <<"final", b>> \in check.listed
    /\ check.at = "tmp" =>
         /\ \A l \in check.listed : l[1] # "final"
         /\ \A b \in 1..ScanAssets : tmp[b].now => <<"tmp", b>> \in check.listed
         /\ staging.now => <<"staging", OriginalAsset>> \in check.listed
         /\ journal => <<"journal", OriginalAsset>> \in check.listed

FoundInv ==
    /\ check.at \in {"temporary", "tmp", "complete"} =>
         \A b \in 1..ScanAssets :
            final[b].now /\ ~row[b].now => <<"ORPHAN_FINAL_ASSET", b>> \in check.found
    /\ check.at = "complete" =>
         /\ \A b \in 1..ScanAssets : tmp[b].now => <<"ORPHAN_TEMP_FILE", b>> \in check.found
         /\ staging.now => <<"RECOVERABLE_STAGING_FILE", OriginalAsset>> \in check.found
         /\ journal => <<"INCOMPLETE_COMMIT_JOURNAL", OriginalAsset>> \in check.found

OrphanInv ==
    /\ \A a \in orphans \ {0} : a \in 1..ScanAssets /\ GivenUp(a)
    /\ \A a \in 1..ScanAssets : <<"ORPHAN_FINAL_ASSET", a>> \in check.found => GivenUp(a)

CheckInv == CheckTypeOK /\ ListedInv /\ FoundInv /\ OrphanInv

StoreStep ==
    \/ BeginScan \/ BeginSet \/ (\E w \in Writers : WriterStep(w))
    \/ CompleteJournal \/ RemoveStaging \/ Checkpoint \/ Discover

CheckerStep ==
    \/ StartCheck \/ CheckRows \/ ListTree \/ CheckTree
    \/ CompleteCheck \/ CancelCheck \/ FailCheck

LEMMA StoreKeeps ==
  ASSUME AssetInv, StoreStep
  PROVE  AssetInv'
<1>1. ASSUME Discover PROVE AssetInv'
  BY <1>1, LockKeeps DEF Discover, AssetInv, AssetTypeOK
<1> QED BY <1>1, BeginKeeps, CommitKeeps, FailKeeps, InsertKeeps, EndKeeps, CheckpointKeeps
        DEF StoreStep, WriterStep

LEMMA CheckerKeeps ==
  ASSUME AssetInv, CheckTypeOK, CheckerStep
  PROVE  AssetInv'
<1>1. UNCHANGED <<writer, data, tmp, final, row, staging, journal, report, powered>>
  BY DEF CheckerStep, StartCheck, CheckRows, ListTree, CheckTree, CompleteCheck, CancelCheck, FailCheck,
     CheckGoes, EndCheck
<1>2. /\ mutex' = mutex \/ mutex' \in {"free", "check"}
      /\ mutex' # mutex => mutex \in {"free", "check"}
  BY DEF CheckTypeOK, CheckerStep, StartCheck, CheckRows, ListTree, CheckTree, CompleteCheck,
     CancelCheck, FailCheck, CheckGoes, EndCheck
<1>3. writer["scan"].at \in Working \cup {"rows"} => mutex' = mutex
  BY <1>2 DEF AssetInv, PictureInv
<1>4. mutex' \in {"free", "scan", "check"}
  BY <1>2 DEF AssetInv, AssetTypeOK
<1> QED BY <1>1, <1>3, <1>4, LockKeeps

LEMMA AssetInitial ==
  ASSUME CheckInit
  PROVE  AssetInv /\ CheckInv
<1>1. AssetInit /\ check = NoCheck
  BY DEF CheckInit
<1>2. NoEntry \in EntryType /\ OnDisk \in EntryType /\ NoFile \in FileType
  BY DEF NoEntry, OnDisk, NoFile, EntryType, FileType
<1>3. AssetTypeOK
  BY <1>1, <1>2, OwnedAssets DEF AssetInit, AssetTypeOK, WriterType, Places, Stages
<1>4. /\ \A a \in Assets : NoFinal(a) /\ NoRow(a)
      /\ \A w \in Writers : writer[w].at = "idle" /\ report[w] = "none" /\ OwnAssets(w) \subseteq Assets
      /\ staging.now /\ staging.disk /\ "scan" \in Writers
  BY <1>1, OwnedAssets DEF AssetInit, NoEntry, OnDisk, NoFinal, NoRow
<1>5. \A w \in Writers : WriterInv(w)
  BY <1>4 DEF WriterInv, StageInv, OrderInv, OwnInv, ReportInv, Working, Before, Finalized
<1>6. RowInv
  BY <1>4 DEF RowInv, NoRow
<1>7. PictureInv
  BY <1>4, OwnedAssets DEF PictureInv, Working, Before, Finalized
<1>8. CheckInv
  BY <1>1 DEF AssetInit, NoCheck, CheckInv, CheckTypeOK, ListedInv, FoundInv, OrphanInv
<1> QED BY <1>3, <1>5, <1>6, <1>7, <1>8 DEF AssetInv

\* Once given up, for good.
LEMMA GivenUpStays ==
  ASSUME AssetInv, NEW a \in 1..ScanAssets, GivenUp(a), StoreStep \/ ProcessDies \/ LosePower
  PROVE  GivenUp(a)'
<1>1. AssetTypeOK /\ RowInv /\ (\A w \in Writers : WriterInv(w)) /\ a \in Assets /\ "scan" \in Writers
  BY OwnedAssets DEF AssetInv
<1>2. ~row[a].now /\ ~row[a].disk
  BY <1>1 DEF GivenUp, RowInv
<1>3. CASE BeginScan \/ BeginSet
  <2>1. BeginSet /\ UNCHANGED row
    BY <1>3 DEF BeginScan, BeginSet, GivenUp
  <2>2. Commits("set", 0) /\ "set" \in Writers /\ 0 \in Assets
    BY <2>1, OwnedAssets DEF BeginSet
  <2>3. writer'["scan"] = writer["scan"]
    BY <1>1, <2>2, WriterCommits
  <2> QED BY <2>1, <2>3 DEF GivenUp
<1>4. ASSUME NEW w \in Writers, CommitAsset(w) PROVE GivenUp(a)'
  <2>1. writer[w].at \in Working /\ CommitFrame(w, writer[w].asset)
    BY <1>1, <1>4, CommitStep
  <2>2. w # "scan" /\ UNCHANGED row
    BY <1>4, <2>1 DEF GivenUp, CommitAsset
  <2> QED BY <1>1, <2>1, <2>2 DEF GivenUp, CommitFrame
<1>5. ASSUME NEW w \in Writers, CommitFails(w) \/ InsertFails(w) PROVE GivenUp(a)'
  <2>1. PICK s \in Stages : GivesUp(w, s) /\ UNCHANGED row /\ writer[w].at \in Working \cup {"rows"}
    BY <1>5 DEF CommitFails, InsertFails, Stages, Working
  <2>2. w # "scan"
    BY <2>1 DEF GivenUp
  <2>3. writer'["scan"] = writer["scan"]
    BY <1>1, <2>1, <2>2, WriterFails
  <2> QED BY <2>1, <2>3 DEF GivenUp
<1>6. ASSUME NEW w \in Writers, InsertRows(w) PROVE GivenUp(a)'
  <2>1. w # "scan" /\ w = "set" /\ a \notin OwnAssets(w)
    BY <1>6, OwnedAssets DEF InsertRows, GivenUp
  <2>2. WriterTo(w, "done") /\ "done" \in Places /\ row'[a] = row[a]
    BY <1>1, <1>6, <2>1 DEF InsertRows, Places
  <2>3. writer'["scan"] = writer["scan"]
    BY <1>1, <2>1, <2>2, WriterMoves
  <2> QED BY <2>2, <2>3 DEF GivenUp
<1>7. CASE CompleteJournal \/ RemoveStaging
  <2>1. PICK place \in {"unstage", "done"} : WriterTo("scan", place) /\ place \in Places /\ UNCHANGED row
    BY <1>7 DEF CompleteJournal, RemoveStaging, Places
  <2>2. writer'["scan"].at = place
    BY <1>1, <2>1, WriterMoves
  <2> QED BY <2>1, <2>2 DEF GivenUp, Working, Before, Finalized
<1>8. CASE Checkpoint
  <2>1. row[a] \in EntryType /\ row'[a] = Synced(row[a]) /\ UNCHANGED writer
    BY <1>1, <1>8 DEF Checkpoint, AssetTypeOK
  <2> QED BY <2>1, EntryChanges DEF GivenUp
<1>9. CASE Discover
  BY <1>9 DEF Discover, GivenUp
<1>10. ASSUME ProcessDies \/ LosePower PROVE GivenUp(a)'
  <2>1. writer'["scan"] = Halted("scan") /\ writer["scan"] \in WriterType
    BY <1>1, <1>10 DEF ProcessDies, LosePower, AssetTypeOK
  <2>2. writer'["scan"].at \in {writer["scan"].at, "dead"}
    BY <2>1 DEF Halted, WriterType
  <2>3. ~row'[a].now
    <3>1. CASE ProcessDies
      BY <1>2, <3>1 DEF ProcessDies
    <3>2. CASE LosePower
      <4>1. PICK gone \in BOOLEAN : row'[a] = After(row[a], gone)
        BY <1>1, <3>2 DEF LosePower
      <4>2. After(row[a], gone).now = IF gone THEN row[a].disk ELSE row[a].now
        BY <1>1, PowerlessEntry DEF AssetTypeOK
      <4> QED BY <1>2, <4>1, <4>2
    <3> QED BY <1>10, <3>1, <3>2
  <2> QED BY <2>2, <2>3 DEF GivenUp, Working, Before, Finalized
<1> QED BY <1>3, <1>4, <1>5, <1>6, <1>7, <1>8, <1>9, <1>10 DEF StoreStep, WriterStep

\* While the check has the lock nothing of the scan is added.
LEMMA CheckedStays ==
  ASSUME AssetInv, mutex = "check", StoreStep
  PROVE  /\ mutex' = mutex /\ orphans' = orphans
         /\ \A b \in 1..ScanAssets :
              final'[b].now = final[b].now /\ row'[b].now = row[b].now /\ tmp'[b].now = tmp[b].now
         /\ staging'.now => staging.now
         /\ journal' => journal
<1>1. /\ AssetTypeOK /\ (\A w \in Writers : WriterInv(w)) /\ "scan" \in Writers /\ Writers = {"scan", "set"}
      /\ writer["scan"].at \notin Working \cup {"rows"}
      /\ \A b \in 1..ScanAssets : b \in Assets /\ b \notin OwnAssets("set")
  BY OwnedAssets DEF AssetInv, PictureInv
<1>2. ~BeginScan /\ ~Discover
  BY DEF BeginScan, Discover
<1>3. CASE BeginSet
  BY <1>3 DEF BeginSet
<1>4. ASSUME NEW w \in Writers, CommitAsset(w)
      PROVE  /\ UNCHANGED <<mutex, orphans, row, staging, journal>>
             /\ \A b \in 1..ScanAssets : final'[b].now = final[b].now /\ tmp'[b].now = tmp[b].now
  <2>1. /\ writer[w].at \in Working /\ writer[w].asset \in OwnAssets(w)
        /\ CommitFrame(w, writer[w].asset)
    BY <1>1, <1>4, CommitStep
  <2>2. w = "set" /\ UNCHANGED <<mutex, orphans, row, staging, journal>>
    BY <1>1, <1>4, <2>1 DEF CommitAsset
  <2> QED BY <1>1, <2>1, <2>2 DEF CommitFrame
<1>5. ASSUME NEW w \in Writers, CommitFails(w)
      PROVE  /\ UNCHANGED <<mutex, orphans, row, staging, journal, final>>
             /\ \A b \in 1..ScanAssets : tmp'[b] = tmp[b]
  <2>1. writer[w].at \in Working /\ w = "set"
    BY <1>1, <1>5 DEF CommitFails, Working
  <2>2. writer[w].asset \in OwnAssets("set")
    BY <1>1, <2>1 DEF WriterInv, OrderInv
  <2>3. mutex' = mutex
    BY <1>5, <2>1 DEF CommitFails, GivesUp, Unlocked
  <2> QED BY <1>1, <1>5, <2>2, <2>3 DEF CommitFails, AssetTypeOK
<1>6. ASSUME NEW w \in Writers PROVE ~InsertRows(w) /\ ~InsertFails(w)
  BY <1>1 DEF InsertRows, InsertFails
<1>7. CASE CompleteJournal \/ RemoveStaging
  <2>1. ~Removed(staging).now
    BY <1>1, EntryChanges DEF AssetTypeOK
  <2> QED BY <1>7, <2>1 DEF CompleteJournal, RemoveStaging
<1>8. CASE Checkpoint
  <2>1. \A b \in 1..ScanAssets : row[b] \in EntryType /\ row'[b] = Synced(row[b])
    BY <1>1, <1>8 DEF Checkpoint, AssetTypeOK
  <2>2. \A b \in 1..ScanAssets : row'[b].now = row[b].now
    BY <2>1, EntryChanges
  <2> QED BY <1>8, <2>2 DEF Checkpoint
<1> QED BY <1>2, <1>3, <1>4, <1>5, <1>6, <1>7, <1>8 DEF StoreStep, WriterStep

\* An unreferenced file of the scan, seen while nobody has the lock or the
\* check has it, is one that its registration gave up.
LEMMA UnreferencedIsGivenUp ==
  ASSUME AssetInv, mutex \in {"free", "check"}, NEW a \in 1..ScanAssets, final[a].now, ~row[a].now
  PROVE  GivenUp(a)
<1>1. WriterInv("scan") /\ PictureInv /\ a \in OwnAssets("scan")
  BY OwnedAssets DEF AssetInv
<1> QED BY <1>1 DEF GivenUp, WriterInv, OwnInv, PictureInv, NoFinal

\* The step from one directory's entries to their findings.
LEMMA TreeFindings ==
  ASSUME AssetInv, CheckInv, CheckTree
  PROVE  CheckInv'
<1> DEFINE orphanly == {l \in check.listed : ~(l[1] = "final" /\ l[2] \in Known)}
           new == {Finding(Code[e[1]], e[2]) : e \in orphanly}
<1>1. /\ check.at \in {"final", "tmp"}
      /\ check.listed \subseteq FinalEntries \cup TmpEntries
      /\ check'.at = (IF check.at = "final" THEN "temporary" ELSE "complete")
      /\ check'.listed = {} /\ check'.found = check.found \cup new
      /\ UNCHANGED <<writer, tmp, final, row, staging, journal, mutex, orphans>>
  BY DEF CheckTree, CheckGoes
<1>2. \A l \in check.listed : l = <<l[1], l[2]>> /\ l[1] \in Kinds /\ l[2] \in Assets
  BY DEF CheckInv, CheckTypeOK
<1>3. Code["final"] = "ORPHAN_FINAL_ASSET" /\ Code["tmp"] = "ORPHAN_TEMP_FILE"
      /\ Code["staging"] = "RECOVERABLE_STAGING_FILE" /\ Code["journal"] = "INCOMPLETE_COMMIT_JOURNAL"
  BY DEF Code
<1>4. new \subseteq Codes \X Assets
  <2> SUFFICES ASSUME NEW e \in orphanly
               PROVE  <<Code[e[1]], e[2]>> \in Codes \X Assets
    BY DEF Finding
  <2>1. e[1] \in Kinds /\ e[2] \in Assets
    BY <1>2
  <2> QED BY <1>3, <2>1 DEF Kinds, Codes
<1>5. \A l \in orphanly : <<Code[l[1]], l[2]>> \in new
  BY DEF Finding
<1>6. CheckTypeOK'
  BY <1>1, <1>4 DEF CheckInv, CheckTypeOK
<1>7. mutex = "check"
  BY <1>1 DEF CheckInv, CheckTypeOK
<1>8. \A a \in 1..ScanAssets : <<"ORPHAN_FINAL_ASSET", a>> \in new => final[a].now /\ ~row[a].now
  <2> SUFFICES ASSUME NEW a \in 1..ScanAssets, <<"ORPHAN_FINAL_ASSET", a>> \in new
               PROVE  final[a].now /\ ~row[a].now
    OBVIOUS
  <2>1. PICK e \in orphanly : Code[e[1]] = "ORPHAN_FINAL_ASSET" /\ e[2] = a
    BY DEF Finding
  <2>2. e[1] = "final"
    BY <1>2, <1>3, <2>1 DEF Kinds
  <2>3. e = <<"final", a>> /\ a \in Assets
    BY <1>2, <2>1, <2>2
  <2>4. <<"final", a>> \in FinalEntries \cup TmpEntries
    BY <1>1, <2>1, <2>3
  <2>5. final[a].now
    BY <2>4 DEF FinalEntries, TmpEntries
  <2>6. a \notin Known
    BY <2>1, <2>2
  <2> QED BY <2>3, <2>5, <2>6 DEF Known
<1> HIDE DEF new
<1>9. OrphanInv'
  <2> SUFFICES ASSUME NEW a \in 1..ScanAssets, <<"ORPHAN_FINAL_ASSET", a>> \in check'.found
               PROVE  GivenUp(a)
    BY <1>1 DEF CheckInv, OrphanInv, GivenUp
  <2> QED BY <1>1, <1>7, <1>8, UnreferencedIsGivenUp DEF CheckInv, OrphanInv
<1>10. ListedInv'
  BY <1>1 DEF ListedInv
<1>11. FoundInv'
  <2>1. CASE check.at = "final"
    <3>1. ASSUME NEW b \in 1..ScanAssets, final[b].now, ~row[b].now
          PROVE  <<"ORPHAN_FINAL_ASSET", b>> \in new
      <4>1. <<"final", b>> \in check.listed
        BY <2>1, <3>1 DEF CheckInv, ListedInv
      <4>2. <<"final", b>> \in orphanly
        BY <3>1, <4>1 DEF Known
      <4> QED BY <1>3, <1>5, <4>2
    <3> QED BY <1>1, <2>1, <3>1 DEF FoundInv
  <2>2. CASE check.at = "tmp"
    <3>1. \A l \in check.listed : <<Code[l[1]], l[2]>> \in new
      BY <1>5, <2>2 DEF CheckInv, ListedInv
    <3>2. /\ \A b \in 1..ScanAssets : tmp[b].now => <<"ORPHAN_TEMP_FILE", b>> \in new
          /\ staging.now => <<"RECOVERABLE_STAGING_FILE", OriginalAsset>> \in new
          /\ journal => <<"INCOMPLETE_COMMIT_JOURNAL", OriginalAsset>> \in new
      BY <1>3, <2>2, <3>1 DEF CheckInv, ListedInv
    <3> QED BY <1>1, <2>2, <3>2 DEF CheckInv, FoundInv
  <2> QED BY <1>1, <2>1, <2>2
<1> QED BY <1>6, <1>9, <1>10, <1>11 DEF CheckInv

LEMMA ListingIsWhole ==
  ASSUME AssetInv, CheckInv, ListTree
  PROVE  CheckInv'
<1>1. PICK listed : /\ check'.listed = listed /\ check'.found = check.found
                    /\ \/ check.at = "assets" /\ check'.at = "final" /\ listed = FinalEntries
                       \/ check.at = "temporary" /\ check'.at = "tmp" /\ listed = TmpEntries
                    /\ UNCHANGED <<writer, tmp, final, row, staging, journal, mutex, orphans>>
  BY DEF ListTree, CheckGoes
<1>2. /\ FinalEntries \subseteq Kinds \X Assets /\ \A l \in FinalEntries : l[1] = "final"
      /\ \A b \in 1..ScanAssets : final[b].now => <<"final", b>> \in FinalEntries
  <2>1. \A a \in Assets : <<"final", a>> \in Kinds \X Assets /\ <<"final", a>>[1] = "final"
    BY DEF Kinds
  <2>2. FinalEntries \subseteq Kinds \X Assets /\ \A l \in FinalEntries : l[1] = "final"
    BY <2>1 DEF FinalEntries
  <2>3. \A b \in 1..ScanAssets : b \in Assets
    BY OwnedAssets
  <2> QED BY <2>2, <2>3 DEF FinalEntries
<1>3. /\ TmpEntries \subseteq Kinds \X Assets /\ \A l \in TmpEntries : l[1] # "final"
      /\ \A b \in 1..ScanAssets : tmp[b].now => <<"tmp", b>> \in TmpEntries
      /\ staging.now => <<"staging", OriginalAsset>> \in TmpEntries
      /\ journal => <<"journal", OriginalAsset>> \in TmpEntries
  <2>1. \A a \in Assets, k \in Kinds : <<k, a>> \in Kinds \X Assets /\ <<k, a>>[1] = k
    OBVIOUS
  <2>2. \A l \in TmpEntries : \E a \in Assets, k \in Kinds \ {"final"} : l = <<k, a>>
    BY OwnedAssets DEF TmpEntries, Kinds
  <2>3. TmpEntries \subseteq Kinds \X Assets /\ \A l \in TmpEntries : l[1] # "final"
    BY <2>1, <2>2
  <2>4. \A b \in 1..ScanAssets : tmp[b].now => <<"tmp", b>> \in TmpEntries
    <3>1. \A b \in 1..ScanAssets : b \in Assets
      BY OwnedAssets
    <3> QED BY <3>1 DEF TmpEntries
  <2>5. /\ staging.now => <<"staging", OriginalAsset>> \in TmpEntries
        /\ journal => <<"journal", OriginalAsset>> \in TmpEntries
    BY DEF TmpEntries
  <2> QED BY <2>3, <2>4, <2>5
<1>4. CheckTypeOK'
  BY <1>1, <1>2, <1>3 DEF CheckInv, CheckTypeOK
<1>5. ListedInv'
  <2>1. CASE check'.at = "final"
    BY <1>1, <1>2, <2>1 DEF ListedInv
  <2>2. CASE check'.at = "tmp"
    BY <1>1, <1>3, <2>2 DEF ListedInv
  <2> QED BY <1>1, <2>1, <2>2
<1>6. FoundInv' /\ OrphanInv'
  BY <1>1 DEF CheckInv, FoundInv, OrphanInv, GivenUp
<1> QED BY <1>4, <1>5, <1>6 DEF CheckInv

\* Each row names a file, so that the rows give no finding.
LEMMA RowsHaveFiles ==
  ASSUME AssetInv
  PROVE  RegisteredIsIntact /\ RowFindings = {}
<1>1. \A a \in Assets : row[a].now => Intact(a)
  BY DEF AssetInv, RowInv, Secure, Intact
<1> QED BY <1>1 DEF RegisteredIsIntact, RowFindings, Known, Matches, Intact

LEMMA CheckKept ==
  ASSUME AssetInv, CheckInv, [CheckNext]_checkVars
  PROVE  AssetInv' /\ CheckInv'
<1>1. CASE StoreStep /\ UNCHANGED check
  <2>1. AssetInv'
    BY <1>1, StoreKeeps
  <2>2. OrphanInv'
    <3>1. \A a \in 1..ScanAssets : <<"ORPHAN_FINAL_ASSET", a>> \in check'.found => GivenUp(a)'
      BY <1>1, GivenUpStays DEF CheckInv, OrphanInv
    <3>2. \A a \in orphans' \ {0} : a \in 1..ScanAssets /\ GivenUp(a)'
      <4>1. CASE orphans' = orphans
        BY <1>1, <4>1, GivenUpStays DEF CheckInv, OrphanInv
      <4>2. CASE Discover
        <5>1. \A a \in Unreferenced \ {0} : a \in 1..ScanAssets /\ final[a].now /\ ~row[a].now
          BY OwnedAssets DEF Unreferenced
        <5>2. \A a \in Unreferenced \ {0} : GivenUp(a)
          BY <4>2, <5>1, UnreferencedIsGivenUp DEF Discover
        <5> QED BY <4>2, <5>1, <5>2 DEF Discover, GivenUp
      <4>3. orphans' = orphans \/ Discover
        BY <1>1 DEF StoreStep, WriterStep, BeginScan, BeginSet, CommitAsset, CommitFails, InsertRows,
           InsertFails, CompleteJournal, RemoveStaging, Checkpoint
      <4> QED BY <4>1, <4>2, <4>3
    <3> QED BY <3>1, <3>2 DEF OrphanInv
  <2>3. CASE check.at = "none"
    BY <1>1, <2>1, <2>2, <2>3 DEF CheckInv, CheckTypeOK, ListedInv, FoundInv
  <2>4. CASE check.at # "none"
    <3>1. mutex = "check"
      BY <2>4 DEF CheckInv, CheckTypeOK
    <3>2. /\ mutex' = mutex
          /\ \A b \in 1..ScanAssets :
               final'[b].now = final[b].now /\ row'[b].now = row[b].now /\ tmp'[b].now = tmp[b].now
          /\ staging'.now => staging.now
          /\ journal' => journal
      BY <1>1, <3>1, CheckedStays
    <3>3. CheckTypeOK'
      BY <1>1, <3>2 DEF CheckInv, CheckTypeOK
    <3>4. ListedInv'
      BY <1>1, <3>2 DEF CheckInv, ListedInv
    <3>5. FoundInv'
      BY <1>1, <3>2 DEF CheckInv, FoundInv
    <3> QED BY <2>1, <2>2, <3>3, <3>4, <3>5 DEF CheckInv
  <2> QED BY <2>1, <2>3, <2>4
<1>2. CASE (ProcessDies \/ LosePower) /\ check' = NoCheck
  <2>1. AssetInv'
    BY <1>2, DeathKeeps, PowerKeeps
  <2>2. orphans' = orphans
    BY <1>2 DEF ProcessDies, LosePower
  <2>3. OrphanInv'
    BY <1>2, <2>2, GivenUpStays DEF CheckInv, OrphanInv, NoCheck
  <2>4. CheckTypeOK' /\ ListedInv' /\ FoundInv'
    BY <1>2 DEF CheckTypeOK, ListedInv, FoundInv, NoCheck
  <2> QED BY <2>1, <2>3, <2>4 DEF CheckInv
<1>3. CASE CheckerStep
  <2>1. AssetInv'
    BY <1>3, CheckerKeeps DEF CheckInv
  <2>2. CASE StartCheck
    <3>1. /\ check'.at = "rows" /\ check'.listed = {} /\ check'.found = {} /\ mutex' = "check"
          /\ UNCHANGED <<writer, row, orphans>>
      BY <2>2 DEF StartCheck, NoCheck
    <3>2. CheckTypeOK' /\ ListedInv' /\ FoundInv'
      BY <3>1 DEF CheckTypeOK, ListedInv, FoundInv
    <3>3. OrphanInv'
      BY <3>1 DEF CheckInv, OrphanInv, GivenUp
    <3> QED BY <2>1, <3>2, <3>3 DEF CheckInv
  <2>3. CASE CheckRows
    <3>1. /\ check'.at = "assets" /\ check'.listed = {} /\ check'.found = check.found
          /\ check.at = "rows"
          /\ UNCHANGED <<writer, row, orphans, mutex>>
      BY <2>3, RowsHaveFiles DEF CheckRows, CheckGoes
    <3>2. CheckTypeOK' /\ ListedInv' /\ FoundInv'
      BY <3>1 DEF CheckInv, CheckTypeOK, ListedInv, FoundInv
    <3>3. OrphanInv'
      BY <3>1 DEF CheckInv, OrphanInv, GivenUp
    <3> QED BY <2>1, <3>2, <3>3 DEF CheckInv
  <2>4. CASE ListTree
    BY <2>1, <2>4, ListingIsWhole
  <2>5. CASE CheckTree
    BY <2>1, <2>5, TreeFindings
  <2>6. CASE CompleteCheck \/ CancelCheck \/ FailCheck
    <3>1. /\ check' = NoCheck /\ mutex' = "free" /\ orphans' \in {orphans, OrphanFindings}
          /\ UNCHANGED <<writer, row>>
      BY <2>6 DEF CompleteCheck, CancelCheck, FailCheck, EndCheck
    <3>2. CheckTypeOK' /\ ListedInv' /\ FoundInv'
      BY <3>1 DEF CheckTypeOK, ListedInv, FoundInv, NoCheck
    <3>3. \A a \in OrphanFindings \ {0} : a \in 1..ScanAssets /\ GivenUp(a)
      BY OwnedAssets DEF OrphanFindings, Finding, CheckInv, OrphanInv
    <3>4. OrphanInv'
      BY <3>1, <3>3 DEF CheckInv, OrphanInv, GivenUp, NoCheck
    <3> QED BY <2>1, <3>2, <3>4 DEF CheckInv
  <2> QED BY <1>3, <2>2, <2>3, <2>4, <2>5, <2>6 DEF CheckerStep
<1>4. CASE UNCHANGED checkVars
  <2>1. AssetInv'
    BY <1>4, LockKeeps DEF checkVars, assetVars, AssetInv, AssetTypeOK
  <2>2. CheckInv'
    BY <1>4 DEF checkVars, assetVars, CheckInv, CheckTypeOK, ListedInv, FoundInv, OrphanInv, GivenUp
  <2> QED BY <2>1, <2>2
<1> QED BY <1>1, <1>2, <1>3, <1>4 DEF CheckNext, StoreStep, CheckerStep

-----------------------------------------------------------------------------
(* Whatever fails, dies or loses power: what a row of the table names is a    *)
(* complete file, the original write-protected (assets/commit.rs).            *)
THEOREM RowsAreIntact == CheckSpec => []RegisteredIsIntact
<1>1. AssetInv => RegisteredIsIntact
  BY RowsHaveFiles
<1> QED BY <1>1, AssetInitial, CheckKept, PTL DEF CheckSpec

(* An interrupted registration stays visible: its journal and its staging     *)
(* file while power lasts, the true stage of its failure, and the picture for *)
(* ever (create_scan.rs, staging.rs, assets/commit.rs).                       *)
THEOREM LeftoversAreVisible == CheckSpec => []InterruptedIsVisible
<1>1. ASSUME AssetInv
      PROVE  InterruptedIsVisible
  <2>1. /\ PictureInv /\ RowInv /\ \A w \in Writers : ReportInv(w)
        /\ \A w \in Writers : \A b \in OwnAssets(w) : b \in Assets
        /\ \A b \in 1..ScanAssets : b \in Assets
    BY <1>1, OwnedAssets DEF AssetInv, WriterInv
  <2>2. \A b \in Assets : Secure(b) => Intact(b)
    BY DEF Secure, Intact
  <2>3. staging.now \/ Intact(OriginalAsset)
    BY <2>1, <2>2, OwnedAssets DEF PictureInv
  <2>4. powered => \A a \in 1..ScanAssets : final[a].now /\ ~row[a].now => journal /\ staging.now
    BY <2>1 DEF PictureInv, NoFinal
  <2>5. ASSUME NEW w \in Writers
        PROVE  LET a == writer[w].asset IN
               /\ report[w] = "before_finalization" => ~final[a].now
               /\ report[w] # "none" => ~row[a].now
               /\ report[w] = "database_registration_rolled_back" =>
                    \A b \in OwnAssets(w) : Intact(b) /\ ~row[b].now
    BY <2>1, <2>2 DEF ReportInv, NoFinal, NoRow
  <2> QED BY <2>3, <2>4, <2>5 DEF InterruptedIsVisible
<1> QED BY <1>1, AssetInitial, CheckKept, PTL DEF CheckSpec

(* What discovery or an integrity check calls an orphan of a scan never gets  *)
(* a row, and the report of a complete check holds all that an interrupted    *)
(* registration left and no registered asset (integrity_filesystem.rs).       *)
THEOREM ReportIsTrue == CheckSpec => []ReportsAreTrue
<1>1. ASSUME AssetInv, CheckInv
      PROVE  ReportsAreTrue
  <2>1. \A a \in orphans \ {0} : ~row[a].now
    BY <1>1 DEF CheckInv, OrphanInv, GivenUp
  <2>2. ASSUME check.at = "complete"
        PROVE  Interrupted \subseteq check.found
    <3>1. Assets \ {0} = 1..ScanAssets
      BY AssetsAssumption DEF Assets
    <3> QED BY <1>1, <2>2, <3>1 DEF CheckInv, FoundInv, Interrupted, Finding
  <2>3. \A f \in check.found : f[1] \notin {"FILE_MISSING", "MISMATCH"}
    BY <1>1 DEF CheckInv, CheckTypeOK, Codes
  <2> QED BY <2>1, <2>2, <2>3 DEF ReportsAreTrue
<1> QED BY <1>1, AssetInitial, CheckKept, PTL DEF CheckSpec
=============================================================================
