----------------------------- MODULE AssetStore -----------------------------
(* How asset files come into the library: the commit protocol of AssetStore,  *)
(* the scan registration and the page-set generation that run it and then     *)
(* insert their rows in one transaction, and the discovery of orphans; under  *)
(* failing calls, a death of the process and a loss of power.                 *)
(*                                                                            *)
(* A directory entry, a row and the staging file are what the process sees    *)
(* (now) and what a loss of power is sure to leave (disk). Assets 1.. belong  *)
(* to the scan, 1 is its original; asset 0 is the PDF of the page set.        *)
EXTENDS Integers

CONSTANTS ScanAssets,    \* how many assets a scan has
          MaxMishaps     \* bound: failing calls, deaths and losses of power

ASSUME AssetsAssumption == ScanAssets \in Nat \ {0} /\ MaxMishaps \in Nat

VARIABLES platform,   \* how a temp file gets its final name
          writer,     \* the two operations: where each is, at which asset
          data,       \* contents of the files
          tmp,        \* entries of tmp/
          final,      \* entries of assets/
          row,        \* table assets
          staging,    \* the picture to register
          journal,    \* the registration journal is visible
          mutex,      \* the operation that holds the storage lock
          report,     \* asset_commit_failure_stage of a failed operation
          orphans,    \* result of the last discovery
          powered,    \* history: no loss of power yet
          mishaps

assetVars == <<platform, writer, data, tmp, final, row, staging, journal, mutex, report,
               orphans, powered, mishaps>>

-----------------------------------------------------------------------------
Assets     == 0..ScanAssets
OriginalAsset == 1
Writers    == {"scan", "set"}
OwnAssets(w) == IF w = "scan" THEN 1..ScanAssets ELSE {0}
LastAsset(w) == IF w = "scan" THEN ScanAssets ELSE 0

NoEntry     == [now |-> FALSE, disk |-> FALSE]
OnDisk   == [now |-> TRUE, disk |-> TRUE]
NoFile   == [content |-> "none", synced |-> FALSE, readonly |-> FALSE]
Created(e)  == [e EXCEPT !.now = TRUE]
Removed(e)  == [e EXCEPT !.now = FALSE]
Synced(e)   == [e EXCEPT !.disk = e.now]
\* What a loss of power leaves of an entry.
After(e, lost) == IF lost THEN [e EXCEPT !.now = e.disk] ELSE Synced(e)

\* The steps of a commit before and after the file has its final name.
Before == {"create", "write", "protect", "sync", "verify", "finalize"}
Finalized == {"check", "syncFinal", "unlink", "syncTmp"}

AssetInit ==
    /\ platform \in {"linux", "android"}
    /\ writer = [w \in Writers |-> [at |-> "idle", asset |-> 0]]
    /\ data = [a \in Assets |-> NoFile]
    /\ tmp = [a \in Assets |-> NoEntry] /\ final = [a \in Assets |-> NoEntry]
    /\ row = [a \in Assets |-> NoEntry]
    /\ staging = OnDisk
    /\ journal = FALSE
    /\ mutex = "free"
    /\ report = [w \in Writers |-> "none"]
    /\ orphans = {} /\ powered = TRUE /\ mishaps = 0

-----------------------------------------------------------------------------
WriterTo(w, place)  == writer' = [writer EXCEPT ![w].at = place]
Commits(w, a)   == writer' = [writer EXCEPT ![w] = [at |-> "create", asset |-> a]]
Mishap          == mishaps < MaxMishaps /\ mishaps' = mishaps + 1
Unlocked(w)     == IF mutex = w THEN "free" ELSE mutex

\* An operation fails: its lock is released, everything it made stays.
GivesUp(w, stage) ==
    /\ WriterTo(w, "failed")
    /\ report' = [report EXCEPT ![w] = stage]
    /\ mutex' = Unlocked(w)

\* read_staged_capture: the staging file is there and is read whole. What makes
\* it another file than the camera's (outside the staging directory, changed
\* while it is read, undecodable) is left out.
StagedCapture == staging.now

\* register_scan has the lock from its first query to the end of its
\* transaction; the journal is created and synced before the first asset.
BeginScan ==
    /\ writer["scan"].at = "idle" /\ mutex = "free" /\ StagedCapture
    /\ Commits("scan", OriginalAsset)
    /\ mutex' = "scan"
    /\ journal' = TRUE
    /\ UNCHANGED <<platform, data, tmp, final, row, staging, report, orphans, powered, mishaps>>

\* generate_and_register_page_set commits its PDF without the lock.
BeginSet ==
    /\ writer["set"].at = "idle"
    /\ Commits("set", 0)
    /\ UNCHANGED <<platform, data, tmp, final, row, staging, journal, mutex, report, orphans, powered, mishaps>>

-----------------------------------------------------------------------------
\* commit_with_id_and_fault, one call to the file system after the other.

CreateTemp(w, a) ==
    /\ writer[w].at = "create" /\ WriterTo(w, "write")
    /\ tmp' = [tmp EXCEPT ![a] = Created(@)]
    /\ data' = [data EXCEPT ![a].content = "partial"]
    /\ UNCHANGED final

WriteTemp(w, a) ==
    /\ writer[w].at = "write" /\ WriterTo(w, "protect")
    /\ data' = [data EXCEPT ![a].content = "full"]
    /\ UNCHANGED <<tmp, final>>

ProtectOriginal(w, a) ==
    /\ writer[w].at = "protect" /\ WriterTo(w, "sync")
    /\ data' = [data EXCEPT ![a].readonly = a = OriginalAsset]
    /\ UNCHANGED <<tmp, final>>

\* Faulty: flush() stands for sync_all().
FaultySyncFile(w, a) ==
    /\ writer[w].at = "sync" /\ WriterTo(w, "verify")
    /\ UNCHANGED <<data, tmp, final>>

SyncFile(w, a) ==
    /\ writer[w].at = "sync" /\ WriterTo(w, "verify")
    /\ data' = [data EXCEPT ![a].synced = TRUE]
    /\ UNCHANGED <<tmp, final>>

\* The temp file is read again and compared with what was given.
VerifyTemp(w, a) ==
    /\ writer[w].at = "verify" /\ data[a].content = "full" /\ WriterTo(w, "finalize")
    /\ UNCHANGED <<data, tmp, final>>

\* A hard link keeps the temp entry, renameat2(RENAME_NOREPLACE) takes it.
FinalizeNoReplace(w, a) ==
    /\ writer[w].at = "finalize" /\ ~final[a].now /\ WriterTo(w, "check")
    /\ final' = [final EXCEPT ![a] = Created(@)]
    /\ tmp' = IF platform = "android" THEN [tmp EXCEPT ![a] = Removed(@)] ELSE tmp
    /\ UNCHANGED data

CheckFinal(w, a) ==
    /\ writer[w].at = "check" /\ final[a].now /\ data[a].content = "full"
    /\ a = OriginalAsset => data[a].readonly
    /\ WriterTo(w, "syncFinal")
    /\ UNCHANGED <<data, tmp, final>>

\* Each kind of asset has its directory, and a scan one asset of each.
SyncFinalDirectory(w, a) ==
    /\ writer[w].at = "syncFinal" /\ WriterTo(w, "unlink")
    /\ final' = [final EXCEPT ![a] = Synced(@)]
    /\ UNCHANGED <<data, tmp>>

UnlinkTemp(w, a) ==
    /\ writer[w].at = "unlink" /\ WriterTo(w, "syncTmp")
    /\ tmp' = [tmp EXCEPT ![a] = Removed(@)]
    /\ UNCHANGED <<data, final>>

\* The asset is committed: the scan journals it and goes on to the next.
SyncTempDirectory(w, a) ==
    /\ writer[w].at = "syncTmp"
    /\ tmp' = [b \in Assets |-> Synced(tmp[b])]
    /\ IF a = LastAsset(w) THEN WriterTo(w, "rows") ELSE Commits(w, a + 1)
    /\ UNCHANGED <<data, final>>

CommitAsset(w) ==
    LET a == writer[w].asset IN
    /\ \/ CreateTemp(w, a) \/ WriteTemp(w, a) \/ ProtectOriginal(w, a) \/ SyncFile(w, a)
       \/ VerifyTemp(w, a) \/ FinalizeNoReplace(w, a) \/ CheckFinal(w, a)
       \/ SyncFinalDirectory(w, a) \/ UnlinkTemp(w, a) \/ SyncTempDirectory(w, a)
    /\ UNCHANGED <<platform, row, staging, journal, mutex, report, orphans, powered, mishaps>>

\* A call fails before the file has its final name: the temp file is removed,
\* unless that fails too. Afterwards the final file stays, unregistered.
CommitFails(w) ==
    LET a == writer[w].asset IN
    /\ Mishap
    /\ \/ /\ writer[w].at \in Before
          /\ tmp' \in {tmp, [tmp EXCEPT ![a] = Removed(@)]}
          /\ GivesUp(w, "before_finalization")
       \/ /\ writer[w].at \in Finalized
          /\ GivesUp(w, "finalized_unregistered")
          /\ UNCHANGED tmp
    /\ UNCHANGED <<platform, data, final, row, staging, journal, orphans, powered>>

-----------------------------------------------------------------------------
\* The transaction: all rows of the operation, or none.
InsertRows(w) ==
    /\ writer[w].at = "rows" /\ mutex \in {w, "free"}
    /\ row' = [a \in Assets |-> IF a \in OwnAssets(w) THEN Created(row[a]) ELSE row[a]]
    /\ mutex' = "free"
    /\ WriterTo(w, IF w = "scan" THEN "complete" ELSE "done")
    /\ UNCHANGED <<platform, data, tmp, final, staging, journal, report, orphans, powered, mishaps>>

\* Faulty: the rollback cleans up.
FaultyInsertFails(w) ==
    /\ writer[w].at = "rows" /\ mutex \in {w, "free"}
    /\ Mishap
    /\ GivesUp(w, "database_registration_rolled_back")
    /\ journal' = FALSE
    /\ UNCHANGED <<platform, data, tmp, final, row, staging, orphans, powered>>

InsertFails(w) ==
    /\ writer[w].at = "rows" /\ mutex \in {w, "free"}
    /\ Mishap
    /\ GivesUp(w, "database_registration_rolled_back")
    /\ UNCHANGED <<platform, data, tmp, final, row, staging, journal, orphans, powered>>

\* The journal is removed, then the staging file; a failure is a warning.
CompleteJournal ==
    /\ writer["scan"].at = "complete" /\ WriterTo("scan", "unstage")
    /\ \/ journal' = FALSE /\ UNCHANGED mishaps
       \/ Mishap /\ UNCHANGED journal
    /\ UNCHANGED <<platform, data, tmp, final, row, staging, mutex, report, orphans, powered>>

RemoveStaging ==
    /\ writer["scan"].at = "unstage" /\ WriterTo("scan", "done")
    /\ \/ staging' = Removed(staging) /\ UNCHANGED mishaps
       \/ Mishap /\ UNCHANGED staging
    /\ UNCHANGED <<platform, data, tmp, final, row, journal, mutex, report, orphans, powered>>

\* SQLite moves the log to the database file: synchronous=NORMAL syncs only then.
Checkpoint ==
    /\ row' = [a \in Assets |-> Synced(row[a])]
    /\ row' # row
    /\ UNCHANGED <<platform, writer, data, tmp, final, staging, journal, mutex, report, orphans, powered, mishaps>>

-----------------------------------------------------------------------------
Unreferenced == {a \in Assets : final[a].now /\ ~row[a].now}

\* discover_orphaned_final_assets, in a method of the locked storage.
Discover ==
    /\ mutex = "free" /\ Unreferenced # orphans
    /\ orphans' = Unreferenced
    /\ UNCHANGED <<platform, writer, data, tmp, final, row, staging, journal, mutex, report, powered, mishaps>>

\* The process dies: what it sees stays, what it was doing does not.
Halted(w) == IF writer[w].at \in {"idle", "done", "failed"} THEN writer[w]
             ELSE [writer[w] EXCEPT !.at = "dead"]
ProcessDies ==
    /\ Mishap
    /\ writer' = [w \in Writers |-> Halted(w)] /\ mutex' = "free"
    /\ UNCHANGED <<platform, data, tmp, final, row, staging, journal, report, orphans, powered>>

\* Power is lost: of what was not synced, any part may have reached the disk.
\* Nobody syncs the directory entry of the journal.
LosePower ==
    /\ Mishap /\ powered' = FALSE
    /\ writer' = [w \in Writers |-> Halted(w)] /\ mutex' = "free"
    /\ \E torn, lost \in SUBSET Assets, unlogged \in SUBSET Writers, unstaged \in BOOLEAN :
         /\ torn \subseteq {a \in Assets : data[a].content = "full" /\ ~data[a].synced}
         /\ lost \subseteq {a \in Assets : final[a] # Synced(final[a]) \/ tmp[a] # Synced(tmp[a])}
         /\ data' = [a \in Assets |-> IF a \in torn THEN [data[a] EXCEPT !.content = "partial"] ELSE data[a]]
         /\ final' = [a \in Assets |-> After(final[a], a \in lost)]
         /\ tmp' = [a \in Assets |-> After(tmp[a], a \in lost)]
         /\ row' = [a \in Assets |-> After(row[a], \E w \in unlogged : a \in OwnAssets(w))]
         /\ staging' = After(staging, unstaged)
    /\ journal' \in {journal, FALSE}
    /\ UNCHANGED <<platform, report, orphans>>

WriterStep(w) == CommitAsset(w) \/ CommitFails(w) \/ InsertRows(w) \/ InsertFails(w)

AssetNext ==
    \/ BeginScan \/ BeginSet \/ (\E w \in Writers : WriterStep(w))
    \/ CompleteJournal \/ RemoveStaging
    \/ Checkpoint \/ Discover \/ ProcessDies \/ LosePower

AssetSpec == AssetInit /\ [][AssetNext]_assetVars

-----------------------------------------------------------------------------
(* AssetStore::verify and resolve accept the file of the asset.               *)
Intact(a) ==
    final[a].now /\ data[a].content = "full" /\ (a = OriginalAsset => data[a].readonly)

(* "Only after this function returns an Asset may the caller attempt the      *)
(* separate SQLite transaction": whatever fails, dies or loses power, and     *)
(* whichever part of the unsynced state survives, every row of the table      *)
(* names a complete file, and the original is still write-protected.          *)
RegisteredIsIntact == \A a \in Assets : row[a].now => Intact(a)

(* "If a commit is interrupted, the journal, staging file, and any            *)
(* already-committed assets remain visible": as long as power is not lost, a  *)
(* final file of the scan without its row has its journal and its staging     *)
(* file, whatever failed or died. And the stage an error reports is true when *)
(* recovery reads it, even after a loss of power: the final file of the       *)
(* failed asset does not exist, or exists without a row, or all final files   *)
(* of the operation exist without a row. And the picture is never lost: until *)
(* a loss of power can no longer take the original, the staging file is       *)
(* there; after one the rows may be gone with the journal and the staging     *)
(* file, but then discovery finds the complete original.                      *)
InterruptedIsVisible ==
    /\ staging.now \/ Intact(OriginalAsset)
    /\ powered =>
         \A a \in 1..ScanAssets : final[a].now /\ ~row[a].now => journal /\ staging.now
    /\ \A w \in Writers :
         LET a == writer[w].asset IN
         /\ report[w] = "before_finalization" => ~final[a].now
         /\ report[w] # "none" => ~row[a].now
         /\ report[w] = "database_registration_rolled_back" =>
               \A b \in OwnAssets(w) : Intact(b) /\ ~row[b].now
=============================================================================
