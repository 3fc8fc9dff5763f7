--------------------------- MODULE IntegrityCheck ---------------------------
(* The integrity check of a library over the asset store it looks at: it has  *)
(* the storage lock from its first query to its report, while the page-set    *)
(* generation commits files and a registration removes its journal and its    *)
(* staging file without that lock. A directory is listed, then each listed    *)
(* entry is looked at, so that an entry may be gone by then.                  *)
EXTENDS AssetStore

VARIABLE check  \* the running check: its step, the entries listed, its findings

checkVars == <<assetVars, check>>

NoCheck == [at |-> "none", listed |-> {}, found |-> {}]

Finding(code, a) == <<code, a>>

CheckInit == AssetInit /\ check = NoCheck

-----------------------------------------------------------------------------
CheckGoes(p, listed, found) ==
    /\ check' = [at |-> p, listed |-> listed, found |-> check.found \cup found]
    /\ UNCHANGED <<platform, writer, data, tmp, final, row, staging, journal, mutex,
                   report, orphans, powered, mishaps>>

\* Faulty: the check looks at the library without the storage lock.
FaultyStartCheck ==
    /\ mutex = "free" /\ check.at = "none"
    /\ check' = [NoCheck EXCEPT !.at = "rows"]
    /\ UNCHANGED assetVars

StartCheck ==
    /\ mutex = "free" /\ check.at = "none"
    /\ check' = [NoCheck EXCEPT !.at = "rows"]
    /\ mutex' = "check"
    /\ UNCHANGED <<platform, writer, data, tmp, final, row, staging, journal, report, orphans,
                   powered, mishaps>>

\* load_assets: the paths that the rows name.
Known == {a \in Assets : row[a].now}

\* Length and, when asked for, digest; a torn file may keep its length.
Matches(a) == data[a].content = "full"

RowFindings ==
    {Finding("FILE_MISSING", a) : a \in {b \in Known : ~final[b].now}}
      \cup {Finding("MISMATCH", a) : a \in {b \in Known : final[b].now /\ ~Matches(b)}}

CheckRows == check.at = "rows" /\ CheckGoes("assets", {}, RowFindings)

\* read_dir of assets/, then of tmp/ with its two directories.
FinalEntries == {<<"final", a>> : a \in {b \in Assets : final[b].now}}
TmpEntries ==
    {<<"tmp", a>> : a \in {b \in Assets : tmp[b].now}}
      \cup (IF staging.now THEN {<<"staging", OriginalAsset>>} ELSE {})
      \cup (IF journal THEN {<<"journal", OriginalAsset>>} ELSE {})

ListTree ==
    \/ check.at = "assets" /\ CheckGoes("final", FinalEntries, {})
    \/ check.at = "temporary" /\ CheckGoes("tmp", TmpEntries, {})

Code == [final |-> "ORPHAN_FINAL_ASSET", tmp |-> "ORPHAN_TEMP_FILE",
         staging |-> "RECOVERABLE_STAGING_FILE", journal |-> "INCOMPLETE_COMMIT_JOURNAL"]

\* A final file that a row names is none, everything else is a finding.
CheckTree ==
    /\ check.at \in {"final", "tmp"}
    /\ check.listed \subseteq FinalEntries \cup TmpEntries
    /\ CheckGoes(IF check.at = "final" THEN "temporary" ELSE "complete", {},
                 {Finding(Code[e[1]], e[2]) :
                    e \in {l \in check.listed : ~(l[1] = "final" /\ l[2] \in Known)}})

\* The report is returned and the lock released; what it calls orphans is what
\* a reviewed repair would start from.
EndCheck(found) ==
    /\ check' = NoCheck
    /\ mutex' = "free"
    /\ orphans' = found
    /\ UNCHANGED <<platform, writer, data, tmp, final, row, staging, journal, report, powered,
                   mishaps>>

OrphanFindings == {a \in Assets : Finding("ORPHAN_FINAL_ASSET", a) \in check.found}

CompleteCheck == check.at = "complete" /\ EndCheck(OrphanFindings)

\* The cancellation is looked at between all steps: the report says Cancelled
\* and holds what was found so far.
CancelCheck == check.at # "none" /\ EndCheck(OrphanFindings)

\* A limit is exceeded, or the metadata of an entry cannot be read, as when it
\* is gone since it was listed: the check is an error without a report.
FailCheck == check.at # "none" /\ EndCheck(orphans)

CheckNext ==
    \/ /\ \/ BeginScan \/ BeginSet \/ (\E w \in Writers : WriterStep(w))
          \/ CompleteJournal \/ RemoveStaging \/ Checkpoint \/ Discover
       /\ UNCHANGED check
    \/ (ProcessDies \/ LosePower) /\ check' = NoCheck
    \/ StartCheck \/ CheckRows \/ ListTree \/ CheckTree
    \/ CompleteCheck \/ CancelCheck \/ FailCheck

CheckSpec == CheckInit /\ [][CheckNext]_checkVars

-----------------------------------------------------------------------------
Interrupted ==
    {Finding("ORPHAN_FINAL_ASSET", a) : a \in {b \in Assets \ {0} : final[b].now /\ ~row[b].now}}
      \cup {Finding("ORPHAN_TEMP_FILE", a) : a \in {b \in Assets \ {0} : tmp[b].now}}
      \cup (IF staging.now THEN {Finding("RECOVERABLE_STAGING_FILE", OriginalAsset)} ELSE {})
      \cup (IF journal THEN {Finding("INCOMPLETE_COMMIT_JOURNAL", OriginalAsset)} ELSE {})

(* A final file of a scan that discovery or an integrity check called an      *)
(* orphan was given up by its registration: it never gets a row later, so a   *)
(* reviewed repair cannot collide with one. And the report of a complete      *)
(* check is whole: when the check lets go of the lock, whatever an            *)
(* interrupted registration left is in it, however the steps of the page-set  *)
(* generation and the end of a registration came between; and no row is       *)
(* reported, for each names its complete file.                                *)
ReportsAreTrue ==
    /\ \A a \in orphans \ {0} : ~row[a].now
    /\ check.at = "complete" =>
         /\ Interrupted \subseteq check.found
         /\ \A f \in check.found : f[1] \notin {"FILE_MISSING", "MISMATCH"}
=============================================================================
