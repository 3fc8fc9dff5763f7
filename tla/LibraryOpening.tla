--------------------------- MODULE LibraryOpening ---------------------------
(* Opening the database of a library: the history of migrations is validated, *)
(* sealed with digests where an older build left none, and continued to the   *)
(* catalog of the running build. Builds of different catalogs open the        *)
(* library one after the other, some with a migration that was changed; each  *)
(* statement may fail, the process may die, and power may be lost.            *)
(*                                                                            *)
(* Contents that a migration refuses (0003: two active notebooks, 0005: a     *)
(* preferred scan that contradicts its page) are not sound.                   *)
EXTENDS SequencesExt

CONSTANTS Versions,  \* bound: migrations of the largest catalog
          Guarded    \* the migration that refuses unsound contents

VARIABLES wal,    \* the states of the database since the last checkpoint
          build,  \* the running build: its catalog
          at,     \* where its opening is
          next    \* the next migration to apply

openingVars == <<wal, build, at, next>>

-----------------------------------------------------------------------------
\* Of each version there is the released text and name; one build in three
\* ships a version with another SQL text, or under another name.
Builds == {b \in [length : 1..Versions, version : 1..Versions, change : {"none", "sql", "name"}] :
             b.version <= b.length /\ (b.change = "none" => b.version = 1)}

\* validate_compiled_catalog: the versions are 1, 2, 3, ...
SqlOf(b, v)  == IF b.change = "sql" /\ b.version = v THEN "edited" ELSE "released"
NameOf(b, v) == IF b.change = "name" /\ b.version = v THEN "other" ELSE "first"

NoDigest == "null"
\* SQL that ran before digests were recorded; nobody knows which.
Unknown  == "unknown"

Row(name, digest) == [name |-> name, digest |-> digest]
\* schema_migrations (none, plain, or with the sealing digest column) and the
\* SQL that really ran.
Library(table, rows, schema) ==
    [table |-> table, rows |-> rows, schema |-> schema, sound |-> TRUE]
Legacy(n) == Library("plain", [i \in 1..n |-> Row("first", NoDigest)], [i \in 1..n |-> Unknown])

db == Last(wal)
Commit(d) == wal' = IF d = db THEN wal ELSE Append(wal, d)

OpeningInit ==
    /\ wal \in {<<Library("none", <<>>, <<>>)>>} \cup {<<Legacy(n)>> : n \in 0..Versions}
    /\ build \in Builds
    /\ at = "closed" /\ next = 1

-----------------------------------------------------------------------------
\* validate_applied_history: no version this build does not have, each with its
\* name, and with its digest where one is recorded.
ValidHistory(b, rows) ==
    /\ Len(rows) <= b.length
    /\ \A v \in DOMAIN rows :
         /\ rows[v].name = NameOf(b, v)
         /\ rows[v].digest \in {NoDigest, SqlOf(b, v)}

\* A2dBridge opens one client for the life of the process, and tries again
\* after an error.
Open ==
    /\ at = "closed" /\ at' = "create"
    /\ build' \in Builds /\ UNCHANGED <<wal, next>>

CreateTrackingTable ==
    /\ at = "create" /\ at' = "load"
    /\ Commit(IF db.table = "none" THEN [db EXCEPT !.table = "sealed"] ELSE db)
    /\ UNCHANGED <<build, next>>

LoadApplied ==
    /\ at = "load" /\ next' = Len(db.rows) + 1
    /\ at' = IF ValidHistory(build, db.rows) THEN "column" ELSE "refused"
    /\ UNCHANGED <<wal, build>>

AddHashColumn ==
    /\ at = "column" /\ at' = "backfill"
    /\ Commit([db EXCEPT !.table = "sealed"])
    /\ UNCHANGED <<build, next>>

\* One transaction seals the rows of older builds with this build's digests.
BackfillHashes ==
    /\ at = "backfill" /\ at' = "apply"
    /\ Commit([db EXCEPT !.rows = [v \in DOMAIN @ |->
                 IF @[v].digest = NoDigest THEN [@[v] EXCEPT !.digest = SqlOf(build, v)] ELSE @[v]]])
    /\ UNCHANGED <<build, next>>

Executed(d, v) == [d EXCEPT !.schema = Append(@, SqlOf(build, v))]
Recorded(d, v) == [d EXCEPT !.rows = Append(@, Row(NameOf(build, v), SqlOf(build, v)))]

Applicable(v) == v <= build.length /\ (v = Guarded => db.sound)

\* Faulty: the SQL of a migration commits before its row.
FaultyApplyOne ==
    /\ at = "apply" /\ Applicable(next)
    /\ wal' = wal \o <<Executed(db, next), Recorded(Executed(db, next), next)>>
    /\ next' = next + 1
    /\ UNCHANGED <<build, at>>

\* One transaction for the SQL of the migration and its row.
ApplyOne ==
    /\ at = "apply" /\ Applicable(next)
    /\ Commit(Recorded(Executed(db, next), next))
    /\ next' = next + 1
    /\ UNCHANGED <<build, at>>

\* The durable state is read again before the library counts as open.
VerifyFinal ==
    /\ at = "apply" /\ next > build.length
    /\ at' = IF /\ db.table = "sealed" /\ ValidHistory(build, db.rows)
                /\ Len(db.rows) = build.length
             THEN "opened" ELSE "refused"
    /\ UNCHANGED <<wal, build, next>>

\* A statement is refused, by unsound contents or for any other reason: the
\* opening ends with its error, and its transaction is rolled back.
StatementFails ==
    /\ at \in {"create", "load", "column", "backfill", "apply"} /\ at' = "refused"
    /\ UNCHANGED <<wal, build, next>>

\* Before the guard exists, the app may leave contents that it will refuse.
Use ==
    /\ at = "opened" /\ build.length < Guarded
    /\ Commit([db EXCEPT !.sound = FALSE])
    /\ UNCHANGED <<build, at, next>>

Ends ==
    /\ at # "closed" /\ at' = "closed" /\ next' = 1
    /\ UNCHANGED <<wal, build>>

\* synchronous=NORMAL: a loss of power takes the last commits of the log.
LosePower ==
    /\ at' = "closed" /\ next' = 1
    /\ \E n \in DOMAIN wal : wal' = SubSeq(wal, 1, n)
    /\ UNCHANGED build

Checkpoint ==
    /\ Len(wal) > 1 /\ wal' = <<db>>
    /\ UNCHANGED <<build, at, next>>

OpeningNext ==
    \/ Open \/ CreateTrackingTable \/ LoadApplied \/ AddHashColumn \/ BackfillHashes
    \/ ApplyOne \/ VerifyFinal \/ StatementFails
    \/ Use \/ Ends \/ LosePower \/ Checkpoint

OpeningSpec == OpeningInit /\ [][OpeningNext]_openingVars

-----------------------------------------------------------------------------
\* check_migrations of the integrity check.
MigrationFindings(b, rows) ==
    (IF Len(rows) # b.length THEN {"COUNT_MISMATCH"} ELSE {})
      \cup UNION {IF v > b.length THEN {"VERSION_UNSUPPORTED"}
                  ELSE (IF rows[v].name # NameOf(b, v) THEN {"IDENTITY_MISMATCH"} ELSE {})
                         \cup (IF rows[v].digest # SqlOf(b, v) THEN {"DIGEST_MISMATCH"} ELSE {}) :
                  v \in DOMAIN rows}

(* Whatever fails, dies or loses power while a library is opened, and by      *)
(* whichever builds: each state that may be on the disk records exactly the   *)
(* migrations that ran, in their order, and a digest is the one of the SQL    *)
(* that ran, unless that ran before digests. A build whose opening got past   *)
(* the validation is one that can open the library again wherever the opening *)
(* was cut; and in a library that is open the integrity check has nothing to  *)
(* say of the migrations, of which those since the digests ran as compiled.   *)
SchemaIsHistory ==
    /\ \A i \in DOMAIN wal :
         /\ Len(wal[i].rows) = Len(wal[i].schema)
         /\ \A v \in DOMAIN wal[i].rows :
              wal[i].rows[v].digest \in {NoDigest, wal[i].schema[v]} \/ wal[i].schema[v] = Unknown
    /\ at \in {"column", "backfill", "apply", "opened"} => ValidHistory(build, db.rows)
    /\ at = "opened" =>
         /\ MigrationFindings(build, db.rows) = {}
         /\ \A v \in DOMAIN db.schema : db.schema[v] \in {Unknown, SqlOf(build, v)}
=============================================================================
