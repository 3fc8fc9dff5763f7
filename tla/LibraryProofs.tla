---------------------------- MODULE LibraryProofs ----------------------------
(* Proofs about four of the models of MCLibrary. The openings of a library:   *)
(* whatever it records of its migrations is what ran. The OCR queue of        *)
(* capacity one: a job that counts as recognized has text, which              *)
(* OcrQueueProofs shows of every queue and which is carried over to this one. *)
(* The comparison of two scans: what it finds and what it says of it. The     *)
(* record of a job under the contract of the OCR providers. And what printed  *)
(* codes say when they are read.                                              *)
EXTENDS MCLibrary, TLAPS, SequenceTheorems, FiniteSetTheorems

-----------------------------------------------------------------------------
\* The opening of a library.

Digests == {"null", "released", "edited"}

Databases == [table : {"none", "plain", "sealed"},
              rows : Seq([name : {"first", "other"}, digest : Digests]),
              schema : Seq({"unknown", "released", "edited"}),
              sound : BOOLEAN]

\* What each state that may be on the disk says of its migrations. Only what
\* ran before digests has none.
Recorded(d) ==
    /\ Len(d.rows) = Len(d.schema)
    /\ \A v \in 1..Len(d.rows) : d.schema[v] \in {d.rows[v].digest, "unknown"}

\* The rows were validated against build b, the table has digests, and each
\* row has the one of b.
Validated(b, d) == Opening!ValidHistory(b, d.rows)
Sealed(d) == d.table = "sealed"
Digested(b, d) == \A v \in 1..Len(d.rows) : d.rows[v].digest = Opening!SqlOf(b, v)

last == wal[Len(wal)]

OpeningInv ==
    /\ wal \in Seq(Databases) /\ Len(wal) > 0 /\ build \in Opening!Builds
    /\ \A i \in 1..Len(wal) : Recorded(wal[i])
    /\ at \in {"column", "backfill", "apply"} => next = Len(last.rows) + 1
    /\ at \in {"column", "backfill", "apply", "opened"} => Validated(build, last)
    /\ at \in {"backfill", "apply", "opened"} => Sealed(last)
    /\ at \in {"apply", "opened"} => Digested(build, last)
    /\ at = "opened" => Len(last.rows) = build.length

LEMMA LastState ==
    ASSUME wal \in Seq(Databases), Len(wal) > 0
    PROVE  Opening!db = last /\ last \in Databases
BY DEF Opening!db, Opening!Last, last

\* A commit adds a state, or none when it changes nothing.
LEMMA CommitAddsState ==
    ASSUME OpeningInv, NEW e \in Databases, Recorded(e), Opening!Commit(e)
    PROVE  /\ wal' \in Seq(Databases) /\ Len(wal') > 0 /\ last' = e
           /\ \A i \in 1..Len(wal') : Recorded(wal'[i])
<1>1. Opening!db = last /\ last \in Databases
  BY LastState DEF OpeningInv
<1>2. CASE wal' = wal /\ e = last
  BY <1>2 DEF OpeningInv, last
<1>3. CASE wal' = Append(wal, e)
  <2>1. Len(wal') = Len(wal) + 1 /\ wal'[Len(wal) + 1] = e
        /\ \A i \in 1..Len(wal) : wal'[i] = wal[i]
    BY <1>3 DEF OpeningInv
  <2>. QED
    BY <1>3, <2>1 DEF OpeningInv, last
<1>. QED
  BY <1>1, <1>2, <1>3 DEF Opening!Commit

LEMMA OpeningStarts ==
    ASSUME Opening!OpeningInit, Versions \in Nat
    PROVE  OpeningInv
<1>1. build \in Opening!Builds /\ at = "closed"
  BY DEF Opening!OpeningInit
<1>2. PICK d \in Databases : wal = <<d>> /\ Recorded(d)
  <2>1. CASE wal = <<Opening!Library("none", <<>>, <<>>)>>
    <3>. DEFINE d == Opening!Library("none", <<>>, <<>>)
    <3>1. d \in Databases /\ Recorded(d)
      BY DEF Opening!Library, Databases, Recorded
    <3>. QED
      BY <2>1, <3>1
  <2>2. ASSUME NEW n \in 0..Versions, wal = <<Opening!Legacy(n)>>
        PROVE  \E d \in Databases : wal = <<d>> /\ Recorded(d)
    <3>. DEFINE rows == [i \in 1..n |-> [name |-> "first", digest |-> "null"]]
                schema == [i \in 1..n |-> "unknown"]
                d == [table |-> "plain", rows |-> rows, schema |-> schema, sound |-> TRUE]
    <3>1. wal = <<d>>
      BY <2>2 DEF Opening!Legacy, Opening!Library, Opening!Row, Opening!NoDigest, Opening!Unknown
    <3>2. /\ rows \in Seq([name : {"first", "other"}, digest : Digests]) /\ Len(rows) = n
          /\ schema \in Seq({"unknown", "released", "edited"}) /\ Len(schema) = n
      BY DEF Digests
    <3>3. \A v \in 1..n : schema[v] = "unknown"
      OBVIOUS
    <3>. HIDE DEF rows, schema
    <3>4. d \in Databases /\ Recorded(d)
      BY <3>2, <3>3 DEF Databases, Recorded
    <3>. QED
      BY <3>1, <3>4
  <2>. QED
    BY <2>1, <2>2 DEF Opening!OpeningInit
<1>. QED
  BY <1>1, <1>2 DEF OpeningInv

\* What a build makes of version v.
LEMMA BuildType ==
    ASSUME NEW b \in Opening!Builds, NEW v
    PROVE  /\ Opening!SqlOf(b, v) \in {"released", "edited"}
           /\ Opening!NameOf(b, v) \in {"first", "other"}
           /\ b.length \in Nat
BY DEF Opening!SqlOf, Opening!NameOf, Opening!Builds

LEMMA CreateTable ==
    ASSUME OpeningInv, Opening!CreateTrackingTable
    PROVE  OpeningInv'
<1>. DEFINE d == IF last.table = "none" THEN [last EXCEPT !.table = "sealed"] ELSE last
<1>1. Opening!db = last /\ last \in Databases /\ Recorded(last)
  BY LastState DEF OpeningInv, last
<1>2. Opening!Commit(d) /\ at' = "load" /\ UNCHANGED build
  BY <1>1 DEF Opening!CreateTrackingTable
<1>3. d \in Databases /\ Recorded(d)
  BY <1>1 DEF Databases, Recorded
<1>. HIDE DEF d
<1>. QED
  BY <1>2, <1>3, CommitAddsState DEF OpeningInv

LEMMA LoadRows ==
    ASSUME OpeningInv, Opening!LoadApplied
    PROVE  OpeningInv'
<1>1. Opening!db = last /\ last \in Databases
  BY LastState DEF OpeningInv
<1>2. last' = last
  BY DEF last, Opening!LoadApplied
<1>. QED
  BY <1>1, <1>2 DEF OpeningInv, Opening!LoadApplied, Validated

LEMMA AddColumn ==
    ASSUME OpeningInv, Opening!AddHashColumn
    PROVE  OpeningInv'
<1>. DEFINE d == [last EXCEPT !.table = "sealed"]
<1>1. Opening!db = last /\ last \in Databases /\ Recorded(last)
  BY LastState DEF OpeningInv, last
<1>2. Opening!Commit(d) /\ at = "column" /\ at' = "backfill" /\ UNCHANGED <<build, next>>
  BY <1>1 DEF Opening!AddHashColumn
<1>3. /\ d \in Databases /\ Recorded(d) /\ d.rows = last.rows /\ Sealed(d)
  BY <1>1 DEF Databases, Recorded, Sealed
<1>4. next = Len(last.rows) + 1 /\ Validated(build, last)
  BY <1>2 DEF OpeningInv
<1>5. Validated(build, d)
  BY <1>3, <1>4 DEF Validated
<1>. HIDE DEF d
<1>. QED
  BY <1>2, <1>3, <1>4, <1>5, CommitAddsState DEF OpeningInv

LEMMA Backfill ==
    ASSUME OpeningInv, Opening!BackfillHashes
    PROVE  OpeningInv'
<1>. DEFINE rows == [v \in DOMAIN last.rows |->
                       IF last.rows[v].digest = "null"
                       THEN [last.rows[v] EXCEPT !.digest = Opening!SqlOf(build, v)]
                       ELSE last.rows[v]]
            d == [last EXCEPT !.rows = rows]
<1>1. Opening!db = last /\ last \in Databases /\ Recorded(last)
  BY LastState DEF OpeningInv, last
<1>2. Opening!Commit(d) /\ at = "backfill" /\ at' = "apply" /\ UNCHANGED <<build, next>>
  BY <1>1 DEF Opening!BackfillHashes, Opening!NoDigest
<1>3. /\ next = Len(last.rows) + 1 /\ Validated(build, last) /\ Sealed(last)
      /\ build \in Opening!Builds
  BY <1>2 DEF OpeningInv
<1>4. /\ last.rows \in Seq([name : {"first", "other"}, digest : Digests])
      /\ last.schema \in Seq({"unknown", "released", "edited"})
      /\ last.table = "sealed"
  BY <1>1, <1>3 DEF Databases, Sealed
<1>5. /\ rows \in Seq([name : {"first", "other"}, digest : Digests])
      /\ Len(rows) = Len(last.rows)
  <2>. DEFINE S == [name : {"first", "other"}, digest : Digests]
  <2>1. DOMAIN last.rows = 1..Len(last.rows) /\ Len(last.rows) \in Nat
    BY <1>4
  <2>2. ASSUME NEW v \in DOMAIN last.rows PROVE rows[v] \in S
    <3>1. last.rows[v] \in S
      <4>1. last.rows \in Seq(S)
        BY <1>4
      <4>. HIDE DEF S, rows, d
      <4>. QED
        BY <2>1, <4>1
    <3>2. Opening!SqlOf(build, v) \in Digests
      BY <1>3, BuildType DEF Digests
    <3>. QED
      BY <3>1, <3>2
  <2>3. rows \in [1..Len(last.rows) -> S]
    BY <2>1, <2>2
  <2>. HIDE DEF rows, S
  <2>4. rows \in Seq(S) /\ Len(rows) = Len(last.rows)
    BY <2>1, <2>3
  <2>. QED
    BY <2>4 DEF S
<1>6. \A v \in 1..Len(rows) :
        /\ rows[v].name = last.rows[v].name
        /\ rows[v].digest = Opening!SqlOf(build, v)
        /\ last.rows[v].digest \in {"null", Opening!SqlOf(build, v)}
  BY <1>3, <1>4 DEF Validated, Opening!ValidHistory, Opening!NoDigest
<1>7. d \in Databases /\ d.rows = rows /\ d.schema = last.schema /\ d.table = "sealed"
  BY <1>1, <1>4, <1>5 DEF Databases
<1>8. Recorded(d)
  <2>. HIDE DEF d, rows
  <2>1. Len(last.rows) = Len(last.schema)
    BY <1>1 DEF Recorded
  <2>2. ASSUME NEW v \in 1..Len(rows)
        PROVE  last.schema[v] \in {rows[v].digest, "unknown"}
    <3>1. /\ last.schema[v] \in {last.rows[v].digest, "unknown"}
          /\ last.schema[v] \in {"unknown", "released", "edited"}
      BY <1>1, <1>4, <1>5, <2>1 DEF Recorded
    <3>. QED
      BY <1>6, <3>1
  <2>. QED
    BY <1>5, <1>7, <2>1, <2>2 DEF Recorded
<1>9. Validated(build, d) /\ Sealed(d) /\ Digested(build, d)
  <2>1. DOMAIN rows = 1..Len(rows) /\ DOMAIN last.rows = 1..Len(last.rows)
    BY <1>4, <1>5
  <2>. HIDE DEF rows, d
  <2>. QED
    BY <1>3, <1>5, <1>6, <1>7, <2>1 DEF Validated, Opening!ValidHistory, Sealed, Digested
<1>. HIDE DEF d, rows
<1>. QED
  BY <1>2, <1>3, <1>5, <1>7, <1>8, <1>9, CommitAddsState DEF OpeningInv

LEMMA Apply ==
    ASSUME OpeningInv, Opening!ApplyOne
    PROVE  OpeningInv'
<1>. DEFINE new == [name |-> Opening!NameOf(build, next), digest |-> Opening!SqlOf(build, next)]
            d == [last EXCEPT !.rows = Append(last.rows, new),
                              !.schema = Append(last.schema, Opening!SqlOf(build, next))]
<1>1. Opening!db = last /\ last \in Databases /\ Recorded(last)
  BY LastState DEF OpeningInv, last
<1>2. Opening!Commit(Opening!Recorded(Opening!Executed(last, next), next)) /\ at = "apply" /\ at' = "apply" /\ UNCHANGED build
      /\ next' = next + 1 /\ next <= build.length
  BY <1>1 DEF Opening!ApplyOne, Opening!Applicable
<1>3. /\ next = Len(last.rows) + 1 /\ Validated(build, last) /\ Sealed(last)
      /\ Digested(build, last) /\ build \in Opening!Builds
  BY <1>2 DEF OpeningInv
<1>4. /\ last.rows \in Seq([name : {"first", "other"}, digest : Digests])
      /\ last.schema \in Seq({"unknown", "released", "edited"})
      /\ last.table = "sealed"
  BY <1>1, <1>3 DEF Databases, Sealed
<1>5. new \in [name : {"first", "other"}, digest : Digests]
      /\ Opening!SqlOf(build, next) \in {"unknown", "released", "edited"}
  BY <1>3, BuildType DEF Digests
<1>6. Opening!Commit(d)
  <2>1. Opening!Recorded(Opening!Executed(last, next), next) = d
    BY <1>1 DEF Opening!Recorded, Opening!Executed, Opening!Row, Databases
  <2>. QED
    BY <1>2, <2>1
<1>7. d \in Databases /\ d.rows = Append(last.rows, new) /\ d.table = "sealed"
      /\ d.schema = Append(last.schema, Opening!SqlOf(build, next))
  <2>. DEFINE rows == Append(last.rows, new)
              schema == Append(last.schema, Opening!SqlOf(build, next))
  <2>1. /\ rows \in Seq([name : {"first", "other"}, digest : Digests])
        /\ schema \in Seq({"unknown", "released", "edited"})
    BY <1>4, <1>5
  <2>. HIDE DEF rows, schema, new
  <2>2. d = [last EXCEPT !.rows = rows, !.schema = schema]
    BY DEF rows, schema
  <2>. QED
    BY <1>1, <1>4, <2>1, <2>2 DEF Databases, rows, schema
<1>8. new.name = Opening!NameOf(build, next) /\ new.digest = Opening!SqlOf(build, next)
  OBVIOUS
<1>. HIDE DEF d, new
<1>9. /\ Len(d.rows) = Len(last.rows) + 1 /\ d.rows[next] = new
      /\ \A v \in 1..Len(last.rows) : d.rows[v] = last.rows[v]
      /\ DOMAIN d.rows = 1..next /\ DOMAIN last.rows = 1..Len(last.rows)
  BY <1>3, <1>4, <1>5, <1>7
<1>10. Recorded(d)
  <2>1. /\ Len(d.schema) = Len(last.schema) + 1 /\ d.schema[next] = Opening!SqlOf(build, next)
        /\ \A v \in 1..Len(last.schema) : d.schema[v] = last.schema[v]
    BY <1>1, <1>3, <1>4, <1>5, <1>7 DEF Recorded
  <2>2. Len(last.rows) = Len(last.schema) /\ Len(last.rows) \in Nat
    BY <1>1, <1>4 DEF Recorded
  <2>3. ASSUME NEW v \in 1..Len(d.rows)
        PROVE  d.schema[v] \in {d.rows[v].digest, "unknown"}
    <3>1. CASE v = next
      BY <1>8, <1>9, <2>1, <3>1
    <3>2. CASE v \in 1..Len(last.rows)
      BY <1>1, <1>9, <2>1, <2>2, <3>2 DEF Recorded
    <3>. QED
      BY <1>3, <1>9, <2>2, <3>1, <3>2
  <2>. QED
    BY <1>9, <2>1, <2>2, <2>3 DEF Recorded
<1>11. Validated(build, d) /\ Sealed(d)
  BY <1>2, <1>3, <1>4, <1>7, <1>8, <1>9 DEF Validated, Opening!ValidHistory, Sealed
<1>12. Digested(build, d)
  <2>. SUFFICES ASSUME NEW v \in 1..Len(d.rows)
                PROVE  d.rows[v].digest = Opening!SqlOf(build, v)
    BY DEF Digested
  <2>1. CASE v = next
    BY <1>8, <1>9, <2>1
  <2>2. CASE v \in 1..Len(last.rows)
    BY <1>3, <1>9, <2>2 DEF Digested
  <2>. QED
    BY <1>3, <1>4, <1>9, <2>1, <2>2
<1>13. next' = Len(d.rows) + 1
  BY <1>2, <1>3, <1>4, <1>9
<1>. QED
  BY <1>2, <1>6, <1>7, <1>10, <1>11, <1>12, <1>13, CommitAddsState DEF OpeningInv

LEMMA Verify ==
    ASSUME OpeningInv, Opening!VerifyFinal
    PROVE  OpeningInv'
<1>1. Opening!db = last /\ last \in Databases
  BY LastState DEF OpeningInv
<1>2. last' = last
  BY DEF last, Opening!VerifyFinal
<1>. QED
  BY <1>1, <1>2 DEF OpeningInv, Opening!VerifyFinal, Validated, Sealed

LEMMA Used ==
    ASSUME OpeningInv, Opening!Use
    PROVE  OpeningInv'
<1>. DEFINE d == [last EXCEPT !.sound = FALSE]
<1>1. Opening!db = last /\ last \in Databases /\ Recorded(last)
  BY LastState DEF OpeningInv, last
<1>2. Opening!Commit(d) /\ at = "opened" /\ UNCHANGED <<build, at, next>>
  BY <1>1 DEF Opening!Use
<1>3. /\ d \in Databases /\ Recorded(d) /\ d.rows = last.rows /\ d.table = last.table
  BY <1>1 DEF Databases, Recorded
<1>. HIDE DEF d
<1>4. Validated(build, d) /\ Sealed(d) /\ Digested(build, d) /\ Len(d.rows) = build.length
  BY <1>2, <1>3 DEF OpeningInv, Validated, Sealed, Digested
<1>5. /\ wal' \in Seq(Databases) /\ Len(wal') > 0 /\ last' = d
      /\ \A i \in 1..Len(wal') : Recorded(wal'[i])
  BY <1>2, <1>3, CommitAddsState
<1>. QED
  BY <1>2, <1>4, <1>5 DEF OpeningInv

LEMMA PowerLost ==
    ASSUME OpeningInv, Opening!LosePower
    PROVE  OpeningInv'
<1>1. PICK n \in 1..Len(wal) : wal' = SubSeq(wal, 1, n)
  BY DEF Opening!LosePower, OpeningInv
<1>2. /\ wal' \in Seq(Databases) /\ Len(wal') = n
      /\ \A i \in 1..n : wal'[i] = wal[i]
  BY <1>1 DEF OpeningInv
<1>. QED
  BY <1>1, <1>2 DEF OpeningInv, Opening!LosePower

LEMMA Checkpointed ==
    ASSUME OpeningInv, Opening!Checkpoint
    PROVE  OpeningInv'
<1>1. Opening!db = last /\ last \in Databases /\ Recorded(last)
  BY LastState DEF OpeningInv, last
<1>2. wal' = <<last>> /\ UNCHANGED <<build, at, next>>
  BY <1>1 DEF Opening!Checkpoint
<1>3. wal' \in Seq(Databases) /\ Len(wal') = 1 /\ wal'[1] = last /\ last' = last
  BY <1>1, <1>2 DEF last
<1>. QED
  BY <1>1, <1>2, <1>3 DEF OpeningInv

LEMMA OpeningStep ==
    ASSUME OpeningInv, [Opening!OpeningNext]_openingVars
    PROVE  OpeningInv'
<1>1. CASE UNCHANGED openingVars
  BY <1>1 DEF openingVars, OpeningInv, last
<1>2. CASE Opening!Open \/ Opening!StatementFails \/ Opening!Ends
  BY <1>2 DEF Opening!Open, Opening!StatementFails, Opening!Ends, OpeningInv, last
<1>. QED
  BY <1>1, <1>2, CreateTable, LoadRows, AddColumn, Backfill, Apply, Verify, Used, PowerLost,
     Checkpointed DEF Opening!OpeningNext

\* The invariant says what the property does.
LEMMA OpeningKept ==
    ASSUME OpeningInv
    PROVE  SchemaIsHistory
<1>1. Opening!db = last /\ last \in Databases /\ Recorded(last)
  BY LastState DEF OpeningInv, last
<1>2. ASSUME NEW i \in DOMAIN wal
      PROVE  /\ Len(wal[i].rows) = Len(wal[i].schema)
             /\ \A v \in DOMAIN wal[i].rows :
                  \/ wal[i].rows[v].digest \in {Opening!NoDigest, wal[i].schema[v]}
                  \/ wal[i].schema[v] = Opening!Unknown
  <2>1. wal[i] \in Databases /\ Recorded(wal[i])
    BY DEF OpeningInv
  <2>2. DOMAIN wal[i].rows = 1..Len(wal[i].rows)
    BY <2>1 DEF Databases
  <2>. QED
    BY <2>1, <2>2 DEF Recorded, Opening!Unknown
<1>3. at \in {"column", "backfill", "apply", "opened"} => Opening!ValidHistory(build, Opening!db.rows)
  BY <1>1 DEF OpeningInv, Validated
<1>4. ASSUME at = "opened"
      PROVE  /\ Opening!MigrationFindings(build, Opening!db.rows) = {}
             /\ \A v \in DOMAIN Opening!db.schema :
                  Opening!db.schema[v] \in {Opening!Unknown, Opening!SqlOf(build, v)}
  <2>1. /\ Validated(build, last) /\ Digested(build, last) /\ Len(last.rows) = build.length
    BY <1>4 DEF OpeningInv
  <2>2. DOMAIN last.rows = 1..Len(last.rows) /\ DOMAIN last.schema = 1..Len(last.rows)
        /\ Len(last.rows) \in Nat
    BY <1>1 DEF Databases, Recorded
  <2>3. \A v \in DOMAIN last.rows :
          /\ v <= build.length
          /\ last.rows[v].name = Opening!NameOf(build, v)
          /\ last.rows[v].digest = Opening!SqlOf(build, v)
    BY <2>1, <2>2 DEF Validated, Opening!ValidHistory, Digested
  <2>4. \A v \in DOMAIN last.schema :
          last.schema[v] \in {Opening!Unknown, Opening!SqlOf(build, v)}
    BY <1>1, <2>2, <2>3 DEF Recorded, Opening!Unknown
  <2>5. Opening!MigrationFindings(build, last.rows) = {}
    BY <2>1, <2>2, <2>3 DEF Opening!MigrationFindings
  <2>. QED
    BY <1>1, <2>4, <2>5
<1>. QED
  BY <1>2, <1>3, <1>4 DEF SchemaIsHistory, Opening!SchemaIsHistory

\* Whatever fails, dies or loses power while a library is opened, by whatever
\* builds: the rows of schema_migrations are those of the SQL that ran, and the
\* build that opened the library finds nothing amiss in it.
THEOREM SchemaRecordsWhatRan == MCSpec => []SchemaIsHistory
<1>1. MCInit => OpeningInv
  BY OpeningStarts, VersionsAssumption DEF MCInit
<1>2. OpeningInv /\ [MCNext]_libraryVars => OpeningInv'
  BY OpeningStep DEF MCNext, libraryVars, openingVars
<1>3. OpeningInv => SchemaIsHistory
  BY OpeningKept
<1>. QED
  BY <1>1, <1>2, <1>3, PTL DEF MCSpec

-----------------------------------------------------------------------------
\* The OCR queue.

\* The queue of MCLibrary once more, with what is proved of it.
Durable == INSTANCE OcrQueueProofs
               WITH Scans <- OcrScans, Kinds <- OcrKinds, MaxActive <- 1, MaxAttempts <- 2,
                    BaseDelay <- 0, MaxDelay <- 0, Times <- {0}, LegacyRows <- {},
                    SplitApi <- TRUE, MaxRuns <- 1, Idle <- NoCall, pending <- calls

\* The constants are such as the proofs about the queue assume.
LEMMA QueueIsAssumed ==
    /\ {} \subseteq JobIds /\ {0} \subseteq Int
    /\ TRUE \in BOOLEAN /\ 1 \in Nat
    /\ NoCall \notin OcrScans \X OcrKinds /\ NoCall \notin {0} \X {0}
    /\ 2 <= Durable!SchemaMaxAttempts
    /\ NoTime \notin Int
    /\ OcrScans # {} /\ OcrKinds # {}
    /\ 1 \in Nat /\ 2 \in Nat \ {0} /\ 0 \in Nat
    /\ Outcomes \subseteq Durable!AllOutcomes
    /\ JobIds \subseteq Int /\ Durable!IsFiniteSet(JobIds)
BY QueueAssumption DEF Durable!SchemaMaxAttempts, Durable!AllOutcomes, Queue!AllOutcomes,
                       Durable!IsFiniteSet, IsFiniteSet

\* Both instances are the same queue: its rows, its queries, its writes, ...
LEMMA SameStatus ==
    Durable!Status = Queue!Status /\ Durable!ActiveStatus = Queue!ActiveStatus
BY DEF Durable!Status, Queue!Status, Durable!ActiveStatus, Queue!ActiveStatus,
       Durable!TerminalStatus, Queue!TerminalStatus

LEMMA SameWith == \A S : Durable!JobsWith(jobs, S) = Queue!JobsWith(jobs, S)
BY DEF Durable!JobsWith, Queue!JobsWith

LEMMA SameActive == Durable!ActiveJobs(jobs) = Queue!ActiveJobs(jobs)
BY SameStatus, SameWith DEF Durable!ActiveJobs, Queue!ActiveJobs

LEMMA SameOfScan == \A s : Durable!JobsOfScan(jobs, s) = Queue!JobsOfScan(jobs, s)
BY SameStatus, SameWith DEF Durable!JobsOfScan, Queue!JobsOfScan

LEMMA SameOrder == \A i, j : Durable!FresherJob(jobs, i, j) <=> Queue!FresherJob(jobs, i, j)
BY DEF Durable!FresherJob, Queue!FresherJob, Durable!OlderJob, Queue!OlderJob

LEMMA SameFound ==
    \A s : /\ Durable!find_active_ocr_job_for_scan(jobs, s) = Queue!find_active_ocr_job_for_scan(jobs, s)
           /\ Durable!find_latest_ocr_job_for_scan(jobs, s) = Queue!find_latest_ocr_job_for_scan(jobs, s)
BY SameActive, SameOfScan, SameOrder DEF Durable!find_active_ocr_job_for_scan,
                                         Queue!find_active_ocr_job_for_scan,
                                         Durable!find_latest_ocr_job_for_scan,
                                         Queue!find_latest_ocr_job_for_scan

LEMMA SameQueued == \A s, k, now : Durable!QueuedRow(s, k, now) = Queue!QueuedRow(s, k, now)
BY DEF Durable!QueuedRow, Queue!QueuedRow

LEMMA SameRetried ==
    \A x, now : Durable!ManuallyRetried(x, now) = Queue!ManuallyRetried(x, now)
BY DEF Durable!ManuallyRetried, Queue!ManuallyRetried, Durable!Requeued, Queue!Requeued

LEMMA SameEligible ==
    \A x : Durable!manual_retry_eligible(x) <=> Queue!manual_retry_eligible(x)
BY DEF Durable!manual_retry_eligible, Queue!manual_retry_eligible

LEMMA SameWrite == \A j, x : Durable!Write(j, x) <=> Queue!Write(j, x)
BY DEF Durable!Write, Queue!Write, Durable!RowOk, Queue!RowOk, Durable!RowShapeOk, Queue!RowShapeOk,
       Durable!SchemaMaxAttempts, Queue!SchemaMaxAttempts, Durable!TerminalStatus,
       Queue!TerminalStatus

\* ... and its actions.
LEMMA SameMutex == Durable!MutexFree <=> Queue!MutexFree
BY DEF Durable!MutexFree, Queue!MutexFree

LEMMA SameCheck ==
    \A c, s, k : Durable!EnqueueCheck(c, s, k) <=> Queue!EnqueueCheck(c, s, k)
BY SameMutex, SameFound DEF Durable!EnqueueCheck, Queue!EnqueueCheck

LEMMA SameInsert ==
    \A c, j, now : Durable!EnqueueInsert(c, j, now) <=> Queue!EnqueueInsert(c, j, now)
<1>1. \A S : Durable!Cardinality(S) = Queue!Cardinality(S)
  BY DEF Durable!Cardinality, Queue!Cardinality
<1>. QED
  BY <1>1, SameMutex, SameFound, SameActive, SameQueued, SameWrite DEF Durable!EnqueueInsert,
       Queue!EnqueueInsert, Durable!EnqueueRefused, Queue!EnqueueRefused

LEMMA SameReturn ==
    \A c : Durable!EnqueueReturn(c) <=> Queue!EnqueueReturn(c)
BY SameMutex DEF Durable!EnqueueReturn, Queue!EnqueueReturn

LEMMA SameBegin ==
    \A now, recoveryNow : Durable!ClaimBegin(now, recoveryNow) <=> Queue!ClaimBegin(now, recoveryNow)
BY SameMutex DEF Durable!ClaimBegin, Queue!ClaimBegin

LEMMA SameOldest ==
    /\ Durable!RunningJobs(jobs) = Queue!RunningJobs(jobs)
    /\ \A S : Durable!Oldest(jobs, S) = Queue!Oldest(jobs, S)
    /\ \A now : Durable!due_ocr_jobs(jobs, now) = Queue!due_ocr_jobs(jobs, now)
BY SameWith DEF Durable!RunningJobs, Queue!RunningJobs, Durable!Oldest, Queue!Oldest,
       Durable!OlderJob, Queue!OlderJob, Durable!due_ocr_jobs, Queue!due_ocr_jobs

LEMMA SameRecovered == \A x, now : Durable!Recovered(x, now) = Queue!Recovered(x, now)
BY DEF Durable!Recovered, Queue!Recovered, Durable!Requeued, Queue!Requeued, Durable!Settled,
       Queue!Settled

LEMMA SameClaimed == \A x, now : Durable!Claimed(x, now) = Queue!Claimed(x, now)
BY DEF Durable!Claimed, Queue!Claimed

LEMMA SameRecover ==
    Durable!ClaimRecover <=> Queue!ClaimRecover
BY SameMutex, SameOldest, SameRecovered, SameWrite DEF Durable!ClaimRecover, Queue!ClaimRecover

LEMMA SameTake ==
    Durable!ClaimTake <=> Queue!ClaimTake
BY SameMutex, SameOldest, SameClaimed, SameWrite DEF Durable!ClaimTake, Queue!ClaimTake

LEMMA SameClaimReturn ==
    Durable!ClaimReturn <=> Queue!ClaimReturn
BY SameMutex DEF Durable!ClaimReturn, Queue!ClaimReturn

LEMMA SameSettled == \A x, s, now, e : Durable!Settled(x, s, now, e) = Queue!Settled(x, s, now, e)
BY DEF Durable!Settled, Queue!Settled

LEMMA SameRequested == \A x, now : Durable!CancelRequested(x, now) = Queue!CancelRequested(x, now)
BY SameSettled DEF Durable!CancelRequested, Queue!CancelRequested

LEMMA SameTransition ==
    \A x, o, r, retryable, now :
        Durable!TerminalTransition(x, o, r, retryable, now) = Queue!TerminalTransition(x, o, r, retryable, now)
BY DEF Durable!TerminalTransition, Queue!TerminalTransition, Durable!Settled, Queue!Settled,
       Durable!Requeued, Queue!Requeued, Durable!unavailable_error_code,
       Queue!unavailable_error_code, Durable!retryable_reason, Queue!retryable_reason,
       Durable!retry_delay_ms, Queue!retry_delay_ms

LEMMA SameBeaten == \A x, o : Durable!CancelBeatsCommit(x, o) <=> Queue!CancelBeatsCommit(x, o)
BY DEF Durable!CancelBeatsCommit, Queue!CancelBeatsCommit

LEMMA SameCancel ==
    \A j, now : Durable!request_ocr_job_cancellation(j, now) <=> Queue!request_ocr_job_cancellation(j, now)
BY SameMutex, SameStatus, SameRequested, SameWrite DEF Durable!request_ocr_job_cancellation,
       Queue!request_ocr_job_cancellation

LEMMA SameFinalize ==
    \A j, attempt, outcome, retryable, now : Durable!finalize_ocr_job(j, attempt, outcome, retryable, now) <=> Queue!finalize_ocr_job(j, attempt, outcome, retryable, now)
BY SameMutex, SameBeaten, SameSettled, SameTransition, SameWrite DEF Durable!finalize_ocr_job,
       Queue!finalize_ocr_job, Durable!NewRun, Queue!NewRun, Durable!validate_running_claim,
       Queue!validate_running_claim

LEMMA SameRetry ==
    \A s, now : Durable!manual_retry_ocr_job_for_scan(s, now) <=> Queue!manual_retry_ocr_job_for_scan(s, now)
BY SameMutex, SameFound, SameEligible, SameRetried, SameWrite DEF
       Durable!manual_retry_ocr_job_for_scan, Queue!manual_retry_ocr_job_for_scan

LEMMA SameRecord ==
    \A j, outcome : Durable!record_ocr_run(j, outcome) <=> Queue!record_ocr_run(j, outcome)
BY SameMutex DEF Durable!record_ocr_run, Queue!record_ocr_run, Durable!NewRun, Queue!NewRun

LEMMA SameComplete ==
    \A j, r, retryable, now : Durable!complete_ocr_job(j, r, retryable, now) <=> Queue!complete_ocr_job(j, r, retryable, now)
BY SameMutex, SameBeaten, SameSettled, SameTransition, SameWrite DEF Durable!complete_ocr_job,
       Queue!complete_ocr_job

LEMMA SameCrash ==
    Durable!Crash <=> Queue!Crash
BY DEF Durable!Crash, Queue!Crash

LEMMA SameInit ==
    Durable!Init <=> Queue!Init
BY DEF Durable!Init, Queue!Init, Durable!LegacyRow, Queue!LegacyRow, Durable!AbsentRow,
       Queue!AbsentRow, Durable!QueuedRow, Queue!QueuedRow

LEMMA SameNext == Durable!Next <=> Queue!Next
<1>1. Durable!Enqueue <=> Queue!Enqueue
  BY SameCheck, SameInsert, SameReturn DEF Durable!Enqueue, Queue!Enqueue
<1>2. Durable!Claim <=> Queue!Claim
  BY SameBegin, SameRecover, SameTake, SameClaimReturn DEF Durable!Claim, Queue!Claim
<1>3. Durable!Settle <=> Queue!Settle
  BY SameCancel, SameFinalize, SameRetry DEF Durable!Settle, Queue!Settle
<1>4. Durable!Split <=> Queue!Split
  BY SameRecord, SameComplete DEF Durable!Split, Queue!Split
<1>. QED
  BY <1>1, <1>2, <1>3, <1>4, SameCrash DEF Durable!Next, Queue!Next

\* With one place in the queue, with attempts that are retried at once, and with
\* callers that record a run and complete the job in two calls or finalize it in
\* one: a job that counts as recognized has a stored run of its scan and input
\* with text in it.
THEOREM RecognizedJobsOfLibraryHaveText == MCSpec => []RecognizedHasText
<1>1. MCInit => Durable!Init
  BY SameInit DEF MCInit
<1>2. [MCNext]_libraryVars => [Durable!Next]_Durable!vars
  BY SameNext DEF MCNext, libraryVars, queueVars, Durable!vars
<1>3. Durable!Spec => []Durable!RecognizedHasText
  BY Durable!RecognizedJobsHaveText, QueueIsAssumed
<1>4. Durable!RecognizedHasText => RecognizedHasText
  BY DEF RecognizedHasText, Durable!RecognizedHasText, Queue!RecognizedHasText, Durable!Text, Queue!Text
<1>. QED
  BY <1>1, <1>2, <1>3, <1>4, PTL DEF MCSpec, Durable!Spec

-----------------------------------------------------------------------------
\* The comparison of two scans, on a grid of any size.

\* Quotient and remainder.
LEMMA Division ==
    ASSUME NEW n \in Nat, NEW w \in Nat \ {0}
    PROVE  /\ n \div w \in Nat /\ n % w \in 0..(w - 1)
           /\ n = w * (n \div w) + (n % w)
OBVIOUS

LEMMA UniqueDivision ==
    ASSUME NEW w \in Nat \ {0}, NEW q \in Int, NEW r \in 0..(w - 1)
    PROVE  (w * q + r) \div w = q /\ (w * q + r) % w = r
OBVIOUS

LEMMA Products ==
    ASSUME NEW w \in Nat, NEW a \in Int
    PROVE  /\ w * (a + 1) = w * a + w /\ w * (a - 1) = w * a - w
           /\ w * a = a * w /\ w * a \in Int
           /\ \A b \in Int : a <= b => w * a <= w * b
OBVIOUS

LEMMA QuotientBound ==
    ASSUME NEW a \in Nat, NEW k \in Nat \ {0}, NEW x \in Nat
    PROVE  a \div k <= x <=> a < k * (x + 1)
<1>1. a \div k \in Nat /\ a % k \in 0..(k - 1) /\ a = k * (a \div k) + (a % k)
  BY Division
<1>. DEFINE q == a \div k
           r == a % k
<1>. HIDE DEF q, r
<1>2. q \in Nat /\ r \in 0..(k - 1) /\ a = k * q + r /\ k * q \in Int /\ k * (x + 1) \in Int
  BY <1>1, Products DEF q, r
<1>3. CASE q <= x
  <2>1. k * q <= k * x /\ k * (x + 1) = k * x + k /\ k * x \in Int
    BY <1>2, <1>3, Products
  <2>. QED
    BY <1>2, <1>3, <2>1 DEF q
<1>4. CASE q > x
  <2>1. x + 1 <= q /\ x + 1 \in Int
    BY <1>2, <1>4
  <2>2. k * (x + 1) <= k * q
    BY <1>2, <2>1, Products
  <2>. QED
    BY <1>2, <1>4, <2>2 DEF q
<1>. QED
  BY <1>2, <1>3, <1>4

\* A cell has its place in the grid.
LEMMA Place ==
    ASSUME NEW c \in Cells
    PROVE  /\ c \in Nat /\ c < Count /\ Width \in Nat \ {0} /\ Height \in Nat \ {0}
           /\ Column(c) \in 0..(Width - 1) /\ Row(c) \in 0..(Height - 1)
           /\ c = Width * Row(c) + Column(c)
<1>1. Width \in Nat \ {0} /\ Height \in Nat \ {0}
  BY ComparisonAssumption
<1>2. c \in Nat /\ c < Count /\ Count \in Nat
  BY <1>1 DEF Cells, Count
<1>3. Column(c) \in 0..(Width - 1) /\ Row(c) \in Nat /\ c = Width * Row(c) + Column(c)
  BY <1>1, <1>2, Division DEF Column, Row
<1>4. Row(c) < Height
  <2>1. SUFFICES ASSUME Row(c) >= Height PROVE FALSE
    BY <1>1, <1>3
  <2>2. Width * Row(c) >= Width * Height
    BY <1>1, <1>3, <2>1
  <2>3. c >= Width * Row(c)
    <3>1. Width * Row(c) \in Int
      BY <1>1, <1>3
    <3>. QED
      BY <1>2, <1>3, <3>1
  <2>. QED
    BY <1>1, <1>2, <1>3, <2>2, <2>3 DEF Count
<1>. QED
  BY <1>1, <1>2, <1>3, <1>4

\* Neighbours are neighbours of each other.
LEMMA NeighboursOfEachOther ==
    ASSUME NEW c \in Cells, NEW d \in Neighbours(c)
    PROVE  d \in Cells /\ c \in Neighbours(d)
<1>1. d \in Cells
  BY DEF Neighbours
<1>2. /\ Width \in Nat \ {0} /\ Height \in Nat \ {0} /\ c \in Nat /\ d \in Nat
      /\ Column(c) \in 0..(Width - 1) /\ Row(c) \in 0..(Height - 1)
      /\ c = Width * Row(c) + Column(c)
  BY <1>1, Place
<1>3. CASE Column(c) > 0 /\ d = c - 1
  <2>1. d = Width * Row(c) + (Column(c) - 1)
    BY <1>2, <1>3
  <2>2. Column(c) - 1 \in 0..(Width - 1) /\ Row(c) \in Int
    BY <1>2, <1>3
  <2>3. Column(d) = Column(c) - 1
    BY <1>2, <2>1, <2>2, UniqueDivision DEF Column
  <2>4. Column(d) + 1 < Width /\ c = d + 1
    BY <1>2, <1>3, <2>3
  <2>. QED
    BY <1>1, <2>4 DEF Neighbours
<1>4. CASE Column(c) + 1 < Width /\ d = c + 1
  <2>1. d = Width * Row(c) + (Column(c) + 1)
    BY <1>2, <1>4
  <2>2. Column(c) + 1 \in 0..(Width - 1) /\ Row(c) \in Int
    BY <1>2, <1>4
  <2>3. Column(d) = Column(c) + 1
    BY <1>2, <2>1, <2>2, UniqueDivision DEF Column
  <2>4. Column(d) > 0 /\ c = d - 1
    BY <1>2, <1>4, <2>3
  <2>. QED
    BY <1>1, <2>4 DEF Neighbours
<1>5. CASE Row(c) > 0 /\ d = c - Width
  <2>1. d = Width * (Row(c) - 1) + Column(c)
    <3>. DEFINE x == Column(c)
               y == Row(c)
    <3>1. x \in Int /\ y \in Int /\ Width \in Nat /\ c = Width * y + x /\ d = c - Width
      BY <1>2, <1>5
    <3>. HIDE DEF x, y
    <3>2. Width * (y - 1) = Width * y - Width /\ Width * y \in Int
      BY <3>1, Products
    <3>3. d = Width * (y - 1) + x
      BY <3>1, <3>2
    <3>. QED
      BY <3>3 DEF x, y
  <2>2. Row(c) - 1 \in Int
    BY <1>2
  <2>3. Row(d) = Row(c) - 1
    BY <1>2, <2>1, <2>2, UniqueDivision DEF Row
  <2>4. Row(d) + 1 < Height /\ c = d + Width
    BY <1>2, <1>5, <2>3
  <2>. QED
    BY <1>1, <2>4 DEF Neighbours
<1>6. CASE Row(c) + 1 < Height /\ d = c + Width
  <2>1. d = Width * (Row(c) + 1) + Column(c)
    <3>. DEFINE x == Column(c)
               y == Row(c)
    <3>1. x \in Int /\ y \in Int /\ Width \in Nat /\ c = Width * y + x /\ d = c + Width
      BY <1>2, <1>6
    <3>. HIDE DEF x, y
    <3>2. Width * (y + 1) = Width * y + Width /\ Width * y \in Int
      BY <3>1, Products
    <3>3. d = Width * (y + 1) + x
      BY <3>1, <3>2
    <3>. QED
      BY <3>3 DEF x, y
  <2>2. Row(c) + 1 \in Int
    BY <1>2
  <2>3. Row(d) = Row(c) + 1
    BY <1>2, <2>1, <2>2, UniqueDivision DEF Row
  <2>4. Row(d) > 0 /\ c = d - Width
    BY <1>2, <1>6, <2>3
  <2>. QED
    BY <1>1, <2>4 DEF Neighbours
<1>. QED
  BY <1>1, <1>3, <1>4, <1>5, <1>6 DEF Neighbours

\* A picture with at least as many lines as there are parts is divided among
\* them: no part is empty, and each line is of just one.
LEMMA PartsOfLine ==
    ASSUME NEW k \in Nat \ {0}, NEW n \in Nat, n >= k
    PROVE  /\ \A i \in 0..(k - 1) : Part(i, k, n) # {} /\ Part(i, k, n) \subseteq 0..(n - 1)
           /\ \A x \in 0..(n - 1) : \E i \in 0..(k - 1) :
                 x \in Part(i, k, n) /\ \A j \in 0..(k - 1) : x \in Part(j, k, n) => j = i
<1>. DEFINE low(i) == (i * n) \div k
<1>1. ASSUME NEW i \in 0..k
      PROVE  /\ i * n \in Nat /\ low(i) \in Nat /\ low(i) <= n
             /\ \A x \in Nat : low(i) <= x <=> i * n < k * (x + 1)
  <2>1. i \in Nat /\ i * n \in Nat
    OBVIOUS
  <2>2. low(i) \in Nat
    BY <2>1, Division
  <2>3. \A x \in Nat : low(i) <= x <=> i * n < k * (x + 1)
    BY <2>1, QuotientBound
  <2>4. i * n < k * (n + 1)
    <3>1. n * i <= n * k /\ n * i = i * n /\ n * k = k * n /\ k * (n + 1) = k * n + k /\ k * n \in Int
      BY <2>1, Products
    <3>. QED
      BY <2>1, <3>1
  <2>. QED
    BY <2>1, <2>2, <2>3, <2>4
<1>2. ASSUME NEW i \in 0..(k - 1) PROVE low(i) < low(i + 1) /\ (i + 1) * n = i * n + n
  <2>1. i \in 0..k /\ i + 1 \in 0..k /\ i \in Int
    OBVIOUS
  <2>2. (i + 1) * n = i * n + n /\ i * n \in Nat
    BY <1>1, <2>1, Products
  <2>3. low(i + 1) \in Nat /\ low(i) \in Nat
    BY <1>1, <2>1
  <2>4. (i + 1) * n < k * (low(i + 1) + 1)
    BY <1>1, <2>1, <2>3
  <2>5. k * (low(i + 1) + 1) = k * low(i + 1) + k /\ k * low(i + 1) \in Int
    BY <2>3, Products
  <2>6. i * n < k * low(i + 1)
    BY <2>2, <2>4, <2>5
  <2>. DEFINE y == low(i + 1)
  <2>7. y \in Nat /\ y > 0
    <3>1. SUFFICES ASSUME y = 0 PROVE FALSE
      BY <2>3
    <3>. HIDE DEF low, y
    <3>2. k * y = 0
      BY <3>1
    <3>. QED
      BY <2>2, <2>6, <3>2 DEF y
  <2>. HIDE DEF y
  <2>8. y - 1 \in Nat /\ (y - 1) + 1 = y
    BY <2>7
  <2>9. low(i) <= y - 1
    BY <1>1, <2>1, <2>6, <2>8 DEF y
  <2>. QED
    BY <2>2, <2>3, <2>7, <2>9 DEF y
<1>. HIDE DEF low
<1>3. \A i : Part(i, k, n) = low(i)..(low(i + 1) - 1)
  BY DEF Part, low
<1>4. ASSUME NEW i \in 0..(k - 1) PROVE Part(i, k, n) # {} /\ Part(i, k, n) \subseteq 0..(n - 1)
  <2>1. i \in 0..k /\ i + 1 \in 0..k
    OBVIOUS
  <2>2. low(i) \in Nat /\ low(i + 1) \in Nat /\ low(i + 1) <= n /\ low(i) < low(i + 1)
    BY <1>1, <1>2, <2>1
  <2>3. low(i) \in low(i)..(low(i + 1) - 1) /\ low(i)..(low(i + 1) - 1) \subseteq 0..(n - 1)
    BY <2>2
  <2>. QED
    BY <1>3, <2>3
<1>5. ASSUME NEW i \in 0..(k - 1), NEW x \in 0..(n - 1)
      PROVE  x \in Part(i, k, n) <=> i * n < k * (x + 1) /\ k * (x + 1) <= (i + 1) * n
  <2>1. i \in 0..k /\ i + 1 \in 0..k /\ x \in Nat
    OBVIOUS
  <2>2. /\ low(i) \in Nat /\ low(i + 1) \in Nat
        /\ low(i) <= x <=> i * n < k * (x + 1)
        /\ low(i + 1) <= x <=> (i + 1) * n < k * (x + 1)
    BY <1>1, <2>1
  <2>3. k * (x + 1) \in Int /\ (i + 1) * n \in Int
    BY <1>1, <2>1, Products
  <2>. QED
    BY <1>3, <2>1, <2>2, <2>3
<1>6. ASSUME NEW x \in 0..(n - 1)
      PROVE  \E i \in 0..(k - 1) :
                x \in Part(i, k, n) /\ \A j \in 0..(k - 1) : x \in Part(j, k, n) => j = i
  <2>. DEFINE y == k * (x + 1)
             i == (y - 1) \div n
  <2>1. y \in Nat /\ y > 0 /\ y <= k * n /\ k * n = n * k
    <3>1. k * (x + 1) \in Int /\ k * (x + 1) <= k * n /\ k * 1 <= k * (x + 1) /\ k * n = n * k
      BY Products
    <3>. QED
      BY <3>1
  <2>. HIDE DEF y
  <2>2. i \in Nat /\ (y - 1) % n \in 0..(n - 1) /\ y - 1 = n * i + ((y - 1) % n)
    <3>1. y - 1 \in Nat /\ n \in Nat \ {0}
      BY <2>1
    <3>. QED
      BY <3>1, Division
  <2>. HIDE DEF i
  <2>3. n * i = i * n /\ (i + 1) * n = i * n + n /\ i * n \in Int
    BY <2>2, Products
  <2>4. i * n < y /\ y <= (i + 1) * n
    BY <2>1, <2>2, <2>3
  <2>5. i \in 0..(k - 1)
    <3>1. SUFFICES ASSUME i >= k PROVE FALSE
      BY <2>2
    <3>2. n * k <= n * i
      BY <2>2, <3>1, Products
    <3>3. n * k \in Int
      OBVIOUS
    <3>. QED
      BY <2>1, <2>3, <2>4, <3>2, <3>3
  <2>6. ASSUME NEW j \in 0..(k - 1), x \in Part(j, k, n) PROVE j = i
    <3>1. j * n < y /\ y <= (j + 1) * n
      BY <1>5, <2>6 DEF y
    <3>2. CASE j < i
      <4>1. n * (j + 1) <= n * i /\ n * (j + 1) = (j + 1) * n
        BY <2>2, <3>2, Products
      <4>2. (j + 1) * n \in Int
        OBVIOUS
      <4>. QED
        BY <2>1, <2>3, <2>4, <3>1, <4>1, <4>2
    <3>3. CASE i < j
      <4>1. n * (i + 1) <= n * j /\ n * (i + 1) = (i + 1) * n /\ n * j = j * n
        BY <2>2, <3>3, Products
      <4>2. j * n \in Int
        OBVIOUS
      <4>. QED
        BY <2>1, <2>3, <2>4, <3>1, <4>1, <4>2
    <3>. QED
      BY <2>2, <3>2, <3>3
  <2>7. x \in Part(i, k, n)
    BY <1>5, <2>4, <2>5 DEF y
  <2>. QED
    BY <2>5, <2>6, <2>7
<1>. QED
  BY <1>4, <1>6

\* Each pixel of a picture that is large enough counts for just one cell of its
\* fingerprint, and each cell has pixels: from_gray_image never finds one empty.
THEOREM BlocksDividePicture ==
    ASSUME NEW image, image.width \in Nat, image.height \in Nat, LargeEnough(image)
    PROVE  /\ \A c \in Cells : Block(c, image) # {}
           /\ \A p \in (0..(image.width - 1)) \X (0..(image.height - 1)) :
                 \E c \in Cells : p \in Block(c, image) /\ \A d \in Cells : p \in Block(d, image) => d = c
<1>. DEFINE w == image.width
            h == image.height
<1>1. /\ w \in Nat /\ h \in Nat /\ w >= Width /\ h >= Height
      /\ Width \in Nat \ {0} /\ Height \in Nat \ {0}
  BY ComparisonAssumption DEF LargeEnough
<1>2. \A c : Block(c, image) = Part(Column(c), Width, w) \X Part(Row(c), Height, h)
  BY DEF Block, Column, Row
<1>. HIDE DEF w, h
<1>3. ASSUME NEW c \in Cells PROVE Block(c, image) # {}
  <2>1. Column(c) \in 0..(Width - 1) /\ Row(c) \in 0..(Height - 1)
    BY <1>3, Place
  <2>2. Part(Column(c), Width, w) # {} /\ Part(Row(c), Height, h) # {}
    BY <1>1, <2>1, PartsOfLine
  <2>3. PICK x \in Part(Column(c), Width, w), y \in Part(Row(c), Height, h) : TRUE
    BY <2>2
  <2>4. <<x, y>> \in Block(c, image)
    BY <1>2
  <2>. QED
    BY <2>4
<1>4. ASSUME NEW x \in 0..(w - 1), NEW y \in 0..(h - 1)
      PROVE  \E c \in Cells :
                <<x, y>> \in Block(c, image) /\ \A d \in Cells : <<x, y>> \in Block(d, image) => d = c
  <2>1. PICK i \in 0..(Width - 1) :
           x \in Part(i, Width, w) /\ \A k \in 0..(Width - 1) : x \in Part(k, Width, w) => k = i
    BY <1>1, PartsOfLine
  <2>2. PICK j \in 0..(Height - 1) :
           y \in Part(j, Height, h) /\ \A k \in 0..(Height - 1) : y \in Part(k, Height, h) => k = j
    BY <1>1, PartsOfLine
  <2>. DEFINE c == Width * j + i
  <2>3. c \in Cells
    <3>1. Width * (j + 1) <= Width * Height /\ Width * (j + 1) = Width * j + Width
          /\ Width * j \in Int /\ Width * 0 <= Width * j
      BY <1>1, Products
    <3>2. Width * j >= 0 /\ Width * Height \in Int
      BY <1>1, <3>1
    <3>. QED
      BY <1>1, <3>1, <3>2 DEF Cells, Count
  <2>4. Column(c) = i /\ Row(c) = j
    BY <1>1, UniqueDivision DEF Column, Row
  <2>. HIDE DEF c
  <2>5. <<x, y>> \in Block(c, image)
    BY <1>2, <2>1, <2>2, <2>4
  <2>6. ASSUME NEW d \in Cells, <<x, y>> \in Block(d, image) PROVE d = c
    <3>1. x \in Part(Column(d), Width, w) /\ y \in Part(Row(d), Height, h)
      BY <1>2, <2>6
    <3>2. /\ Column(d) \in 0..(Width - 1) /\ Row(d) \in 0..(Height - 1)
          /\ d = Width * Row(d) + Column(d) /\ c = Width * Row(c) + Column(c)
      BY <2>3, Place
    <3>3. Column(d) = Column(c) /\ Row(d) = Row(c)
      BY <2>1, <2>2, <2>4, <3>1, <3>2
    <3>. QED
      BY <3>2, <3>3
  <2>. QED
    BY <2>3, <2>5, <2>6
<1>. QED
  BY <1>3, <1>4 DEF w, h


Boxes == [left : Nat, top : Nat, right : Nat, bottom : Nat, maximum : Nat, cells : SUBSET Cells]

\* The cells of the regions that are listed, and of the one that is being filled.
Listed == UNION {regions[k].cells : k \in DOMAIN regions}
Open   == IF search = "fill" THEN region.cells ELSE {}

\* Of all cells C that are changed, those in S have their neighbours there; no
\* part of S is cut off; and a box fits its cells, whose differences are d.
Closed(S, C) == \A c \in S : Neighbours(c) \cap C \subseteq S

Connected(S) ==
    \A some \in (SUBSET S) \ {{}} : (\A c \in some : Neighbours(c) \cap S \subseteq some) => some = S

Fits(r, d) ==
    /\ \A c \in r.cells :
          /\ Column(c) \in r.left..(r.right - 1) /\ Row(c) \in r.top..(r.bottom - 1)
          /\ d[c] <= r.maximum
    /\ \E c \in r.cells : Column(c) = r.left
    /\ \E c \in r.cells : Row(c) = r.top
    /\ \E c \in r.cells : Column(c) = r.right - 1
    /\ \E c \in r.cells : Row(c) = r.bottom - 1
    /\ \E c \in r.cells : d[c] = r.maximum

Component(r, C, d) ==
    r.cells # {} /\ Closed(r.cells, C) /\ Connected(r.cells) /\ Fits(r, d)

Precedes(r, q) == \E c \in r.cells : \A d \in q.cells : c < d

\* Whatever holds the first cell of a region and, with each of the cells S that
\* were taken, its neighbours, holds all cells that were found, too.
Reached(s, S, found, C) ==
    \A K \in SUBSET Cells :
        s \in K /\ (\A c \in K \cap S : Neighbours(c) \cap C \subseteq K) => found \subseteq K

Compares(b, c) ==
    /\ b \in Scans /\ c \in Scans /\ Genuine(stored[b]) /\ Genuine(stored[c])
    /\ difference = Difference(stored[b].print, stored[c].print)
    /\ threshold > 0

SearchType ==
    /\ stored \in Libraries
    /\ search \in {"idle", "next", "fill", "done"}
    /\ difference \in [Cells -> Nat] /\ threshold \in Int
    /\ start \in 0..Count /\ visited \in SUBSET Cells /\ pending \in SUBSET Cells
    /\ region \in Boxes /\ regions \in Seq(Boxes)

Found ==
    /\ visited = Listed \cup Open \cup pending /\ Listed \cap (Open \cup pending) = {}
    /\ visited \subseteq Changed
    /\ \A c \in Changed : c < start => c \in Listed
    /\ search # "fill" => pending = {}

ListedOk ==
    /\ \A k \in DOMAIN regions :
          Component(regions[k], Changed, difference) /\ \E c \in regions[k].cells : c < start
    /\ \A j, k \in DOMAIN regions : j < k => Precedes(regions[j], regions[k])

Filling ==
    search = "fill" =>
        /\ start < Count /\ start \in Changed /\ start \in Open \cup pending
        /\ \A c \in Open : Neighbours(c) \cap Changed \subseteq Open \cup pending
        /\ Reached(start, Open, Open \cup pending, Changed)
        /\ IF Open = {} THEN region = NoRegion ELSE Fits(region, difference)

Asked ==
    /\ search # "idle" => asked = <<asked[1], asked[2]>> /\ Compares(asked[1], asked[2])
    /\ search = "done" =>
          /\ start = Count
          /\ evidence.verdict = Verdict(stored[asked[1]].print, stored[asked[2]].print)

SearchInv == SearchType /\ Found /\ ListedOk /\ Filling /\ Asked

LEMMA CellType ==
    ASSUME NEW c \in Cells
    PROVE  c \in Nat /\ Neighbours(c) \subseteq Cells
BY Place DEF Neighbours

LEMMA GridType == Width \in Nat \ {0} /\ Height \in Nat \ {0} /\ Count \in Nat /\ Cells \subseteq Nat /\ NoRegion \in Boxes
BY ComparisonAssumption DEF Count, Cells, NoRegion, Boxes

\* A region that was filled from cell s is all there is around it.
LEMMA FilledIsConnected ==
    ASSUME NEW C \in SUBSET Cells, NEW S \in SUBSET C, NEW s \in S, Closed(S, C),
           Reached(s, S, S, C)
    PROVE  Connected(S)
<1>. SUFFICES ASSUME NEW some \in SUBSET S, some # {},
                     \A c \in some : Neighbours(c) \cap S \subseteq some
              PROVE  some = S
  BY DEF Connected
<1>1. ASSUME s \notin some PROVE FALSE
  <2>. DEFINE K == S \ some
  <2>1. s \in K /\ K \in SUBSET Cells
    BY <1>1
  <2>2. ASSUME NEW c \in K \cap S, NEW d \in Neighbours(c) \cap C PROVE d \in K
    <3>1. d \in S /\ c \in Cells /\ c \notin some
      BY <2>2 DEF Closed
    <3>2. c \in Neighbours(d)
      BY <3>1, NeighboursOfEachOther
    <3>. QED
      BY <3>1, <3>2
  <2>3. S \subseteq K
    BY <2>1, <2>2 DEF Reached
  <2>. QED
    BY <2>3
<1>2. \A c \in some \cap S : Neighbours(c) \cap C \subseteq some
  BY DEF Closed
<1>3. S \subseteq some
  BY <1>1, <1>2 DEF Reached
<1>. QED
  BY <1>3

\* The box of a region after a cell was taken.
Widened(r, c, d) ==
    [left    |-> Smaller(r.left, Column(c)),
     top     |-> Smaller(r.top, Row(c)),
     right   |-> Larger(r.right, Column(c) + 1),
     bottom  |-> Larger(r.bottom, Row(c) + 1),
     maximum |-> Larger(r.maximum, d[c]),
     cells   |-> r.cells \cup {c}]

LEMMA Extremes ==
    ASSUME NEW a \in Nat, NEW b \in Nat
    PROVE  /\ Smaller(a, b) \in {a, b} /\ Smaller(a, b) <= a /\ Smaller(a, b) <= b
           /\ Larger(a, b) \in {a, b} /\ Larger(a, b) >= a /\ Larger(a, b) >= b
BY DEF Smaller, Larger

LEMMA WidenedFits ==
    ASSUME NEW r \in Boxes, NEW c \in Cells, NEW d \in [Cells -> Nat],
           IF r.cells = {} THEN r = NoRegion ELSE Fits(r, d)
    PROVE  Widened(r, c, d) \in Boxes /\ Fits(Widened(r, c, d), d)
<1>. DEFINE q == Widened(r, c, d)
            x == Column(c)
            y == Row(c)
<1>1. /\ x \in Nat /\ y \in Nat /\ d[c] \in Nat /\ x < Width /\ y < Height
      /\ Width \in Nat /\ Height \in Nat
  BY Place, GridType
<1>2. /\ r.left \in Nat /\ r.top \in Nat /\ r.right \in Nat /\ r.bottom \in Nat
      /\ r.maximum \in Nat /\ r.cells \in SUBSET Cells
  BY DEF Boxes
<1>3. /\ q.left = Smaller(r.left, x) /\ q.top = Smaller(r.top, y)
      /\ q.right = Larger(r.right, x + 1) /\ q.bottom = Larger(r.bottom, y + 1)
      /\ q.maximum = Larger(r.maximum, d[c]) /\ q.cells = r.cells \cup {c}
  BY DEF Widened
<1>4. q \in Boxes
  <2>1. x + 1 \in Nat /\ y + 1 \in Nat
    BY <1>1
  <2>. QED
    BY <1>1, <1>2, <2>1, Extremes DEF Widened, Boxes
<1>. HIDE DEF q
<1>5. CASE r.cells = {}
  <2>1. /\ r.left = Width /\ r.top = Height /\ r.right = 0 /\ r.bottom = 0 /\ r.maximum = 0
    BY <1>5 DEF NoRegion
  <2>2. /\ q.left = x /\ q.top = y /\ q.right = x + 1 /\ q.bottom = y + 1
        /\ q.maximum = d[c] /\ q.cells = {c}
    BY <1>1, <1>3, <1>5, <2>1 DEF Smaller, Larger
  <2>3. x \in q.left..(q.right - 1) /\ y \in q.top..(q.bottom - 1)
        /\ q.right - 1 = x /\ q.bottom - 1 = y /\ d[c] <= q.maximum
    BY <1>1, <2>2
  <2>. HIDE DEF x, y
  <2>4. Fits(q, d)
    BY <2>2, <2>3 DEF Fits, x, y
  <2>. QED
    BY <1>4, <2>4 DEF q
<1>6. CASE r.cells # {}
  <2>1. Fits(r, d)
    BY <1>6
  <2>2. /\ q.left <= x /\ q.left <= r.left /\ q.left \in {x, r.left}
        /\ q.top <= y /\ q.top <= r.top /\ q.top \in {y, r.top}
        /\ q.right >= x + 1 /\ q.right >= r.right /\ q.right \in {x + 1, r.right}
        /\ q.bottom >= y + 1 /\ q.bottom >= r.bottom /\ q.bottom \in {y + 1, r.bottom}
        /\ q.maximum >= d[c] /\ q.maximum >= r.maximum /\ q.maximum \in {d[c], r.maximum}
    <3>1. x + 1 \in Nat /\ y + 1 \in Nat
      BY <1>1
    <3>. HIDE DEF x, y
    <3>. QED
      BY <1>1, <1>2, <1>3, <3>1, Extremes
  <2>3. /\ q.left \in Nat /\ q.top \in Nat /\ q.right \in Nat /\ q.bottom \in Nat /\ q.maximum \in Nat
    BY <1>4 DEF Boxes
  <2>4. ASSUME NEW e \in q.cells
        PROVE  /\ Column(e) \in q.left..(q.right - 1) /\ Row(e) \in q.top..(q.bottom - 1)
               /\ d[e] <= q.maximum
    <3>1. CASE e = c
      <4>1. x \in q.left..(q.right - 1) /\ y \in q.top..(q.bottom - 1) /\ d[c] <= q.maximum
        <5>. HIDE DEF x, y
        <5>. QED
          BY <1>1, <2>2, <2>3
      <4>. QED
        BY <3>1, <4>1
    <3>2. CASE e \in r.cells
      <4>1. /\ Column(e) \in r.left..(r.right - 1) /\ Row(e) \in r.top..(r.bottom - 1)
            /\ d[e] <= r.maximum /\ e \in Cells
        BY <2>1, <3>2, <1>2 DEF Fits
      <4>2. d[e] \in Nat
        BY <4>1
      <4>. DEFINE i == Column(e)
                  j == Row(e)
      <4>. HIDE DEF i, j, x, y
      <4>3. i \in r.left..(r.right - 1) /\ j \in r.top..(r.bottom - 1)
        BY <4>1 DEF i, j
      <4>4. i \in q.left..(q.right - 1) /\ j \in q.top..(q.bottom - 1)
        BY <1>2, <2>2, <2>3, <4>3
      <4>. QED
        BY <1>2, <2>2, <2>3, <4>1, <4>2, <4>4 DEF i, j
    <3>. QED
      BY <1>3, <3>1, <3>2
  <2>5. \E e \in q.cells : Column(e) = q.left
    BY <1>3, <2>1, <2>2 DEF Fits
  <2>6. \E e \in q.cells : Row(e) = q.top
    BY <1>3, <2>1, <2>2 DEF Fits
  <2>7. \E e \in q.cells : Column(e) = q.right - 1
    <3>1. CASE q.right = x + 1
      <4>1. x = q.right - 1
        BY <1>1, <3>1
      <4>. QED
        BY <1>3, <4>1
    <3>2. CASE q.right = r.right
      BY <1>3, <2>1, <3>2 DEF Fits
    <3>. QED
      BY <2>2, <3>1, <3>2
  <2>8. \E e \in q.cells : Row(e) = q.bottom - 1
    <3>1. CASE q.bottom = y + 1
      <4>1. y = q.bottom - 1
        BY <1>1, <3>1
      <4>. QED
        BY <1>3, <4>1
    <3>2. CASE q.bottom = r.bottom
      BY <1>3, <2>1, <3>2 DEF Fits
    <3>. QED
      BY <2>2, <3>1, <3>2
  <2>9. \E e \in q.cells : d[e] = q.maximum
    BY <1>3, <2>1, <2>2 DEF Fits
  <2>10. Fits(q, d)
    BY <2>4, <2>5, <2>6, <2>7, <2>8, <2>9 DEF Fits
  <2>. QED
    BY <1>4, <2>10 DEF q
<1>. QED
  BY <1>5, <1>6

\* A comparison that begins, of two scans with fingerprints of the whole grid.
LEMMA DifferenceType ==
    ASSUME stored \in Libraries, NEW b \in Scans, NEW c \in Scans,
           Genuine(stored[b]), Genuine(stored[c])
    PROVE  /\ Difference(stored[b].print, stored[c].print) \in [Cells -> Nat]
           /\ \A i \in Cells : stored[b].print.cells[i] \in Int /\ stored[c].print.cells[i] \in Int
<1>1. ASSUME NEW s \in Scans, Genuine(stored[s]), NEW i \in Cells
      PROVE  stored[s].print.cells[i] \in 0..255
  BY <1>1, ComparisonAssumption DEF Scans, Genuine, Understood, IsGrid
<1>2. ASSUME NEW i \in Cells
      PROVE  /\ Difference(stored[b].print, stored[c].print)[i] \in Nat
             /\ stored[b].print.cells[i] \in Int /\ stored[c].print.cells[i] \in Int
  <2>. DEFINE x == stored[b].print.cells[i]
              y == stored[c].print.cells[i]
  <2>1. x \in 0..255 /\ y \in 0..255
    BY <1>1
  <2>2. Difference(stored[b].print, stored[c].print)[i] = IF x < y THEN y - x ELSE x - y
    BY DEF Difference
  <2>. HIDE DEF x, y
  <2>3. Difference(stored[b].print, stored[c].print)[i] \in Nat /\ x \in Int /\ y \in Int
    BY <2>1, <2>2
  <2>. QED
    BY <2>3 DEF x, y
<1>3. \E f : Difference(stored[b].print, stored[c].print) = [i \in Cells |-> f[i]]
  <2>. DEFINE f == Difference(stored[b].print, stored[c].print)
  <2>1. f = [i \in Cells |-> f[i]]
    BY DEF Difference
  <2>. QED
    BY <2>1
<1>. QED
  BY <1>2, <1>3

LEMMA ComparisonStarts == ComparisonInit => SearchInv
<1>. SUFFICES ASSUME ComparisonInit PROVE SearchInv
  OBVIOUS
<1>1. SearchType
  BY GridType DEF ComparisonInit, SearchType
<1>2. Listed = {} /\ Open = {}
  BY DEF ComparisonInit, Listed, Open
<1>4. Found
  <2>1. \A c \in Cells : ~(c < 0)
    BY GridType
  <2>. QED
    BY <1>2, <2>1 DEF ComparisonInit, Found, Changed
<1>5. ListedOk
  BY DEF ComparisonInit, ListedOk
<1>3. Filling /\ Asked
  BY DEF ComparisonInit, Filling, Asked
<1>. QED
  BY <1>1, <1>3, <1>4, <1>5 DEF SearchInv

LEMMA CompareScans ==
    ASSUME SearchInv, NEW b \in Scans, NEW c \in Scans, NEW t \in Thresholds,
           compare_stored_scans(b, c, t)
    PROVE  SearchInv'
<1>1. /\ stored' = stored /\ search' = "next" /\ asked' = <<b, c>> /\ threshold' = t
      /\ difference' = Difference(stored[b].print, stored[c].print)
      /\ start' = 0 /\ visited' = {} /\ pending' = {} /\ region' = NoRegion /\ regions' = <<>>
      /\ Genuine(stored[b]) /\ Genuine(stored[c]) /\ t > 0
  BY DEF compare_stored_scans, ThresholdOk
<1>2. difference' \in [Cells -> Nat] /\ stored \in Libraries /\ t \in Int
  <2>1. stored \in Libraries
    BY DEF SearchInv, SearchType
  <2>2. difference' \in [Cells -> Nat]
    BY <1>1, <2>1, DifferenceType
  <2>3. t \in Int
    BY ComparisonAssumption
  <2>. QED
    BY <2>1, <2>2, <2>3
<1>3. SearchType'
  <2>1. 0 \in 0..Count /\ NoRegion \in Boxes /\ <<>> \in Seq(Boxes)
    BY GridType
  <2>. QED
    BY <1>1, <1>2, <2>1 DEF SearchType
<1>4. Listed' = {} /\ Open' = {}
  BY <1>1 DEF Listed, Open
<1>5. Found'
  <2>1. \A i \in Cells : ~(i < 0)
    BY GridType
  <2>. QED
    BY <1>1, <1>4, <2>1 DEF Found, Changed
<1>6. ListedOk' /\ Filling'
  BY <1>1 DEF ListedOk, Filling
<1>7. Asked'
  BY <1>1 DEF Asked, Compares, Scans
<1>. QED
  BY <1>3, <1>5, <1>6, <1>7 DEF SearchInv

LEMMA ListedCells ==
    ASSUME regions \in Seq(Boxes), NEW k \in DOMAIN regions
    PROVE  regions[k] \in Boxes /\ \A c \in regions[k].cells : c \in Cells /\ c \in Nat
<1>1. regions[k] \in Boxes
  OBVIOUS
<1>. QED
  BY <1>1, GridType DEF Boxes

\* What stays while the search goes on.
LEMMA SearchGoesOn ==
    ASSUME SearchInv, UNCHANGED <<stored, asked, difference, threshold>>,
           search' \in {"next", "fill"}, search # "idle"
    PROVE  Changed' = Changed /\ Asked'
BY DEF SearchInv, Asked, Compares, Scans, Changed

LEMMA SkipCell ==
    ASSUME SearchInv, Skip
    PROVE  SearchInv'
<1>1. /\ search = "next" /\ start < Count /\ (start \in visited \/ start \notin Changed)
      /\ start' = start + 1
      /\ UNCHANGED <<stored, asked, search, difference, threshold, visited, pending, region, regions>>
  BY DEF Skip
<1>2. Changed' = Changed /\ Asked'
  BY <1>1, SearchGoesOn
<1>3. SearchType /\ Found /\ ListedOk /\ start \in Nat
  BY GridType DEF SearchInv, SearchType
<1>4. SearchType'
  BY <1>1, <1>3, GridType DEF SearchType
<1>5. Listed' = Listed /\ Open' = Open
  BY <1>1 DEF Listed, Open
<1>6. ASSUME NEW c \in Changed, c < start + 1 PROVE c \in Listed
  <2>1. c \in Nat
    BY GridType DEF Changed
  <2>2. CASE c < start
    BY <1>3, <2>2 DEF Found
  <2>3. CASE c = start
    BY <1>1, <1>3, <1>6, <2>3 DEF Found, Open
  <2>. QED
    BY <1>3, <1>6, <2>1, <2>2, <2>3
<1>7. Found'
  BY <1>1, <1>2, <1>3, <1>5, <1>6 DEF Found
<1>8. ListedOk'
  <2>1. \A k \in DOMAIN regions : \E c \in regions[k].cells : c < start + 1
    <3>1. \A k \in DOMAIN regions : \A c \in regions[k].cells : c \in Nat
      BY <1>3, ListedCells DEF SearchType
    <3>. QED
      BY <1>3, <3>1 DEF ListedOk
  <2>. QED
    BY <1>1, <1>2, <1>3, <2>1 DEF ListedOk
<1>9. Filling'
  BY <1>1 DEF Filling
<1>. QED
  BY <1>2, <1>4, <1>7, <1>8, <1>9 DEF SearchInv

LEMMA StartRegion ==
    ASSUME SearchInv, Start
    PROVE  SearchInv'
<1>1. /\ search = "next" /\ start < Count /\ start \notin visited /\ start \in Changed
      /\ search' = "fill" /\ visited' = visited \cup {start} /\ pending' = {start} /\ region' = NoRegion
      /\ UNCHANGED <<stored, asked, difference, threshold, start, regions>>
  BY DEF Start
<1>2. Changed' = Changed /\ Asked'
  BY <1>1, SearchGoesOn
<1>3. SearchType /\ Found /\ ListedOk /\ start \in Cells
  BY <1>1 DEF SearchInv, Changed
<1>4. SearchType'
  BY <1>1, <1>3, GridType DEF SearchType
<1>5. Listed' = Listed /\ Open = {} /\ Open' = {} /\ pending = {}
  BY <1>1, <1>3 DEF Listed, Open, NoRegion, Found
<1>6. Found'
  BY <1>1, <1>2, <1>3, <1>5 DEF Found
<1>7. ListedOk'
  BY <1>1, <1>2, <1>3 DEF ListedOk
<1>8. Filling'
  BY <1>1, <1>2, <1>5 DEF Filling, Reached
<1>. QED
  BY <1>2, <1>4, <1>6, <1>7, <1>8 DEF SearchInv

LEMMA TakeCell ==
    ASSUME SearchInv, NEW c \in pending, Take(c)
    PROVE  SearchInv'
<1>1. /\ search = "fill"
      /\ pending' = (pending \ {c}) \cup Unseen(c) /\ visited' = visited \cup Unseen(c)
      /\ region' = Widened(region, c, difference)
      /\ UNCHANGED <<stored, asked, search, difference, threshold, start, regions>>
  BY DEF Take, Widened
<1>2. Changed' = Changed /\ Asked'
  BY <1>1, SearchGoesOn
<1>3. SearchType /\ Found /\ ListedOk /\ Filling /\ c \in Cells /\ c \in Changed
  BY DEF SearchInv, SearchType, Found
<1>4. Open = region.cells /\ region.cells \in SUBSET Cells
  BY <1>1, <1>3 DEF Open, SearchType, Boxes
<1>5. region' \in Boxes /\ Fits(region', difference)
  <2>1. IF region.cells = {} THEN region = NoRegion ELSE Fits(region, difference)
    BY <1>1, <1>3, <1>4 DEF Filling
  <2>. QED
    BY <1>1, <1>3, <2>1, WidenedFits DEF SearchType
<1>6. /\ Unseen(c) \in SUBSET Cells /\ Unseen(c) \subseteq Changed
      /\ Unseen(c) \cap visited = {} /\ Unseen(c) \subseteq Neighbours(c)
      /\ Neighbours(c) \cap Changed \subseteq Unseen(c) \cup visited
  BY DEF Unseen, Neighbours
<1>7. SearchType'
  BY <1>1, <1>3, <1>5, <1>6 DEF SearchType
<1>8. Listed' = Listed /\ Open' = Open \cup {c}
  BY <1>1, <1>4 DEF Listed, Open, Widened
<1>9. Found'
  BY <1>1, <1>2, <1>3, <1>6, <1>8 DEF Found
<1>10. ListedOk'
  BY <1>1, <1>2, <1>3 DEF ListedOk
<1>11. Neighbours(c) \cap Changed \cap Listed = {}
  <2>1. SUFFICES ASSUME NEW d \in Neighbours(c), d \in Listed PROVE FALSE
    OBVIOUS
  <2>2. PICK k \in DOMAIN regions : d \in regions[k].cells
    BY <2>1 DEF Listed
  <2>3. c \in Neighbours(d)
    BY <1>3, <2>1, NeighboursOfEachOther
  <2>4. c \in regions[k].cells
    BY <1>3, <2>2, <2>3 DEF ListedOk, Component, Closed
  <2>5. c \in Listed
    BY <2>4 DEF Listed
  <2>. QED
    BY <1>3, <2>5 DEF Found
<1>12. Neighbours(c) \cap Changed \subseteq Open' \cup pending'
  BY <1>1, <1>3, <1>6, <1>8, <1>11 DEF Found
<1>13. Open \cup pending \subseteq Open' \cup pending'
  BY <1>1, <1>8
<1>14. Reached(start, Open', Open' \cup pending', Changed)
  <2>1. SUFFICES ASSUME NEW K \in SUBSET Cells, start \in K,
                        \A e \in K \cap Open' : Neighbours(e) \cap Changed \subseteq K
                 PROVE  Open' \cup pending' \subseteq K
    BY DEF Reached
  <2>2. Open \cup pending \subseteq K
    BY <1>1, <1>3, <1>8, <2>1 DEF Filling, Reached
  <2>3. Unseen(c) \subseteq K
    BY <1>6, <1>8, <2>1, <2>2
  <2>. QED
    BY <1>1, <1>8, <2>2, <2>3
<1>15. Filling'
  <2>1. Open' # {} /\ start' = start /\ difference' = difference
    BY <1>1, <1>8
  <2>2. /\ start < Count /\ start \in Changed /\ start \in Open' \cup pending'
        /\ \A e \in Open' : Neighbours(e) \cap Changed \subseteq Open' \cup pending'
    BY <1>1, <1>3, <1>8, <1>12, <1>13 DEF Filling
  <2>. QED
    BY <1>2, <1>5, <1>14, <2>1, <2>2 DEF Filling
<1>. QED
  BY <1>2, <1>7, <1>9, <1>10, <1>15 DEF SearchInv

LEMMA CloseRegion ==
    ASSUME SearchInv, Close
    PROVE  SearchInv'
<1>1. /\ search = "fill" /\ pending = {}
      /\ regions' = Append(regions, region) /\ start' = start + 1 /\ search' = "next"
      /\ UNCHANGED <<stored, asked, difference, threshold, visited, pending, region>>
  BY DEF Close
<1>2. Changed' = Changed /\ Asked'
  BY <1>1, SearchGoesOn
<1>3. SearchType /\ Found /\ ListedOk /\ Filling /\ region \in Boxes /\ regions \in Seq(Boxes)
  BY DEF SearchInv, SearchType
<1>. DEFINE n == Len(regions)
            cells == region.cells
<1>4. /\ n \in Nat /\ DOMAIN regions = 1..n /\ DOMAIN regions' = 1..(n + 1)
      /\ \A k \in 1..n : regions'[k] = regions[k]
      /\ regions'[n + 1] = region /\ regions' \in Seq(Boxes)
  BY <1>1, <1>3
<1>. HIDE DEF n
<1>5. /\ start \in Nat /\ start < Count /\ start \in Changed /\ start \in cells
      /\ Open = cells /\ Open' = {} /\ cells \subseteq Changed
  BY <1>1, <1>3, GridType DEF Filling, Open, Found, SearchType
<1>6. SearchType'
  BY <1>1, <1>3, <1>4, <1>5, GridType DEF SearchType
<1>7. Listed' = Listed \cup cells
  <2>1. Listed = UNION {regions[k].cells : k \in 1..n}
    BY <1>4 DEF Listed
  <2>2. Listed' = UNION {regions'[k].cells : k \in 1..(n + 1)}
    BY <1>4 DEF Listed
  <2>3. \A k \in 1..(n + 1) : k \in 1..n \/ k = n + 1
    BY <1>4
  <2>4. 1..n \subseteq 1..(n + 1) /\ n + 1 \in 1..(n + 1)
    BY <1>4
  <2>5. Listed' \subseteq Listed \cup cells
    BY <1>4, <2>1, <2>2, <2>3
  <2>6. Listed \subseteq Listed' /\ cells \subseteq Listed'
    BY <1>4, <2>1, <2>2, <2>4
  <2>. QED
    BY <2>5, <2>6
<1>8. Found'
  <2>1. \A c \in Changed : c < start + 1 => c \in Listed \cup cells
    <3>1. \A c \in Changed : c \in Nat
      BY GridType DEF Changed
    <3>2. \A c \in Changed : c < start + 1 => c < start \/ c = start
      BY <1>5, <3>1
    <3>. QED
      BY <1>3, <1>5, <3>2 DEF Found
  <2>. QED
    BY <1>1, <1>2, <1>3, <1>5, <1>7, <2>1 DEF Found
<1>9. Component(region, Changed, difference)
  <2>1. Closed(cells, Changed)
    BY <1>1, <1>3, <1>5 DEF Filling, Closed
  <2>2. Reached(start, cells, cells, Changed)
    BY <1>1, <1>3, <1>5 DEF Filling
  <2>3. Changed \in SUBSET Cells
    BY DEF Changed
  <2>4. Connected(cells)
    BY <1>5, <2>1, <2>2, <2>3, FilledIsConnected
  <2>5. Fits(region, difference)
    BY <1>1, <1>3, <1>5 DEF Filling
  <2>. QED
    BY <1>5, <2>1, <2>4, <2>5 DEF Component
<1>10. ASSUME NEW k \in 1..n PROVE Precedes(regions[k], region)
  <2>1. PICK c \in regions[k].cells : c < start
    BY <1>3, <1>4 DEF ListedOk
  <2>2. c \in Nat
    BY <1>3, <1>4, ListedCells
  <2>3. ASSUME NEW d \in cells PROVE c < d
    <3>1. d \in Changed /\ d \in Nat /\ d \notin Listed
      BY <1>3, <1>5, GridType DEF Found, Changed
    <3>2. ~(d < start)
      BY <1>3, <3>1 DEF Found
    <3>. QED
      BY <1>5, <2>1, <2>2, <3>1, <3>2
  <2>. QED
    BY <2>3 DEF Precedes
<1>11. ListedOk'
  <2>1. ASSUME NEW k \in 1..(n + 1)
        PROVE  Component(regions'[k], Changed, difference) /\ \E c \in regions'[k].cells : c < start + 1
    <3>1. CASE k = n + 1
      <4>1. start < start + 1
        BY <1>5
      <4>. QED
        BY <1>4, <1>5, <1>9, <3>1, <4>1
    <3>2. CASE k \in 1..n
      <4>1. PICK c \in regions[k].cells : c < start
        BY <1>3, <1>4, <3>2 DEF ListedOk
      <4>2. c \in Nat
        BY <1>3, <1>4, <3>2, ListedCells
      <4>3. c < start + 1
        BY <1>5, <4>1, <4>2
      <4>. QED
        BY <1>3, <1>4, <3>2, <4>3 DEF ListedOk
    <3>. QED
      BY <1>4, <3>1, <3>2
  <2>2. ASSUME NEW j \in 1..(n + 1), NEW k \in 1..(n + 1), j < k
        PROVE  Precedes(regions'[j], regions'[k])
    <3>1. j \in 1..n
      BY <1>4, <2>2
    <3>2. CASE k = n + 1
      BY <1>4, <1>10, <3>1, <3>2
    <3>3. CASE k \in 1..n
      BY <1>3, <1>4, <2>2, <3>1, <3>3 DEF ListedOk
    <3>. QED
      BY <1>4, <3>2, <3>3
  <2>. QED
    BY <1>1, <1>2, <1>4, <2>1, <2>2 DEF ListedOk
<1>12. Filling'
  BY <1>1 DEF Filling
<1>. QED
  BY <1>2, <1>6, <1>8, <1>11, <1>12 DEF SearchInv

LEMMA FinishSearch ==
    ASSUME SearchInv, Finish
    PROVE  SearchInv'
<1>1. /\ search = "next" /\ start = Count /\ search' = "done"
      /\ evidence'.verdict = Verdict(stored[asked[1]].print, stored[asked[2]].print)
      /\ UNCHANGED <<stored, asked, difference, threshold, start, visited, pending, region, regions>>
  BY DEF Finish
<1>2. SearchType /\ Found /\ ListedOk /\ Asked
  BY DEF SearchInv
<1>3. Changed' = Changed /\ Listed' = Listed /\ Open' = Open
  BY <1>1 DEF Changed, Listed, Open
<1>4. SearchType' /\ Found' /\ ListedOk' /\ Filling'
  BY <1>1, <1>2, <1>3 DEF SearchType, Found, ListedOk, Filling
<1>5. Asked'
  BY <1>1, <1>2 DEF Asked, Compares, Scans, Verdict
<1>. QED
  BY <1>4, <1>5 DEF SearchInv

LEMMA ComparisonStep ==
    ASSUME SearchInv, [ComparisonNext]_comparisonVars
    PROVE  SearchInv'
<1>1. CASE UNCHANGED comparisonVars
  <2>1. Changed' = Changed /\ Listed' = Listed /\ Open' = Open
    BY <1>1 DEF comparisonVars, Changed, Listed, Open
  <2>2. SearchType' /\ Found' /\ ListedOk' /\ Filling'
    BY <1>1, <2>1 DEF comparisonVars, SearchInv, SearchType, Found, ListedOk, Filling
  <2>3. Asked'
    BY <1>1 DEF comparisonVars, SearchInv, Asked, Compares, Scans, Verdict
  <2>. QED
    BY <2>2, <2>3 DEF SearchInv
<1>. QED
  BY <1>1, CompareScans, SkipCell, StartRegion, TakeCell, CloseRegion, FinishSearch
     DEF ComparisonNext

LEMMA RegionsFound == SearchInv => RegionsAreComponents /\ BoxesAreTight
<1>. SUFFICES ASSUME SearchInv, search = "done"
              PROVE  RegionsAreComponents /\ BoxesAreTight
  BY DEF RegionsAreComponents, BoxesAreTight
<1>1. Listed = Changed
  <2>1. start = Count /\ Found /\ Open = {}
    BY DEF SearchInv, Asked, Open
  <2>2. \A c \in Changed : c < Count
    BY GridType DEF Changed, Cells
  <2>. QED
    BY <2>1, <2>2 DEF Found
<1>2. ListedOk
  BY DEF SearchInv
<1>3. RegionsAreComponents
  <2>1. \A k \in DOMAIN regions :
           LET cells == regions[k].cells IN
           /\ cells # {}
           /\ \A c \in cells : Neighbours(c) \cap Changed \subseteq cells
           /\ \A some \in (SUBSET cells) \ {{}} :
                 (\A c \in some : Neighbours(c) \cap cells \subseteq some) => some = cells
    BY <1>2 DEF ListedOk, Component, Closed, Connected
  <2>. QED
    BY <1>1, <1>2, <2>1 DEF RegionsAreComponents, Listed, ListedOk, Precedes
<1>4. BoxesAreTight
  BY <1>2 DEF BoxesAreTight, ListedOk, Component, Fits
<1>. QED
  BY <1>3, <1>4

LEMMA EvidenceFound == SearchInv => EvidenceIsTrue
<1>. SUFFICES ASSUME SearchInv, search = "done" PROVE EvidenceIsTrue
  BY DEF EvidenceIsTrue
<1>. DEFINE a == stored[asked[1]]
            b == stored[asked[2]]
            equal == \A c \in Cells : difference[c] = 0
<1>1. /\ evidence.verdict = Verdict(a.print, b.print)
      /\ Genuine(a) /\ Genuine(b) /\ difference = Difference(a.print, b.print)
      /\ threshold > 0 /\ threshold \in Int /\ difference \in [Cells -> Nat]
      /\ \A i \in Cells : a.print.cells[i] \in Int /\ b.print.cells[i] \in Int
  BY DifferenceType DEF SearchInv, Asked, Compares, SearchType
<1>. HIDE DEF a, b
<1>2. a.print.digest = b.print.digest <=> a.file = b.file
  BY <1>1 DEF Genuine
<1>3. equal <=> \A c \in Cells : a.print.cells[c] = b.print.cells[c]
  <2>1. ASSUME NEW c \in Cells
        PROVE  difference[c] = 0 <=> a.print.cells[c] = b.print.cells[c]
    <3>. DEFINE x == a.print.cells[c]
                y == b.print.cells[c]
    <3>1. x \in Int /\ y \in Int /\ difference[c] = IF x < y THEN y - x ELSE x - y
      BY <1>1 DEF Difference
    <3>. HIDE DEF x, y
    <3>2. difference[c] = 0 <=> x = y
      BY <3>1
    <3>. QED
      BY <3>2 DEF x, y
  <2>. QED
    BY <2>1
<1>4. equal => Changed = {}
  BY <1>1 DEF Changed
<1>5. regions = <<>> <=> Changed = {}
  <2>1. Changed = UNION {regions[k].cells : k \in DOMAIN regions}
        /\ \A k \in DOMAIN regions : regions[k].cells # {}
    BY RegionsFound DEF RegionsAreComponents
  <2>2. regions = <<>> <=> DOMAIN regions = {}
    <3>1. regions \in Seq(Boxes)
      BY DEF SearchInv, SearchType
    <3>. QED
      BY <3>1, EmptySeq
  <2>. QED
    BY <2>1, <2>2
<1>. DEFINE same == a.print.digest = b.print.digest
            text == IF equal THEN "match" ELSE IF regions = <<>> THEN "below" ELSE "regions"
<1>6. evidence.verdict = [hashMatch |-> same, exact |-> same /\ equal, content |-> text]
  BY <1>1 DEF Verdict
<1>. HIDE DEF equal, same, text
<1>7. /\ evidence.verdict.hashMatch = same /\ evidence.verdict.exact = (same /\ equal)
      /\ evidence.verdict.content = text
  <2>1. evidence.verdict.hashMatch = same
    BY <1>6
  <2>. DEFINE both == same /\ equal
  <2>2. evidence.verdict = [hashMatch |-> same, exact |-> both, content |-> text]
    BY <1>6
  <2>. HIDE DEF both
  <2>3. evidence.verdict.exact = both
    BY <2>2
  <2>4. evidence.verdict.content = text
    BY <1>6
  <2>. QED
    BY <2>1, <2>3, <2>4 DEF both
<1>8. /\ evidence.verdict.hashMatch <=> a.print.digest = b.print.digest
      /\ evidence.verdict.exact <=> a.print.digest = b.print.digest /\ equal
      /\ evidence.verdict.content = IF equal THEN "match" ELSE IF regions = <<>> THEN "below" ELSE "regions"
  BY <1>7, Zenon DEF same, text
<1>9. /\ evidence.verdict.content = "match" <=> equal
      /\ evidence.verdict.content = "regions" <=> Changed # {}
  BY <1>4, <1>5, <1>8
<1>. QED
  BY <1>2, <1>3, <1>8, <1>9 DEF EvidenceIsTrue, a, b

\* On any grid, with any threshold, whatever is stored: when a comparison is
\* done, its regions are the sets of changed cells that hang together, each just
\* once and listed by their first cells; the box and the maximum of each are
\* exact; and nothing is said of the two scans but what is true of their files.
THEOREM ComparisonsOfLibraryAreTrue == MCSpec => []ComparisonIsTrue
<1>1. MCInit => SearchInv
  BY ComparisonStarts DEF MCInit
<1>2. SearchInv /\ [MCNext]_libraryVars => SearchInv'
  BY ComparisonStep DEF MCNext, libraryVars, comparisonVars
<1>3. SearchInv => ComparisonIsTrue
  BY RegionsFound, EvidenceFound DEF ComparisonIsTrue
<1>. QED
  BY <1>1, <1>2, <1>3, PTL DEF MCSpec

-----------------------------------------------------------------------------
\* The record of a job under the contract of the OCR providers.

Results == {ResultOf(r, o) : r \in Requests, o \in Outputs}

Records ==
    [key : {r.source.key : r \in Requests},
     status : {"Queued", "Running", "Recognized", "Unavailable", "Cancelled"},
     created : Int, updated : Int, started : Int \cup {Absent}, completed : Int \cup {Absent},
     attempts : Nat, retryable : BOOLEAN, error : Nat \cup {Absent}, result : Results \cup {Absent}]

\* What a record that is there is like, and what each step makes of one like it.
Checked(x) ==
    x.result # Absent => \E r \in Requests, o \in Outputs :
        Normalizes(r, o) /\ r.source.key = x.key /\ x.result = ResultOf(r, o)

Promised(x) ==
    /\ Terminal(x) /\ x.retryable =>
          x.status = "Unavailable" /\ x.result.body.retryable /\ x.attempts < MaxAttempts
    /\ x.error = IF x.status = "Unavailable" THEN x.result.body.message ELSE Absent

ProperJob(x) == x \in Records /\ JobOk(x) /\ Checked(x) /\ Promised(x)

ContractInv == record # Absent => ProperJob(record)

LEMMA ResultType ==
    ASSUME NEW r \in Requests, NEW o \in Outputs
    PROVE  /\ ResultOf(r, o) # Absent /\ ResultOf(r, o) \in Results
           /\ ResultOf(r, o).key = r.source.key /\ ResultOf(r, o).body = o
           /\ o.kind \in {"Recognized", "Unavailable"}
           /\ o.kind = "Unavailable" => o.message \in Nat /\ o.retryable \in BOOLEAN
BY ContractAssumption DEF ResultOf, Results

LEMMA MessageOfFailure ==
    ASSUME NEW r \in Requests, NEW o \in Outputs, Normalizes(r, o), o.kind = "Unavailable"
    PROVE  o.message \in Nat \ {0}
BY ContractAssumption DEF Normalizes, OutputOk, UnavailableOk

LEMMA QueuedIsProper ==
    ASSUME NEW r \in Requests, NEW now \in Times, now >= 0
    PROVE  ProperJob(QueuedJob(r, now))
<1>. DEFINE x == QueuedJob(r, now)
<1>1. now \in Int /\ Absent \notin Int /\ MaxAttempts \in Nat
  BY ContractAssumption
<1>2. x \in Records
  BY <1>1 DEF QueuedJob, Records
<1>3. JobOk(x)
  BY <1>1 DEF QueuedJob, JobOk, RetryOk, Terminal
<1>4. Checked(x) /\ Promised(x)
  BY DEF QueuedJob, Checked, Promised, Terminal
<1>. QED
  BY <1>2, <1>3, <1>4 DEF ProperJob

\* What the checks of a record say of one that is not settled.
LEMMA UnsettledJob ==
    ASSUME NEW x, ProperJob(x), ~Terminal(x)
    PROVE  x.completed = Absent /\ x.result = Absent /\ x.error = Absent
<1>1. x.status \in {"Queued", "Running"}
  BY DEF ProperJob, Records, Terminal
<1>. QED
  BY <1>1 DEF ProperJob, JobOk, Promised, Terminal

LEMMA StartedIsProper ==
    ASSUME NEW x, ProperJob(x), ~Terminal(x), NEW now \in Times, now >= x.created
    PROVE  /\ StartedJob(x, now) \in Records
           /\ Checked(StartedJob(x, now)) /\ Promised(StartedJob(x, now))
           /\ x.attempts < MaxAttempts => JobOk(StartedJob(x, now))
<1>. DEFINE y == StartedJob(x, now)
<1>1. /\ now \in Int /\ Absent \notin Int /\ MaxAttempts \in Nat /\ x \in Records
      /\ x.completed = Absent /\ x.result = Absent /\ x.error = Absent /\ JobOk(x)
  BY ContractAssumption, UnsettledJob DEF ProperJob
<1>2. /\ y \in Records /\ y.status = "Running" /\ y.result = Absent /\ y.error = Absent
      /\ y.started = now /\ y.updated = now /\ y.completed = Absent /\ y.created = x.created
      /\ y.attempts = x.attempts + 1
  <2>. DEFINE n == x.attempts + 1
  <2>1. n \in Nat /\ x.attempts \in Nat
    BY <1>1 DEF Records
  <2>2. y = [x EXCEPT !.status = "Running", !.updated = now, !.started = now, !.attempts = n]
    BY DEF StartedJob
  <2>. HIDE DEF n, y
  <2>3. /\ y \in Records /\ y.status = "Running" /\ y.result = Absent /\ y.error = Absent
        /\ y.started = now /\ y.updated = now /\ y.completed = Absent /\ y.created = x.created
        /\ y.attempts = n
    BY <1>1, <2>1, <2>2 DEF Records
  <2>. QED
    BY <2>3 DEF n
<1>. HIDE DEF y
<1>3. Checked(y) /\ Promised(y)
  BY <1>2 DEF Checked, Promised, Terminal
<1>4. ASSUME x.attempts < MaxAttempts PROVE JobOk(y)
  BY <1>1, <1>2, <1>4 DEF JobOk, RetryOk, Terminal, Records
<1>. QED
  BY <1>2, <1>3, <1>4 DEF y

LEMMA CancelledIsProper ==
    ASSUME NEW x, ProperJob(x), ~Terminal(x), NEW now \in Times
    PROVE  /\ CancelledJob(x, now) \in Records
           /\ Checked(CancelledJob(x, now)) /\ Promised(CancelledJob(x, now))
           /\ now >= x.created => JobOk(CancelledJob(x, now))
<1>. DEFINE y == CancelledJob(x, now)
<1>1. /\ now \in Int /\ Absent \notin Int /\ MaxAttempts \in Nat /\ x \in Records
      /\ x.completed = Absent /\ x.result = Absent /\ x.error = Absent /\ JobOk(x)
  BY ContractAssumption, UnsettledJob DEF ProperJob
<1>2. /\ y \in Records /\ y.status = "Cancelled" /\ y.result = Absent /\ y.error = Absent
      /\ y.started = x.started /\ y.updated = now /\ y.completed = now /\ y.created = x.created
      /\ y.attempts = x.attempts /\ y.retryable = FALSE
  BY <1>1 DEF CancelledJob, Records
<1>. HIDE DEF y
<1>3. Checked(y) /\ Promised(y)
  BY <1>2 DEF Checked, Promised, Terminal
<1>4. ASSUME now >= x.created PROVE JobOk(y)
  BY <1>1, <1>2, <1>4 DEF JobOk, RetryOk, Terminal, Records
<1>. QED
  BY <1>2, <1>3, <1>4 DEF y

LEMMA CompletedIsProper ==
    ASSUME NEW x, ProperJob(x), NEW now \in Times, NEW r \in Requests, NEW o \in Outputs,
           Normalizes(r, o), r.source.key = x.key, now >= x.created
    PROVE  /\ CompletedJob(x, ResultOf(r, o), now) \in Records
           /\ Checked(CompletedJob(x, ResultOf(r, o), now))
           /\ Promised(CompletedJob(x, ResultOf(r, o), now))
           /\ (o.kind = "Unavailable" => o.message <= MaxErrorBytes) =>
                 JobOk(CompletedJob(x, ResultOf(r, o), now))
<1>. DEFINE s == ResultOf(r, o)
            y == CompletedJob(x, s, now)
<1>1. /\ now \in Int /\ Absent \notin Int /\ MaxAttempts \in Nat /\ MaxErrorBytes \in Nat
      /\ x \in Records /\ JobOk(x)
  BY ContractAssumption DEF ProperJob
<1>2. /\ s # Absent /\ s \in Results /\ s.key = x.key /\ s.body = o
      /\ o.kind \in {"Recognized", "Unavailable"}
      /\ o.kind = "Unavailable" => o.message \in Nat \ {0} /\ o.retryable \in BOOLEAN
  BY ResultType, MessageOfFailure
<1>. HIDE DEF s
<1>3. MayRetry(x, o) \in BOOLEAN
  BY <1>1, <1>2 DEF MayRetry
<1>4. /\ y \in Records /\ y.status = o.kind /\ y.result = s /\ y.key = x.key
      /\ y.error = IF o.kind = "Unavailable" THEN o.message ELSE Absent
      /\ y.started = x.started /\ y.updated = now /\ y.completed = now /\ y.created = x.created
      /\ y.attempts = x.attempts /\ y.retryable = MayRetry(x, o)
  <2>. DEFINE m == MayRetry(x, o)
              e == IF o.kind = "Unavailable" THEN o.message ELSE Absent
  <2>1. y = [x EXCEPT !.status = o.kind, !.updated = now, !.completed = now, !.retryable = m,
                      !.result = s, !.error = e]
    BY <1>2 DEF CompletedJob
  <2>2. m \in BOOLEAN /\ e \in Nat \cup {Absent}
    BY <1>2, <1>3
  <2>. HIDE DEF m, e, y
  <2>3. y \in Records
    <3>1. y = [key |-> x.key, status |-> o.kind, created |-> x.created, updated |-> now,
               started |-> x.started, completed |-> now, attempts |-> x.attempts,
               retryable |-> m, error |-> e, result |-> s]
      BY <1>1, <2>1 DEF Records
    <3>2. /\ x.key \in {q.source.key : q \in Requests} /\ x.created \in Int
          /\ x.started \in Int \cup {Absent} /\ x.attempts \in Nat
      BY <1>1 DEF Records
    <3>3. /\ o.kind \in {"Queued", "Running", "Recognized", "Unavailable", "Cancelled"}
          /\ now \in Int \cup {Absent} /\ s \in Results \cup {Absent}
      BY <1>1, <1>2
    <3>. QED
      BY <1>1, <2>2, <3>1, <3>2, <3>3 DEF Records
  <2>4. /\ y.status = o.kind /\ y.result = s /\ y.key = x.key /\ y.error = e
        /\ y.started = x.started /\ y.updated = now /\ y.completed = now /\ y.created = x.created
        /\ y.attempts = x.attempts /\ y.retryable = m
    BY <1>1, <2>1 DEF Records
  <2>. QED
    BY <2>3, <2>4 DEF m, e
<1>. HIDE DEF y
<1>5. Checked(y)
  BY <1>4 DEF Checked, s
<1>6. Promised(y)
  BY <1>2, <1>4 DEF Promised, Terminal, MayRetry
<1>7. ASSUME o.kind = "Unavailable" => o.message <= MaxErrorBytes PROVE JobOk(y)
  <2>1. RetryOk(y)
    BY <1>1, <1>2, <1>4, <1>7 DEF RetryOk, JobOk
  <2>2. Carries(y, y.status)
    BY <1>2, <1>4 DEF Carries
  <2>. QED
    BY <1>1, <1>2, <1>4, <2>1, <2>2 DEF JobOk, Records, Terminal
<1>. QED
  BY <1>4, <1>5, <1>6, <1>7 DEF y, s

LEMMA ContractStep ==
    ASSUME ContractInv, [ContractNext]_record
    PROVE  ContractInv'
<1>1. CASE UNCHANGED record
  BY <1>1 DEF ContractInv
<1>2. ASSUME NEW now \in Times, NEW r \in Requests, queued(r, now)
      PROVE  ContractInv'
  BY <1>2, QueuedIsProper DEF queued, ContractInv
<1>3. ASSUME NEW now \in Times, mark_running(now)
      PROVE  ContractInv'
  <2>1. ProperJob(record) /\ ~Terminal(record) /\ now >= record.created
    BY <1>3 DEF mark_running, ContractInv
  <2>2. record' = StartedJob(record, now) /\ JobOk(record')
    BY <1>3 DEF mark_running, Becomes
  <2>. QED
    BY <2>1, <2>2, StartedIsProper DEF ContractInv, ProperJob
<1>4. ASSUME NEW now \in Times, NEW r \in Requests, NEW o \in Outputs,
             Normalizes(r, o), complete_with_result(ResultOf(r, o), now)
      PROVE  ContractInv'
  <2>1. ProperJob(record) /\ r.source.key = record.key /\ now >= record.created
    BY <1>4, ResultType DEF complete_with_result, ContractInv
  <2>2. record' = CompletedJob(record, ResultOf(r, o), now) /\ JobOk(record')
    BY <1>4 DEF complete_with_result, Becomes
  <2>. QED
    BY <1>4, <2>1, <2>2, CompletedIsProper DEF ContractInv, ProperJob
<1>5. ASSUME NEW now \in Times, cancel(now)
      PROVE  ContractInv'
  <2>1. ProperJob(record) /\ ~Terminal(record)
    BY <1>5 DEF cancel, ContractInv
  <2>2. record' = CancelledJob(record, now) /\ JobOk(record')
    BY <1>5 DEF cancel, Becomes
  <2>. QED
    BY <2>1, <2>2, CancelledIsProper DEF ContractInv, ProperJob
<1>. QED
  BY <1>1, <1>2, <1>3, <1>4, <1>5 DEF ContractNext

LEMMA PromisesKept == ContractInv => RetryIsPromised /\ ResultIsChecked
<1>1. ASSUME ContractInv, record # Absent
      PROVE  record.attempts \in 0..MaxAttempts
  BY <1>1, ContractAssumption DEF ContractInv, ProperJob, JobOk, RetryOk, Records
<1>. QED
  BY <1>1 DEF ContractInv, ProperJob, Promised, Checked, RetryIsPromised, ResultIsChecked

LEMMA ChecksAreMet == ContractInv => NothingElseRefuses
<1>. SUFFICES ASSUME ContractInv, record # Absent
              PROVE  /\ JobOk(record)
                     /\ \A now \in Times : now >= record.created =>
                          /\ ~Terminal(record) => JobOk(CancelledJob(record, now))
                          /\ ~Terminal(record) /\ record.attempts < MaxAttempts => JobOk(StartedJob(record, now))
                          /\ \A r \in Requests, o \in Outputs :
                                /\ Normalizes(r, o) /\ r.source.key = record.key
                                /\ o.kind = "Unavailable" => o.message <= MaxErrorBytes
                                => JobOk(CompletedJob(record, ResultOf(r, o), now))
  BY DEF NothingElseRefuses
<1>1. ProperJob(record)
  BY DEF ContractInv
<1>. QED
  BY <1>1, CancelledIsProper, StartedIsProper, CompletedIsProper DEF ProperJob

\* For any requests, answers and limits, and however late an answer comes: a
\* record of the contract promises another attempt only after a failure that its
\* provider calls temporary, and never after the last one; its result was checked
\* against a request for the same scan, picture and kind; and the check that ends
\* each step refuses none but a start after the last attempt and a failure whose
\* message is too long.
THEOREM RecordsOfLibraryAreSound == MCSpec => []RecordIsSound
<1>1. MCInit => ContractInv
  BY DEF MCInit, ContractInit, ContractInv
<1>2. ContractInv /\ [MCNext]_libraryVars => ContractInv'
  BY ContractStep DEF MCNext, libraryVars
<1>3. ContractInv => RecordIsSound
  BY PromisesKept, ChecksAreMet DEF RecordIsSound
<1>. QED
  BY <1>1, <1>2, <1>3, PTL DEF MCSpec
-----------------------------------------------------------------------------
\* The texts of printed codes.

LEMMA SymbolsDiffer == \A d, e \in 0 .. 31 : Symbol(d) = Symbol(e) => d = e
BY DEF Symbol

LEMMA SymbolType == \A d \in 0 .. 31 : Symbol(d) \in ALPHABET /\ Symbol(d) \in 0 .. 35
<1>1. \A d \in 0 .. 31 : Symbol(d) \in 0 .. 35
  BY DEF Symbol
<1>2. \A d \in 0 .. 31 : Symbol(d) \in ALPHABET
  BY DEF ALPHABET
<1>. QED
  BY <1>1, <1>2

LEMMA SymbolOfDigit ==
  ASSUME NEW s \in ALPHABET
  PROVE  decode_digit(s) \in 0 .. 31 /\ Symbol(decode_digit(s)) = s /\ s \in 0 .. 35
<1>1. \E d \in 0 .. 31 : Symbol(d) = s
  BY DEF ALPHABET
<1>2. decode_digit(s) \in 0 .. 31 /\ Symbol(decode_digit(s)) = s
  BY <1>1 DEF decode_digit
<1>. QED
  BY <1>2, SymbolType

LEMMA DigitOfSymbol ==
  ASSUME NEW d \in 0 .. 31
  PROVE  decode_digit(Symbol(d)) = d
BY SymbolType, SymbolOfDigit, SymbolsDiffer

LEMMA FiveBits ==
  ASSUME NEW a \in 0 .. 1, NEW b \in 0 .. 1, NEW c \in 0 .. 1, NEW d \in 0 .. 1, NEW e \in 0 .. 1,
         NEW v, v = a + 2 * b + 4 * c + 8 * d + 16 * e
  PROVE  /\ v \in 0 .. 31
         /\ (v \div 1) % 2 = a /\ (v \div 2) % 2 = b /\ (v \div 4) % 2 = c
         /\ (v \div 8) % 2 = d /\ (v \div 16) % 2 = e
         /\ d = 0 /\ e = 0 => v <= 7
OBVIOUS

LEMMA BitsOfFive ==
  ASSUME NEW v \in 0 .. 31
  PROVE  /\ v = ((v \div 1) % 2) + 2 * ((v \div 2) % 2) + 4 * ((v \div 4) % 2) + 8 * ((v \div 8) % 2)
                + 16 * ((v \div 16) % 2)
         /\ v <= 7 => (v \div 8) % 2 = 0 /\ (v \div 16) % 2 = 0
         /\ (v \div 1) % 2 \in 0 .. 1 /\ (v \div 2) % 2 \in 0 .. 1 /\ (v \div 4) % 2 \in 0 .. 1
         /\ (v \div 8) % 2 \in 0 .. 1 /\ (v \div 16) % 2 \in 0 .. 1
OBVIOUS

LEMMA BitType == \A bits, i : Bit(bits, i) \in 0 .. 1
BY DEF Bit

\* Three digits are one number below a thousand, and back.
LEMMA DigitsOfTriple ==
  ASSUME NEW k \in 0 .. 999
  PROVE  \E x, y, z \in Digits : Triple(k) = <<x, y, z>> /\ Joined(x, y, z) = k
<1>1. /\ k \div 100 \in Digits /\ (k \div 10) % 10 \in Digits /\ k % 10 \in Digits
      /\ k = Joined(k \div 100, (k \div 10) % 10, k % 10)
  BY DEF Digits, Joined
<1>2. Triple(k) = <<k \div 100, (k \div 10) % 10, k % 10>>
  BY DEF Triple
<1>. QED
  BY <1>1, <1>2

LEMMA TripleOfDigits ==
  ASSUME NEW x \in Digits, NEW y \in Digits, NEW z \in Digits
  PROVE  Joined(x, y, z) \in 0 .. 999 /\ Triple(Joined(x, y, z)) = <<x, y, z>>
<1>. DEFINE k == Joined(x, y, z)
<1>1. k = 100 * x + 10 * y + z /\ x \in 0 .. 9 /\ y \in 0 .. 9 /\ z \in 0 .. 9
  BY DEF Digits, Joined
<1>. HIDE DEF k
<1>2. k \in 0 .. 999
  BY <1>1
<1>3. k \div 100 = x
  BY <1>1
<1>4. k \div 10 = 10 * x + y
  BY <1>1
<1>5. (10 * x + y) % 10 = y
  BY <1>1
<1>6. k % 10 = z
  BY <1>1
<1>7. Triple(k) = <<x, y, z>>
  BY <1>3, <1>4, <1>5, <1>6 DEF Triple
<1>. QED
  BY <1>2, <1>7 DEF k

LEMMA ThreeAndThree ==
  ASSUME NEW x \in Digits, NEW y \in Digits, NEW z \in Digits, NEW u \in Digits, NEW v \in Digits, NEW w \in Digits
  PROVE  <<x, y, z>> \o <<u, v, w>> = <<x, y, z, u, v, w>>
<1>. DEFINE s == <<x, y, z>> \o <<u, v, w>>
<1>1. s \in Seq(Digits) /\ Len(s) = 6
  OBVIOUS
<1>2. s[1] = x /\ s[2] = y /\ s[3] = z /\ s[4] = u /\ s[5] = v /\ s[6] = w
  OBVIOUS
<1>. HIDE DEF s
<1>3. s = <<x, y, z, u, v, w>>
  BY <1>1, <1>2
<1>. QED
  BY <1>3 DEF s

\* Six digits are one number, and back.
LEMMA DigitsOfNumber ==
  ASSUME NEW n \in Numbers
  PROVE  \E x, y, z, u, v, w \in Digits : Six(n) = <<x, y, z, u, v, w>> /\ NumberOf(x, y, z, u, v, w) = n
<1>1. n \in Nat /\ n \div 1000 < 1000
  BY DEF Numbers
<1>2. n \div 1000 \in 0 .. 999
  BY <1>1
<1>3. n % 1000 \in 0 .. 999
  BY <1>1
<1>4. n = 1000 * (n \div 1000) + (n % 1000)
  BY <1>1
<1>. DEFINE h == n \div 1000
            l == n % 1000
<1>5. Six(n) = Triple(h) \o Triple(l)
  BY DEF Six
<1>6. h \in 0 .. 999 /\ l \in 0 .. 999 /\ n = 1000 * h + l
  BY <1>2, <1>3, <1>4
<1>. HIDE DEF h, l
<1>7. h \in 0 .. 999 /\ l \in 0 .. 999
  BY <1>6
<1>8. \E x, y, z \in Digits : Triple(h) = <<x, y, z>> /\ Joined(x, y, z) = h
  BY <1>7, DigitsOfTriple, Zenon
<1>9. \E x, y, z \in Digits : Triple(l) = <<x, y, z>> /\ Joined(x, y, z) = l
  BY <1>7, DigitsOfTriple, Zenon
<1>10. PICK x, y, z \in Digits : Triple(h) = <<x, y, z>> /\ Joined(x, y, z) = h
  BY <1>8, Zenon
<1>11. PICK u, v, w \in Digits : Triple(l) = <<u, v, w>> /\ Joined(u, v, w) = l
  BY <1>9, Zenon
<1>12. Six(n) = <<x, y, z, u, v, w>>
  BY <1>5, <1>10, <1>11, ThreeAndThree
<1>13. NumberOf(x, y, z, u, v, w) = n
  BY <1>6, <1>10, <1>11 DEF NumberOf
<1>. QED
  BY <1>12, <1>13

LEMMA NumberOfDigits ==
  ASSUME NEW x \in Digits, NEW y \in Digits, NEW z \in Digits, NEW u \in Digits, NEW v \in Digits, NEW w \in Digits
  PROVE  NumberOf(x, y, z, u, v, w) \in Numbers /\ Six(NumberOf(x, y, z, u, v, w)) = <<x, y, z, u, v, w>>
<1>. DEFINE h == Joined(x, y, z)
            l == Joined(u, v, w)
            n == NumberOf(x, y, z, u, v, w)
<1>1. h \in 0 .. 999 /\ Triple(h) = <<x, y, z>> /\ l \in 0 .. 999 /\ Triple(l) = <<u, v, w>>
  BY TripleOfDigits
<1>2. n = 1000 * h + l
  BY DEF NumberOf
<1>. HIDE DEF h, l, n
<1>3. n \in Nat
  BY <1>1, <1>2
<1>4. n \div 1000 = h
  BY <1>1, <1>2
<1>5. n % 1000 = l
  BY <1>1, <1>2
<1>6. n \in Numbers
  BY <1>1, <1>3, <1>4 DEF Numbers
<1>7. Six(n) = Triple(h) \o Triple(l)
  BY <1>4, <1>5 DEF Six
<1>8. Six(n) = <<x, y, z, u, v, w>>
  BY <1>1, <1>7, ThreeAndThree
<1>. QED
  BY <1>6, <1>8 DEF n

LEMMA TextOfNumber ==
  ASSUME NEW n \in Numbers
  PROVE  NumericField(Text(n)) /\ Text(n) \in Seq(Digits) /\ Value(Text(n)) = n
<1>. DEFINE six == Six(n)
            Starts(i) == (i = 6 \/ six[i] # 0) /\ \A j \in 1 .. i - 1 : six[j] = 0
            first == CHOOSE i \in 1 .. 6 : Starts(i)
            text == Text(n)
<1>1. PICK x, y, z, u, v, w \in Digits : six = <<x, y, z, u, v, w>> /\ NumberOf(x, y, z, u, v, w) = n
  BY DigitsOfNumber
<1>2. text = [i \in 1 .. 7 - first |-> six[first + i - 1]]
  BY DEF Text
<1>. HIDE DEF six, text
<1>3. six[1] = x /\ six[2] = y /\ six[3] = z /\ six[4] = u /\ six[5] = v /\ six[6] = w
  BY <1>1
<1>4. \A i \in 1 .. 6 : six[i] \in Digits
  BY <1>3
<1>5. \E i \in 1 .. 6 : Starts(i)
  <2>1. Starts(1) \/ Starts(2) \/ Starts(3) \/ Starts(4) \/ Starts(5) \/ Starts(6)
    BY <1>4
  <2>. QED
    BY <2>1
<1>6. first \in 1 .. 6 /\ Starts(first)
  BY <1>5
<1>. HIDE DEF first
<1>7. /\ text \in Seq(Digits) /\ Len(text) = 7 - first /\ DOMAIN text = 1 .. 7 - first
      /\ \A i \in 1 .. 7 - first : text[i] = six[first + i - 1]
  BY <1>2, <1>4, <1>6
<1>8. NumericField(text)
  <2>1. Len(text) \in 1 .. 6
    BY <1>6, <1>7
  <2>2. Len(text) > 1 => text[1] # 0
    BY <1>6, <1>7
  <2>3. \A i \in DOMAIN text : text[i] \in Digits
    BY <1>7
  <2>. QED
    BY <2>1, <2>2, <2>3 DEF NumericField
<1>9. \A i \in 1 .. 6 : DigitAt(text, i) = six[i]
  BY <1>6, <1>7 DEF DigitAt
<1>10. Value(text) = n
  BY <1>1, <1>3, <1>9 DEF Value
<1>. QED
  BY <1>7, <1>8, <1>10 DEF text

LEMMA NumberOfText ==
  ASSUME NEW t \in Seq(Nat), NumericField(t)
  PROVE  Value(t) \in Numbers /\ Text(Value(t)) = t /\ t \in Seq(Digits)
<1>. DEFINE six == Six(Value(t))
            first == 7 - Len(t)
            Starts(i) == (i = 6 \/ six[i] # 0) /\ \A j \in 1 .. i - 1 : six[j] = 0
<1>1. /\ Len(t) \in 1 .. 6 /\ DOMAIN t = 1 .. Len(t) /\ \A i \in 1 .. Len(t) : t[i] \in Digits
      /\ Len(t) > 1 => t[1] # 0
  BY DEF NumericField
<1>2. first \in 1 .. 6 /\ Len(t) = 7 - first
  <2>1. \A k \in 1 .. 6 : 7 - k \in 1 .. 6 /\ k = 7 - (7 - k)
    OBVIOUS
  <2>. QED
    BY <1>1, <2>1
<1>3. \A i \in 1 .. 6 : i < first => DigitAt(t, i) = 0
  BY <1>1 DEF DigitAt
<1>4. \A i \in 1 .. Len(t) : DigitAt(t, first + i - 1) = t[i]
  <2>1. SUFFICES ASSUME NEW i \in 1 .. Len(t) PROVE DigitAt(t, first + i - 1) = t[i]
    OBVIOUS
  <2>2. ~(first + i - 1 <= 6 - Len(t)) /\ first + i - 1 - (6 - Len(t)) = i
    BY <1>1
  <2>. QED
    BY <2>2 DEF DigitAt
<1>. HIDE DEF first
<1>5. \A i \in 1 .. 6 : DigitAt(t, i) \in Digits
  <2>1. SUFFICES ASSUME NEW i \in 1 .. 6 PROVE DigitAt(t, i) \in Digits
    OBVIOUS
  <2>2. CASE i < first
    BY <1>3, <2>2 DEF Digits
  <2>3. CASE ~(i < first)
    <3>1. i - first + 1 \in 1 .. Len(t) /\ first + (i - first + 1) - 1 = i
      BY <1>2, <2>3
    <3>. QED
      BY <1>1, <1>4, <3>1
  <2>. QED
    BY <2>2, <2>3
<1>6. /\ Value(t) \in Numbers
      /\ six = <<DigitAt(t, 1), DigitAt(t, 2), DigitAt(t, 3), DigitAt(t, 4), DigitAt(t, 5), DigitAt(t, 6)>>
  <2>1. /\ DigitAt(t, 1) \in Digits /\ DigitAt(t, 2) \in Digits /\ DigitAt(t, 3) \in Digits
        /\ DigitAt(t, 4) \in Digits /\ DigitAt(t, 5) \in Digits /\ DigitAt(t, 6) \in Digits
    BY <1>5
  <2>. QED
    BY <2>1, NumberOfDigits DEF Value
<1>7. Text(Value(t)) = [i \in 1 .. 7 - (CHOOSE j \in 1 .. 6 : Starts(j)) |->
                           six[(CHOOSE j \in 1 .. 6 : Starts(j)) + i - 1]]
  BY DEF Text
<1>. HIDE DEF six
<1>8. \A i \in 1 .. 6 : six[i] = DigitAt(t, i)
  <2>1. /\ six[1] = DigitAt(t, 1) /\ six[2] = DigitAt(t, 2) /\ six[3] = DigitAt(t, 3)
        /\ six[4] = DigitAt(t, 4) /\ six[5] = DigitAt(t, 5) /\ six[6] = DigitAt(t, 6)
    BY <1>6
  <2>. QED
    BY <2>1
<1>9. Starts(first)
  <2>1. \A j \in 1 .. first - 1 : six[j] = 0
    BY <1>2, <1>3, <1>8
  <2>2. six[first] = t[1]
    <3>1. 1 \in 1 .. Len(t) /\ first + 1 - 1 = first
      BY <1>1, <1>2
    <3>. QED
      BY <1>2, <1>4, <1>8, <3>1
  <2>. QED
    BY <1>1, <1>2, <2>1, <2>2
<1>10. ASSUME NEW i \in 1 .. 6, Starts(i) PROVE i = first
  <2>1. CASE i < first
    <3>1. i \in 1 .. first - 1 /\ i # 6
      BY <1>2, <2>1
    <3>. QED
      BY <1>9, <1>10, <3>1
  <2>2. CASE first < i
    <3>1. first \in 1 .. i - 1 /\ first # 6
      BY <1>2, <2>2
    <3>. QED
      BY <1>9, <1>10, <3>1
  <2>. QED
    BY <1>2, <2>1, <2>2
<1>. HIDE DEF Starts
<1>11. (CHOOSE i \in 1 .. 6 : Starts(i)) = first
  BY <1>2, <1>9, <1>10
<1>12. Text(Value(t)) = [i \in 1 .. 7 - first |-> six[first + i - 1]]
  BY <1>7, <1>11
<1>13. \A i \in 1 .. 7 - first : six[first + i - 1] = t[i]
  <2>1. SUFFICES ASSUME NEW i \in 1 .. 7 - first PROVE six[first + i - 1] = t[i]
    OBVIOUS
  <2>2. first + i - 1 \in 1 .. 6 /\ i \in 1 .. Len(t)
    BY <1>2
  <2>. QED
    BY <1>4, <1>8, <2>2
<1>14. Text(Value(t)) = [i \in 1 .. Len(t) |-> t[i]]
  BY <1>2, <1>12, <1>13
<1>15. t = [i \in 1 .. Len(t) |-> t[i]]
  OBVIOUS
<1>16. t \in Seq(Digits)
  BY <1>1
<1>. QED
  BY <1>6, <1>14, <1>15, <1>16

\* The five bits of a digit, and what they make.
FiveOf(bits, low) ==
    Bit(bits, low) + 2 * Bit(bits, low + 1) + 4 * Bit(bits, low + 2)
    + 8 * Bit(bits, low + 3) + 16 * Bit(bits, low + 4)

LEMMA FivesType ==
  ASSUME NEW bits, NEW length \in Nat
  PROVE  /\ Fives(bits, length) \in [1 .. length -> ALPHABET]
         /\ \A i \in 1 .. length : /\ FiveOf(bits, 5 * (length - i)) \in 0 .. 31
                                   /\ Fives(bits, length)[i] = Symbol(FiveOf(bits, 5 * (length - i)))
<1>1. ASSUME NEW low PROVE FiveOf(bits, low) \in 0 .. 31
  <2>1. /\ Bit(bits, low) \in 0 .. 1 /\ Bit(bits, low + 1) \in 0 .. 1 /\ Bit(bits, low + 2) \in 0 .. 1
        /\ Bit(bits, low + 3) \in 0 .. 1 /\ Bit(bits, low + 4) \in 0 .. 1
    BY DEF Bit
  <2>. QED
    BY <2>1 DEF FiveOf
<1>2. Fives(bits, length) = [i \in 1 .. length |-> Symbol(FiveOf(bits, 5 * (length - i)))]
  BY DEF Fives, FiveOf
<1>3. \A i \in 1 .. length : Symbol(FiveOf(bits, 5 * (length - i))) \in ALPHABET
  BY <1>1, SymbolType
<1>. QED
  BY <1>1, <1>2, <1>3

LEMMA BitsOfFiveOf ==
  ASSUME NEW bits, NEW low \in Nat, NEW r \in 0 .. 4
  PROVE  (FiveOf(bits, low) \div Weight[r + 1]) % 2 = Bit(bits, low + r)
<1>. DEFINE v == FiveOf(bits, low)
            a == Bit(bits, low)
            b == Bit(bits, low + 1)
            c == Bit(bits, low + 2)
            d == Bit(bits, low + 3)
            e == Bit(bits, low + 4)
<1>1. a \in 0 .. 1 /\ b \in 0 .. 1 /\ c \in 0 .. 1 /\ d \in 0 .. 1 /\ e \in 0 .. 1
  BY DEF Bit
<1>2. v = a + 2 * b + 4 * c + 8 * d + 16 * e
  BY DEF FiveOf
<1>3. a = Bit(bits, low + 0)
  <2>1. low + 0 = low
    OBVIOUS
  <2>. QED
    BY <2>1
<1>4. Weight[1] = 1 /\ Weight[2] = 2 /\ Weight[3] = 4 /\ Weight[4] = 8 /\ Weight[5] = 16
  BY DEF Weight
<1>. HIDE DEF v, a, b, c, d, e
<1>5. /\ (v \div 1) % 2 = a /\ (v \div 2) % 2 = b /\ (v \div 4) % 2 = c
      /\ (v \div 8) % 2 = d /\ (v \div 16) % 2 = e
  BY <1>1, <1>2
<1>6. CASE r = 0
  BY <1>3, <1>4, <1>5, <1>6 DEF v
<1>7. CASE r = 1
  BY <1>4, <1>5, <1>7 DEF v, b
<1>8. CASE r = 2
  BY <1>4, <1>5, <1>8 DEF v, c
<1>9. CASE r = 3
  BY <1>4, <1>5, <1>9 DEF v, d
<1>10. CASE r = 4
  BY <1>4, <1>5, <1>10 DEF v, e
<1>. QED
  BY <1>6, <1>7, <1>8, <1>9, <1>10

\* A text of an identifier is exact: of 128 bits, those bits.
LEMMA IdentifierOfBits ==
  ASSUME NEW bits \in SUBSET (0 .. 127)
  PROVE  encode_128(bits) \in Ids /\ decode_128(encode_128(bits)) = bits
<1>. DEFINE t == encode_128(bits)
<1>1. /\ t \in [1 .. 26 -> ALPHABET]
      /\ \A i \in 1 .. 26 : /\ FiveOf(bits, 5 * (26 - i)) \in 0 .. 31
                            /\ t[i] = Symbol(FiveOf(bits, 5 * (26 - i)))
  BY FivesType DEF encode_128
<1>. HIDE DEF t
<1>2. \A i \in 1 .. 26 : decode_digit(t[i]) = FiveOf(bits, 5 * (26 - i))
  BY <1>1, DigitOfSymbol
<1>3. decode_digit(t[1]) <= 7
  <2>1. 1 \in 1 .. 26 /\ 5 * (26 - 1) = 125
    OBVIOUS
  <2>2. decode_digit(t[1]) = FiveOf(bits, 125)
    BY <1>2, <2>1
  <2>3. Bit(bits, 125 + 3) = 0 /\ Bit(bits, 125 + 4) = 0
    BY DEF Bit
  <2>4. Bit(bits, 125) \in 0 .. 1 /\ Bit(bits, 125 + 1) \in 0 .. 1 /\ Bit(bits, 125 + 2) \in 0 .. 1
    BY DEF Bit
  <2>. QED
    BY <2>2, <2>3, <2>4 DEF FiveOf
<1>4. ASSUME NEW q \in 0 .. 127
      PROVE  (decode_digit(t[26 - q \div 5]) \div Weight[(q % 5) + 1]) % 2 = Bit(bits, q)
  <2>. DEFINE g == q \div 5
              r == q % 5
  <2>1. g \in 0 .. 25
    OBVIOUS
  <2>2. r \in 0 .. 4
    OBVIOUS
  <2>3. q = 5 * g + r
    OBVIOUS
  <2>. HIDE DEF g, r
  <2>4. 26 - g \in 1 .. 26 /\ 5 * (26 - (26 - g)) = 5 * g /\ 5 * g \in Nat
    BY <2>1
  <2>5. decode_digit(t[26 - g]) = FiveOf(bits, 5 * g)
    BY <1>2, <2>4
  <2>6. (FiveOf(bits, 5 * g) \div Weight[r + 1]) % 2 = Bit(bits, 5 * g + r)
    BY <2>2, <2>4, BitsOfFiveOf
  <2>7. (decode_digit(t[26 - g]) \div Weight[r + 1]) % 2 = Bit(bits, q)
    BY <2>3, <2>5, <2>6
  <2>. QED
    BY <2>7 DEF g, r
<1>5. decode_128(t) = bits
  <2>1. \A q \in 0 .. 127 : Bit(bits, q) = 1 <=> q \in bits
    BY DEF Bit
  <2>2. \A q : q \in decode_128(t) <=> q \in 0 .. 127 /\ Bit(bits, q) = 1
    BY <1>4 DEF decode_128
  <2>. QED
    BY <2>1, <2>2
<1>6. t \in Ids
  BY <1>1, <1>3 DEF Ids
<1>. QED
  BY <1>5, <1>6 DEF t

LEMMA BitsOfIdentifier ==
  ASSUME NEW t \in Ids
  PROVE  decode_128(t) \in SUBSET (0 .. 127) /\ encode_128(decode_128(t)) = t
<1>. DEFINE bits == decode_128(t)
<1>1. t \in [1 .. 26 -> ALPHABET] /\ decode_digit(t[1]) <= 7
  BY DEF Ids
<1>2. bits \in SUBSET (0 .. 127)
  BY DEF decode_128
<1>3. \A q \in 0 .. 127 : Bit(bits, q) = (decode_digit(t[26 - q \div 5]) \div Weight[(q % 5) + 1]) % 2
  <2>1. SUFFICES ASSUME NEW q \in 0 .. 127
                 PROVE  Bit(bits, q) = (decode_digit(t[26 - q \div 5]) \div Weight[(q % 5) + 1]) % 2
    OBVIOUS
  <2>. DEFINE digit == decode_digit(t[26 - q \div 5])
              weight == Weight[(q % 5) + 1]
  <2>2. 26 - q \div 5 \in 1 .. 26
    OBVIOUS
  <2>3. digit \in 0 .. 31
    BY <1>1, <2>2, SymbolOfDigit
  <2>4. weight \in {1, 2, 4, 8, 16}
    <3>1. q % 5 \in 0 .. 4
      OBVIOUS
    <3>. QED
      BY <3>1 DEF Weight
  <2>5. q \in bits <=> (digit \div weight) % 2 = 1
    BY DEF decode_128
  <2>. HIDE DEF digit, weight, bits
  <2>6. (digit \div weight) % 2 \in 0 .. 1
    BY <2>3, <2>4
  <2>7. Bit(bits, q) = (digit \div weight) % 2
    BY <2>5, <2>6 DEF Bit
  <2>. QED
    BY <2>7 DEF digit, weight
<1>. HIDE DEF bits
<1>4. ASSUME NEW i \in 1 .. 26
      PROVE  FiveOf(bits, 5 * (26 - i)) = decode_digit(t[i])
  <2>. DEFINE v == decode_digit(t[i])
              low == 5 * (26 - i)
  <2>1. v \in 0 .. 31
    BY <1>1, SymbolOfDigit
  <2>2. low \in Nat /\ low <= 125 /\ (i # 1 => low <= 120) /\ (i = 1 => low = 125)
    OBVIOUS
  <2>3. ASSUME NEW r \in 0 .. 4, low + r <= 127
        PROVE  Bit(bits, low + r) = (v \div Weight[r + 1]) % 2
    <3>1. low + r \in 0 .. 127
      BY <2>2, <2>3
    <3>2. (low + r) \div 5 = 26 - i /\ (low + r) % 5 = r
      OBVIOUS
    <3>3. 26 - (26 - i) = i
      OBVIOUS
    <3>. QED
      BY <1>3, <3>1, <3>2, <3>3
  <2>4. Weight[1] = 1 /\ Weight[2] = 2 /\ Weight[3] = 4 /\ Weight[4] = 8 /\ Weight[5] = 16
    BY DEF Weight
  <2>5. low + 0 = low
    OBVIOUS
  <2>. HIDE DEF v, low
  <2>6. /\ Bit(bits, low) = (v \div 1) % 2 /\ Bit(bits, low + 1) = (v \div 2) % 2
        /\ Bit(bits, low + 2) = (v \div 4) % 2
    <3>1. low + 0 <= 127 /\ low + 1 <= 127 /\ low + 2 <= 127
      BY <2>2
    <3>2. Bit(bits, low + 0) = (v \div Weight[0 + 1]) % 2
      BY <2>3, <3>1
    <3>3. Bit(bits, low + 1) = (v \div Weight[1 + 1]) % 2
      BY <2>3, <3>1
    <3>4. Bit(bits, low + 2) = (v \div Weight[2 + 1]) % 2
      BY <2>3, <3>1
    <3>. QED
      BY <2>4, <2>5, <3>2, <3>3, <3>4
  <2>7. Bit(bits, low + 3) = (v \div 8) % 2 /\ Bit(bits, low + 4) = (v \div 16) % 2
    <3>1. CASE i = 1
      <4>1. v <= 7
        BY <1>1, <3>1 DEF v
      <4>2. (v \div 8) % 2 = 0 /\ (v \div 16) % 2 = 0
        BY <2>1, <4>1
      <4>3. low + 3 \notin bits /\ low + 4 \notin bits
        BY <1>2, <2>2, <3>1
      <4>. QED
        BY <4>2, <4>3 DEF Bit
    <3>2. CASE i # 1
      <4>1. low + 3 <= 127 /\ low + 4 <= 127
        BY <2>2, <3>2
      <4>2. Bit(bits, low + 3) = (v \div Weight[3 + 1]) % 2
        BY <2>3, <4>1
      <4>3. Bit(bits, low + 4) = (v \div Weight[4 + 1]) % 2
        BY <2>3, <4>1
      <4>. QED
        BY <2>4, <4>2, <4>3
    <3>. QED
      BY <3>1, <3>2
  <2>8. v = ((v \div 1) % 2) + 2 * ((v \div 2) % 2) + 4 * ((v \div 4) % 2) + 8 * ((v \div 8) % 2)
             + 16 * ((v \div 16) % 2)
    BY <2>1
  <2>9. FiveOf(bits, low) = v
    BY <2>6, <2>7, <2>8 DEF FiveOf
  <2>. QED
    BY <2>9 DEF v, low
<1>5. ASSUME NEW i \in 1 .. 26 PROVE encode_128(bits)[i] = t[i]
  <2>1. encode_128(bits)[i] = Symbol(FiveOf(bits, 5 * (26 - i)))
    BY FivesType DEF encode_128
  <2>2. t[i] \in ALPHABET
    BY <1>1
  <2>. QED
    BY <1>4, <2>1, <2>2, SymbolOfDigit
<1>6. encode_128(bits) \in [1 .. 26 -> ALPHABET]
  BY FivesType DEF encode_128
<1>7. encode_128(bits) = t
  BY <1>1, <1>5, <1>6
<1>. QED
  BY <1>2, <1>7 DEF bits

\* The bits of an identifier and its text determine each other: id.rs:30-70 keeps
\* all 128 bits, and accepts no second text for them.
THEOREM IdentifiersAreExact ==
  /\ \A bits \in SUBSET (0 .. 127) : encode_128(bits) \in Ids /\ decode_128(encode_128(bits)) = bits
  /\ \A t \in Ids : decode_128(t) \in SUBSET (0 .. 127) /\ encode_128(decode_128(t)) = t
BY IdentifierOfBits, BitsOfIdentifier

LEMMA TextsDiffer ==
  /\ SETUP # PAGE /\ SETUP # SMART /\ PAGE # SMART
  /\ NoField \notin Ids /\ ~NumericField(NoField)
<1>1. SETUP[1] = 28 /\ PAGE[1] = 11 /\ SMART[1] = 22 /\ NoField[1] = 36 /\ Len(NoField) = 1 /\ DOMAIN NoField = 1 .. 1
  BY DEF SETUP, PAGE, SMART, NoField, Hyphen
<1>2. ~NumericField(NoField)
  BY <1>1 DEF NumericField, Digits
<1>3. \A t \in Ids : t[1] \in 0 .. 35
  <2>1. \A t \in Ids : t \in [1 .. 26 -> ALPHABET]
    BY DEF Ids
  <2>. QED
    BY <2>1, SymbolOfDigit
<1>4. NoField \notin Ids
  BY <1>1, <1>3
<1>. QED
  BY <1>1, <1>2, <1>4

\* A text whose characters are some, and which is no longer than so much.
Short(t, n) == t \in Seq(Characters) /\ Len(t) <= n

LEMMA ShortTexts ==
  /\ Short(MAGIC, 3) /\ Short(VERSION, 1) /\ Short(SETUP, 1) /\ Short(PAGE, 1) /\ Short(SMART, 1) /\ Short(NoField, 1)
  /\ \A t \in Ids : Short(t, 26)
  /\ \A t \in Layouts : Short(t, 20)
  /\ \A n \in Numbers : Short(Text(n), 6)
  /\ \A bits : Short(encode_crc(bits), 7)
<1>1. Short(MAGIC, 3) /\ Short(VERSION, 1)
  BY DEF Short, MAGIC, VERSION, Characters, Hyphen
<1>2. Short(SETUP, 1) /\ Short(PAGE, 1) /\ Short(SMART, 1) /\ Short(NoField, 1)
  BY DEF Short, SETUP, PAGE, SMART, NoField, Characters, Hyphen
<1>3. ALPHABET \subseteq Characters /\ Digits \subseteq Characters
  BY SymbolOfDigit DEF Characters, Hyphen, Digits
<1>4. ASSUME NEW k \in Nat, NEW t \in [1 .. k -> ALPHABET] PROVE Short(t, k)
  BY <1>3 DEF Short
<1>5. \A t \in Ids : Short(t, 26)
  BY <1>4 DEF Ids
<1>6. \A bits : Short(encode_crc(bits), 7)
  BY <1>4, FivesType DEF encode_crc
<1>7. \A t \in Layouts : Short(t, 20)
  <2>1. ASSUME NEW t \in Layouts PROVE Short(t, 20)
    <3>1. t \in Seq(Characters) /\ Len(t) \in 1 .. 20
      BY DEF Layouts
    <3>2. \A k \in 1 .. 20 : k <= 20
      OBVIOUS
    <3>3. Len(t) <= 20
      BY <3>1, <3>2
    <3>. QED
      BY <3>1, <3>3 DEF Short
  <2>. QED
    BY <2>1
<1>8. ASSUME NEW n \in Numbers PROVE Short(Text(n), 6)
  <2>. DEFINE t == Text(n)
  <2>1. t \in Seq(Digits) /\ Len(t) \in 1 .. 6
    BY TextOfNumber DEF NumericField
  <2>. HIDE DEF t
  <2>2. t \in Seq(Characters)
    BY <1>3, <2>1
  <2>3. \A k \in 1 .. 6 : k <= 6
    OBVIOUS
  <2>4. Len(t) <= 6
    BY <2>1, <2>3
  <2>. QED
    BY <2>2, <2>4 DEF Short, t
<1>. QED
  BY <1>1, <1>2, <1>5, <1>6, <1>7, <1>8

\* Fields are as many as eight, with so many characters: the text has room.
Room(i) ==
    IF i = 1 THEN 3 ELSE IF i \in {2, 3} THEN 1 ELSE IF i \in {5, 6} THEN 20 ELSE IF i = 8 THEN 7 ELSE 26
Offset(i) ==
    IF i = 1 THEN 0 ELSE IF i = 2 THEN 3 ELSE IF i = 3 THEN 4 ELSE IF i = 4 THEN 5
    ELSE IF i = 5 THEN 31 ELSE IF i = 6 THEN 51 ELSE IF i = 7 THEN 71 ELSE 97

LEMMA PayloadHasRoom ==
  ASSUME NEW p \in Seq(Seq(Characters)), Len(p) \in 1 .. 8,
         \A i \in 1 .. Len(p) : Len(p[i]) <= Room(i)
  PROVE  Length(p) <= MAX_PAYLOAD_LEN
<1>. DEFINE places == UNION {{i} \X DOMAIN p[i] : i \in DOMAIN p}
            f == [q \in places |-> Offset(q[1]) + q[2]]
<1>1. \A q \in places : /\ q = <<q[1], q[2]>> /\ q[1] \in 1 .. Len(p)
                        /\ q[2] \in 1 .. Len(p[q[1]])
  OBVIOUS
<1>3. ASSUME NEW i \in 1 .. 8
      PROVE  Offset(i) \in Nat /\ Room(i) \in Nat /\ Offset(i) + Room(i) <= 104
  BY DEF Offset, Room
<1>4. ASSUME NEW i \in 1 .. 8, NEW j \in 1 .. 8, i < j
      PROVE  Offset(i) + Room(i) <= Offset(j)
  BY <1>4 DEF Offset, Room
<1>. DEFINE limit == 104
<1>0. limit \in Nat /\ limit >= 1 /\ limit <= 104
  OBVIOUS
<1>. HIDE DEF places, limit
<1>5. ASSUME NEW q \in places PROVE q[1] \in 1 .. 8 /\ q[2] \in Nat /\ q[2] >= 1 /\ q[2] <= Room(q[1])
  <2>. DEFINE i == q[1]
              j == q[2]
  <2>1. i \in 1 .. Len(p) /\ j \in 1 .. Len(p[i]) /\ Len(p[i]) \in Nat
    BY <1>1
  <2>. HIDE DEF i, j
  <2>2. i \in 1 .. 8
    <3>1. \A k \in 1 .. 8 : \A n \in 1 .. k : n \in 1 .. 8
      OBVIOUS
    <3>. QED
      BY <2>1, <3>1
  <2>3. Len(p[i]) <= Room(i) /\ Room(i) \in Nat
    BY <1>3, <2>1, <2>2
  <2>4. j \in Nat /\ j >= 1 /\ j <= Len(p[i])
    BY <2>1
  <2>5. j <= Room(i)
    BY <2>1, <2>3, <2>4
  <2>. QED
    BY <2>2, <2>4, <2>5 DEF i, j
<1>6. ASSUME NEW q \in places PROVE f[q] \in 1 .. limit
  <2>. DEFINE i == q[1]
              j == q[2]
  <2>1. f[q] = Offset(i) + j
    OBVIOUS
  <2>2. i \in 1 .. 8 /\ j \in Nat /\ j >= 1 /\ j <= Room(i)
    BY <1>5
  <2>. HIDE DEF f, i, j
  <2>3. Offset(i) \in Nat /\ Room(i) \in Nat /\ Offset(i) + Room(i) <= 104
    BY <1>3, <2>2
  <2>4. Offset(i) + j \in Nat /\ Offset(i) + j >= 1 /\ Offset(i) + j <= limit
    BY <2>2, <2>3 DEF limit
  <2>. QED
    BY <2>1, <2>4
<1>7. ASSUME NEW q \in places, NEW r \in places, f[q] = f[r] PROVE q = r
  <2>. DEFINE i == q[1]
              j == q[2]
              k == r[1]
              l == r[2]
  <2>1. Offset(i) + j = Offset(k) + l
    BY <1>7
  <2>2. /\ i \in 1 .. 8 /\ j \in Nat /\ j >= 1 /\ j <= Room(i)
        /\ k \in 1 .. 8 /\ l \in Nat /\ l >= 1 /\ l <= Room(k)
    BY <1>5
  <2>. HIDE DEF i, j, k, l
  <2>3. Offset(i) \in Nat /\ Room(i) \in Nat /\ Offset(k) \in Nat /\ Room(k) \in Nat
    BY <1>3, <2>2
  <2>4. ~(i < k)
    <3>1. SUFFICES ASSUME i < k PROVE FALSE
      OBVIOUS
    <3>2. Offset(i) + Room(i) <= Offset(k)
      BY <1>4, <2>2, <3>1
    <3>. QED
      BY <2>1, <2>2, <2>3, <3>2
  <2>5. ~(k < i)
    <3>1. SUFFICES ASSUME k < i PROVE FALSE
      OBVIOUS
    <3>2. Offset(k) + Room(k) <= Offset(i)
      BY <1>4, <2>2, <3>1
    <3>. QED
      BY <2>1, <2>2, <2>3, <3>2
  <2>6. i = k
    BY <2>2, <2>4, <2>5
  <2>7. j = l
    BY <2>1, <2>2, <2>3, <2>6
  <2>. QED
    BY <1>1, <2>6, <2>7 DEF i, j, k, l
<1>8. f \in Injection(places, 1 .. limit)
  BY <1>6, <1>7 DEF Injection, IsInjective
<1>9. IsFiniteSet(1 .. limit) /\ Cardinality(1 .. limit) = limit
  BY <1>0, FS_Interval
<1>. DEFINE card == Cardinality(places)
<1>10. IsFiniteSet(places) /\ card <= limit
  <2>. HIDE DEF f
  <2>1. IsFiniteSet(places) /\ Cardinality(places) <= Cardinality(1 .. limit)
    BY <1>8, <1>9, FS_Injection
  <2>. QED
    BY <1>9, <2>1
<1>11. card \in Nat
  BY <1>10, FS_CardinalityType
<1>. HIDE DEF card
<1>12. card + Len(p) - 1 <= 128
  <2>1. \A k \in 1 .. 8 : card + k - 1 <= 128
    BY <1>0, <1>10, <1>11
  <2>. QED
    BY <2>1
<1>. QED
  BY <1>12 DEF Length, MAX_PAYLOAD_LEN, places, card

LEMMA TextsAreNumbers ==
  /\ \A t \in Seq(Characters) : t \in Seq(Nat)
  /\ \A p \in Seq(Seq(Characters)) : p \in Seq(Seq(Nat))
<1>1. ASSUME NEW t \in Seq(Characters) PROVE t \in Seq(Nat)
  <2>1. \A s \in Characters : s \in Nat
    BY DEF Characters, Hyphen
  <2>. QED
    BY <2>1
<1>2. ASSUME NEW p \in Seq(Seq(Characters)) PROVE p \in Seq(Seq(Nat))
  BY <1>1
<1>. QED
  BY <1>1, <1>2

LEMMA SignedFields ==
  ASSUME NEW fields \in Seq(Seq(Nat))
  PROVE  /\ Signed(fields) \in Seq(Seq(Nat)) /\ Len(Signed(fields)) = Len(fields) + 1
         /\ \A i \in 1 .. Len(fields) : Signed(fields)[i] = fields[i]
         /\ Signed(fields)[Len(fields) + 1] = encode_crc(Checksum(fields))
         /\ SubSeq(Signed(fields), 1, Len(fields)) = fields
<1>. DEFINE crc == encode_crc(Checksum(fields))
<1>1. crc \in Seq(Nat)
  <2>1. Short(crc, 7)
    BY ShortTexts
  <2>. QED
    BY <2>1, TextsAreNumbers DEF Short
<1>2. Signed(fields) = Append(fields, crc)
  BY DEF Signed
<1>. HIDE DEF crc
<1>3. /\ Signed(fields) \in Seq(Seq(Nat)) /\ Len(Signed(fields)) = Len(fields) + 1
      /\ \A i \in 1 .. Len(fields) : Signed(fields)[i] = fields[i]
      /\ Signed(fields)[Len(fields) + 1] = crc
  BY <1>1, <1>2
<1>4. SubSeq(Signed(fields), 1, Len(fields)) = fields
  <2>1. SubSeq(Signed(fields), 1, Len(fields)) = [i \in 1 .. Len(fields) |-> Signed(fields)[i]]
    BY <1>3
  <2>2. fields = [i \in 1 .. Len(fields) |-> fields[i]]
    OBVIOUS
  <2>. QED
    BY <1>3, <2>1, <2>2
<1>. QED
  BY <1>3, <1>4 DEF crc

\* What the parser wants of fields that are short, and that a checksum follows.
LEMMA SignedIsAccepted ==
  ASSUME NEW fields \in Seq(Seq(Characters)), Len(fields) \in 3 .. 7,
         fields[1] = MAGIC, fields[2] = VERSION,
         \A i \in 1 .. Len(fields) : Len(fields[i]) <= Room(i),
         FieldsOk(Signed(fields))
  PROVE  Parses(Signed(fields))
<1>. DEFINE p == Signed(fields)
            crc == encode_crc(Checksum(fields))
<1>1. fields \in Seq(Seq(Nat))
  BY TextsAreNumbers
<1>2. /\ Len(p) = Len(fields) + 1 /\ \A i \in 1 .. Len(fields) : p[i] = fields[i]
      /\ p[Len(fields) + 1] = crc /\ SubSeq(p, 1, Len(fields)) = fields
  BY <1>1, SignedFields
<1>3. crc \in Seq(Characters) /\ Len(crc) <= 7
  BY ShortTexts DEF Short
<1>4. p = Append(fields, crc)
  BY DEF Signed
<1>. HIDE DEF crc, p
<1>5. p \in Seq(Seq(Characters)) /\ DOMAIN p = 1 .. Len(fields) + 1
  BY <1>2, <1>3, <1>4
<1>6. \A i \in DOMAIN p : \A j \in DOMAIN p[i] : p[i][j] \in Characters
  BY <1>5
<1>7. \A i \in 1 .. Len(p) : Len(p[i]) <= Room(i)
  <2>1. \A i \in 1 .. 8 : 7 <= Room(i) \/ i <= 3
    BY DEF Room
  <2>2. ASSUME NEW i \in 1 .. Len(p) PROVE Len(p[i]) <= Room(i)
    <3>1. CASE i = Len(fields) + 1
      <4>1. i \in 4 .. 8 /\ p[i] = crc
        <5>1. \A k \in 3 .. 7 : k + 1 \in 4 .. 8
          OBVIOUS
        <5>. QED
          BY <1>2, <3>1, <5>1
      <4>2. Room(i) \in Nat /\ 7 <= Room(i)
        BY <4>1 DEF Room
      <4>3. Len(crc) \in Nat
        BY <1>3
      <4>. QED
        BY <1>3, <4>1, <4>2, <4>3
    <3>2. CASE i # Len(fields) + 1
      BY <1>2, <3>2
    <3>. QED
      BY <3>1, <3>2
  <2>. QED
    BY <2>2
<1>8. Length(p) <= MAX_PAYLOAD_LEN
  <2>1. \A k \in 3 .. 7 : k + 1 \in 1 .. 8
    OBVIOUS
  <2>2. Len(p) \in 1 .. 8
    BY <1>2, <2>1
  <2>. QED
    BY <1>5, <1>7, <2>2, PayloadHasRoom
<1>9. p = Signed(SubSeq(p, 1, Len(p) - 1))
  <2>1. Len(p) - 1 = Len(fields)
    BY <1>2
  <2>. QED
    BY <1>2, <2>1 DEF p
<1>10. Len(p) >= 3 /\ p[1] = MAGIC /\ p[2] = VERSION
  BY <1>2
<1>11. FieldsOk(p)
  BY DEF p
<1>12. Parses(p)
  BY <1>6, <1>8, <1>9, <1>10, <1>11 DEF Parses
<1>. QED
  BY <1>12 DEF p

LEMMA ReadSetup ==
  ASSUME NEW id \in Ids
  PROVE  LET c == [type |-> "NotebookSetup", design |-> id]
         IN  Parses(Encode(c)) /\ Parse(Encode(c)) = c
<1>. DEFINE c == [type |-> "NotebookSetup", design |-> id]
            F == <<MAGIC, VERSION, SETUP, id>>
            p == Signed(F)
<1>1. Encode(c) = p
  BY DEF Encode, Fields
<1>2. /\ MAGIC \in Seq(Characters) /\ VERSION \in Seq(Characters) /\ SETUP \in Seq(Characters) /\ id \in Seq(Characters)
      /\ Len(MAGIC) <= Room(1) /\ Len(VERSION) <= Room(2) /\ Len(SETUP) <= Room(3) /\ Len(id) <= Room(4)
  BY ShortTexts DEF Short, Room
<1>3. /\ F \in Seq(Seq(Characters)) /\ Len(F) = 4
      /\ F[1] = MAGIC /\ F[2] = VERSION /\ F[3] = SETUP /\ F[4] = id
  BY <1>2
<1>4. F \in Seq(Seq(Nat))
  BY <1>3, TextsAreNumbers
<1>. HIDE DEF F
<1>5. ASSUME NEW i \in 1 .. Len(F) PROVE Len(F[i]) <= Room(i)
  <2>1. i = 1 \/ i = 2 \/ i = 3 \/ i = 4
    BY <1>3
  <2>. QED
    BY <1>2, <1>3, <2>1
<1>6. Len(p) = 5 /\ p[3] = SETUP /\ p[4] = id
  <2>1. 3 \in 1 .. Len(F) /\ 4 \in 1 .. Len(F)
    BY <1>3
  <2>2. Len(p) = Len(F) + 1 /\ \A i \in 1 .. Len(F) : p[i] = F[i]
    BY <1>4, SignedFields
  <2>. HIDE DEF p
  <2>. QED
    BY <1>3, <2>1, <2>2
<1>7. FieldsOk(p)
  BY <1>6 DEF FieldsOk
<1>8. Parses(p)
  <2>1. Len(F) \in 3 .. 7
    BY <1>3
  <2>. QED
    BY <1>3, <1>5, <1>7, <2>1, SignedIsAccepted
<1>. HIDE DEF p
<1>9. Parse(p) = c
  BY <1>6, TextsDiffer DEF Parse
<1>. QED
  BY <1>1, <1>8, <1>9

LEMMA ReadPage ==
  ASSUME NEW id \in Ids, NEW n \in Numbers, NEW layout \in Layouts \cap KnownLayouts
  PROVE  LET c == [type |-> "NotebookPage", design |-> id, number |-> n, layout |-> layout]
         IN  Parses(Encode(c)) /\ Parse(Encode(c)) = c
<1>. DEFINE c == [type |-> "NotebookPage", design |-> id, number |-> n, layout |-> layout]
            text == Text(n)
            F == <<MAGIC, VERSION, PAGE, id, text, layout>>
            p == Signed(F)
<1>1. Encode(c) = p
  BY DEF Encode, Fields
<1>2. NumericField(text) /\ Value(text) = n
  BY TextOfNumber
<1>3. Short(text, 6)
  BY ShortTexts
<1>. HIDE DEF text
<1>4. /\ MAGIC \in Seq(Characters) /\ VERSION \in Seq(Characters) /\ PAGE \in Seq(Characters)
      /\ id \in Seq(Characters) /\ text \in Seq(Characters) /\ layout \in Seq(Characters)
      /\ Len(MAGIC) <= 3 /\ Len(VERSION) <= 1 /\ Len(PAGE) <= 1 /\ Len(id) <= 26 /\ Len(text) <= 6 /\ Len(layout) <= 20
  BY <1>3, ShortTexts DEF Short
<1>5. /\ F \in Seq(Seq(Characters)) /\ Len(F) = 6
      /\ F[1] = MAGIC /\ F[2] = VERSION /\ F[3] = PAGE /\ F[4] = id /\ F[5] = text /\ F[6] = layout
  BY <1>4
<1>6. F \in Seq(Seq(Nat))
  BY <1>5, TextsAreNumbers
<1>. HIDE DEF F
<1>7. ASSUME NEW i \in 1 .. Len(F) PROVE Len(F[i]) <= Room(i)
  <2>1. i = 1 \/ i = 2 \/ i = 3 \/ i = 4 \/ i = 5 \/ i = 6
    BY <1>5
  <2>2. Len(text) <= 20
    BY <1>4
  <2>. QED
    BY <1>4, <1>5, <2>1, <2>2 DEF Room
<1>8. Len(p) = 7 /\ p[3] = PAGE /\ p[4] = id /\ p[5] = text /\ p[6] = layout
  <2>1. 3 \in 1 .. Len(F) /\ 4 \in 1 .. Len(F) /\ 5 \in 1 .. Len(F) /\ 6 \in 1 .. Len(F)
    BY <1>5
  <2>2. Len(p) = Len(F) + 1 /\ \A i \in 1 .. Len(F) : p[i] = F[i]
    BY <1>6, SignedFields
  <2>. HIDE DEF p
  <2>. QED
    BY <1>5, <2>1, <2>2
<1>9. FieldsOk(p)
  BY <1>2, <1>8 DEF FieldsOk
<1>10. Parses(p)
  <2>1. Len(F) \in 3 .. 7
    BY <1>5
  <2>. QED
    BY <1>5, <1>7, <1>9, <2>1, SignedIsAccepted
<1>. HIDE DEF p
<1>11. Parse(p) = c
  BY <1>2, <1>8, TextsDiffer DEF Parse
<1>. QED
  BY <1>1, <1>10, <1>11

LEMMA ReadSmartPage ==
  ASSUME NEW id \in Ids, NEW layout \in Layouts \cap KnownLayouts,
         NEW n \in Numbers \cup {NotGiven}, NEW set \in Ids \cup {NotGiven}
  PROVE  LET c == [type |-> "SmartPage", page |-> id, layout |-> layout, number |-> n, set |-> set]
         IN  Parses(Encode(c)) /\ Parse(Encode(c)) = c
<1>. DEFINE c == [type |-> "SmartPage", page |-> id, layout |-> layout, number |-> n, set |-> set]
            number == IF n = NotGiven THEN NoField ELSE Text(n)
            group == IF set = NotGiven THEN NoField ELSE set
            F == <<MAGIC, VERSION, SMART, id, layout, number, group>>
            p == Signed(F)
<1>1. Encode(c) = p
  BY DEF Encode, Fields
<1>2. /\ number = NoField \/ NumericField(number)
      /\ n = IF number = NoField THEN NotGiven ELSE Value(number)
      /\ number \in Seq(Characters) /\ Len(number) <= 20
  <2>1. CASE n = NotGiven
    <3>1. number = NoField /\ NoField \in Seq(Characters) /\ Len(NoField) <= 1
      BY <2>1, ShortTexts DEF Short
    <3>. QED
      BY <2>1, <3>1
  <2>2. CASE n # NotGiven
    <3>1. n \in Numbers /\ number = Text(n)
      BY <2>2
    <3>2. NumericField(number) /\ Value(number) = n
      BY <3>1, TextOfNumber
    <3>3. number # NoField
      BY <3>2, TextsDiffer
    <3>4. Short(number, 6)
      BY <3>1, ShortTexts
    <3>5. number \in Seq(Characters) /\ Len(number) <= 6
      BY <3>4 DEF Short
    <3>6. Len(number) <= 20
      BY <3>5
    <3>. QED
      BY <3>2, <3>3, <3>5, <3>6
  <2>. QED
    BY <2>1, <2>2
<1>3. /\ group = NoField \/ group \in Ids
      /\ set = IF group = NoField THEN NotGiven ELSE group
      /\ group \in Seq(Characters) /\ Len(group) <= 26
  <2>1. CASE set = NotGiven
    <3>1. group = NoField /\ NoField \in Seq(Characters) /\ Len(NoField) <= 1
      BY <2>1, ShortTexts DEF Short
    <3>. QED
      BY <2>1, <3>1
  <2>2. CASE set # NotGiven
    <3>1. set \in Ids /\ group = set /\ group # NoField
      BY <2>2, TextsDiffer
    <3>2. group \in Seq(Characters) /\ Len(group) <= 26
      BY <3>1, ShortTexts DEF Short
    <3>. QED
      BY <3>1, <3>2
  <2>. QED
    BY <2>1, <2>2
<1>. HIDE DEF number, group
<1>4. /\ MAGIC \in Seq(Characters) /\ VERSION \in Seq(Characters) /\ SMART \in Seq(Characters)
      /\ id \in Seq(Characters) /\ layout \in Seq(Characters)
      /\ Len(MAGIC) <= 3 /\ Len(VERSION) <= 1 /\ Len(SMART) <= 1 /\ Len(id) <= 26 /\ Len(layout) <= 20
  BY ShortTexts DEF Short
<1>5. /\ F \in Seq(Seq(Characters)) /\ Len(F) = 7
      /\ F[1] = MAGIC /\ F[2] = VERSION /\ F[3] = SMART /\ F[4] = id /\ F[5] = layout /\ F[6] = number /\ F[7] = group
  BY <1>2, <1>3, <1>4
<1>6. F \in Seq(Seq(Nat))
  BY <1>5, TextsAreNumbers
<1>. HIDE DEF F
<1>7. ASSUME NEW i \in 1 .. Len(F) PROVE Len(F[i]) <= Room(i)
  <2>1. i = 1 \/ i = 2 \/ i = 3 \/ i = 4 \/ i = 5 \/ i = 6 \/ i = 7
    BY <1>5
  <2>2. CASE i = 1 \/ i = 2 \/ i = 3
    BY <1>4, <1>5, <2>2 DEF Room
  <2>3. CASE i = 4 \/ i = 5
    BY <1>4, <1>5, <2>3 DEF Room
  <2>4. CASE i = 6 \/ i = 7
    BY <1>2, <1>3, <1>5, <2>4 DEF Room
  <2>. QED
    BY <2>1, <2>2, <2>3, <2>4
<1>8. Len(p) = 8 /\ p[3] = SMART /\ p[4] = id /\ p[5] = layout /\ p[6] = number /\ p[7] = group
  <2>1. 3 \in 1 .. Len(F) /\ 4 \in 1 .. Len(F) /\ 5 \in 1 .. Len(F) /\ 6 \in 1 .. Len(F) /\ 7 \in 1 .. Len(F)
    BY <1>5
  <2>2. Len(p) = Len(F) + 1 /\ \A i \in 1 .. Len(F) : p[i] = F[i]
    BY <1>6, SignedFields
  <2>. HIDE DEF p
  <2>. QED
    BY <1>5, <2>1, <2>2
<1>9. FieldsOk(p)
  BY <1>2, <1>3, <1>8 DEF FieldsOk
<1>10. Parses(p)
  <2>1. Len(F) \in 3 .. 7
    BY <1>5
  <2>. QED
    BY <1>5, <1>7, <1>9, <2>1, SignedIsAccepted
<1>. HIDE DEF p
<1>11. Parse(p) = c
  BY <1>2, <1>3, <1>8, TextsDiffer DEF Parse
<1>. QED
  BY <1>1, <1>10, <1>11

\* Every code that can be encoded is read back as it is, if its layout is known:
\* what qr.rs:86-129 prints, qr.rs:190-297 accepts, and for the same page.
THEOREM CodesAreRead ==
  ASSUME NEW c \in Codes, Encodes(c),
         c.type # "NotebookSetup" => c.layout \in KnownLayouts
  PROVE  Parses(Encode(c)) /\ Parse(Encode(c)) = c
<1>1. CASE c \in [type : {"NotebookSetup"}, design : Ids]
  <2>1. c = [type |-> "NotebookSetup", design |-> c.design] /\ c.design \in Ids
    BY <1>1
  <2>. QED
    BY <2>1, ReadSetup
<1>2. CASE c \in [type : {"NotebookPage"}, design : Ids, number : Nat, layout : Layouts]
  <2>1. /\ c = [type |-> "NotebookPage", design |-> c.design, number |-> c.number, layout |-> c.layout]
        /\ c.design \in Ids /\ c.number \in Nat /\ c.layout \in Layouts /\ c.type # "NotebookSetup"
    BY <1>2
  <2>2. c.number \in Numbers /\ c.layout \in Layouts \cap KnownLayouts
    BY <2>1, QrAssumption DEF Encodes
  <2>. QED
    BY <2>1, <2>2, ReadPage
<1>3. CASE c \in [type : {"SmartPage"}, page : Ids, layout : Layouts, number : Nat \cup {NotGiven},
                  set : Ids \cup {NotGiven}]
  <2>1. /\ c = [type |-> "SmartPage", page |-> c.page, layout |-> c.layout, number |-> c.number,
                set |-> c.set]
        /\ c.page \in Ids /\ c.layout \in Layouts /\ c.set \in Ids \cup {NotGiven} /\ c.type # "NotebookSetup"
    BY <1>3
  <2>2. c.number \in Numbers \cup {NotGiven} /\ c.layout \in Layouts \cap KnownLayouts
    BY <2>1 DEF Encodes
  <2>. QED
    BY <2>1, <2>2, ReadSmartPage
<1>. QED
  BY <1>1, <1>2, <1>3 DEF Codes

LEMMA FieldType ==
  ASSUME NEW p \in Seq(Seq(Nat))
  PROVE  Len(p) = 7 \/ Len(p) = 8 => p[5] \in Seq(Nat) /\ p[6] \in Seq(Nat)
<1>1. \A i \in 1 .. Len(p) : p[i] \in Seq(Nat)
  OBVIOUS
<1>2. 5 \in 1 .. 7 /\ 6 \in 1 .. 7 /\ 5 \in 1 .. 8 /\ 6 \in 1 .. 8
  OBVIOUS
<1>3. ASSUME Len(p) = 7 PROVE \A i \in 1 .. 7 : p[i] \in Seq(Nat)
  BY <1>1, <1>3, Zenon
<1>4. ASSUME Len(p) = 8 PROVE \A i \in 1 .. 8 : p[i] \in Seq(Nat)
  BY <1>1, <1>4, Zenon
<1>. QED
  BY <1>2, <1>3, <1>4

LEMMA FirstFields ==
  ASSUME NEW p \in Seq(Seq(Nat))
  PROVE  /\ Len(p) = 5 => SubSeq(p, 1, Len(p) - 1) = <<p[1], p[2], p[3], p[4]>>
         /\ Len(p) = 7 => SubSeq(p, 1, Len(p) - 1) = <<p[1], p[2], p[3], p[4], p[5], p[6]>>
         /\ Len(p) = 8 => SubSeq(p, 1, Len(p) - 1) = <<p[1], p[2], p[3], p[4], p[5], p[6], p[7]>>
<1>5. ASSUME Len(p) = 5 PROVE SubSeq(p, 1, Len(p) - 1) = <<p[1], p[2], p[3], p[4]>>
  <2>. DEFINE s == SubSeq(p, 1, 5 - 1)
  <2>1. s \in Seq(Seq(Nat)) /\ Len(s) = 4
    BY <1>5
  <2>2. s[1] = p[1] /\ s[2] = p[2] /\ s[3] = p[3] /\ s[4] = p[4]
    BY <1>5
  <2>. HIDE DEF s
  <2>3. s = <<p[1], p[2], p[3], p[4]>>
    BY <2>1, <2>2
  <2>. QED
    BY <1>5, <2>3 DEF s
<1>7. ASSUME Len(p) = 7 PROVE SubSeq(p, 1, Len(p) - 1) = <<p[1], p[2], p[3], p[4], p[5], p[6]>>
  <2>. DEFINE s == SubSeq(p, 1, 7 - 1)
  <2>1. \A i \in 1 .. Len(p) : p[i] \in Seq(Nat)
    OBVIOUS
  <2>2. \A i \in 1 .. 7 : p[i] \in Seq(Nat)
    BY <1>7, <2>1, Zenon
  <2>3. \A i \in 1 .. 6 : i \in 1 .. 7
    OBVIOUS
  <2>4. \A i \in 1 .. 6 : p[i] \in Seq(Nat)
    BY <2>2, <2>3, Zenon
  <2>5. s = [i \in 1 .. 6 |-> p[i]]
    BY <1>7
  <2>. HIDE DEF s
  <2>6. s \in Seq(Seq(Nat)) /\ Len(s) = 6
    BY <2>4, <2>5
  <2>7. s[1] = p[1] /\ s[2] = p[2] /\ s[3] = p[3] /\ s[4] = p[4] /\ s[5] = p[5] /\ s[6] = p[6]
    BY <2>5
  <2>8. s = <<p[1], p[2], p[3], p[4], p[5], p[6]>>
    BY <2>6, <2>7
  <2>. QED
    BY <1>7, <2>8 DEF s
<1>8. ASSUME Len(p) = 8 PROVE SubSeq(p, 1, Len(p) - 1) = <<p[1], p[2], p[3], p[4], p[5], p[6], p[7]>>
  <2>. DEFINE s == SubSeq(p, 1, 8 - 1)
  <2>1. \A i \in 1 .. Len(p) : p[i] \in Seq(Nat)
    OBVIOUS
  <2>2. \A i \in 1 .. 8 : p[i] \in Seq(Nat)
    BY <1>8, <2>1, Zenon
  <2>3. \A i \in 1 .. 7 : i \in 1 .. 8
    OBVIOUS
  <2>4. \A i \in 1 .. 7 : p[i] \in Seq(Nat)
    BY <2>2, <2>3, Zenon
  <2>5. s = [i \in 1 .. 7 |-> p[i]]
    BY <1>8
  <2>. HIDE DEF s
  <2>6. s \in Seq(Seq(Nat)) /\ Len(s) = 7
    BY <2>4, <2>5
  <2>7. s[1] = p[1] /\ s[2] = p[2] /\ s[3] = p[3] /\ s[4] = p[4] /\ s[5] = p[5] /\ s[6] = p[6] /\ s[7] = p[7]
    BY <2>5
  <2>8. s = <<p[1], p[2], p[3], p[4], p[5], p[6], p[7]>>
    BY <2>6, <2>7
  <2>. QED
    BY <1>8, <2>8 DEF s
<1>. QED
  BY <1>5, <1>7, <1>8

\* A payload that is accepted is the one that its code is printed as (qr.rs:146-297):
\* no second text is read as the same page, with a zero before its number or with
\* its identifier spelled in another way.
THEOREM PayloadsAreCanonical ==
  ASSUME NEW p \in Seq(Seq(Nat)), Parses(p)
  PROVE  Parse(p) \in Codes /\ Encodes(Parse(p)) /\ Encode(Parse(p)) = p
<1>. DEFINE c == Parse(p)
<1>1. /\ Len(p) >= 3 /\ p[1] = MAGIC /\ p[2] = VERSION /\ FieldsOk(p)
      /\ p = Signed(SubSeq(p, 1, Len(p) - 1))
  BY DEF Parses
<1>2. CASE p[3] = SETUP /\ Len(p) = 5 /\ p[4] \in Ids
  <2>1. c = [type |-> "NotebookSetup", design |-> p[4]]
    BY <1>2, TextsDiffer DEF Parse
  <2>. HIDE DEF c
  <2>2. SubSeq(p, 1, Len(p) - 1) = <<MAGIC, VERSION, SETUP, p[4]>>
    BY <1>1, <1>2, FirstFields
  <2>3. Fields(c) = <<MAGIC, VERSION, SETUP, p[4]>>
    BY <2>1 DEF Fields
  <2>4. Encode(c) = p
    BY <1>1, <2>2, <2>3 DEF Encode
  <2>5. c \in Codes /\ Encodes(c)
    BY <1>2, <2>1 DEF Codes, Encodes
  <2>. QED
    BY <2>4, <2>5 DEF c
<1>3. CASE /\ p[3] = PAGE /\ Len(p) = 7 /\ p[4] \in Ids /\ NumericField(p[5])
           /\ p[6] \in Layouts \cap KnownLayouts
  <2>1. c = [type |-> "NotebookPage", design |-> p[4], number |-> Value(p[5]), layout |-> p[6]]
    BY <1>3, TextsDiffer DEF Parse
  <2>2. Value(p[5]) \in Numbers /\ Text(Value(p[5])) = p[5]
    <3>1. p[5] \in Seq(Nat)
      BY <1>3, FieldType
    <3>. QED
      BY <1>3, <3>1, NumberOfText
  <2>. HIDE DEF c
  <2>3. SubSeq(p, 1, Len(p) - 1) = <<MAGIC, VERSION, PAGE, p[4], p[5], p[6]>>
    BY <1>1, <1>3, FirstFields
  <2>4. Fields(c) = <<MAGIC, VERSION, PAGE, p[4], p[5], p[6]>>
    BY <2>1, <2>2 DEF Fields
  <2>5. Encode(c) = p
    BY <1>1, <2>3, <2>4 DEF Encode
  <2>6. c \in Codes /\ Encodes(c)
    BY <1>3, <2>1, <2>2 DEF Codes, Encodes, Numbers
  <2>. QED
    BY <2>5, <2>6 DEF c
<1>4. CASE /\ p[3] = SMART /\ Len(p) = 8 /\ p[4] \in Ids /\ p[5] \in Layouts \cap KnownLayouts
           /\ p[6] = NoField \/ NumericField(p[6])
           /\ p[7] = NoField \/ p[7] \in Ids
  <2>. DEFINE n == IF p[6] = NoField THEN NotGiven ELSE Value(p[6])
              set == IF p[7] = NoField THEN NotGiven ELSE p[7]
  <2>1. c = [type |-> "SmartPage", page |-> p[4], layout |-> p[5], number |-> n, set |-> set]
    BY <1>4, TextsDiffer DEF Parse
  <2>2. n \in Numbers \cup {NotGiven} /\ (IF n = NotGiven THEN NoField ELSE Text(n)) = p[6]
    <3>1. CASE p[6] = NoField
      BY <3>1
    <3>2. CASE p[6] # NoField
      <4>1. p[6] \in Seq(Nat)
        BY <1>4, FieldType
      <4>2. Value(p[6]) \in Numbers /\ Text(Value(p[6])) = p[6]
        BY <1>4, <3>2, <4>1, NumberOfText
      <4>3. Value(p[6]) # NotGiven
        BY <4>2, QrAssumption DEF Numbers
      <4>. QED
        BY <3>2, <4>2, <4>3
    <3>. QED
      BY <3>1, <3>2
  <2>3. set \in Ids \cup {NotGiven} /\ (IF set = NotGiven THEN NoField ELSE set) = p[7]
    BY <1>4, QrAssumption
  <2>. HIDE DEF c, n, set
  <2>4. SubSeq(p, 1, Len(p) - 1) = <<MAGIC, VERSION, SMART, p[4], p[5], p[6], p[7]>>
    BY <1>1, <1>4, FirstFields
  <2>5. Fields(c) = <<MAGIC, VERSION, SMART, p[4], p[5], p[6], p[7]>>
    BY <2>1, <2>2, <2>3 DEF Fields
  <2>6. Encode(c) = p
    BY <1>1, <2>4, <2>5 DEF Encode
  <2>7. c \in Codes /\ Encodes(c)
    BY <1>4, <2>1, <2>2, <2>3 DEF Codes, Encodes, Numbers
  <2>. QED
    BY <2>6, <2>7 DEF c
<1>. QED
  BY <1>1, <1>2, <1>3, <1>4 DEF FieldsOk
=============================================================================
