----------------------------- MODULE PageHistory -----------------------------
(* The rows of one page and of its scans: registration, the preferred scan    *)
(* with the triggers of migrations 0004 to 0008, revision decisions taken on  *)
(* proposals that may be old, and the review items about scans.               *)
(*                                                                            *)
(* A call holds the storage mutex and runs one transaction, so that it is one *)
(* step here. Its statements are operators on the database: each returns the  *)
(* database after the statement and the triggers it fires, with ok = FALSE    *)
(* when the unique index or a trigger refuses it.                             *)
EXTENDS Sequences, Integers

CONSTANTS MaxScans,    \* bounds: scans of the page,
          MaxEvents,   \* audit events,
          MaxItems     \* and review items

ASSUME HistoryAssumption == MaxScans \in Nat /\ MaxEvents \in Nat /\ MaxItems \in Nat

VARIABLES smart,       \* the page is a Smart Page, not a Notebook Page
          db,          \* its row, its scans, the mutation context
          copies,      \* highest copy_index in physical_copies
          log,         \* audit_events
          proposals,   \* ScanRevisionProposals the app has been given
          items,       \* review_items of kind Revision that a user asked for
          refused      \* history: the schema refused a statement

historyVars == <<smart, db, copies, log, proposals, items, refused>>

-----------------------------------------------------------------------------
NoScan  == 0
NoCopy  == 0
Scan(flag, quality, token) ==
    [preferred |-> flag, quality |-> quality, decision |-> "none",
     supersedes |-> NoScan, copy |-> NoCopy, token |-> token]

ScansOf(d)  == DOMAIN d.scans
Flagged(d)  == {s \in ScansOf(d) : d.scans[s].preferred}

HistoryInit ==
    /\ smart \in BOOLEAN
    /\ db = [pointer |-> NoScan, state |-> "Unscanned", scans |-> <<>>, context |-> NoScan, ok |-> TRUE]
    /\ copies = 0
    /\ log = <<>> /\ proposals = {} /\ items = <<>>
    /\ refused = FALSE

-----------------------------------------------------------------------------
\* UPDATE scans SET preferred = 0, for the scans S.
ClearFlags(d, S) ==
    [d EXCEPT !.scans = [s \in ScansOf(d) |->
                          IF s \in S THEN [d.scans[s] EXCEPT !.preferred = FALSE] ELSE d.scans[s]],
              !.ok = @ /\ d.pointer \notin S]

\* UPDATE scans SET preferred = 1, for one scan: only where the page points,
\* and no other may have the flag.
SetFlag(d, s) ==
    [d EXCEPT !.scans[s].preferred = TRUE, !.ok = @ /\ d.pointer = s /\ Flagged(d) \subseteq {s}]

\* Trigger preferred_scan_flags_follow_page_after_update.
FollowPointer(d) ==
    LET cleared == ClearFlags(d, Flagged(d) \ {d.pointer}) IN
    IF d.pointer \in ScansOf(d) \ Flagged(cleared) THEN SetFlag(cleared, d.pointer) ELSE cleared

\* Faulty: before migration 0005 no flag followed.
FaultyPointTo(d, s) ==
    [d EXCEPT !.pointer = s, !.ok = @ /\ (s # d.pointer => d.context = s /\ s \in ScansOf(d))]

\* UPDATE pages SET preferred_scan_id: a change needs its context, and a scan
\* of the page.
PointTo(d, s) ==
    FollowPointer([d EXCEPT !.pointer = s,
                            !.ok = @ /\ (s # d.pointer => d.context = s /\ s \in ScansOf(d))])

EnterContext(d, s) == [d EXCEPT !.context = s, !.ok = @ /\ d.context = NoScan]
LeaveContext(d, s) == [d EXCEPT !.context = NoScan, !.ok = @ /\ d.context = s]

RegisteredState(scan) == IF scan.quality = "NeedsReview" THEN "NeedsReview" ELSE "Scanned"

\* INSERT INTO scans, with trigger register_scan_updates_page.
Insert(d, scan) ==
    LET s     == Len(d.scans) + 1
        added == [d EXCEPT !.scans = Append(@, scan), !.state = RegisteredState(scan),
                           !.ok = @ /\ (scan.preferred => Flagged(d) = {})]
    IN IF scan.preferred THEN LeaveContext(PointTo(EnterContext(added, s), s), s)
       ELSE PointTo(added, d.pointer)

Event(kind, scan, baseline) == [kind |-> kind, scan |-> scan, baseline |-> baseline]

\* A transaction that every check accepts commits with its audit event.
Commit(d, event) ==
    IF d.ok THEN /\ db' = d /\ log' = Append(log, event)
                 /\ UNCHANGED refused
    ELSE refused' = TRUE /\ UNCHANGED <<db, log>>

-----------------------------------------------------------------------------
\* register_scan. The first scan is preferred, whatever its quality; a later
\* one waits for a review. A scan of a Notebook Page that has a recovery record
\* carries its token at the end of content_fingerprint.
RegisterScan ==
    LET preferred == db.pointer = NoScan IN
    /\ Len(db.scans) < MaxScans /\ Len(log) < MaxEvents
    /\ IF preferred THEN db.state \notin {"Scanned", "NeedsReview"}
       ELSE db.scans[db.pointer].preferred
    /\ \E quality \in (IF preferred THEN {"Accepted", "NeedsReview"} ELSE {"NeedsReview"}),
          token \in (IF smart THEN {FALSE} ELSE BOOLEAN) :
         Commit(Insert(db, Scan(preferred, quality, token)),
                Event("registered", Len(db.scans) + 1, db.pointer))
    /\ UNCHANGED <<smart, copies, proposals, items>>

\* parse_stored_fingerprint takes what follows "perceptual=" for cells: a token
\* there is an error.
Comparable(scan) == ~scan.token

\* get_scan_revision_proposal reads under the mutex and compares without it.
Proposable(candidate) ==
    /\ ~db.scans[candidate].preferred
    /\ db.pointer # NoScan /\ db.scans[db.pointer].preferred
    /\ Comparable(db.scans[candidate]) /\ Comparable(db.scans[db.pointer])

Proposal(candidate) == [baseline |-> db.pointer, candidate |-> candidate]

\* The app may keep the proposal for any time and resolve it more than once.
Propose(candidate) ==
    /\ Proposable(candidate)
    /\ proposals' = proposals \cup {Proposal(candidate)}
    /\ UNCHANGED <<smart, db, copies, log, items, refused>>

\* validate_current_state of change_preferred_scan.
Consistent(d) == Flagged(d) = IF d.pointer = NoScan THEN {} ELSE {d.pointer}

\* Faulty: the proposal's baseline is not compared with the page.
FaultyCurrent(p) == ~db.scans[p.candidate].preferred

Current(p) == db.pointer = p.baseline

\* A candidate that is preferred already is left alone.
Replaceable(p) == Current(p) /\ p.candidate # db.pointer

\* ReplacePreferred: change_preferred_scan.
ReplacePreferred(p) ==
    /\ Replaceable(p)
    /\ Len(log) < MaxEvents
    /\ Consistent(db)
    /\ Commit(LeaveContext(PointTo(EnterContext(db, p.candidate), p.candidate), p.candidate),
              Event("preferred", p.candidate, p.baseline))
    /\ UNCHANGED <<smart, copies, proposals, items>>

\* A transaction reads the rows again; a scan is decided once, the same
\* decision again changes nothing, another is refused.
Decidable(p) ==
    /\ Current(p) /\ db.scans[p.baseline].preferred /\ ~db.scans[p.candidate].preferred
    /\ db.scans[p.candidate].decision = "none"

\* update_page_review_state.
ReviewState(scans) ==
    IF \E s \in DOMAIN scans : scans[s].quality = "NeedsReview" THEN "NeedsReview" ELSE "Scanned"

Record(p, scans, decision) ==
    /\ Len(log) < MaxEvents
    /\ Commit([db EXCEPT !.scans = scans, !.state = ReviewState(scans)],
              Event(decision, p.candidate, p.baseline))
    /\ UNCHANGED <<smart, proposals, items>>

SaveAsNewVersion(p) ==
    /\ Decidable(p)
    /\ Record(p, [db.scans EXCEPT ![p.candidate].decision = "version",
                                  ![p.candidate].copy = db.scans[p.baseline].copy,
                                  ![p.candidate].supersedes = p.baseline], "version")
    /\ UNCHANGED copies

\* The baseline gets a copy of its own if it has none, then the candidate.
AnotherPhysicalCopy(p) ==
    LET new      == IF db.scans[p.baseline].copy = NoCopy THEN 1 ELSE 0
        assigned == IF new = 1 THEN copies + 1 ELSE db.scans[p.baseline].copy
    IN  /\ smart /\ Decidable(p)
        /\ copies' = copies + new + 1
        /\ Record(p, [db.scans EXCEPT ![p.baseline].copy = assigned,
                                      ![p.candidate].decision = "copy",
                                      ![p.candidate].copy = copies'], "copy")

WrongScan(p) ==
    /\ Decidable(p)
    /\ Record(p, [db.scans EXCEPT ![p.candidate].decision = "wrong",
                                  ![p.candidate].copy = NoCopy,
                                  ![p.candidate].quality = "Rejected"], "wrong")
    /\ UNCHANGED copies

-----------------------------------------------------------------------------
Unresolved(item) == item.status \in {"Open", "Deferred"}

InReview(scan) == \E i \in DOMAIN items : items[i].scan = scan /\ Unresolved(items[i])

\* move_page_version_to_review returns the unresolved item, if there is one.
MoveToReview(scan) ==
    /\ Len(items) < MaxItems
    /\ ~InReview(scan)
    /\ items' = Append(items, [scan |-> scan, status |-> "Open"])
    /\ UNCHANGED <<smart, db, copies, log, proposals, refused>>

DeferReviewItem(i) ==
    /\ items[i].status = "Open"
    /\ Len(log) < MaxEvents
    /\ items' = [items EXCEPT ![i].status = "Deferred"]
    /\ log' = Append(log, Event("deferred", items[i].scan, NoScan))
    /\ UNCHANGED <<smart, db, copies, proposals, refused>>

\* The same resolution again changes nothing, another one is refused.
ResolveReviewItem(i) ==
    /\ Unresolved(items[i])
    /\ Len(log) < MaxEvents
    /\ items' = [items EXCEPT ![i].status = "Resolved"]
    /\ log' = Append(log, Event("resolved", items[i].scan, NoScan))
    /\ UNCHANGED <<smart, db, copies, proposals, refused>>

Resolve(p) == ReplacePreferred(p) \/ SaveAsNewVersion(p) \/ AnotherPhysicalCopy(p) \/ WrongScan(p)

HistoryNext ==
    \/ RegisterScan
    \/ \E s \in ScansOf(db) : Propose(s) \/ MoveToReview(s)
    \/ \E p \in proposals : Resolve(p)
    \/ \E i \in DOMAIN items : DeferReviewItem(i) \/ ResolveReviewItem(i)

HistorySpec == HistoryInit /\ [][HistoryNext]_historyVars

-----------------------------------------------------------------------------
\* Two findings of the integrity check: flags and pointer of the page differ,
\* and fingerprints with more than a digest and the cells in them.
PreferredContradiction(d) == ~Consistent(d)
InvalidFingerprints(d)    == {s \in ScansOf(d) : d.scans[s].token}

(* The page's row and its scans agree: a page with scans has exactly one      *)
(* preferred scan, the one that it points to, so that the integrity check     *)
(* finds no contradiction; and it asks for a review exactly while a scan      *)
(* does, although the trigger looks at the new scan and a decision at all of  *)
(* them. No context is left to authorize another change, and no legal call is *)
(* refused by the unique index or by a trigger, in whatever order the         *)
(* preference moved before (migrations 0005 and 0006 did refuse).             *)
OnePreferredScan ==
    /\ db.pointer = NoScan => ScansOf(db) = {}
    /\ ~PreferredContradiction(db)
    /\ db.state = "NeedsReview" <=> \E s \in ScansOf(db) : db.scans[s].quality = "NeedsReview"
    /\ db.context = NoScan
    /\ ~refused

Selecting == {i \in DOMAIN log :
                \/ log[i].kind = "preferred"
                \/ log[i].kind = "registered" /\ log[i].baseline = NoScan}
DecisionsOn(s) == {i \in DOMAIN log : log[i].scan = s /\ log[i].kind \in {"version", "copy", "wrong"}}

(* The audit log tells the history of the page: its last selection is the     *)
(* preferred scan, each selection names the one before as its baseline, so    *)
(* that no stale proposal was applied, and a scan's decision is the one event *)
(* about it. A scan decided to be another physical copy is told apart from    *)
(* the scan it was compared with and from every other such copy.              *)
LogTellsHistory ==
    /\ \A i \in Selecting : (\A j \in Selecting : j <= i) => log[i].scan = db.pointer
    /\ \A i \in DOMAIN log, j \in Selecting :
         (log[i].kind \notin {"deferred", "resolved"} /\ j < i /\ \A k \in Selecting : k < i => k <= j)
            => log[i].baseline = log[j].scan
    /\ \A s \in ScansOf(db) :
         IF db.scans[s].decision = "none" THEN DecisionsOn(s) = {}
         ELSE \E i \in DecisionsOn(s) : DecisionsOn(s) = {i} /\ log[i].kind = db.scans[s].decision
    /\ \A s, t \in ScansOf(db) :
         db.scans[s].decision = "copy" /\ db.scans[t].decision \in {"none", "copy"} /\ s # t
            => db.scans[s].copy \notin {NoCopy, db.scans[t].copy}

(* "When a scan targets an existing page, Rust compares" it with the scan the *)
(* page has: a comparison of the two is possible, and the integrity check has *)
(* nothing to say of their fingerprints.                                      *)
EveryScanIsComparable ==
    /\ \A s \in ScansOf(db) : Comparable(db.scans[s]) /\ Comparable(db.scans[db.pointer])
    /\ InvalidFingerprints(db) = {}
=============================================================================
