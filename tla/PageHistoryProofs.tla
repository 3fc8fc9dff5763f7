-------------------------- MODULE PageHistoryProofs --------------------------
(* Theorems about the rows of a page, for any number of scans, audit events   *)
(* and review items: the page and its scans agree, and the audit log tells    *)
(* how they came to be what they are.                                         *)
EXTENDS PageHistory, TLAPS

ScanType ==
    [preferred : BOOLEAN, quality : {"Accepted", "NeedsReview", "Rejected"},
     decision : {"none", "version", "copy", "wrong"}, supersedes : Nat, copy : Nat, token : BOOLEAN]

States == {"Unscanned", "Scanned", "NeedsReview"}

DbType == [pointer : Nat, state : States, scans : Seq(ScanType), context : Nat, ok : BOOLEAN]

ProposalsOf(d) == [baseline : ScansOf(d), candidate : ScansOf(d)]

HistoryTypeOK ==
    /\ smart \in BOOLEAN
    /\ db \in DbType
    /\ copies \in Nat
    /\ proposals \subseteq ProposalsOf(db)

-----------------------------------------------------------------------------
(* The statements on the database.                                            *)

LEMMA ScansAreNumbered ==
  ASSUME NEW d \in DbType
  PROVE  /\ ScansOf(d) = 1 .. Len(d.scans) /\ Len(d.scans) \in Nat
         /\ \A s \in ScansOf(d) : d.scans[s] \in ScanType
         /\ Flagged(d) \subseteq ScansOf(d)
BY DEF DbType, ScansOf, Flagged

\* All of a scan but its flag.
Like(a, b) ==
    /\ a.quality = b.quality /\ a.decision = b.decision /\ a.supersedes = b.supersedes
    /\ a.copy = b.copy /\ a.token = b.token

LEMMA FlagOfScan ==
  ASSUME NEW scan \in ScanType, NEW b \in BOOLEAN
  PROVE  LET new == [scan EXCEPT !.preferred = b] IN
         new \in ScanType /\ new.preferred = b /\ Like(new, scan)
<1> DEFINE new == [scan EXCEPT !.preferred = b]
<1>1. new \in ScanType
  BY Zenon DEF ScanType
<1>2. new.preferred = b
  BY Zenon DEF ScanType
<1>3. Like(new, scan)
  BY DEF Like, ScanType
<1> QED BY <1>1, <1>2, <1>3

\* Clearing flags changes nothing else.
LEMMA ClearFlagsResult ==
  ASSUME NEW d \in DbType, NEW S \in SUBSET ScansOf(d), d.pointer \notin S
  PROVE  LET e == ClearFlags(d, S) IN
         /\ e \in DbType /\ ScansOf(e) = ScansOf(d)
         /\ e.pointer = d.pointer /\ e.state = d.state /\ e.context = d.context /\ e.ok = d.ok
         /\ Flagged(e) = Flagged(d) \ S
         /\ \A s \in ScansOf(d) : Like(e.scans[s], d.scans[s])
<1> DEFINE f == [s \in ScansOf(d) |->
                   IF s \in S THEN [d.scans[s] EXCEPT !.preferred = FALSE] ELSE d.scans[s]]
           e == ClearFlags(d, S)
<1>1. \A s \in ScansOf(d) :
        /\ f[s] \in ScanType /\ Like(f[s], d.scans[s])
        /\ s \in S => ~f[s].preferred
        /\ s \notin S => f[s] = d.scans[s]
  BY ScansAreNumbered, FlagOfScan DEF Like
<1>2. DOMAIN f = ScansOf(d)
  OBVIOUS
<1>3. e = [d EXCEPT !.scans = f, !.ok = @]
  <2>1. (d.ok /\ d.pointer \notin S) = d.ok
    BY DEF DbType
  <2>2. e = [d EXCEPT !.scans = f, !.ok = @ /\ d.pointer \notin S]
    BY Zenon DEF ClearFlags
  <2> QED BY <2>1, <2>2, Zenon
<1> HIDE DEF e
<1>4. f \in Seq(ScanType)
  <2> HIDE DEF f
  <2>1. f \in [1 .. Len(d.scans) -> ScanType]
    BY <1>1, <1>2, ScansAreNumbered DEF f
  <2> QED BY <2>1, ScansAreNumbered
<1> HIDE DEF f
<1>5. /\ e \in DbType /\ e.scans = f /\ e.pointer = d.pointer /\ e.state = d.state
      /\ e.context = d.context /\ e.ok = d.ok
  BY <1>3, <1>4 DEF DbType
<1>6. ScansOf(e) = ScansOf(d) /\ Flagged(e) = Flagged(d) \ S
  BY <1>1, <1>2, <1>5 DEF ScansOf, Flagged
<1> QED BY <1>1, <1>5, <1>6 DEF e

\* Setting the flag of the scan the page points to, where no other has it.
LEMMA SetFlagResult ==
  ASSUME NEW d \in DbType, d.pointer \in ScansOf(d), Flagged(d) \subseteq {d.pointer}
  PROVE  LET e == SetFlag(d, d.pointer) IN
         /\ e \in DbType /\ ScansOf(e) = ScansOf(d)
         /\ e.pointer = d.pointer /\ e.state = d.state /\ e.context = d.context /\ e.ok = d.ok
         /\ Flagged(e) = {d.pointer}
         /\ \A s \in ScansOf(d) : Like(e.scans[s], d.scans[s])
<1> DEFINE p == d.pointer
           f == [d.scans EXCEPT ![p] = [d.scans[p] EXCEPT !.preferred = TRUE]]
           e == SetFlag(d, p)
<1>1. e = [d EXCEPT !.scans = f, !.ok = @]
  <2>1. (d.ok /\ d.pointer = p /\ Flagged(d) \subseteq {p}) = d.ok
    BY DEF DbType
  <2>2. e = [d EXCEPT !.scans = f, !.ok = @ /\ d.pointer = p /\ Flagged(d) \subseteq {p}]
    BY Zenon DEF SetFlag
  <2> QED BY <2>1, <2>2, Zenon
<1>2. /\ d.scans[p] \in ScanType /\ [d.scans[p] EXCEPT !.preferred = TRUE] \in ScanType
      /\ [d.scans[p] EXCEPT !.preferred = TRUE].preferred
      /\ Like([d.scans[p] EXCEPT !.preferred = TRUE], d.scans[p])
  BY ScansAreNumbered, FlagOfScan
<1> HIDE DEF e
<1>3. f \in Seq(ScanType) /\ DOMAIN f = ScansOf(d)
  BY <1>2 DEF DbType, ScansOf
<1>4. \A s \in ScansOf(d) :
        Like(f[s], d.scans[s]) /\ (f[s].preferred <=> s = p \/ d.scans[s].preferred)
  BY <1>2 DEF Like, ScansOf
<1> HIDE DEF f
<1>5. /\ e \in DbType /\ e.scans = f /\ e.pointer = d.pointer /\ e.state = d.state
      /\ e.context = d.context /\ e.ok = d.ok
  BY <1>1, <1>3 DEF DbType
<1>6. ScansOf(e) = ScansOf(d) /\ Flagged(e) = {d.pointer}
  BY <1>3, <1>4, <1>5 DEF ScansOf, Flagged
<1> QED BY <1>4, <1>5, <1>6 DEF e

\* After the trigger one scan has the flag: the one the page points to.
LEMMA FollowPointerResult ==
  ASSUME NEW d \in DbType, d.pointer \in ScansOf(d)
  PROVE  LET e == FollowPointer(d) IN
         /\ e \in DbType /\ ScansOf(e) = ScansOf(d)
         /\ e.pointer = d.pointer /\ e.state = d.state /\ e.context = d.context /\ e.ok = d.ok
         /\ Flagged(e) = {d.pointer}
         /\ \A s \in ScansOf(d) : Like(e.scans[s], d.scans[s])
<1> DEFINE S == Flagged(d) \ {d.pointer}
           c == ClearFlags(d, S)
           e == FollowPointer(d)
<1>1. S \in SUBSET ScansOf(d) /\ d.pointer \notin S
  BY ScansAreNumbered
<1>2. /\ c \in DbType /\ ScansOf(c) = ScansOf(d)
      /\ c.pointer = d.pointer /\ c.state = d.state /\ c.context = d.context /\ c.ok = d.ok
      /\ Flagged(c) = Flagged(d) \ S
      /\ \A s \in ScansOf(d) : Like(c.scans[s], d.scans[s])
  <2> HIDE DEF S
  <2> QED BY <1>1, ClearFlagsResult
<1>3. e = IF d.pointer \in ScansOf(d) \ Flagged(c) THEN SetFlag(c, d.pointer) ELSE c
  BY DEF FollowPointer
<1> HIDE DEF c, e
<1>4. CASE d.pointer \in Flagged(c)
  BY <1>2, <1>3, <1>4 DEF e
<1>5. CASE d.pointer \notin Flagged(c)
  <2>1. e = SetFlag(c, c.pointer)
    BY <1>2, <1>3, <1>5
  <2>2. Flagged(c) \subseteq {c.pointer}
    BY <1>2
  <2>3. /\ e \in DbType /\ ScansOf(e) = ScansOf(c)
        /\ e.pointer = c.pointer /\ e.state = c.state /\ e.context = c.context /\ e.ok = c.ok
        /\ Flagged(e) = {c.pointer}
        /\ \A s \in ScansOf(c) : Like(e.scans[s], c.scans[s])
    BY <1>2, <2>1, <2>2, SetFlagResult
  <2> QED BY <1>2, <2>3 DEF Like, e
<1> QED BY <1>4, <1>5

LEMMA PointToResult ==
  ASSUME NEW d \in DbType, NEW s \in ScansOf(d), d.ok, s # d.pointer => d.context = s
  PROVE  LET e == PointTo(d, s) IN
         /\ e \in DbType /\ ScansOf(e) = ScansOf(d)
         /\ e.pointer = s /\ e.state = d.state /\ e.context = d.context /\ e.ok
         /\ Flagged(e) = {s}
         /\ \A r \in ScansOf(d) : Like(e.scans[r], d.scans[r])
<1> DEFINE c == [d EXCEPT !.pointer = s, !.ok = TRUE]
           e == PointTo(d, s)
<1>1. e = FollowPointer(c)
  <2>1. (d.ok /\ (s # d.pointer => d.context = s /\ s \in ScansOf(d))) = TRUE
    OBVIOUS
  <2>2. e = FollowPointer([d EXCEPT !.pointer = s,
                             !.ok = d.ok /\ (s # d.pointer => d.context = s /\ s \in ScansOf(d))])
    BY Zenon DEF PointTo
  <2> QED BY <2>1, <2>2, Zenon
<1>2. s \in Nat
  BY ScansAreNumbered
<1>3. /\ c \in DbType /\ c.scans = d.scans /\ c.pointer = s /\ c.state = d.state
      /\ c.context = d.context /\ c.ok
  BY <1>2 DEF DbType
<1> HIDE DEF c, e
<1>4. ScansOf(c) = ScansOf(d)
  BY <1>3 DEF ScansOf
<1>5. /\ e \in DbType /\ ScansOf(e) = ScansOf(c)
      /\ e.pointer = c.pointer /\ e.state = c.state /\ e.context = c.context /\ e.ok = c.ok
      /\ Flagged(e) = {c.pointer}
      /\ \A r \in ScansOf(c) : Like(e.scans[r], c.scans[r])
  BY <1>1, <1>3, <1>4, FollowPointerResult
<1> QED BY <1>3, <1>4, <1>5 DEF e

\* change_preferred_scan: the context is entered, used and left.
Replaced(d, s) == LeaveContext(PointTo(EnterContext(d, s), s), s)

LEMMA ReplacedResult ==
  ASSUME NEW d \in DbType, NEW s \in ScansOf(d), d.ok, d.context = NoScan
  PROVE  LET e == Replaced(d, s) IN
         /\ e \in DbType /\ ScansOf(e) = ScansOf(d)
         /\ e.pointer = s /\ e.state = d.state /\ e.context = NoScan /\ e.ok
         /\ Flagged(e) = {s}
         /\ \A r \in ScansOf(d) : Like(e.scans[r], d.scans[r])
<1> DEFINE c == [d EXCEPT !.context = s, !.ok = TRUE]
           b == PointTo(c, s)
           e == Replaced(d, s)
<1>1. EnterContext(d, s) = c
  <2>1. (d.ok /\ d.context = NoScan) = TRUE
    OBVIOUS
  <2> QED BY <2>1, Zenon DEF EnterContext
<1>2. s \in Nat
  BY ScansAreNumbered
<1>3. /\ c \in DbType /\ c.scans = d.scans /\ c.state = d.state /\ c.context = s /\ c.ok
  BY <1>2 DEF DbType
<1> HIDE DEF c
<1>4. ScansOf(c) = ScansOf(d)
  BY <1>3 DEF ScansOf
<1>5. /\ b \in DbType /\ ScansOf(b) = ScansOf(c)
      /\ b.pointer = s /\ b.state = c.state /\ b.context = c.context /\ b.ok
      /\ Flagged(b) = {s}
      /\ \A r \in ScansOf(c) : Like(b.scans[r], c.scans[r])
  BY <1>3, <1>4, PointToResult
<1>6. e = LeaveContext(b, s)
  BY <1>1 DEF Replaced
<1> HIDE DEF b, e
<1>7. e = [b EXCEPT !.context = NoScan, !.ok = TRUE]
  <2>1. (b.ok /\ b.context = s) = TRUE
    BY <1>3, <1>5
  <2> QED BY <1>6, <2>1, Zenon DEF LeaveContext
<1>8. /\ e \in DbType /\ e.scans = b.scans /\ e.pointer = b.pointer /\ e.state = b.state
      /\ e.context = NoScan /\ e.ok
  BY <1>5, <1>7 DEF DbType, NoScan
<1>9. ScansOf(e) = ScansOf(b) /\ Flagged(e) = Flagged(b)
  BY <1>8 DEF ScansOf, Flagged
<1> QED BY <1>3, <1>4, <1>5, <1>8, <1>9 DEF e

\* Registration: the new scan is the last one; the trigger sets the page's state.
LEMMA InsertResult ==
  ASSUME NEW d \in DbType, NEW scan \in ScanType, d.ok, d.context = NoScan,
         \/ scan.preferred /\ Flagged(d) = {}
         \/ ~scan.preferred /\ d.pointer \in ScansOf(d)
  PROVE  LET e == Insert(d, scan)
             s == Len(d.scans) + 1 IN
         /\ e \in DbType /\ ScansOf(e) = ScansOf(d) \cup {s} /\ s \notin ScansOf(d)
         /\ e.pointer = IF scan.preferred THEN s ELSE d.pointer
         /\ e.state = RegisteredState(scan) /\ e.context = NoScan /\ e.ok
         /\ Flagged(e) = {e.pointer}
         /\ \A r \in ScansOf(d) : Like(e.scans[r], d.scans[r])
         /\ Like(e.scans[s], scan)
<1> DEFINE s == Len(d.scans) + 1
           a == [d EXCEPT !.scans = Append(@, scan), !.state = RegisteredState(scan), !.ok = TRUE]
           e == Insert(d, scan)
<1>1. e = IF scan.preferred THEN Replaced(a, s) ELSE PointTo(a, d.pointer)
  <2>1. (d.ok /\ (scan.preferred => Flagged(d) = {})) = TRUE
    OBVIOUS
  <2> HIDE DEF s
  <2> QED BY <2>1, Zenon DEF Insert, Replaced, s
<1>2. /\ a \in DbType /\ a.scans = Append(d.scans, scan) /\ a.pointer = d.pointer
      /\ a.state = RegisteredState(scan) /\ a.context = NoScan /\ a.ok
  <2>1. Append(d.scans, scan) \in Seq(ScanType) /\ RegisteredState(scan) \in States
    BY DEF DbType, RegisteredState, States
  <2> HIDE DEF s
  <2> QED BY <2>1 DEF DbType
<1> HIDE DEF a, e
<1>3. /\ ScansOf(a) = ScansOf(d) \cup {s} /\ s \notin ScansOf(d)
      /\ \A r \in ScansOf(d) : a.scans[r] = d.scans[r]
      /\ a.scans[s] = scan
  BY <1>2, ScansAreNumbered DEF ScansOf, DbType
<1>4. CASE scan.preferred
  <2>1. /\ e \in DbType /\ ScansOf(e) = ScansOf(a)
        /\ e.pointer = s /\ e.state = a.state /\ e.context = NoScan /\ e.ok
        /\ Flagged(e) = {s}
        /\ \A r \in ScansOf(a) : Like(e.scans[r], a.scans[r])
    BY <1>1, <1>2, <1>3, <1>4, ReplacedResult
  <2> QED BY <1>2, <1>3, <1>4, <2>1 DEF e
<1>5. CASE ~scan.preferred
  <2>1. /\ e \in DbType /\ ScansOf(e) = ScansOf(a)
        /\ e.pointer = d.pointer /\ e.state = a.state /\ e.context = a.context /\ e.ok
        /\ Flagged(e) = {d.pointer}
        /\ \A r \in ScansOf(a) : Like(e.scans[r], a.scans[r])
    <3>1. e = PointTo(a, d.pointer) /\ d.pointer \in ScansOf(a) /\ a.ok /\ a.pointer = d.pointer
      BY <1>1, <1>2, <1>3, <1>5
    <3> QED BY <1>2, <3>1, PointToResult
  <2> QED BY <1>2, <1>3, <1>5, <2>1 DEF e
<1> QED BY <1>4, <1>5

-----------------------------------------------------------------------------
(* The page and its scans.                                                    *)

RowsAgree(d) ==
    /\ d.ok /\ d.context = NoScan
    /\ d.pointer = NoScan => ScansOf(d) = {}
    /\ d.pointer # NoScan => d.pointer \in ScansOf(d)
    /\ Flagged(d) = IF d.pointer = NoScan THEN {} ELSE {d.pointer}
    /\ d.state = "NeedsReview" <=> \E s \in ScansOf(d) : d.scans[s].quality = "NeedsReview"

HistoryInv == HistoryTypeOK /\ RowsAgree(db) /\ ~refused

\* What each call does to the rows and to the log.
LEMMA RegisterStep ==
  ASSUME HistoryInv, RegisterScan
  PROVE  LET s == Len(db.scans) + 1 IN
         /\ db' \in DbType /\ RowsAgree(db') /\ UNCHANGED <<smart, copies, proposals, items, refused>>
         /\ ScansOf(db') = ScansOf(db) \cup {s} /\ s \notin ScansOf(db)
         /\ db'.pointer = IF db.pointer = NoScan THEN s ELSE db.pointer
         /\ \A r \in ScansOf(db) : Like(db'.scans[r], db.scans[r])
         /\ db'.scans[s].decision = "none" /\ db'.scans[s].copy = NoCopy
         /\ log' = Append(log, Event("registered", s, db.pointer))
<1> DEFINE s == Len(db.scans) + 1
           preferred == db.pointer = NoScan
<1>1. PICK quality \in {"Accepted", "NeedsReview"}, token \in BOOLEAN :
        /\ Commit(Insert(db, Scan(preferred, quality, token)), Event("registered", s, db.pointer))
        /\ ~preferred => quality = "NeedsReview"
  BY DEF RegisterScan, HistoryInv, HistoryTypeOK
<1> DEFINE scan == Scan(preferred, quality, token)
           e == Insert(db, scan)
<1>2. /\ scan \in ScanType /\ (scan.preferred <=> preferred) /\ scan.quality = quality
      /\ scan.decision = "none" /\ scan.copy = NoCopy
  BY DEF Scan, ScanType, NoScan, NoCopy
<1>3. /\ db \in DbType /\ db.ok /\ db.context = NoScan
      /\ preferred => Flagged(db) = {} /\ ScansOf(db) = {}
      /\ ~preferred => db.pointer \in ScansOf(db)
  BY DEF HistoryInv, HistoryTypeOK, RowsAgree
<1> HIDE DEF scan, preferred
<1>4. /\ e \in DbType /\ ScansOf(e) = ScansOf(db) \cup {s} /\ s \notin ScansOf(db)
      /\ e.pointer = IF scan.preferred THEN s ELSE db.pointer
      /\ e.state = RegisteredState(scan) /\ e.context = NoScan /\ e.ok
      /\ Flagged(e) = {e.pointer}
      /\ \A r \in ScansOf(db) : Like(e.scans[r], db.scans[r])
      /\ Like(e.scans[s], scan)
  BY <1>2, <1>3, InsertResult
<1> HIDE DEF e
<1>5. db' = e /\ log' = Append(log, Event("registered", s, db.pointer)) /\ UNCHANGED refused
  BY <1>1, <1>4 DEF Commit, e, scan
<1>6. e.state = "NeedsReview" <=> \E r \in ScansOf(e) : e.scans[r].quality = "NeedsReview"
  BY <1>1, <1>2, <1>3, <1>4 DEF RegisteredState, Like
<1>7. s # NoScan /\ e.pointer # NoScan /\ e.pointer \in ScansOf(e)
  BY <1>3, <1>4, ScansAreNumbered, SMTT(30) DEF NoScan, preferred
<1>8. RowsAgree(e)
  BY <1>4, <1>6, <1>7 DEF RowsAgree
<1> QED BY <1>2, <1>4, <1>5, <1>8 DEF RegisterScan, Like, preferred

LEMMA ReplaceStep ==
  ASSUME HistoryInv, NEW p \in ProposalsOf(db), ReplacePreferred(p)
  PROVE  /\ db' \in DbType /\ RowsAgree(db') /\ UNCHANGED <<smart, copies, proposals, items, refused>>
         /\ p.candidate \in ScansOf(db) /\ p.baseline = db.pointer
         /\ ScansOf(db') = ScansOf(db) /\ db'.pointer = p.candidate
         /\ \A r \in ScansOf(db) : Like(db'.scans[r], db.scans[r])
         /\ log' = Append(log, Event("preferred", p.candidate, p.baseline))
<1> DEFINE e == Replaced(db, p.candidate)
<1>1. /\ db \in DbType /\ db.ok /\ db.context = NoScan /\ p.candidate \in ScansOf(db)
      /\ p.baseline = db.pointer
  BY DEF HistoryInv, HistoryTypeOK, RowsAgree, ProposalsOf, ReplacePreferred, Replaceable, Current
<1>2. /\ e \in DbType /\ ScansOf(e) = ScansOf(db)
      /\ e.pointer = p.candidate /\ e.state = db.state /\ e.context = NoScan /\ e.ok
      /\ Flagged(e) = {p.candidate}
      /\ \A r \in ScansOf(db) : Like(e.scans[r], db.scans[r])
  BY <1>1, ReplacedResult
<1> HIDE DEF e
<1>3. /\ db' = e /\ log' = Append(log, Event("preferred", p.candidate, p.baseline))
      /\ UNCHANGED refused
  BY <1>2 DEF ReplacePreferred, Commit, e, Replaced
<1>4. RowsAgree(e)
  BY <1>1, <1>2, ScansAreNumbered DEF HistoryInv, RowsAgree, Like, NoScan
<1> QED BY <1>1, <1>2, <1>3, <1>4 DEF ReplacePreferred

\* A decision on a candidate: some fields of some scans, never a flag.
LEMMA DecisionStep ==
  ASSUME HistoryInv, NEW p \in ProposalsOf(db), NEW f \in Seq(ScanType), NEW decision,
         DOMAIN f = ScansOf(db),
         \A s \in ScansOf(db) : f[s].preferred = db.scans[s].preferred,
         Record(p, f, decision)
  PROVE  /\ db' \in DbType /\ RowsAgree(db') /\ UNCHANGED <<smart, proposals, items, refused>>
         /\ db'.scans = f /\ db'.pointer = db.pointer
         /\ log' = Append(log, Event(decision, p.candidate, p.baseline))
<1> DEFINE e == [db EXCEPT !.scans = f, !.state = ReviewState(f)]
<1>1. db \in DbType /\ RowsAgree(db)
  BY DEF HistoryInv, HistoryTypeOK
<1>2. ReviewState(f) \in States
  BY DEF ReviewState, States
<1>3. /\ e \in DbType /\ e.scans = f /\ e.state = ReviewState(f) /\ e.pointer = db.pointer
      /\ e.context = db.context /\ e.ok = db.ok
  BY <1>1, <1>2 DEF DbType
<1> HIDE DEF e
<1>4. ScansOf(e) = ScansOf(db) /\ Flagged(e) = Flagged(db)
  BY <1>3 DEF ScansOf, Flagged
<1>5. e.state = "NeedsReview" <=> \E s \in ScansOf(e) : e.scans[s].quality = "NeedsReview"
  BY <1>3 DEF ReviewState, ScansOf
<1>6. RowsAgree(e) /\ e.ok
  BY <1>1, <1>3, <1>4, <1>5 DEF RowsAgree
<1>7. db' = e /\ log' = Append(log, Event(decision, p.candidate, p.baseline)) /\ UNCHANGED refused
  BY <1>6 DEF Record, Commit, e
<1> QED BY <1>3, <1>6, <1>7 DEF Record

-----------------------------------------------------------------------------
(* The audit log.                                                             *)

EventType ==
    [kind : {"registered", "preferred", "version", "copy", "wrong", "deferred", "resolved"},
     scan : Nat, baseline : Nat]

ItemType == [scan : Nat, status : {"Open", "Deferred", "Resolved"}]

\* The page points where the last selection of the log does, if there is one.
LastSelectionHolds ==
    /\ db.pointer = NoScan <=> Selecting = {}
    /\ \A i \in Selecting : (\A j \in Selecting : j <= i) => log[i].scan = db.pointer

BaselinesChain ==
    \A i \in DOMAIN log, j \in Selecting :
       (log[i].kind \notin {"deferred", "resolved"} /\ j < i /\ \A k \in Selecting : k < i => k <= j)
          => log[i].baseline = log[j].scan

DecisionsAreLogged ==
    \A s \in ScansOf(db) :
       IF db.scans[s].decision = "none" THEN DecisionsOn(s) = {}
       ELSE \E i \in DecisionsOn(s) : DecisionsOn(s) = {i} /\ log[i].kind = db.scans[s].decision

OnlyScansAreDecided == \A s \in Nat : DecisionsOn(s) # {} => s \in ScansOf(db)

\* No number of a copy is above the highest; a copy has a number of its own.
CopiesDiffer ==
    /\ \A s \in ScansOf(db) :
         /\ db.scans[s].copy <= copies
         /\ db.scans[s].decision = "copy" => db.scans[s].copy # NoCopy
    /\ \A s, t \in ScansOf(db) :
         db.scans[s].decision = "copy" /\ db.scans[t].decision \in {"none", "copy"} /\ s # t
            => db.scans[s].copy # db.scans[t].copy

LogInv ==
    /\ log \in Seq(EventType) /\ items \in Seq(ItemType)
    /\ LastSelectionHolds /\ BaselinesChain
    /\ DecisionsAreLogged /\ OnlyScansAreDecided
    /\ CopiesDiffer

Selects(e) ==
    \/ e.kind = "preferred"
    \/ e.kind = "registered" /\ e.baseline = NoScan
Decides(e) == e.kind \in {"version", "copy", "wrong"}

LEMMA EventAppended ==
  ASSUME log \in Seq(EventType), NEW e \in EventType, log' = Append(log, e)
  PROVE  LET n == Len(log) + 1 IN
         /\ log' \in Seq(EventType) /\ n \in Nat /\ n \notin DOMAIN log
         /\ DOMAIN log' = DOMAIN log \cup {n} /\ log'[n] = e
         /\ \A i \in DOMAIN log : i \in Nat /\ i < n /\ log'[i] = log[i]
         /\ Selecting' = IF Selects(e) THEN Selecting \cup {n} ELSE Selecting
         /\ \A s \in Nat :
              DecisionsOn(s)' = IF Decides(e) /\ e.scan = s THEN DecisionsOn(s) \cup {n} ELSE DecisionsOn(s)
<1> DEFINE n == Len(log) + 1
<1>1. /\ log' \in Seq(EventType) /\ n \in Nat /\ n \notin DOMAIN log
      /\ DOMAIN log' = DOMAIN log \cup {n} /\ log'[n] = e
      /\ \A i \in DOMAIN log : i \in Nat /\ i < n /\ log'[i] = log[i]
  OBVIOUS
<1> HIDE DEF n
<1>2. Selecting' = IF Selects(e) THEN Selecting \cup {n} ELSE Selecting
  BY <1>1 DEF Selecting, Selects
<1>3. \A s \in Nat :
        DecisionsOn(s)' = IF Decides(e) /\ e.scan = s THEN DecisionsOn(s) \cup {n} ELSE DecisionsOn(s)
  BY <1>1 DEF DecisionsOn, Decides
<1> QED BY <1>1, <1>2, <1>3 DEF n

\* An event that names the preferred scan as its baseline, and that is the
\* last selection exactly if the preference moved to its scan.
LEMMA SelectionsFollow ==
  ASSUME HistoryInv, LogInv, NEW e \in EventType, log' = Append(log, e), db' \in DbType,
         e.kind \notin {"deferred", "resolved"} => e.baseline = db.pointer,
         Selects(e) => db'.pointer = e.scan /\ e.scan # NoScan,
         ~Selects(e) => db'.pointer = db.pointer
  PROVE  LastSelectionHolds' /\ BaselinesChain'
<1> DEFINE n == Len(log) + 1
<1>1. /\ n \in Nat /\ n \notin DOMAIN log
      /\ DOMAIN log' = DOMAIN log \cup {n} /\ log'[n] = e
      /\ \A i \in DOMAIN log : i \in Nat /\ i < n /\ log'[i] = log[i]
      /\ Selecting' = IF Selects(e) THEN Selecting \cup {n} ELSE Selecting
  BY EventAppended DEF LogInv
<1> HIDE DEF n
<1>2. Selecting \subseteq DOMAIN log
  BY DEF Selecting
<1>3. LastSelectionHolds /\ BaselinesChain
  BY DEF LogInv
<1>4. LastSelectionHolds'
  <2>1. CASE Selects(e)
    BY <1>1, <1>2, <2>1 DEF LastSelectionHolds
  <2>2. CASE ~Selects(e)
    BY <1>1, <1>2, <1>3, <2>2 DEF LastSelectionHolds
  <2> QED BY <2>1, <2>2
<1>5. BaselinesChain'
  <2> SUFFICES ASSUME NEW i \in DOMAIN log', NEW j \in Selecting',
                      log'[i].kind \notin {"deferred", "resolved"}, j < i,
                      \A k \in Selecting' : k < i => k <= j
               PROVE  log'[i].baseline = log'[j].scan
    BY DEF BaselinesChain
  <2>1. j \in Selecting /\ log'[j] = log[j]
    BY <1>1, <1>2
  <2>2. CASE i = n
    <3>1. \A k \in Selecting : k <= j
      BY <1>1, <1>2, <2>2
    <3>2. log[j].scan = db.pointer
      BY <1>3, <2>1, <3>1 DEF LastSelectionHolds
    <3> QED BY <1>1, <2>1, <2>2, <3>2
  <2>3. CASE i \in DOMAIN log
    <3>1. /\ log[i].kind \notin {"deferred", "resolved"}
          /\ \A k \in Selecting : k < i => k <= j
      BY <1>1, <2>3
    <3> QED BY <1>1, <1>3, <2>1, <2>3, <3>1 DEF BaselinesChain
  <2> QED BY <1>1, <2>2, <2>3
<1> QED BY <1>4, <1>5

\* An event that decides nothing, and rows whose decisions and copies stay.
LEMMA DecisionsStay ==
  ASSUME LogInv, db \in DbType, db' \in DbType, NEW e \in EventType, log' = Append(log, e),
         ~Decides(e), ScansOf(db) \subseteq ScansOf(db'), UNCHANGED copies, copies \in Nat,
         \A s \in ScansOf(db) :
           db'.scans[s].decision = db.scans[s].decision /\ db'.scans[s].copy = db.scans[s].copy,
         \A s \in ScansOf(db') \ ScansOf(db) :
           db'.scans[s].decision = "none" /\ db'.scans[s].copy = NoCopy
  PROVE  DecisionsAreLogged' /\ OnlyScansAreDecided' /\ CopiesDiffer'
<1>1. /\ \A i \in DOMAIN log : log'[i] = log[i]
      /\ \A s \in Nat : DecisionsOn(s)' = DecisionsOn(s)
  BY EventAppended DEF LogInv
<1>2. \A s \in Nat : DecisionsOn(s) \subseteq DOMAIN log
  BY DEF DecisionsOn
<1>3. ScansOf(db) \subseteq Nat /\ ScansOf(db') \subseteq Nat
  BY ScansAreNumbered
<1>4. DecisionsAreLogged'
  <2> SUFFICES ASSUME NEW s \in ScansOf(db')
               PROVE  IF db'.scans[s].decision = "none" THEN DecisionsOn(s)' = {}
                      ELSE \E i \in DecisionsOn(s)' :
                             DecisionsOn(s)' = {i} /\ log'[i].kind = db'.scans[s].decision
    BY DEF DecisionsAreLogged
  <2>1. CASE s \in ScansOf(db)
    <3>1. DecisionsOn(s)' = DecisionsOn(s) /\ db'.scans[s].decision = db.scans[s].decision
      BY <1>1, <1>3, <2>1
    <3>2. CASE db.scans[s].decision = "none"
      BY <2>1, <3>1, <3>2, Zenon DEF LogInv, DecisionsAreLogged
    <3>3. CASE db.scans[s].decision # "none"
      <4>1. PICK i \in DecisionsOn(s) :
              DecisionsOn(s) = {i} /\ log[i].kind = db.scans[s].decision
        BY <2>1, <3>3, Zenon DEF LogInv, DecisionsAreLogged
      <4>2. log'[i] = log[i]
        BY <1>1, <1>2, <1>3, <2>1, <4>1
      <4> QED BY <3>1, <3>3, <4>1, <4>2, Zenon
    <3> QED BY <3>2, <3>3
  <2>2. CASE s \notin ScansOf(db)
    BY <1>1, <1>3, <2>2 DEF LogInv, OnlyScansAreDecided
  <2> QED BY <2>1, <2>2
<1>5. OnlyScansAreDecided'
  BY <1>1 DEF LogInv, OnlyScansAreDecided
<1>6. CopiesDiffer'
  BY SMTT(30) DEF LogInv, CopiesDiffer, NoCopy
<1> QED BY <1>4, <1>5, <1>6

\* A decision is one event about its scan, which had none.
LEMMA DecisionIsLogged ==
  ASSUME LogInv, db \in DbType, db' \in DbType, NEW e \in EventType, log' = Append(log, e),
         Decides(e), e.scan \in ScansOf(db), db.scans[e.scan].decision = "none",
         ScansOf(db') = ScansOf(db), db'.scans[e.scan].decision = e.kind,
         \A s \in ScansOf(db) \ {e.scan} : db'.scans[s].decision = db.scans[s].decision
  PROVE  DecisionsAreLogged' /\ OnlyScansAreDecided'
<1> DEFINE n == Len(log) + 1
<1>1. /\ n \in Nat /\ log'[n] = e
      /\ \A i \in DOMAIN log : log'[i] = log[i]
      /\ \A s \in Nat : DecisionsOn(s)' = IF e.scan = s THEN DecisionsOn(s) \cup {n} ELSE DecisionsOn(s)
  BY EventAppended DEF LogInv
<1> HIDE DEF n
<1>2. \A s \in Nat : DecisionsOn(s) \subseteq DOMAIN log
  BY DEF DecisionsOn
<1>3. ScansOf(db) \subseteq Nat
  BY ScansAreNumbered
<1>4. DecisionsAreLogged'
  <2> SUFFICES ASSUME NEW s \in ScansOf(db)
               PROVE  IF db'.scans[s].decision = "none" THEN DecisionsOn(s)' = {}
                      ELSE \E i \in DecisionsOn(s)' :
                             DecisionsOn(s)' = {i} /\ log'[i].kind = db'.scans[s].decision
    BY DEF DecisionsAreLogged
  <2>1. CASE s = e.scan
    <3>1. DecisionsOn(s)' = {n}
      BY <1>1, <1>3, <2>1 DEF LogInv, DecisionsAreLogged
    <3>2. db'.scans[s].decision # "none"
      BY <2>1 DEF Decides
    <3> QED BY <1>1, <2>1, <3>1, <3>2
  <2>2. CASE s # e.scan
    <3>1. /\ DecisionsOn(s)' = DecisionsOn(s) /\ DecisionsOn(s) \subseteq DOMAIN log
          /\ db'.scans[s].decision = db.scans[s].decision
      BY <1>1, <1>2, <1>3, <2>2
    <3>2. IF db.scans[s].decision = "none" THEN DecisionsOn(s) = {}
          ELSE \E i \in DecisionsOn(s) :
                 DecisionsOn(s) = {i} /\ log[i].kind = db.scans[s].decision
      BY Zenon DEF LogInv, DecisionsAreLogged
    <3> QED BY <1>1, <3>1, <3>2
  <2> QED BY <2>1, <2>2
<1>5. OnlyScansAreDecided'
  BY <1>1 DEF LogInv, OnlyScansAreDecided
<1> QED BY <1>4, <1>5

-----------------------------------------------------------------------------
(* The invariant of the page and its log.                                     *)

LEMMA HistoryInitial ==
  ASSUME HistoryInit
  PROVE  HistoryInv /\ LogInv
<1>1. /\ db \in DbType /\ db.ok /\ db.context = NoScan /\ db.pointer = NoScan
      /\ db.scans = <<>> /\ db.state = "Unscanned" /\ ScansOf(db) = {} /\ Flagged(db) = {}
  BY DEF HistoryInit, DbType, States, NoScan, ScansOf, Flagged
<1>2. HistoryInv
  BY <1>1 DEF HistoryInit, HistoryInv, HistoryTypeOK, RowsAgree
<1>3. Selecting = {} /\ \A s \in Nat : DecisionsOn(s) = {}
  BY DEF HistoryInit, Selecting, DecisionsOn
<1>4. log \in Seq(EventType) /\ items \in Seq(ItemType)
  BY DEF HistoryInit
<1>5. LastSelectionHolds /\ BaselinesChain
  BY <1>1, <1>3 DEF LastSelectionHolds, BaselinesChain
<1>6. DecisionsAreLogged /\ OnlyScansAreDecided /\ CopiesDiffer
  BY <1>1, <1>3 DEF DecisionsAreLogged, OnlyScansAreDecided, CopiesDiffer
<1> QED BY <1>2, <1>4, <1>5, <1>6 DEF LogInv

LEMMA RegisterKeeps ==
  ASSUME HistoryInv, LogInv, RegisterScan
  PROVE  HistoryInv' /\ LogInv'
<1> DEFINE s == Len(db.scans) + 1
           e == Event("registered", s, db.pointer)
<1>1. /\ db' \in DbType /\ RowsAgree(db') /\ UNCHANGED <<smart, copies, proposals, items, refused>>
      /\ ScansOf(db') = ScansOf(db) \cup {s} /\ s \notin ScansOf(db)
      /\ db'.pointer = IF db.pointer = NoScan THEN s ELSE db.pointer
      /\ \A r \in ScansOf(db) : Like(db'.scans[r], db.scans[r])
      /\ db'.scans[s].decision = "none" /\ db'.scans[s].copy = NoCopy
      /\ log' = Append(log, e)
  BY RegisterStep
<1>2. db \in DbType /\ copies \in Nat /\ proposals \subseteq ProposalsOf(db) /\ smart \in BOOLEAN
      /\ ~refused
  BY DEF HistoryInv, HistoryTypeOK
<1>3. s \in Nat /\ s # NoScan /\ db.pointer \in Nat
  BY <1>2, ScansAreNumbered DEF DbType, NoScan
<1>4. /\ e \in EventType /\ e.kind = "registered" /\ e.scan = s /\ e.baseline = db.pointer
  BY <1>3 DEF Event, EventType
<1> HIDE DEF e, s
<1>5. HistoryInv'
  <2>1. ProposalsOf(db) \subseteq ProposalsOf(db')
    BY <1>1 DEF ProposalsOf
  <2> QED BY <1>1, <1>2, <2>1 DEF HistoryInv, HistoryTypeOK
<1>6. LastSelectionHolds' /\ BaselinesChain'
  BY <1>1, <1>3, <1>4, SelectionsFollow DEF Selects
<1>7. DecisionsAreLogged' /\ OnlyScansAreDecided' /\ CopiesDiffer'
  BY <1>1, <1>2, <1>4, DecisionsStay DEF Decides, Like
<1>8. log' \in Seq(EventType) /\ items' \in Seq(ItemType)
  BY <1>1, <1>4 DEF LogInv
<1> QED BY <1>5, <1>6, <1>7, <1>8 DEF LogInv

LEMMA ReplaceKeeps ==
  ASSUME HistoryInv, LogInv, NEW p \in ProposalsOf(db), ReplacePreferred(p)
  PROVE  HistoryInv' /\ LogInv'
<1> DEFINE e == Event("preferred", p.candidate, p.baseline)
<1>1. /\ db' \in DbType /\ RowsAgree(db') /\ UNCHANGED <<smart, copies, proposals, items, refused>>
      /\ p.candidate \in ScansOf(db) /\ p.baseline = db.pointer
      /\ ScansOf(db') = ScansOf(db) /\ db'.pointer = p.candidate
      /\ \A r \in ScansOf(db) : Like(db'.scans[r], db.scans[r])
      /\ log' = Append(log, e)
  BY ReplaceStep
<1>2. db \in DbType /\ copies \in Nat /\ proposals \subseteq ProposalsOf(db) /\ smart \in BOOLEAN
      /\ ~refused
  BY DEF HistoryInv, HistoryTypeOK
<1>3. p.candidate \in Nat /\ p.candidate # NoScan /\ db.pointer \in Nat
  BY <1>1, <1>2, ScansAreNumbered DEF DbType, NoScan
<1>4. /\ e \in EventType /\ e.kind = "preferred" /\ e.scan = p.candidate /\ e.baseline = db.pointer
  BY <1>1, <1>3 DEF Event, EventType
<1> HIDE DEF e
<1>5. HistoryInv'
  BY <1>1, <1>2 DEF HistoryInv, HistoryTypeOK, ProposalsOf
<1>6. LastSelectionHolds' /\ BaselinesChain'
  BY <1>1, <1>3, <1>4, SelectionsFollow DEF Selects
<1>7. DecisionsAreLogged' /\ OnlyScansAreDecided' /\ CopiesDiffer'
  BY <1>1, <1>2, <1>4, DecisionsStay DEF Decides, Like
<1>8. log' \in Seq(EventType) /\ items' \in Seq(ItemType)
  BY <1>1, <1>4 DEF LogInv
<1> QED BY <1>5, <1>6, <1>7, <1>8 DEF LogInv

\* The three decisions change the decision and the copy of the candidate, and
\* the copy of the baseline.
LEMMA DecisionKeeps ==
  ASSUME HistoryInv, LogInv, NEW p \in ProposalsOf(db), NEW f \in Seq(ScanType), NEW decision,
         decision \in {"version", "copy", "wrong"}, Decidable(p),
         DOMAIN f = ScansOf(db), f[p.candidate].decision = decision,
         \A s \in ScansOf(db) : f[s].preferred = db.scans[s].preferred,
         \A s \in ScansOf(db) \ {p.candidate} : f[s].decision = db.scans[s].decision,
         copies' \in Nat,
         \A s \in ScansOf(db) : f[s].copy <= copies' /\ (f[s].decision = "copy" => f[s].copy # NoCopy),
         \A s, t \in ScansOf(db) :
           f[s].decision = "copy" /\ f[t].decision \in {"none", "copy"} /\ s # t => f[s].copy # f[t].copy,
         Record(p, f, decision)
  PROVE  HistoryInv' /\ LogInv'
<1> DEFINE e == Event(decision, p.candidate, p.baseline)
<1>1. /\ db' \in DbType /\ RowsAgree(db') /\ UNCHANGED <<smart, proposals, items, refused>>
      /\ db'.scans = f /\ db'.pointer = db.pointer
      /\ log' = Append(log, e)
  BY DecisionStep
<1>2. db \in DbType /\ proposals \subseteq ProposalsOf(db) /\ smart \in BOOLEAN /\ ~refused
  BY DEF HistoryInv, HistoryTypeOK
<1>3. /\ p.candidate \in ScansOf(db) /\ p.candidate \in Nat /\ p.baseline = db.pointer
      /\ db.pointer \in Nat /\ db.scans[p.candidate].decision = "none"
      /\ ScansOf(db') = ScansOf(db)
  BY <1>1, <1>2, ScansAreNumbered DEF ProposalsOf, Decidable, Current, DbType, ScansOf
<1>4. /\ e \in EventType /\ e.kind = decision /\ e.scan = p.candidate /\ e.baseline = db.pointer
  BY <1>3 DEF Event, EventType
<1> HIDE DEF e
<1>5. HistoryInv'
  BY <1>1, <1>2, <1>3 DEF HistoryInv, HistoryTypeOK, ProposalsOf
<1>6. LastSelectionHolds' /\ BaselinesChain'
  BY <1>1, <1>4, SelectionsFollow DEF Selects
<1>7. DecisionsAreLogged' /\ OnlyScansAreDecided'
  BY <1>1, <1>2, <1>3, <1>4, DecisionIsLogged DEF Decides
<1>8. CopiesDiffer'
  BY <1>1, <1>3 DEF CopiesDiffer
<1>9. log' \in Seq(EventType) /\ items' \in Seq(ItemType)
  BY <1>1, <1>4 DEF LogInv
<1> QED BY <1>5, <1>6, <1>7, <1>8, <1>9 DEF LogInv

\* The two scans of a proposal that may be decided are different ones.
LEMMA DecidedPair ==
  ASSUME HistoryInv, LogInv, NEW p \in ProposalsOf(db), Decidable(p)
  PROVE  /\ db \in DbType /\ db.scans \in Seq(ScanType) /\ copies \in Nat
         /\ p.candidate \in ScansOf(db) /\ p.baseline \in ScansOf(db) /\ p.candidate # p.baseline
         /\ db.scans[p.candidate].decision = "none"
         /\ \A s \in ScansOf(db) : db.scans[s] \in ScanType /\ db.scans[s].copy \in Nat
         /\ \A s \in ScansOf(db) :
              /\ db.scans[s].copy <= copies
              /\ db.scans[s].decision = "copy" => db.scans[s].copy # NoCopy
         /\ \A s, t \in ScansOf(db) :
              db.scans[s].decision = "copy" /\ db.scans[t].decision \in {"none", "copy"} /\ s # t
                 => db.scans[s].copy # db.scans[t].copy
<1>1. db \in DbType /\ copies \in Nat /\ proposals \subseteq ProposalsOf(db)
  BY DEF HistoryInv, HistoryTypeOK
<1>2. p.candidate \in ScansOf(db) /\ p.baseline \in ScansOf(db) /\ p.candidate # p.baseline
  BY <1>1 DEF ProposalsOf, Decidable
<1>3. db.scans \in Seq(ScanType) /\ \A s \in ScansOf(db) : db.scans[s] \in ScanType
  BY <1>1 DEF DbType, ScansOf
<1>4. \A s \in ScansOf(db) : db.scans[s].copy \in Nat
  BY <1>3 DEF ScanType
<1> QED BY <1>1, <1>2, <1>3, <1>4 DEF LogInv, CopiesDiffer, Decidable

\* Changing fields of one scan.
LEMMA VersionKeeps ==
  ASSUME HistoryInv, LogInv, NEW p \in ProposalsOf(db), SaveAsNewVersion(p)
  PROVE  HistoryInv' /\ LogInv'
<1> DEFINE c == p.candidate
           new == [preferred |-> db.scans[c].preferred, quality |-> db.scans[c].quality,
                   decision |-> "version", supersedes |-> p.baseline,
                   copy |-> db.scans[p.baseline].copy, token |-> db.scans[c].token]
           f == [db.scans EXCEPT ![c] = new]
           g == [db.scans EXCEPT ![c].decision = "version", ![c].copy = db.scans[p.baseline].copy,
                                 ![c].supersedes = p.baseline]
<1>1. Decidable(p) /\ UNCHANGED copies /\ Record(p, g, "version")
  BY DEF SaveAsNewVersion
<1> HIDE DEF g
<1>2. /\ db \in DbType /\ db.scans \in Seq(ScanType) /\ copies \in Nat
      /\ c \in ScansOf(db) /\ p.baseline \in ScansOf(db) /\ c # p.baseline
      /\ db.scans[c].decision = "none"
      /\ \A s \in ScansOf(db) : db.scans[s] \in ScanType /\ db.scans[s].copy \in Nat
      /\ \A s \in ScansOf(db) :
           /\ db.scans[s].copy <= copies
           /\ db.scans[s].decision = "copy" => db.scans[s].copy # NoCopy
      /\ \A s, t \in ScansOf(db) :
           db.scans[s].decision = "copy" /\ db.scans[t].decision \in {"none", "copy"} /\ s # t
              => db.scans[s].copy # db.scans[t].copy
  BY <1>1, DecidedPair
<1>3. p.baseline \in Nat
  BY <1>2, ScansAreNumbered
<1>4. new \in ScanType
  BY <1>2, <1>3 DEF ScanType
<1>5. f = g
  BY <1>2 DEF g, ScanType, ScansOf
<1>6. /\ f \in Seq(ScanType) /\ DOMAIN f = ScansOf(db) /\ f[c] = new
      /\ \A s \in ScansOf(db) \ {c} : f[s] = db.scans[s]
  BY <1>2, <1>4 DEF ScansOf
<1> HIDE DEF f
<1>7. /\ new.preferred = db.scans[c].preferred /\ new.decision = "version"
      /\ new.copy = db.scans[p.baseline].copy
  OBVIOUS
<1> HIDE DEF new
<1>8. \A s \in ScansOf(db) : f[s].copy <= copies' /\ (f[s].decision = "copy" => f[s].copy # NoCopy)
  BY <1>1, <1>2, <1>6, <1>7
<1>9. \A s, t \in ScansOf(db) :
         f[s].decision = "copy" /\ f[t].decision \in {"none", "copy"} /\ s # t => f[s].copy # f[t].copy
  BY <1>2, <1>6, <1>7, SMTT(30)
<1>10. /\ \A s \in ScansOf(db) : f[s].preferred = db.scans[s].preferred
       /\ \A s \in ScansOf(db) \ {c} : f[s].decision = db.scans[s].decision
  BY <1>6, <1>7
<1>11. f[c].decision = "version"
  BY <1>6, <1>7
<1> QED BY <1>1, <1>2, <1>5, <1>6, <1>8, <1>9, <1>10, <1>11, DecisionKeeps

LEMMA WrongKeeps ==
  ASSUME HistoryInv, LogInv, NEW p \in ProposalsOf(db), WrongScan(p)
  PROVE  HistoryInv' /\ LogInv'
<1> DEFINE c == p.candidate
           new == [preferred |-> db.scans[c].preferred, quality |-> "Rejected",
                   decision |-> "wrong", supersedes |-> db.scans[c].supersedes,
                   copy |-> NoCopy, token |-> db.scans[c].token]
           f == [db.scans EXCEPT ![c] = new]
           g == [db.scans EXCEPT ![c].decision = "wrong", ![c].copy = NoCopy, ![c].quality = "Rejected"]
<1>1. Decidable(p) /\ UNCHANGED copies /\ Record(p, g, "wrong")
  BY DEF WrongScan
<1> HIDE DEF g
<1>2. /\ db \in DbType /\ db.scans \in Seq(ScanType) /\ copies \in Nat
      /\ c \in ScansOf(db) /\ p.baseline \in ScansOf(db) /\ c # p.baseline
      /\ db.scans[c].decision = "none"
      /\ \A s \in ScansOf(db) : db.scans[s] \in ScanType /\ db.scans[s].copy \in Nat
      /\ \A s \in ScansOf(db) :
           /\ db.scans[s].copy <= copies
           /\ db.scans[s].decision = "copy" => db.scans[s].copy # NoCopy
      /\ \A s, t \in ScansOf(db) :
           db.scans[s].decision = "copy" /\ db.scans[t].decision \in {"none", "copy"} /\ s # t
              => db.scans[s].copy # db.scans[t].copy
  BY <1>1, DecidedPair
<1>3. db.scans[c].supersedes \in Nat
  BY <1>2 DEF ScanType
<1>4. new \in ScanType
  BY <1>2, <1>3 DEF ScanType, NoCopy
<1>5. f = g
  BY <1>2 DEF g, ScanType, ScansOf
<1>6. /\ f \in Seq(ScanType) /\ DOMAIN f = ScansOf(db) /\ f[c] = new
      /\ \A s \in ScansOf(db) \ {c} : f[s] = db.scans[s]
  BY <1>2, <1>4 DEF ScansOf
<1> HIDE DEF f
<1>7. new.preferred = db.scans[c].preferred /\ new.decision = "wrong" /\ new.copy = NoCopy
  OBVIOUS
<1> HIDE DEF new
<1>8. \A s \in ScansOf(db) : f[s].copy <= copies' /\ (f[s].decision = "copy" => f[s].copy # NoCopy)
  BY <1>1, <1>2, <1>6, <1>7 DEF NoCopy
<1>9. \A s, t \in ScansOf(db) :
         f[s].decision = "copy" /\ f[t].decision \in {"none", "copy"} /\ s # t => f[s].copy # f[t].copy
  BY <1>2, <1>6, <1>7, SMTT(30)
<1>10. /\ \A s \in ScansOf(db) : f[s].preferred = db.scans[s].preferred
       /\ \A s \in ScansOf(db) \ {c} : f[s].decision = db.scans[s].decision
  BY <1>6, <1>7
<1>11. f[c].decision = "wrong"
  BY <1>6, <1>7
<1> QED BY <1>1, <1>2, <1>5, <1>6, <1>8, <1>9, <1>10, <1>11, DecisionKeeps

\* The numbers given to the two scans are higher than every other one.
LEMMA CopyKeeps ==
  ASSUME HistoryInv, LogInv, NEW p \in ProposalsOf(db), AnotherPhysicalCopy(p)
  PROVE  HistoryInv' /\ LogInv'
<1> DEFINE c == p.candidate
           b == p.baseline
           old == db.scans[b].copy
           fresh == IF old = NoCopy THEN 1 ELSE 0
           assigned == IF fresh = 1 THEN copies + 1 ELSE old
           base == [preferred |-> db.scans[b].preferred, quality |-> db.scans[b].quality,
                    decision |-> db.scans[b].decision, supersedes |-> db.scans[b].supersedes,
                    copy |-> assigned, token |-> db.scans[b].token]
           new == [preferred |-> db.scans[c].preferred, quality |-> db.scans[c].quality,
                   decision |-> "copy", supersedes |-> db.scans[c].supersedes,
                   copy |-> copies', token |-> db.scans[c].token]
           f == [[db.scans EXCEPT ![b] = base] EXCEPT ![c] = new]
           g == [db.scans EXCEPT ![b].copy = assigned, ![c].decision = "copy", ![c].copy = copies']
<1>1. Decidable(p) /\ Record(p, g, "copy") /\ copies' = copies + fresh + 1
  BY Zenon DEF AnotherPhysicalCopy
<1>2. /\ db \in DbType /\ db.scans \in Seq(ScanType) /\ copies \in Nat
      /\ c \in ScansOf(db) /\ b \in ScansOf(db) /\ c # b
      /\ db.scans[c].decision = "none"
      /\ \A s \in ScansOf(db) : db.scans[s] \in ScanType /\ db.scans[s].copy \in Nat
      /\ \A s \in ScansOf(db) :
           /\ db.scans[s].copy <= copies
           /\ db.scans[s].decision = "copy" => db.scans[s].copy # NoCopy
      /\ \A s, t \in ScansOf(db) :
           db.scans[s].decision = "copy" /\ db.scans[t].decision \in {"none", "copy"} /\ s # t
              => db.scans[s].copy # db.scans[t].copy
  BY <1>1, DecidedPair
<1>3. /\ copies' \in Nat /\ copies < copies' /\ assigned \in Nat /\ assigned < copies'
      /\ assigned # NoCopy
      /\ assigned = old \/ assigned > copies
  BY <1>1, <1>2, SMTT(30) DEF NoCopy
<1> HIDE DEF fresh
<1>4. new \in ScanType /\ base \in ScanType
  <2> HIDE DEF assigned
  <2> QED BY <1>2, <1>3 DEF ScanType
<1>5. f = g
  <2> HIDE DEF assigned
  <2> QED BY <1>2, ZenonT(40) DEF ScanType, ScansOf
<1> HIDE DEF g
<1>6. /\ f \in Seq(ScanType) /\ DOMAIN f = ScansOf(db) /\ f[c] = new /\ f[b] = base
      /\ \A s \in ScansOf(db) \ {b, c} : f[s] = db.scans[s]
  <2> HIDE DEF new, base
  <2> QED BY <1>2, <1>4 DEF ScansOf
<1> HIDE DEF f
<1>7. /\ new.preferred = db.scans[c].preferred /\ new.decision = "copy" /\ new.copy = copies'
      /\ base.preferred = db.scans[b].preferred /\ base.decision = db.scans[b].decision
      /\ base.copy = assigned
  OBVIOUS
<1> HIDE DEF new, base, assigned
<1>8. \A s \in ScansOf(db) : f[s].copy <= copies' /\ (f[s].decision = "copy" => f[s].copy # NoCopy)
  BY <1>2, <1>3, <1>6, <1>7, SMTT(30) DEF NoCopy
<1>9. \A s, t \in ScansOf(db) :
         f[s].decision = "copy" /\ f[t].decision \in {"none", "copy"} /\ s # t => f[s].copy # f[t].copy
  <2> SUFFICES ASSUME NEW s \in ScansOf(db), NEW t \in ScansOf(db), s # t,
                      f[s].decision = "copy", f[t].decision \in {"none", "copy"}
               PROVE  f[s].copy # f[t].copy
    OBVIOUS
  <2>1. \A r \in ScansOf(db) \ {c} :
          /\ f[r].decision = db.scans[r].decision
          /\ f[r].copy \in Nat /\ f[r].copy < copies'
          /\ f[r].copy = db.scans[r].copy \/ (r = b /\ f[r].copy > copies)
    <3> SUFFICES ASSUME NEW r \in ScansOf(db) \ {c}
                 PROVE  /\ f[r].decision = db.scans[r].decision
                        /\ f[r].copy \in Nat /\ f[r].copy < copies'
                        /\ f[r].copy = db.scans[r].copy \/ (r = b /\ f[r].copy > copies)
      OBVIOUS
    <3>1. CASE r = b
      BY <1>2, <1>3, <1>6, <1>7, <3>1
    <3>2. CASE r # b
      <4>1. f[r] = db.scans[r]
        BY <1>6, <3>2
      <4>2. db.scans[r].copy \in Nat /\ db.scans[r].copy <= copies
        BY <1>2
      <4> QED BY <1>2, <1>3, <4>1, <4>2
    <3> QED BY <3>1, <3>2
  <2>2. CASE s = c \/ t = c
    BY <1>3, <1>6, <1>7, <2>1, <2>2
  <2>3. CASE s # c /\ t # c
    <3>1. /\ db.scans[s].copy # db.scans[t].copy
          /\ db.scans[s].copy \in Nat /\ db.scans[s].copy <= copies
          /\ db.scans[t].copy \in Nat /\ db.scans[t].copy <= copies
      BY <1>2, <2>1, <2>3
    <3>2. /\ f[s].copy = db.scans[s].copy \/ (s = b /\ f[s].copy > copies)
          /\ f[t].copy = db.scans[t].copy \/ (t = b /\ f[t].copy > copies)
          /\ f[s].copy \in Nat /\ f[t].copy \in Nat
      BY <2>1, <2>3
    <3> QED BY <1>2, <3>1, <3>2
  <2> QED BY <2>2, <2>3
<1>10. /\ \A s \in ScansOf(db) : f[s].preferred = db.scans[s].preferred
       /\ \A s \in ScansOf(db) \ {c} : f[s].decision = db.scans[s].decision
  BY <1>6, <1>7
<1>11. f[c].decision = "copy"
  BY <1>6, <1>7
<1>12. Record(p, f, "copy")
  BY <1>1, <1>5
<1> QED BY <1>1, <1>2, <1>3, <1>6, <1>8, <1>9, <1>10, <1>11, <1>12, DecisionKeeps, SMTT(30)

\* A change of a review item leaves rows alone.
LEMMA ReviewKeeps ==
  ASSUME HistoryInv, LogInv, NEW e \in EventType, e.kind \in {"deferred", "resolved"},
         log' = Append(log, e), items' \in Seq(ItemType),
         UNCHANGED <<smart, db, copies, proposals, refused>>
  PROVE  HistoryInv' /\ LogInv'
<1>1. HistoryInv'
  BY DEF HistoryInv, HistoryTypeOK, RowsAgree, ProposalsOf, ScansOf, Flagged
<1>2. db' = db /\ db \in DbType /\ copies \in Nat
  BY DEF HistoryInv, HistoryTypeOK
<1>3. ~Selects(e) /\ ~Decides(e) /\ db' \in DbType /\ db'.pointer = db.pointer
  BY <1>2 DEF Selects, Decides
<1>4. LastSelectionHolds' /\ BaselinesChain'
  BY <1>3, SelectionsFollow
<1>5. DecisionsAreLogged' /\ OnlyScansAreDecided' /\ CopiesDiffer'
  BY <1>2, <1>3, DecisionsStay
<1>6. log' \in Seq(EventType)
  BY DEF LogInv
<1> QED BY <1>1, <1>4, <1>5, <1>6 DEF LogInv

LEMMA MoveKeeps ==
  ASSUME HistoryInv, LogInv, NEW s \in ScansOf(db), MoveToReview(s)
  PROVE  HistoryInv' /\ LogInv'
<1>1. UNCHANGED <<smart, db, copies, log, proposals, refused>>
  BY DEF MoveToReview
<1>2. HistoryInv'
  BY <1>1 DEF HistoryInv, HistoryTypeOK, ProposalsOf, RowsAgree, ScansOf, Flagged
<1>3. items' \in Seq(ItemType)
  <2>1. s \in Nat
    BY ScansAreNumbered DEF HistoryInv, HistoryTypeOK
  <2>2. [scan |-> s, status |-> "Open"] \in ItemType
    BY <2>1 DEF ItemType
  <2> QED BY <2>2 DEF MoveToReview, LogInv
<1>4. LogInv'
  BY <1>1, <1>3 DEF LogInv, LastSelectionHolds, BaselinesChain, DecisionsAreLogged,
     OnlyScansAreDecided, CopiesDiffer, Selecting, DecisionsOn, ScansOf
<1> QED BY <1>2, <1>4

LEMMA NothingKeeps ==
  ASSUME HistoryInv, LogInv, UNCHANGED historyVars
  PROVE  HistoryInv' /\ LogInv'
BY DEF historyVars, HistoryInv, HistoryTypeOK, ProposalsOf, RowsAgree, ScansOf, Flagged,
   LogInv, LastSelectionHolds, BaselinesChain, DecisionsAreLogged, OnlyScansAreDecided,
   CopiesDiffer, Selecting, DecisionsOn

LEMMA ResolveKeeps ==
  ASSUME HistoryInv, LogInv, NEW p \in ProposalsOf(db), Resolve(p)
  PROVE  HistoryInv' /\ LogInv'
BY ReplaceKeeps, VersionKeeps, CopyKeeps, WrongKeeps DEF Resolve

LEMMA HistoryKept ==
  ASSUME HistoryInv, LogInv, [HistoryNext]_historyVars
  PROVE  HistoryInv' /\ LogInv'
<1>1. CASE RegisterScan
  BY <1>1, RegisterKeeps
<1>2. ASSUME NEW s \in ScansOf(db), Propose(s)
      PROVE  HistoryInv' /\ LogInv'
  <2>1. UNCHANGED <<smart, db, copies, log, items, refused>>
    BY <1>2 DEF Propose
  <2>2. Proposal(s) \in ProposalsOf(db)
    BY <1>2 DEF Propose, Proposable, Proposal, ProposalsOf, HistoryInv, RowsAgree, NoScan
  <2>3. HistoryInv'
    BY <1>2, <2>1, <2>2 DEF Propose, HistoryInv, HistoryTypeOK, ProposalsOf, RowsAgree, ScansOf, Flagged
  <2>4. LogInv'
    BY <2>1 DEF LogInv, LastSelectionHolds, BaselinesChain, DecisionsAreLogged, OnlyScansAreDecided,
       CopiesDiffer, Selecting, DecisionsOn, ScansOf
  <2> QED BY <2>3, <2>4
<1>3. ASSUME NEW s \in ScansOf(db), MoveToReview(s)
      PROVE  HistoryInv' /\ LogInv'
  BY <1>3, MoveKeeps
<1>4. ASSUME NEW p \in proposals, Resolve(p)
      PROVE  HistoryInv' /\ LogInv'
  BY <1>4, ResolveKeeps DEF HistoryInv, HistoryTypeOK
<1>5. ASSUME NEW i \in DOMAIN items, DeferReviewItem(i) \/ ResolveReviewItem(i)
      PROVE  HistoryInv' /\ LogInv'
  <2>0. items \in Seq(ItemType) /\ items[i] \in ItemType
    BY DEF LogInv
  <2>1. items \in Seq(ItemType) /\ items[i] \in ItemType /\ items[i].scan \in Nat
    BY <2>0 DEF ItemType
  <2>2. PICK status \in {"Deferred", "Resolved"}, change \in {"deferred", "resolved"} :
          /\ items' = [items EXCEPT ![i].status = status]
          /\ log' = Append(log, Event(change, items[i].scan, NoScan))
          /\ UNCHANGED <<smart, db, copies, proposals, refused>>
    BY <1>5 DEF DeferReviewItem, ResolveReviewItem
  <2>3. items' \in Seq(ItemType)
    BY <2>1, <2>2 DEF ItemType
  <2>4. Event(change, items[i].scan, NoScan) \in EventType
    BY <2>1 DEF Event, EventType, NoScan
  <2>5. Event(change, items[i].scan, NoScan).kind \in {"deferred", "resolved"}
    BY DEF Event
  <2> QED BY <2>2, <2>3, <2>4, <2>5, ReviewKeeps
<1>6. CASE UNCHANGED historyVars
  BY <1>6, NothingKeeps
<1> QED BY <1>1, <1>2, <1>3, <1>4, <1>5, <1>6 DEF HistoryNext

(* A page with scans has exactly one preferred scan, the one that it points   *)
(* to; it asks for a review exactly while one of its scans does; and neither  *)
(* the unique index nor a trigger refuses a call (create_scan.rs,             *)
(* resolve_scan_revision.rs and migrations 0004 to 0008).                     *)
THEOREM PreferredScan == HistorySpec => []OnePreferredScan
<1>1. HistoryInv => OnePreferredScan
  BY DEF HistoryInv, RowsAgree, OnePreferredScan, PreferredContradiction, Consistent
<1> QED BY <1>1, HistoryInitial, HistoryKept, PTL DEF HistorySpec

(* The audit log tells the page's history: its last selection is the          *)
(* preferred scan, no stale proposal was applied, each decision is one event  *)
(* and every copy has a number of its own (resolve_scan_revision.rs).         *)
THEOREM HistoryIsTold == HistorySpec => []LogTellsHistory
<1>1. HistoryInv /\ LogInv => LogTellsHistory
  BY DEF LogInv, LogTellsHistory, LastSelectionHolds, BaselinesChain, DecisionsAreLogged, CopiesDiffer
<1> QED BY <1>1, HistoryInitial, HistoryKept, PTL DEF HistorySpec
=============================================================================
