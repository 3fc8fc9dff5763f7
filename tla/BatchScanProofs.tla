------------------------- MODULE BatchScanProofs -------------------------
(* Proofs about BatchScan: no scan the batch screen or a recovery record      *)
(* names is invented, whatever copies the coroutines write back; a completed  *)
(* batch stays settled; a picture has an owner and is kept until it has a row;*)
(* one open screen whose I/O does not fail registers no capture twice.        *)
EXTENDS BatchScan, TLAPS, FiniteSetTheorems, NaturalsInduction, WellFoundedInduction

-----------------------------------------------------------------------------
\* The inductive invariant. The parameter d is a database.

\* Row i of d is of capture t.
Row(d, t, i) == i \in 1..Len(d) /\ d[i] = t

GoodSession(d, s) ==
    \A t \in Tokens : s.entry[t].status = "Saved" => Row(d, t, s.entry[t].scan)

GoodRecord(d, t, r) == r.phase = "Committed" => Row(d, t, r.scan)

\* The copies a coroutine keeps are as good as the files, and so is the record
\* it is about to write.
GoodCoroutine(d, c) ==
    /\ GoodSession(d, c.ses)
    /\ \A t \in Tokens : GoodRecord(d, t, c.snap[t])
    /\ c.pc = "fetch" => c.tok \in Tokens
    /\ c.pc = "replace" => GoodRecord(d, First(c.todo), c.draft)
    /\ c.pc \in {"commitRead", "commitWrite", "unstage", "savedRead", "savedReview"} =>
          Row(d, c.tok, c.draft.scan)

Typed ==
    /\ rec \in [Tokens -> Records]
    /\ ses \in Sessions
    /\ db \in Seq(0..MaxCaptures)
    /\ th \in [Threads -> Coroutines]
    /\ captures \in Nat

IInv ==
    /\ Typed
    /\ GoodSession(db, ses)
    /\ \A t \in Tokens : GoodRecord(db, t, rec[t])
    /\ \A h \in Threads : GoodCoroutine(db, th[h])

-----------------------------------------------------------------------------
\* An element without a smaller one in an order that refines < is a least one.
LEMMA MinimalIsLeast ==
    ASSUME NEW R, NEW S \in SUBSET Nat, NEW t \in S,
           \A u, v \in Nat : u < v => <<u, v>> \in R,
           \A u \in S : ~(<<u, t>> \in R)
    PROVE  \A u \in S : t <= u
<1>1. \A u \in S : ~(u < t)
  BY Zenon
<1>. QED
  BY <1>1

\* The first of a non-empty set of naturals is one of them.
LEMMA FirstIsElement ==
    ASSUME NEW S \in SUBSET Nat, S # {}
    PROVE  First(S) \in S
<1>. DEFINE R == OpToRel(<, Nat)
<1>1. \A u, t \in Nat : u < t => <<u, t>> \in R
  BY DEF OpToRel
<1>2. \E t \in S : \A u \in S : ~(<<u, t>> \in R)
  BY WFMin, NatLessThanWellFounded
<1>. HIDE DEF R
<1>3. PICK t \in S : \A u \in S : ~(<<u, t>> \in R)
  BY <1>2
<1>4. \A u \in S : t <= u
  BY <1>1, <1>3, MinimalIsLeast, Zenon
<1>. QED
  BY <1>4, Zenon DEF First

\* Places the invariant says more of.
Watched == {"fetch", "replace", "commitRead", "commitWrite", "unstage", "savedRead", "savedReview"}

LEMMA EmptySessionTyped == EmptySession \in Sessions /\ \A d : GoodSession(d, EmptySession)
  BY DEF EmptySession, Sessions, Entries, NotInBatch, GoodSession

LEMMA NoRecordsTyped ==
    /\ NoRecords \in [Tokens -> Records]
    /\ NoRecord \in Records
    /\ \A t \in Tokens : NoRecords[t] = NoRecord
    /\ \A d, t : GoodRecord(d, t, NoRecord)
  BY DEF NoRecords, NoRecord, Record, Records, GoodRecord, Phases

\* A coroutine that starts afresh is good.
LEMMA AtGood ==
    ASSUME NEW p \in Places, NEW r \in Returns, NEW t \in 0..MaxCaptures, NEW d,
           p \notin Watched \/ (p = "fetch" /\ t \in Tokens)
    PROVE  /\ At(p, r, t) \in Coroutines /\ GoodCoroutine(d, At(p, r, t))
           /\ At(p, r, t).pc = p
<1>1. /\ At(p, r, t).ses = EmptySession /\ At(p, r, t).snap = NoRecords
      /\ At(p, r, t).pc = p /\ At(p, r, t).tok = t
  BY DEF At
<1>2. At(p, r, t) \in Coroutines
  BY EmptySessionTyped, NoRecordsTyped DEF At, Coroutines
<1>3. GoodCoroutine(d, At(p, r, t))
  BY <1>1, EmptySessionTyped, NoRecordsTyped DEF GoodCoroutine, Watched
<1>. QED
  BY <1>1, <1>2, <1>3

LEMMA OffGood == \A d : Off \in Coroutines /\ GoodCoroutine(d, Off)
  BY AtGood, BoundsAssumption DEF Off, Watched, Returns, Places

\* A coroutine that only moves to another place stays good.
LEMMA MovedGood ==
    ASSUME NEW c \in Coroutines, NEW p \in Places, p \notin Watched, NEW d,
           GoodCoroutine(d, c)
    PROVE  /\ [c EXCEPT !.pc = p] \in Coroutines
           /\ GoodCoroutine(d, [c EXCEPT !.pc = p])
<1>. DEFINE e == [c EXCEPT !.pc = p]
<1>1. e \in Coroutines
  BY DEF Coroutines
<1>2. e.ses = c.ses /\ e.snap = c.snap /\ e.pc = p
  BY DEF Coroutines
<1>3. GoodCoroutine(d, e)
  BY <1>2 DEF GoodCoroutine, Watched
<1>. QED
  BY <1>1, <1>3

\* Rows stay where they are when a row is added.
LEMMA RowsGrow ==
    ASSUME NEW d \in Seq(0..MaxCaptures), NEW x \in 0..MaxCaptures, NEW t, NEW i, Row(d, t, i)
    PROVE  Row(Append(d, x), t, i)
  BY DEF Row

\* What is good stays good when a row is added.
LEMMA GoodGrows ==
    ASSUME NEW d \in Seq(0..MaxCaptures), NEW x \in 0..MaxCaptures
    PROVE  /\ \A s : GoodSession(d, s) => GoodSession(Append(d, x), s)
           /\ \A t, r : GoodRecord(d, t, r) => GoodRecord(Append(d, x), t, r)
           /\ \A c : GoodCoroutine(d, c) => GoodCoroutine(Append(d, x), c)
<1>1. \A s : GoodSession(d, s) => GoodSession(Append(d, x), s)
  BY RowsGrow DEF GoodSession
<1>2. \A t, r : GoodRecord(d, t, r) => GoodRecord(Append(d, x), t, r)
  BY RowsGrow DEF GoodRecord
<1>3. \A c : GoodCoroutine(d, c) => GoodCoroutine(Append(d, x), c)
  BY <1>1, <1>2, RowsGrow DEF GoodCoroutine
<1>. QED
  BY <1>1, <1>2, <1>3

\* A step that leaves the rows, writes good files and sets one coroutine.
LEMMA StepGood ==
    ASSUME IInv, UNCHANGED <<db, captures>>, NEW h, NEW c,
           h \in Threads => c \in Coroutines /\ GoodCoroutine(db, c),
           th' = [th EXCEPT ![h] = c],
           rec' = rec \/ (\E t, r : /\ rec' = [rec EXCEPT ![t] = r]
                                    /\ r \in Records /\ GoodRecord(db, t, r)),
           ses' \in Sessions, GoodSession(db, ses')
    PROVE  IInv'
<1>1. th' \in [Threads -> Coroutines] /\ \A g \in Threads : GoodCoroutine(db, th'[g])
  BY DEF IInv, Typed
<1>2. rec' \in [Tokens -> Records] /\ \A t \in Tokens : GoodRecord(db, t, rec'[t])
  BY DEF IInv, Typed
<1>. QED
  BY <1>1, <1>2 DEF IInv, Typed

-----------------------------------------------------------------------------
\* The end of a block, and the failure of a call, set coroutines afresh.

LEMMA ResumeGood ==
    ASSUME IInv, UNCHANGED <<db, captures>>, UNCHANGED rec, NEW h, NEW c,
           c \in Coroutines /\ GoodCoroutine(db, c), Resume(h, c),
           ses' \in Sessions, GoodSession(db, ses')
    PROVE  IInv'
<1>. DEFINE e == IF h[1] = screen THEN c ELSE Off
<1>1. th' = [th EXCEPT ![h] = e]
  BY DEF Resume, Becomes
<1>2. Off \in Coroutines /\ GoodCoroutine(db, Off)
  BY OffGood
<1>. QED
  BY <1>1, <1>2, StepGood

LEMMA OpenedGood ==
    ASSUME NEW k, NEW d
    PROVE  Opened(k) \in [Threads -> Coroutines] /\ \A h \in Threads : GoodCoroutine(d, Opened(k)[h])
<1>1. At("list", "start", 0) \in Coroutines /\ GoodCoroutine(d, At("list", "start", 0))
  BY AtGood, BoundsAssumption DEF Watched, Returns, Places
<1>2. Off \in Coroutines /\ GoodCoroutine(d, Off)
  BY OffGood
<1>. QED
  BY <1>1, <1>2 DEF Opened

LEMMA DiesGood ==
    ASSUME IInv, Dies, UNCHANGED <<db, rec, ses, captures>>
    PROVE  IInv'
<1>1. Off \in Coroutines /\ GoodCoroutine(db, Off)
  BY OffGood
<1>2. th' \in [Threads -> Coroutines] /\ \A h \in Threads : GoodCoroutine(db, th'[h])
  BY <1>1, OpenedGood DEF Dies
<1>. QED
  BY <1>2 DEF IInv, Typed

LEMMA RaiseGood ==
    ASSUME IInv, NEW h \in Threads, Raise(h), UNCHANGED <<db, rec, ses, captures>>
    PROVE  IInv'
<1>1. CASE Uncaught(h) /\ Dies
  BY <1>1, DiesGood
<1>2. CASE ~Uncaught(h) /\ h[2] = "capture"
  <2>1. th' = [th EXCEPT ![h] = [th[h] EXCEPT !.pc = "discardRead"]]
    BY <1>2 DEF Raise, Goto, IInv, Typed
  <2>2. th[h] \in Coroutines /\ GoodCoroutine(db, th[h])
    BY DEF IInv, Typed
  <2>. QED
    BY <2>1, <2>2, MovedGood, StepGood DEF Watched, Places, IInv, Typed
<1>3. CASE ~Uncaught(h) /\ h[2] \in {"failure", "finish"}
  <2>1. th' = [th EXCEPT ![h] = Off]
    BY <1>3 DEF Raise, Becomes
  <2>2. Off \in Coroutines /\ GoodCoroutine(db, Off)
    BY OffGood
  <2>. QED
    BY <2>1, <2>2, StepGood DEF IInv, Typed
<1>4. CASE ~Uncaught(h) /\ h[2] = "worker"
  <2>1. \/ Resume(h, At("dead", "none", 0))
        \/ Resume(h, At("reportRead", "none", th[h].tok))
    BY <1>4 DEF Raise
  <2>2. th[h].tok \in 0..MaxCaptures
    BY DEF IInv, Typed, Coroutines
  <2>3. /\ At("dead", "none", 0) \in Coroutines
        /\ GoodCoroutine(db, At("dead", "none", 0))
    BY AtGood, BoundsAssumption DEF Watched, Returns, Places
  <2>4. /\ At("reportRead", "none", th[h].tok) \in Coroutines
        /\ GoodCoroutine(db, At("reportRead", "none", th[h].tok))
    BY <2>2, AtGood, SMTT(30) DEF Watched, Returns, Places
  <2>. QED
    BY <2>1, <2>3, <2>4, ResumeGood DEF IInv, Typed
<1>. QED
  BY <1>1, <1>2, <1>3, <1>4 DEF Raise, Threads, Roles

LEMMA ThrowsGood == ASSUME IInv, NEW h \in Threads, Throws(h) PROVE IInv'
  BY RaiseGood DEF Throws, disk, bounds

LEMMA FaultGood == ASSUME IInv, NEW h \in Threads, Fault(h) PROVE IInv'
  BY RaiseGood DEF Fault, disk

-----------------------------------------------------------------------------
\* A step that writes no session; the record it may write is good.

RecordsStayGood ==
    \/ UNCHANGED rec
    \/ \E t, r : /\ rec' = [rec EXCEPT ![t] = r]
                 /\ r \in Records /\ GoodRecord(db, t, r)

LEMMA BecomesGood ==
    ASSUME IInv, NEW h \in Threads, NEW c \in Coroutines, GoodCoroutine(db, c),
           Becomes(h, c), RecordsStayGood, UNCHANGED <<db, captures, ses>>
    PROVE  IInv'
  BY StepGood DEF Becomes, RecordsStayGood, IInv, Typed

LEMMA GotoGood ==
    ASSUME IInv, NEW h \in Threads, NEW p \in Places, p \notin Watched,
           Goto(h, p), RecordsStayGood, UNCHANGED <<db, captures, ses>>
    PROVE  IInv'
<1>1. th[h] \in Coroutines /\ GoodCoroutine(db, th[h])
  BY DEF IInv, Typed
<1>2. Becomes(h, [th[h] EXCEPT !.pc = p])
  BY DEF Goto, Becomes, IInv, Typed
<1>. QED
  BY <1>1, <1>2, MovedGood, BecomesGood

\* Between the commit of the row and the session, the draft names the row.
Inserted == {"commitRead", "commitWrite", "unstage", "savedRead", "savedReview"}

LEMMA InsertedGoto ==
    ASSUME IInv, NEW h \in Threads, th[h].pc \in Inserted, NEW p \in Inserted,
           Goto(h, p), RecordsStayGood, UNCHANGED <<db, captures, ses>>
    PROVE  IInv'
<1>. DEFINE c == [th[h] EXCEPT !.pc = p]
<1>1. th[h] \in Coroutines /\ GoodCoroutine(db, th[h])
  BY DEF IInv, Typed
<1>2. Becomes(h, c)
  BY DEF Goto, Becomes, IInv, Typed
<1>3. c \in Coroutines
  BY <1>1 DEF Coroutines, Places, Inserted
<1>4. /\ c.pc = p /\ c.ses = th[h].ses /\ c.snap = th[h].snap
      /\ c.tok = th[h].tok /\ c.draft = th[h].draft
  BY <1>1 DEF Coroutines
<1>5. GoodCoroutine(db, c)
  BY <1>1, <1>4 DEF GoodCoroutine, Inserted
<1>. QED
  BY <1>2, <1>3, <1>5, BecomesGood

-----------------------------------------------------------------------------
\* Reconciliation.

LEMMA ListGood == ASSUME IInv, NEW h \in Threads, ReconcileList(h) PROVE IInv'
<1>1. CASE Throws(h)
  BY <1>1, ThrowsGood
<1>2. CASE ~Throws(h)
  <2>. DEFINE todo == {t \in Tokens : rec[t].phase = "Registering"}
              c == [th[h] EXCEPT !.pc = IF todo = {} THEN "settle" ELSE "read",
                                 !.ses = ses, !.snap = rec, !.todo = todo]
  <2>1. th[h] \in Coroutines /\ GoodCoroutine(db, th[h])
    BY DEF IInv, Typed
  <2>2. Becomes(h, c) /\ UNCHANGED <<rec, db, captures, ses>>
    BY <1>2 DEF ReconcileList, Becomes, Still, disk, bounds, IInv, Typed
  <2>3. c \in Coroutines
    BY <2>1 DEF IInv, Typed, Coroutines, Places
  <2>4. c.pc \in {"settle", "read"} /\ c.ses = ses /\ c.snap = rec
    BY <2>1 DEF Coroutines
  <2>5. GoodCoroutine(db, c)
    BY <2>4 DEF GoodCoroutine, IInv
  <2>. QED
    BY <2>2, <2>3, <2>5, BecomesGood DEF RecordsStayGood
<1>. QED
  BY <1>1, <1>2

LEMMA ReconciledGood ==
    ASSUME IInv, NEW h \in Threads, NEW t, NEW r,
           t \in Tokens => r \in Records /\ GoodRecord(db, t, r),
           Reconciled(h, t, r), RecordsStayGood, UNCHANGED <<db, captures, ses>>
    PROVE  IInv'
<1>1. th[h] \in Coroutines /\ GoodCoroutine(db, th[h]) /\ th[h].tok \in 0..MaxCaptures
  BY DEF IInv, Typed, Coroutines
<1>2. CASE th[h].ret = "single"
  <2>. DEFINE c == IF h[1] = screen THEN At("list", "final", th[h].tok) ELSE Off
  <2>1. Becomes(h, c)
    BY <1>2 DEF Reconciled, Resume
  <2>2. c \in Coroutines /\ GoodCoroutine(db, c)
    BY <1>1, AtGood, OffGood DEF Watched, Returns, Places
  <2>. QED
    BY <2>1, <2>2, BecomesGood
<1>3. CASE th[h].ret = "ack"
  BY <1>3, GotoGood DEF Reconciled, Places, Watched
<1>4. CASE th[h].ret \notin {"single", "ack"}
  <2>. DEFINE p == IF th[h].todo = {t} THEN "settle" ELSE "read"
              c == [th[h] EXCEPT !.pc = p, !.snap[t] = r, !.todo = @ \ {t},
                                 !.draft = NoRecord]
  <2>1. Becomes(h, c)
    BY <1>4 DEF Reconciled, Becomes, IInv, Typed
  <2>2. c \in Coroutines
    BY <1>1, NoRecordsTyped, ZenonT(40) DEF Coroutines, Places
  <2>3. /\ c.pc \in {"settle", "read"} /\ c.ses = th[h].ses
        /\ c.snap = [th[h].snap EXCEPT ![t] = r]
    BY <1>1 DEF Coroutines
  <2>4. \A u \in Tokens : GoodRecord(db, u, c.snap[u])
    BY <1>1, <2>3 DEF GoodCoroutine, Coroutines
  <2>5. GoodCoroutine(db, c)
    BY <1>1, <2>3, <2>4 DEF GoodCoroutine
  <2>. QED
    BY <2>1, <2>2, <2>5, BecomesGood
<1>. QED
  BY <1>2, <1>3, <1>4

LEMMA ReadGood == ASSUME IInv, NEW h \in Threads, ReconcileRead(h) PROVE IInv'
<1>. DEFINE t == First(th[h].todo)
<1>1. CASE Throws(h)
  BY <1>1, ThrowsGood
<1>2. CASE /\ Goto(h, "lookup") /\ Still /\ UNCHANGED disk
  BY <1>2, GotoGood DEF Places, Watched, RecordsStayGood, Still, disk, bounds
<1>3. CASE /\ Readable(t) /\ Reconciled(h, t, rec[t]) /\ Still /\ UNCHANGED disk
  <2>1. t \in Tokens => rec[t] \in Records /\ GoodRecord(db, t, rec[t])
    BY DEF IInv, Typed
  <2>. QED
    BY <1>3, <2>1, ReconciledGood DEF RecordsStayGood, Still, disk, bounds
<1>. QED
  BY <1>1, <1>2, <1>3 DEF ReconcileRead

LEMMA LookupGood == ASSUME IInv, NEW h \in Threads, ReconcileLookup(h) PROVE IInv'
<1>. DEFINE t == First(th[h].todo)
<1>1. CASE Throws(h)
  BY <1>1, ThrowsGood
<1>2. CASE ~Throws(h)
  <2>1. PICK d \in {Record("PreviewReady", 0)} \cup {Record("Committed", i) : i \in RowsOf(t)} :
             /\ th' = [th EXCEPT ![h].pc = "replace", ![h].draft = d]
             /\ Still /\ UNCHANGED disk
    BY <1>2 DEF ReconcileLookup
  <2>. DEFINE c == [th[h] EXCEPT !.pc = "replace", !.draft = d]
  <2>2. th[h] \in Coroutines /\ GoodCoroutine(db, th[h])
    BY DEF IInv, Typed
  <2>3. d \in Records /\ GoodRecord(db, t, d)
    BY <2>1 DEF Record, Records, Phases, RowsOf, GoodRecord, Row, IInv, Typed
  <2>4. Becomes(h, c)
    BY <2>1 DEF Becomes, IInv, Typed
  <2>5. c \in Coroutines
    BY <2>2, <2>3 DEF Coroutines, Places
  <2>6. /\ c.pc = "replace" /\ c.ses = th[h].ses /\ c.snap = th[h].snap
        /\ c.todo = th[h].todo /\ c.draft = d
    BY <2>2 DEF Coroutines
  <2>7. GoodCoroutine(db, c)
    BY <2>2, <2>3, <2>6 DEF GoodCoroutine
  <2>. QED
    BY <2>1, <2>4, <2>5, <2>7, BecomesGood DEF RecordsStayGood, Still, disk, bounds
<1>. QED
  BY <1>1, <1>2

LEMMA ReplaceGood == ASSUME IInv, NEW h \in Threads, ReconcileReplace(h) PROVE IInv'
<1>. DEFINE t == First(th[h].todo)
            r == th[h].draft
<1>1. CASE Throws(h)
  BY <1>1, ThrowsGood
<1>2. CASE Fault(h)
  BY <1>2, FaultGood
<1>3. CASE ~Throws(h) /\ ~Fault(h)
  <2>1. /\ th[h].pc = "replace" /\ rec' = [rec EXCEPT ![t] = r] /\ Reconciled(h, t, r)
        /\ UNCHANGED <<db, captures, ses>>
    BY <1>3 DEF ReconcileReplace, Still, bounds
  <2>2. r \in Records /\ GoodRecord(db, t, r)
    BY <2>1 DEF IInv, Typed, GoodCoroutine, Coroutines
  <2>3. RecordsStayGood
    BY <2>1, <2>2 DEF RecordsStayGood
  <2>. QED
    BY <2>1, <2>2, <2>3, ReconciledGood
<1>. QED
  BY <1>1, <1>2, <1>3

\* A session settled from good copies is good.
LEMMA SettledGood ==
    ASSUME NEW d, NEW s \in Sessions, NEW recs \in [Tokens -> Records],
           GoodSession(d, s), \A t \in Tokens : GoodRecord(d, t, recs[t])
    PROVE  Settled(s, recs) \in Sessions /\ GoodSession(d, Settled(s, recs))
<1>. DEFINE e(t) == Settled(s, recs).entry[t]
<1>1. \A t \in Tokens : s.entry[t] \in Entries /\ recs[t] \in Records
  BY DEF Sessions
<1>2. \A t \in Tokens :
        e(t) = IF s.entry[t].status # "Queued" THEN s.entry[t]
               ELSE IF recs[t].phase = "Committed"
                    THEN [s.entry[t] EXCEPT !.status = "Saved", !.scan = recs[t].scan]
               ELSE IF recs[t] = NoRecord THEN [s.entry[t] EXCEPT !.status = "NeedsReview"]
               ELSE s.entry[t]
  BY DEF Settled, Sessions
<1>3. \A t \in Tokens : e(t) \in Entries
  <2>. SUFFICES ASSUME NEW t \in Tokens PROVE e(t) \in Entries
    OBVIOUS
  <2>. DEFINE f == s.entry[t]
  <2>1. /\ [f EXCEPT !.status = "Saved", !.scan = recs[t].scan] \in Entries
        /\ [f EXCEPT !.status = "NeedsReview"] \in Entries
    BY <1>1 DEF Entries, Records
  <2>2. \/ e(t) = f
        \/ e(t) = [f EXCEPT !.status = "Saved", !.scan = recs[t].scan]
        \/ e(t) = [f EXCEPT !.status = "NeedsReview"]
    BY <1>2
  <2>. QED
    BY <1>1, <2>1, <2>2
<1>4. Settled(s, recs) \in Sessions
  BY <1>2, <1>3 DEF Settled, Sessions
<1>5. ASSUME NEW t \in Tokens, e(t).status = "Saved"
      PROVE  Row(d, t, e(t).scan)
  BY <1>1, <1>2, <1>5 DEF GoodSession, GoodRecord, Entries
<1>. QED
  BY <1>4, <1>5 DEF GoodSession

LEMMA SettleGood == ASSUME IInv, NEW h \in Threads, ReconcileSettle(h) PROVE IInv'
<1>. DEFINE s == Settled(th[h].ses, th[h].snap)
<1>1. th[h] \in Coroutines /\ GoodCoroutine(db, th[h])
  BY DEF IInv, Typed
<1>2. s \in Sessions /\ GoodSession(db, s)
  BY <1>1, SettledGood DEF Coroutines, GoodCoroutine
<1>3. CASE Fault(h)
  BY <1>3, FaultGood
<1>4. CASE ~Fault(h)
  <2>1. /\ ses' = IF s = th[h].ses THEN ses ELSE s
        /\ UNCHANGED <<rec, db, captures>>
    BY <1>4 DEF ReconcileSettle, Still, bounds
  <2>2. ses' \in Sessions /\ GoodSession(db, ses')
    BY <1>2, <2>1 DEF IInv, Typed
  <2>3. CASE Resume(h, At("list", "loop", 0))
    <3>1. At("list", "loop", 0) \in Coroutines /\ GoodCoroutine(db, At("list", "loop", 0))
      BY AtGood, BoundsAssumption DEF Watched, Returns, Places
    <3>. QED
      BY <2>1, <2>2, <2>3, <3>1, ResumeGood
  <2>4. CASE Resume(h, Idle)
    <3>1. Idle \in Coroutines /\ GoodCoroutine(db, Idle)
      BY AtGood, BoundsAssumption DEF Idle, Watched, Returns, Places
    <3>. QED
      BY <2>1, <2>2, <2>4, <3>1, ResumeGood
  <2>5. CASE Queued(s) # {} /\ Resume(h, At("fetch", "none", First(Queued(s))))
    <3>1. First(Queued(s)) \in 0..MaxCaptures /\ First(Queued(s)) \in Tokens
      <4>1. Queued(s) \in SUBSET Nat
        BY DEF Queued, Tokens
      <4>2. First(Queued(s)) \in Queued(s)
        BY <2>5, <4>1, FirstIsElement
      <4>3. \A t \in Queued(s) : t \in 1..MaxCaptures
        BY DEF Queued, Tokens
      <4>4. \A t \in 1..MaxCaptures : t \in 0..MaxCaptures
        BY BoundsAssumption
      <4>. HIDE DEF s
      <4>. QED
        BY <4>2, <4>3, <4>4 DEF Tokens
    <3>2. /\ At("fetch", "none", First(Queued(s))) \in Coroutines
          /\ GoodCoroutine(db, At("fetch", "none", First(Queued(s))))
      BY <3>1, AtGood DEF Watched, Returns, Places
    <3>. QED
      BY <2>1, <2>2, <2>5, <3>2, ResumeGood
  <2>6. CASE /\ th[h].ret \in {"authorize", "complete"}
             /\ Becomes(h, [At(th[h].ret, "none", th[h].tok) EXCEPT !.ses = s])
    <3>. DEFINE a == At(th[h].ret, "none", th[h].tok)
                c == [a EXCEPT !.ses = s]
    <3>1. a \in Coroutines /\ GoodCoroutine(db, a) /\ a.pc \in {"authorize", "complete"}
      <4>. DEFINE p == th[h].ret
      <4>1. th[h].tok \in 0..MaxCaptures
        BY <1>1 DEF Coroutines
      <4>2. p \in {"authorize", "complete"}
        BY <2>6
      <4>. HIDE DEF p
      <4>3. p \in Places /\ p \notin Watched
        BY <4>2 DEF Watched, Places
      <4>4. At(p, "none", th[h].tok) \in Coroutines
            /\ GoodCoroutine(db, At(p, "none", th[h].tok)) /\ At(p, "none", th[h].tok).pc = p
        BY <4>1, <4>3, AtGood DEF Returns
      <4>. QED
        BY <4>2, <4>4 DEF p
    <3>2. c \in Coroutines /\ c.pc = a.pc /\ c.ses = s /\ c.snap = a.snap
      BY <1>2, <3>1 DEF Coroutines
    <3>3. GoodCoroutine(db, c)
      BY <1>2, <3>1, <3>2 DEF GoodCoroutine
    <3>. QED
      BY <2>1, <2>2, <2>6, <3>2, <3>3, StepGood DEF Becomes
  <2>. QED
    BY <1>4, <2>3, <2>4, <2>5, <2>6 DEF ReconcileSettle
<1>. QED
  BY <1>3, <1>4

-----------------------------------------------------------------------------
\* The worker, up to the transaction.

LEMMA FetchGood == ASSUME IInv, NEW h \in Threads, Fetch(h) PROVE IInv'
<1>. DEFINE t == th[h].tok
            c == [th[h] EXCEPT !.pc = "read", !.ret = "single", !.todo = {t}]
<1>1. th[h] \in Coroutines /\ GoodCoroutine(db, th[h]) /\ t \in 0..MaxCaptures
  BY DEF IInv, Typed, Coroutines
<1>2. CASE Throws(h)
  BY <1>2, ThrowsGood
<1>3. CASE ~Throws(h)
  <2>0. UNCHANGED <<rec, db, captures, ses>> /\ t \in Tokens
    BY <1>1, <1>3 DEF Fetch, Still, disk, bounds, GoodCoroutine
  <2>1. CASE th' = [th EXCEPT ![h].pc = "read", ![h].ret = "single", ![h].todo = {t}]
    <3>1. Becomes(h, c)
      BY <2>1 DEF Becomes, IInv, Typed
    <3>2. c \in Coroutines
      BY <1>1, <2>0 DEF Coroutines, Places, Returns
    <3>3. c.pc = "read" /\ c.ses = th[h].ses /\ c.snap = th[h].snap
      BY <1>1 DEF Coroutines
    <3>4. GoodCoroutine(db, c)
      BY <1>1, <3>3 DEF GoodCoroutine
    <3>. QED
      BY <2>0, <3>1, <3>2, <3>4, BecomesGood DEF RecordsStayGood
  <2>2. CASE Goto(h, "previewRead")
    BY <2>0, <2>2, GotoGood DEF Watched, Places, RecordsStayGood
  <2>3. CASE Becomes(h, At("list", "authorize", t))
    <3>1. At("list", "authorize", t) \in Coroutines /\ GoodCoroutine(db, At("list", "authorize", t))
      BY <1>1, AtGood DEF Watched, Returns, Places
    <3>. QED
      BY <2>0, <2>3, <3>1, BecomesGood DEF RecordsStayGood
  <2>. QED
    BY <1>3, <2>1, <2>2, <2>3 DEF Fetch
<1>. QED
  BY <1>2, <1>3

\* A record in one of the phases that name no row.
LEMMA PlainRecord ==
    ASSUME NEW p \in {"None", "Empty", "Captured", "PreviewReady", "Registering"}
    PROVE  Record(p, 0) \in Records /\ \A d, t : GoodRecord(d, t, Record(p, 0))
  BY DEF Record, Records, Phases, GoodRecord

LEMMA ProcessGood == ASSUME IInv, NEW h \in Threads, Process(h) PROVE IInv'
<1>. DEFINE t == th[h].tok
<1>1. t \in 0..MaxCaptures
  BY DEF IInv, Typed, Coroutines
<1>2. CASE Fetch(h)
  BY <1>2, FetchGood
<1>3. CASE PreviewRead(h)
  BY <1>3, ThrowsGood, GotoGood
     DEF PreviewRead, Watched, Places, RecordsStayGood, Still, disk, bounds
<1>4. CASE PreviewWrite(h)
  <2>1. CASE Throws(h) \/ Fault(h)
    BY <2>1, ThrowsGood, FaultGood
  <2>2. CASE ~Throws(h) /\ ~Fault(h)
    <3>1. /\ rec' = [rec EXCEPT ![t] = Record("PreviewReady", 0)]
          /\ Becomes(h, At("list", "authorize", t))
          /\ UNCHANGED <<db, captures, ses>>
      BY <1>4, <2>2 DEF PreviewWrite, Still, bounds
    <3>2. At("list", "authorize", t) \in Coroutines /\ GoodCoroutine(db, At("list", "authorize", t))
      BY <1>1, AtGood, SMTT(30) DEF Watched, Returns, Places
    <3>3. RecordsStayGood
      BY <3>1, PlainRecord DEF RecordsStayGood
    <3>. QED
      BY <3>1, <3>2, <3>3, BecomesGood
  <2>. QED
    BY <2>1, <2>2
<1>5. CASE Authorize(h)
  <2>1. CASE Throws(h)
    BY <2>1, ThrowsGood
  <2>2. CASE Becomes(h, At("lock", "none", t)) /\ Still /\ UNCHANGED disk
    <3>1. At("lock", "none", t) \in Coroutines /\ GoodCoroutine(db, At("lock", "none", t))
      BY <1>1, AtGood, SMTT(30) DEF Watched, Returns, Places
    <3>. QED
      BY <2>2, <3>1, BecomesGood DEF RecordsStayGood, Still, disk, bounds
  <2>. QED
    BY <1>5, <2>1, <2>2 DEF Authorize
<1>. QED
  BY <1>2, <1>3, <1>4, <1>5 DEF Process

\* The step that adds the row: every copy stays good, and the draft names it.
LEMMA InsertGood == ASSUME IInv, NEW h \in Threads, InsertScan(h) PROVE IInv'
<1>1. CASE Fault(h)
  BY <1>1, FaultGood
<1>2. CASE ~Fault(h)
  <2>. DEFINE t == th[h].tok
              n == Record("Committed", Len(db) + 1)
              c == [th[h] EXCEPT !.pc = "commitRead", !.draft = n]
  <2>1. th[h] \in Coroutines /\ GoodCoroutine(db, th[h]) /\ t \in 0..MaxCaptures
    BY DEF IInv, Typed, Coroutines
  <2>2. /\ db' = Append(db, t) /\ th' = [th EXCEPT ![h] = c]
        /\ UNCHANGED <<rec, ses, captures>>
    BY <1>2 DEF InsertScan, bounds, IInv, Typed
  <2>3. db' \in Seq(0..MaxCaptures) /\ Row(db', t, Len(db) + 1)
    BY <2>1, <2>2 DEF Row, IInv, Typed
  <2>4. n \in Records /\ n.scan = Len(db) + 1
    BY DEF Record, Records, Phases, IInv, Typed
  <2>5. c \in Coroutines
    BY <2>1, <2>4 DEF Coroutines, Places
  <2>6. /\ c.pc = "commitRead" /\ c.ses = th[h].ses /\ c.snap = th[h].snap
        /\ c.tok = t /\ c.draft = n
    BY <2>1 DEF Coroutines
  <2>7. GoodCoroutine(db', th[h])
    BY <2>1, <2>2, GoodGrows DEF IInv, Typed
  <2>8. GoodCoroutine(db', c)
    BY <2>3, <2>4, <2>6, <2>7 DEF GoodCoroutine
  <2>9. \A g \in Threads : GoodCoroutine(db', th[g])
    BY <2>1, <2>2, GoodGrows DEF IInv, Typed
  <2>10. th' \in [Threads -> Coroutines] /\ \A g \in Threads : GoodCoroutine(db', th'[g])
    BY <2>2, <2>5, <2>8, <2>9 DEF IInv, Typed
  <2>11. GoodSession(db', ses) /\ \A u \in Tokens : GoodRecord(db', u, rec[u])
    BY <2>1, <2>2, GoodGrows DEF IInv, Typed
  <2>. QED
    BY <2>2, <2>3, <2>10, <2>11 DEF IInv, Typed
<1>. QED
  BY <1>1, <1>2

LEMMA RegisterGood == ASSUME IInv, NEW h \in Threads, Register(h) PROVE IInv'
<1>. DEFINE t == th[h].tok
<1>1. CASE Lock(h)
  BY <1>1, ThrowsGood, GotoGood
     DEF Lock, Watched, Places, RecordsStayGood, disk, bounds
<1>2. CASE Mark(h)
  <2>1. CASE Throws(h) \/ Fault(h)
    BY <2>1, ThrowsGood, FaultGood
  <2>2. CASE ~Throws(h) /\ ~Fault(h)
    <3>1. /\ rec' = [rec EXCEPT ![t] = Record("Registering", 0)]
          /\ Goto(h, "assets") /\ UNCHANGED <<db, captures, ses>>
      BY <1>2, <2>2 DEF Mark, Still, bounds
    <3>2. RecordsStayGood
      BY <3>1, PlainRecord DEF RecordsStayGood
    <3>. QED
      BY <3>1, <3>2, GotoGood DEF Watched, Places
  <2>. QED
    BY <2>1, <2>2
<1>3. CASE CommitAssets(h)
  BY <1>3, FaultGood, GotoGood
     DEF CommitAssets, Watched, Places, RecordsStayGood, Still, disk, bounds
<1>4. CASE InsertScan(h)
  BY <1>4, InsertGood
<1>5. CASE CommitRead(h)
  <2>. DEFINE p == IF Readable(t) /\ rec[t].phase = "Registering"
                   THEN "commitWrite" ELSE "unstage"
  <2>1. Goto(h, p) /\ th[h].pc = "commitRead" /\ UNCHANGED <<rec, db, captures, ses>>
    BY <1>5 DEF CommitRead, Still, disk, bounds
  <2>. QED
    BY <2>1, InsertedGoto DEF Inserted, RecordsStayGood
<1>6. CASE CommitWrite(h)
  <2>1. th[h].pc = "commitWrite" /\ Goto(h, "unstage") /\ UNCHANGED <<db, captures, ses>>
    BY <1>6 DEF CommitWrite
  <2>2. RecordsStayGood
    <3>1. CASE UNCHANGED rec
      BY <3>1 DEF RecordsStayGood
    <3>2. CASE rec' = [rec EXCEPT ![t] = th[h].draft]
      <4>1. th[h].draft \in Records /\ GoodRecord(db, t, th[h].draft)
        BY <2>1 DEF IInv, Typed, Coroutines, GoodCoroutine, GoodRecord
      <4>. QED
        BY <3>2, <4>1 DEF RecordsStayGood
    <3>. QED
      BY <1>6, <3>1, <3>2 DEF CommitWrite
  <2>. QED
    BY <2>1, <2>2, InsertedGoto DEF Inserted
<1>7. CASE Unstage(h)
  BY <1>7, InsertedGoto DEF Unstage, Inserted, RecordsStayGood
<1>. QED
  BY <1>1, <1>2, <1>3, <1>4, <1>5, <1>6, <1>7 DEF Register

-----------------------------------------------------------------------------
\* The session is read, changed at one entry and written back.

\* An edited coroutine that is in no watched place.
LEMMA EditedGood ==
    ASSUME NEW c \in Coroutines, NEW d, GoodCoroutine(d, c), NEW p \in Places,
           p \notin Watched, NEW s \in Sessions, GoodSession(d, s)
    PROVE  /\ [c EXCEPT !.pc = p, !.ses = s] \in Coroutines
           /\ GoodCoroutine(d, [c EXCEPT !.pc = p, !.ses = s])
<1>. DEFINE e == [c EXCEPT !.pc = p, !.ses = s]
<1>1. e \in Coroutines /\ e.pc = p /\ e.ses = s /\ e.snap = c.snap
  BY DEF Coroutines
<1>. QED
  BY <1>1 DEF GoodCoroutine, Watched

\* A session with one entry replaced.
LEMMA EntryGood ==
    ASSUME NEW d, NEW s \in Sessions, GoodSession(d, s), NEW t, NEW e,
           t \in Tokens => e \in Entries /\ (e.status = "Saved" => Row(d, t, e.scan))
    PROVE  [s EXCEPT !.entry[t] = e] \in Sessions /\ GoodSession(d, [s EXCEPT !.entry[t] = e])
<1>1. [s EXCEPT !.entry[t] = e] \in Sessions
  BY DEF Sessions
<1>2. \A u \in Tokens : [s EXCEPT !.entry[t] = e].entry[u] = IF u = t THEN e ELSE s.entry[u]
  BY DEF Sessions
<1>. QED
  BY <1>1, <1>2 DEF GoodSession

\* The session is read into the coroutine's copy.
LEMMA SavedReadGood == ASSUME IInv, NEW h \in Threads, SavedRead(h) PROVE IInv'
<1>. DEFINE c == [th[h] EXCEPT !.pc = "savedReview", !.ses = ses]
<1>1. th[h] \in Coroutines /\ GoodCoroutine(db, th[h])
  BY DEF IInv, Typed
<1>2. CASE Throws(h)
  BY <1>2, ThrowsGood
<1>3. CASE ~Throws(h)
  <2>1. /\ th[h].pc = "savedRead" /\ Becomes(h, c)
        /\ UNCHANGED <<rec, db, captures, ses>>
    BY <1>3 DEF SavedRead, ReadEntry, Becomes, Still, disk, bounds, IInv, Typed
  <2>2. c \in Coroutines
    BY <1>1 DEF Coroutines, Places, IInv, Typed
  <2>3. /\ c.pc = "savedReview" /\ c.ses = ses /\ c.snap = th[h].snap
        /\ c.tok = th[h].tok /\ c.draft = th[h].draft
    BY <1>1 DEF Coroutines
  <2>4. GoodCoroutine(db, c)
    BY <1>1, <2>1, <2>3 DEF GoodCoroutine, IInv
  <2>. QED
    BY <2>1, <2>2, <2>4, BecomesGood DEF RecordsStayGood
<1>. QED
  BY <1>2, <1>3

LEMMA ReportReadGood == ASSUME IInv, NEW h \in Threads, ReportRead(h) PROVE IInv'
<1>. DEFINE c == [th[h] EXCEPT !.pc = "reportReview", !.ses = ses]
<1>1. th[h] \in Coroutines /\ GoodCoroutine(db, th[h])
  BY DEF IInv, Typed
<1>2. CASE Throws(h)
  BY <1>2, ThrowsGood
<1>3. CASE ~Throws(h)
  <2>1. Becomes(h, c) /\ UNCHANGED <<rec, db, captures, ses>>
    BY <1>3 DEF ReportRead, ReadEntry, Becomes, Still, disk, bounds, IInv, Typed
  <2>2. c \in Coroutines /\ GoodCoroutine(db, c)
    BY <1>1, EditedGood DEF Watched, Places, IInv, Typed
  <2>. QED
    BY <2>1, <2>2, BecomesGood DEF RecordsStayGood
<1>. QED
  BY <1>2, <1>3

\* The entry becomes e in the coroutine's copy.
LEMMA ReviewGood ==
    ASSUME IInv, NEW h \in Threads, NEW p \in {"savedWrite", "reportWrite"}, NEW e,
           th[h].tok \in Tokens =>
              e \in Entries /\ (e.status = "Saved" => Row(db, th[h].tok, e.scan)),
           th' = [th EXCEPT ![h].pc = p, ![h].ses.entry[th[h].tok] = e],
           UNCHANGED <<rec, db, captures, ses>>
    PROVE  IInv'
<1>. DEFINE t == th[h].tok
            s == [th[h].ses EXCEPT !.entry[t] = e]
            c == [th[h] EXCEPT !.pc = p, !.ses = s]
<1>1. th[h] \in Coroutines /\ GoodCoroutine(db, th[h])
  BY DEF IInv, Typed
<1>2. s \in Sessions /\ GoodSession(db, s)
  <2>1. th[h].ses \in Sessions /\ GoodSession(db, th[h].ses)
    BY <1>1 DEF Coroutines, GoodCoroutine
  <2>. QED
    BY <2>1, EntryGood
<1>3. Becomes(h, c)
  BY DEF Becomes, IInv, Typed, Coroutines
<1>4. c \in Coroutines /\ GoodCoroutine(db, c)
  <2>. HIDE DEF s
  <2>. QED
    BY <1>1, <1>2, EditedGood DEF Watched, Places
<1>. QED
  BY <1>3, <1>4, BecomesGood DEF RecordsStayGood

LEMMA SavedReviewGood == ASSUME IInv, NEW h \in Threads, SavedReview(h) PROVE IInv'
<1>. DEFINE t == th[h].tok
            f == th[h].ses.entry[t]
            e == [[f EXCEPT !.status = "Saved", !.scan = th[h].draft.scan] EXCEPT !.review = TRUE]
<1>1. th[h] \in Coroutines /\ GoodCoroutine(db, th[h])
  BY DEF IInv, Typed
<1>2. CASE Fault(h)
  BY <1>2, FaultGood
<1>3. CASE ~Fault(h)
  <2>1. /\ th[h].pc = "savedReview"
        /\ th' = [th EXCEPT ![h].pc = "savedWrite", ![h].ses.entry[t] = e]
        /\ UNCHANGED <<rec, db, captures, ses>>
    BY <1>3 DEF SavedReview, ReviewEntry, Still, disk, bounds
  <2>2. ASSUME t \in Tokens
        PROVE  e \in Entries /\ (e.status = "Saved" => Row(db, t, e.scan))
    <3>1. f \in Entries /\ th[h].draft.scan \in Nat
      BY <1>1, <2>2 DEF Coroutines, Sessions, Records
    <3>2. e \in Entries /\ e.scan = th[h].draft.scan
      BY <3>1 DEF Entries
    <3>3. Row(db, t, th[h].draft.scan)
      BY <1>1, <2>1 DEF GoodCoroutine
    <3>. QED
      BY <3>2, <3>3
  <2>. QED
    BY <2>1, <2>2, ReviewGood
<1>. QED
  BY <1>2, <1>3

LEMMA ReportReviewGood == ASSUME IInv, NEW h \in Threads, ReportReview(h) PROVE IInv'
<1>. DEFINE t == th[h].tok
            f == th[h].ses.entry[t]
            e == [[f EXCEPT !.status = "NeedsReview"] EXCEPT !.review = TRUE]
<1>1. th[h] \in Coroutines
  BY DEF IInv, Typed
<1>2. CASE Fault(h)
  BY <1>2, FaultGood
<1>3. CASE ~Fault(h)
  <2>1. /\ th' = [th EXCEPT ![h].pc = "reportWrite", ![h].ses.entry[t] = e]
        /\ UNCHANGED <<rec, db, captures, ses>>
    BY <1>3 DEF ReportReview, ReviewEntry, Still, disk, bounds
  <2>2. ASSUME t \in Tokens
        PROVE  e \in Entries /\ (e.status = "Saved" => Row(db, t, e.scan))
    <3>1. f \in Entries
      BY <1>1, <2>2 DEF Coroutines, Sessions
    <3>. QED
      BY <3>1 DEF Entries
  <2>. QED
    BY <2>1, <2>2, ReviewGood
<1>. QED
  BY <1>2, <1>3

\* The session becomes the coroutine's copy of it.
LEMMA SavedWriteGood == ASSUME IInv, NEW h \in Threads, SavedWrite(h) PROVE IInv'
<1>. DEFINE a == At("list", "final", th[h].tok)
<1>1. th[h] \in Coroutines /\ GoodCoroutine(db, th[h]) /\ th[h].tok \in 0..MaxCaptures
  BY DEF IInv, Typed, Coroutines
<1>2. CASE Fault(h)
  BY <1>2, FaultGood
<1>3. CASE ~Fault(h)
  <2>1. ses' = th[h].ses /\ Resume(h, a) /\ UNCHANGED <<rec, db, captures>>
    BY <1>3 DEF SavedWrite, Still, bounds
  <2>2. a \in Coroutines /\ GoodCoroutine(db, a)
    BY <1>1, AtGood DEF Watched, Returns, Places
  <2>3. ses' \in Sessions /\ GoodSession(db, ses')
    BY <1>1, <2>1 DEF Coroutines, GoodCoroutine
  <2>. QED
    BY <2>1, <2>2, <2>3, ResumeGood
<1>. QED
  BY <1>2, <1>3

LEMMA ReportWriteGood == ASSUME IInv, NEW h \in Threads, ReportWrite(h) PROVE IInv'
<1>. DEFINE a == At("list", "loop", 0)
            b == At("discardRead", "none", th[h].tok)
<1>1. th[h] \in Coroutines /\ GoodCoroutine(db, th[h]) /\ th[h].tok \in 0..MaxCaptures
  BY DEF IInv, Typed, Coroutines
<1>2. CASE Fault(h)
  BY <1>2, FaultGood
<1>3. CASE ~Fault(h)
  <2>1. ses' = th[h].ses /\ UNCHANGED <<rec, db, captures>>
    BY <1>3 DEF ReportWrite, Still, bounds
  <2>2. ses' \in Sessions /\ GoodSession(db, ses')
    BY <1>1, <2>1 DEF Coroutines, GoodCoroutine
  <2>3. CASE Resume(h, a)
    <3>1. a \in Coroutines /\ GoodCoroutine(db, a)
      BY AtGood, BoundsAssumption DEF Watched, Returns, Places
    <3>. QED
      BY <2>1, <2>2, <2>3, <3>1, ResumeGood
  <2>4. CASE Becomes(h, b)
    <3>1. b \in Coroutines /\ GoodCoroutine(db, b)
      BY <1>1, AtGood, SMTT(30) DEF Watched, Returns, Places
    <3>. QED
      BY <2>1, <2>2, <2>4, <3>1, StepGood DEF Becomes
  <2>. QED
    BY <1>3, <2>3, <2>4 DEF ReportWrite
<1>. QED
  BY <1>2, <1>3

LEMMA AccountGood == ASSUME IInv, NEW h \in Threads, Account(h) PROVE IInv'
  BY SavedReadGood, SavedReviewGood, SavedWriteGood,
     ReportReadGood, ReportReviewGood, ReportWriteGood DEF Account

-----------------------------------------------------------------------------
\* Captures.

\* The capture's entry is queued in the coroutine's copy.
LEMMA QueueReadGood == ASSUME IInv, NEW h \in Threads, QueueRead(h) PROVE IInv'
<1>. DEFINE t == th[h].tok
            s == [ses EXCEPT !.entry[t].status = "Queued"]
            c == [th[h] EXCEPT !.pc = "queueWrite", !.ses = s]
<1>1. th[h] \in Coroutines /\ GoodCoroutine(db, th[h])
  BY DEF IInv, Typed
<1>2. CASE Throws(h)
  BY <1>2, ThrowsGood
<1>3. CASE ~Throws(h)
  <2>1. Becomes(h, c) /\ UNCHANGED <<rec, db, captures, ses>>
    BY <1>3 DEF QueueRead, Becomes, Still, disk, bounds, IInv, Typed
  <2>2. s \in Sessions /\ GoodSession(db, s)
    <3>. DEFINE e == [ses.entry[t] EXCEPT !.status = "Queued"]
    <3>1. s = [ses EXCEPT !.entry[t] = e]
      BY DEF IInv, Typed, Sessions
    <3>2. ASSUME t \in Tokens PROVE e \in Entries /\ e.status = "Queued"
      <4>1. ses.entry[t] \in Entries
        BY <3>2, SMTT(30) DEF IInv, Typed, Sessions
      <4>. QED
        BY <4>1 DEF Entries
    <3>. QED
      BY <3>1, <3>2, EntryGood DEF IInv, Typed
  <2>3. c \in Coroutines /\ GoodCoroutine(db, c)
    <3>. HIDE DEF s
    <3>. QED
      BY <1>1, <2>2, EditedGood DEF Watched, Places
  <2>. QED
    BY <2>1, <2>3, BecomesGood DEF RecordsStayGood
<1>. QED
  BY <1>2, <1>3

LEMMA PrepareGood == ASSUME IInv, NEW h \in Threads, Prepare(h) PROVE IInv'
<1>. DEFINE t == th[h].tok
<1>1. th[h] \in Coroutines /\ GoodCoroutine(db, th[h]) /\ t \in 0..MaxCaptures
  BY DEF IInv, Typed, Coroutines
<1>2. CASE Begin(h)
  <2>1. CASE Throws(h) \/ Fault(h)
    BY <2>1, ThrowsGood, FaultGood
  <2>2. CASE ~Throws(h) /\ ~Fault(h)
    <3>1. /\ rec' = [rec EXCEPT ![t] = EmptyRecord] /\ Goto(h, "name")
          /\ UNCHANGED <<db, captures, ses>>
      BY <1>2, <2>2 DEF Begin, Still, bounds
    <3>2. RecordsStayGood
      BY <3>1, PlainRecord DEF RecordsStayGood, EmptyRecord
    <3>. QED
      BY <3>1, <3>2, GotoGood DEF Watched, Places
  <2>. QED
    BY <2>1, <2>2
<1>3. CASE Name(h)
  <2>1. /\ rec' = [rec EXCEPT ![t] = Record("Captured", 0)] /\ Goto(h, "queueRead")
        /\ UNCHANGED <<db, captures, ses>>
    BY <1>3 DEF Name, Still, bounds
  <2>2. RecordsStayGood
    BY <2>1, PlainRecord DEF RecordsStayGood
  <2>. QED
    BY <2>1, <2>2, GotoGood DEF Watched, Places
<1>4. CASE QueueRead(h)
  BY <1>4, QueueReadGood
<1>5. CASE QueueWrite(h)
  <2>1. CASE Fault(h)
    BY <2>1, FaultGood
  <2>2. CASE ~Fault(h)
    <3>. DEFINE a == At("release", "none", t)
    <3>1. ses' = th[h].ses /\ Becomes(h, a) /\ UNCHANGED <<rec, db, captures>>
      BY <1>5, <2>2 DEF QueueWrite, Still, bounds
    <3>2. a \in Coroutines /\ GoodCoroutine(db, a)
      BY <1>1, AtGood, SMTT(30) DEF Watched, Returns, Places
    <3>3. ses' \in Sessions /\ GoodSession(db, ses')
      BY <1>1, <3>1 DEF Coroutines, GoodCoroutine
    <3>. QED
      BY <3>1, <3>2, <3>3, StepGood DEF Becomes
  <2>. QED
    BY <2>1, <2>2
<1>6. CASE Release(h)
  <2>1. CASE Fault(h)
    BY <2>1, FaultGood
  <2>2. CASE ~Fault(h)
    <3>. DEFINE a == At("pending", "none", t)
    <3>1. Resume(h, a) /\ UNCHANGED <<rec, ses, db, captures>>
      BY <1>6, <2>2 DEF Release, Still, bounds
    <3>2. a \in Coroutines /\ GoodCoroutine(db, a)
      BY <1>1, AtGood, SMTT(30) DEF Watched, Returns, Places
    <3>. QED
      BY <3>1, <3>2, ResumeGood DEF IInv, Typed
  <2>. QED
    BY <2>1, <2>2
<1>. QED
  BY <1>2, <1>3, <1>4, <1>5, <1>6 DEF Prepare

\* A step that sets two coroutines.
LEMMA TwoGood ==
    ASSUME IInv, UNCHANGED <<rec, ses, db, captures>>, NEW h, NEW g, NEW b, NEW c,
           b \in Coroutines /\ GoodCoroutine(db, b),
           g \in Threads => c \in Coroutines /\ GoodCoroutine(db, c),
           th' = [th EXCEPT ![h] = b, ![g] = c]
    PROVE  IInv'
<1>1. th' \in [Threads -> Coroutines] /\ \A f \in Threads : GoodCoroutine(db, th'[f])
  BY DEF IInv, Typed
<1>. QED
  BY <1>1 DEF IInv, Typed

LEMMA ShootGood == ASSUME IInv, NEW h \in Threads, Shoot(h) PROVE IInv'
<1>1. th[h] \in Coroutines /\ GoodCoroutine(db, th[h]) /\ th[h].tok \in 0..MaxCaptures
  BY DEF IInv, Typed, Coroutines
<1>2. UNCHANGED <<rec, ses, db, captures>>
  BY DEF Shoot, TakePicture, PictureSaved, PictureLost, CaptureFails, Still, disk, bounds
<1>3. CASE Goto(h, "shooting") \/ Goto(h, "pending")
  BY <1>2, <1>3, GotoGood DEF Watched, Places, RecordsStayGood
<1>4. CASE Becomes(h, Off)
  BY <1>2, <1>4, OffGood, BecomesGood DEF RecordsStayGood
<1>5. CASE CaptureFails(h)
  <2>. DEFINE c == At("reportRead", "none", th[h].tok)
  <2>1. c \in Coroutines /\ GoodCoroutine(db, c)
    BY <1>1, AtGood, SMTT(30) DEF Watched, Returns, Places
  <2>2. th' = [th EXCEPT ![h] = Off, ![Failure(h[1])] = c]
    BY <1>5 DEF CaptureFails
  <2>. QED
    BY <1>2, <2>1, <2>2, OffGood, TwoGood
<1>6. CASE LET w == Worker(h[1]) IN
           th' = [th EXCEPT ![h] = Off,
                            ![w] = IF th[w] = Idle THEN At("list", "loop", 0) ELSE @]
  <2>. DEFINE w == Worker(h[1])
              c == IF th[w] = Idle THEN At("list", "loop", 0) ELSE th[w]
  <2>1. At("list", "loop", 0) \in Coroutines /\ GoodCoroutine(db, At("list", "loop", 0))
    BY AtGood, BoundsAssumption DEF Watched, Returns, Places
  <2>2. w \in Threads => c \in Coroutines /\ GoodCoroutine(db, c)
    BY <2>1 DEF IInv, Typed
  <2>3. h # w => th' = [th EXCEPT ![h] = Off, ![w] = c]
    BY <1>6
  <2>4. CASE h = w
    <3>1. th'[w] = Off \/ th'[w] = At("list", "loop", 0)
      BY <1>6, <2>4 DEF IInv, Typed
    <3>2. th' = [th EXCEPT ![h] = th'[w]]
      BY <1>6, <2>4 DEF IInv, Typed
    <3>. QED
      BY <1>2, <2>1, <3>1, <3>2, OffGood, StepGood DEF IInv, Typed
  <2>. QED
    BY <1>2, <2>2, <2>3, <2>4, OffGood, TwoGood
<1>. QED
  BY <1>3, <1>4, <1>5, <1>6 DEF Shoot, TakePicture, PictureSaved, PictureLost

LEMMA DiscardGood == ASSUME IInv, NEW h \in Threads, Discard(h) PROVE IInv'
<1>. DEFINE t == th[h].tok
<1>1. CASE DiscardRead(h)
  <2>1. Goto(h, "discardImage") \/ Goto(h, "discarded")
    BY <1>1 DEF DiscardRead
  <2>. QED
    BY <1>1, <2>1, GotoGood
       DEF DiscardRead, Watched, Places, RecordsStayGood, Still, disk, bounds
<1>2. CASE DiscardImage(h)
  <2>1. Goto(h, "discardRecord") \/ Goto(h, "discarded")
    BY <1>2 DEF DiscardImage
  <2>. QED
    BY <1>2, <2>1, GotoGood
       DEF DiscardImage, Watched, Places, RecordsStayGood, Still, bounds
<1>3. CASE DiscardRecord(h)
  <2>1. /\ rec' = [rec EXCEPT ![t] = NoRecord] /\ Goto(h, "discarded")
        /\ UNCHANGED <<db, captures, ses>>
    BY <1>3 DEF DiscardRecord, Still, bounds
  <2>2. RecordsStayGood
    BY <2>1, PlainRecord DEF RecordsStayGood, NoRecord
  <2>. QED
    BY <2>1, <2>2, GotoGood DEF Watched, Places
<1>4. CASE Discarded(h)
  BY <1>4, OffGood, BecomesGood DEF Discarded, RecordsStayGood, Still, bounds
<1>. QED
  BY <1>1, <1>2, <1>3, <1>4 DEF Discard

-----------------------------------------------------------------------------
\* The end of the batch.

LEMMA CompleteGood == ASSUME IInv, NEW h \in Threads, Complete(h) PROVE IInv'
<1>. DEFINE s == th[h].ses
            d == [s EXCEPT !.done = TRUE]
            T == {t \in Tokens : s.entry[t].scan # 0}
            c == [th[h] EXCEPT !.pc = "acknowledge", !.ret = "ack", !.ses = d, !.todo = T]
<1>1. th[h] \in Coroutines /\ GoodCoroutine(db, th[h]) /\ s \in Sessions
  BY DEF IInv, Typed, Coroutines
<1>2. CASE Throws(h) \/ Fault(h)
  BY <1>2, ThrowsGood, FaultGood
<1>3. CASE ~Throws(h) /\ ~Fault(h)
  <2>1. /\ ses' = IF s.done THEN ses ELSE d
        /\ th' = [th EXCEPT ![h] = c]
        /\ UNCHANGED <<rec, db, captures>>
    BY <1>3 DEF Complete, Still, bounds, IInv, Typed
  <2>2. d \in Sessions /\ d.entry = s.entry
    BY <1>1 DEF Sessions
  <2>3. GoodSession(db, d)
    BY <1>1, <2>2 DEF GoodCoroutine, GoodSession
  <2>4. ses' \in Sessions /\ GoodSession(db, ses')
    BY <2>1, <2>2, <2>3 DEF IInv, Typed
  <2>5. c \in Coroutines /\ c.pc = "acknowledge" /\ c.ses = d /\ c.snap = th[h].snap
    <3>1. T \in SUBSET Tokens
      OBVIOUS
    <3>. HIDE DEF d, T
    <3>. QED
      BY <1>1, <2>2, <3>1 DEF Coroutines, Places, Returns
  <2>6. GoodCoroutine(db, c)
    BY <1>1, <2>3, <2>5 DEF GoodCoroutine
  <2>. QED
    BY <2>1, <2>4, <2>5, <2>6, StepGood
<1>. QED
  BY <1>2, <1>3

LEMMA AcknowledgeGood == ASSUME IInv, NEW h \in Threads, Acknowledge(h) PROVE IInv'
<1>. DEFINE t == First(th[h].todo)
            c == [th[h] EXCEPT !.todo = @ \ {t}]
<1>1. th[h] \in Coroutines /\ GoodCoroutine(db, th[h])
  BY DEF IInv, Typed
<1>2. CASE Throws(h)
  BY <1>2, ThrowsGood
<1>3. CASE Resume(h, At("closed", "none", 0)) /\ Still /\ UNCHANGED disk
  <2>1. At("closed", "none", 0) \in Coroutines /\ GoodCoroutine(db, At("closed", "none", 0))
    BY AtGood, BoundsAssumption DEF Watched, Returns, Places
  <2>. QED
    BY <1>3, <2>1, ResumeGood DEF Still, disk, bounds, IInv, Typed
<1>4. CASE Goto(h, "read") /\ Still /\ UNCHANGED disk
  BY <1>4, GotoGood DEF Watched, Places, RecordsStayGood, Still, disk, bounds
<1>5. CASE /\ th[h].pc = "acknowledge"
           /\ rec' = [rec EXCEPT ![t] = NoRecord]
           /\ th' = [th EXCEPT ![h].todo = @ \ {t}]
           /\ Still /\ UNCHANGED <<file, ses, db>>
  <2>1. Becomes(h, c) /\ UNCHANGED <<db, captures, ses>>
    BY <1>5 DEF Becomes, Still, bounds, IInv, Typed
  <2>2. RecordsStayGood
    BY <1>5, PlainRecord DEF RecordsStayGood, NoRecord
  <2>3. c \in Coroutines /\ c.pc = "acknowledge" /\ c.ses = th[h].ses /\ c.snap = th[h].snap
    BY <1>1, <1>5 DEF Coroutines
  <2>4. GoodCoroutine(db, c)
    BY <1>1, <2>3 DEF GoodCoroutine
  <2>. QED
    BY <2>1, <2>2, <2>3, <2>4, BecomesGood
<1>. QED
  BY <1>2, <1>3, <1>4, <1>5 DEF Acknowledge

-----------------------------------------------------------------------------
\* The user, and the process.

LEMMA RequestGood == ASSUME IInv, RequestCapture PROVE IInv'
<1>. DEFINE c == At("begin", "none", captures + 1)
<1>1. captures + 1 \in 0..MaxCaptures /\ captures' \in Nat
  BY BoundsAssumption DEF RequestCapture, IInv, Typed
<1>2. c \in Coroutines /\ GoodCoroutine(db, c)
  BY <1>1, AtGood DEF Watched, Returns, Places
<1>3. th' = [th EXCEPT ![Capture(screen)] = c] /\ UNCHANGED <<rec, ses, db>>
  BY DEF RequestCapture, Becomes
<1>4. th' \in [Threads -> Coroutines] /\ \A g \in Threads : GoodCoroutine(db, th'[g])
  BY <1>2, <1>3 DEF IInv, Typed
<1>. QED
  BY <1>1, <1>3, <1>4 DEF IInv, Typed

LEMMA FinishGood == ASSUME IInv, FinishBatch PROVE IInv'
<1>. DEFINE c == At("list", "complete", 0)
<1>1. c \in Coroutines /\ GoodCoroutine(db, c)
  BY AtGood, BoundsAssumption DEF Watched, Returns, Places
<1>2. th' = [th EXCEPT ![Finish(screen)] = c] /\ UNCHANGED <<rec, ses, db, captures>>
  BY DEF FinishBatch, Becomes, Still, disk, bounds
<1>. QED
  BY <1>1, <1>2, StepGood DEF IInv, Typed

LEMMA ReopenGood == ASSUME IInv, Reopen PROVE IInv'
<1>1. At("list", "start", 0) \in Coroutines /\ GoodCoroutine(db, At("list", "start", 0))
  BY AtGood, BoundsAssumption DEF Watched, Returns, Places
<1>2. th' \in [Threads -> Coroutines] /\ \A g \in Threads : GoodCoroutine(db, th'[g])
  BY <1>1, OffGood DEF Reopen, IInv, Typed
<1>3. UNCHANGED <<rec, ses, db, captures>>
  BY DEF Reopen, disk, bounds
<1>. QED
  BY <1>2, <1>3 DEF IInv, Typed

LEMMA DeathGood == ASSUME IInv, ProcessDeath PROVE IInv'
  BY DiesGood DEF ProcessDeath, disk, bounds

-----------------------------------------------------------------------------
LEMMA InitGood == Init => IInv
<1>. SUFFICES ASSUME Init PROVE IInv
  OBVIOUS
<1>1. Typed
  <2>1. rec \in [Tokens -> Records] /\ ses \in Sessions
    BY EmptySessionTyped, NoRecordsTyped DEF Init
  <2>2. db \in Seq(0..MaxCaptures) /\ captures \in Nat
    BY DEF Init
  <2>3. th \in [Threads -> Coroutines]
    BY OpenedGood DEF Init
  <2>. QED
    BY <2>1, <2>2, <2>3 DEF Typed
<1>2. GoodSession(db, ses)
  BY EmptySessionTyped DEF Init
<1>3. \A t \in Tokens : GoodRecord(db, t, rec[t])
  BY NoRecordsTyped DEF Init
<1>4. \A h \in Threads : GoodCoroutine(db, th[h])
  BY OpenedGood DEF Init
<1>. QED
  BY <1>1, <1>2, <1>3, <1>4 DEF IInv

LEMMA NextGood == IInv /\ [Next]_vars => IInv'
<1>. SUFFICES ASSUME IInv, [Next]_vars PROVE IInv'
  OBVIOUS
<1>1. ASSUME NEW h \in Threads, Reconcile(h) PROVE IInv'
  BY <1>1, ListGood, ReadGood, LookupGood, ReplaceGood, SettleGood DEF Reconcile
<1>2. ASSUME NEW h \in Threads, Process(h) \/ Register(h) \/ Account(h) PROVE IInv'
  BY <1>2, ProcessGood, RegisterGood, AccountGood
<1>3. ASSUME NEW h \in Threads, Prepare(h) \/ Shoot(h) \/ Discard(h) PROVE IInv'
  BY <1>3, PrepareGood, ShootGood, DiscardGood
<1>4. ASSUME NEW h \in Threads, Close(h) PROVE IInv'
  BY <1>4, CompleteGood, AcknowledgeGood DEF Close
<1>5. CASE RequestCapture \/ FinishBatch \/ Reopen \/ ProcessDeath
  BY <1>5, RequestGood, FinishGood, ReopenGood, DeathGood
<1>6. CASE UNCHANGED vars
  BY <1>6 DEF vars, disk, bounds, IInv, Typed
<1>. QED
  BY <1>1, <1>2, <1>3, <1>4, <1>5, <1>6 DEF Next

\* The invariant holds in every behaviour, for any number of captures, screens,
\* deaths and failed operations.
LEMMA InvariantHolds == Spec => []IInv
  BY InitGood, NextGood, PTL DEF Spec

\* However many screens, deaths and failures there are, the batch screen never
\* shows a capture as saved under a scan that is not a row of that capture.
THEOREM SavedIsRegistered == Spec => []SavedNamesScan
<1>1. IInv => SavedNamesScan
  BY DEF IInv, GoodSession, Row, SavedNamesScan, RowsOf
<1>. QED
  BY <1>1, InvariantHolds, PTL

\* A scanner-recovery record is committed only with a row of its own capture,
\* whichever coroutine writes it and whatever it has read before.
THEOREM CommittedIsRegistered == Spec => []CommittedNamesScan
<1>1. IInv => CommittedNamesScan
  BY DEF IInv, GoodRecord, Row, CommittedNamesScan, RowsOf
<1>. QED
  BY <1>1, InvariantHolds, PTL

-----------------------------------------------------------------------------
\* A completed session has no queued entry: neither in the file nor in the
\* copies the coroutines write back.

DoneIsSettled(s) == s.done => Queued(s) = {}

SettledInv ==
    /\ DoneIsSettled(ses)
    /\ \A h \in Threads : DoneIsSettled(th[h].ses)

\* The steps that edit no session.
KeepsSessions ==
    /\ UNCHANGED ses
    /\ \A g \in Threads : th'[g].ses \in {th[g].ses, ses, EmptySession}

LEMMA NewSessionSettled == ~EmptySession.done /\ DoneIsSettled(EmptySession)
  BY DEF EmptySession, DoneIsSettled

LEMMA KeptSettled == ASSUME SettledInv, KeepsSessions PROVE SettledInv'
<1>1. \A g \in Threads : DoneIsSettled(th'[g].ses)
  BY NewSessionSettled DEF SettledInv, KeepsSessions
<1>. QED
  BY <1>1 DEF SettledInv, KeepsSessions, DoneIsSettled

LEMMA AtSession == \A p, r, t : At(p, r, t).ses = EmptySession
  BY DEF At

LEMMA BecomesKeeps ==
    ASSUME Typed, NEW h, NEW c, Becomes(h, c), UNCHANGED ses,
           h \in Threads => c.ses \in {th[h].ses, ses, EmptySession}
    PROVE  KeepsSessions
<1>. SUFFICES ASSUME NEW g \in Threads PROVE th'[g].ses \in {th[g].ses, ses, EmptySession}
  BY DEF KeepsSessions
<1>1. CASE g = h
  BY <1>1 DEF Becomes, Typed
<1>2. CASE g # h
  BY <1>2 DEF Becomes, Typed
<1>. QED
  BY <1>1, <1>2

LEMMA GotoKeeps ==
    ASSUME Typed, NEW h \in Threads, NEW p, Goto(h, p), UNCHANGED ses
    PROVE  KeepsSessions
<1>1. Becomes(h, [th[h] EXCEPT !.pc = p])
  BY DEF Goto, Becomes, Typed
<1>2. [th[h] EXCEPT !.pc = p].ses = th[h].ses
  BY DEF Typed, Coroutines
<1>. QED
  BY <1>1, <1>2, BecomesKeeps

LEMMA ResumeKeeps ==
    ASSUME Typed, NEW h \in Threads, NEW c, Resume(h, c), UNCHANGED ses,
           c.ses \in {th[h].ses, ses, EmptySession}
    PROVE  KeepsSessions
  BY BecomesKeeps, AtSession DEF Resume, Off

LEMMA DiesKeeps == ASSUME Typed, Dies, UNCHANGED ses PROVE KeepsSessions
<1>1. \A g \in Threads : th'[g].ses = EmptySession
  BY AtSession DEF Dies, Opened, Off
<1>. QED
  BY <1>1 DEF KeepsSessions

LEMMA RaiseKeeps ==
    ASSUME Typed, NEW h \in Threads, Raise(h), UNCHANGED ses
    PROVE  KeepsSessions
<1>1. \/ Dies \/ Goto(h, "discardRead") \/ Becomes(h, Off)
      \/ Resume(h, At("dead", "none", 0)) \/ Resume(h, At("reportRead", "none", th[h].tok))
  BY DEF Raise
<1>. QED
  BY <1>1, DiesKeeps, GotoKeeps, BecomesKeeps, ResumeKeeps, AtSession DEF Off

LEMMA FailureKeeps ==
    ASSUME Typed, NEW h \in Threads, Throws(h) \/ Fault(h)
    PROVE  KeepsSessions
  BY RaiseKeeps DEF Throws, Fault, disk

LEMMA ReconcileKeeps ==
    ASSUME Typed, NEW h \in Threads,
           \/ ReconcileList(h) \/ ReconcileRead(h) \/ ReconcileLookup(h)
           \/ ReconcileReplace(h)
    PROVE  KeepsSessions
<1>1. \A t, r : Reconciled(h, t, r) /\ UNCHANGED ses => KeepsSessions
  <2>. SUFFICES ASSUME NEW t, NEW r, Reconciled(h, t, r), UNCHANGED ses PROVE KeepsSessions
    OBVIOUS
  <2>. DEFINE p == IF th[h].todo = {t} THEN "settle" ELSE "read"
              c == [th[h] EXCEPT !.pc = p, !.snap[t] = r, !.todo = @ \ {t},
                                 !.draft = NoRecord]
  <2>1. \/ Resume(h, At("list", "final", th[h].tok))
        \/ Goto(h, "acknowledge")
        \/ Becomes(h, c)
    BY DEF Reconciled, Becomes, Typed
  <2>2. c.ses = th[h].ses
    BY DEF Typed, Coroutines
  <2>. HIDE DEF c
  <2>. QED
    BY <2>1, <2>2, ResumeKeeps, GotoKeeps, BecomesKeeps, AtSession
<1>2. CASE ReconcileList(h)
  <2>. DEFINE todo == {t \in Tokens : rec[t].phase = "Registering"}
              c == [th[h] EXCEPT !.pc = IF todo = {} THEN "settle" ELSE "read",
                                 !.ses = ses, !.snap = rec, !.todo = todo]
  <2>1. Throws(h) \/ (Becomes(h, c) /\ UNCHANGED ses)
    BY <1>2 DEF ReconcileList, Becomes, disk, Typed
  <2>2. c.ses = ses
    BY DEF Typed, Coroutines
  <2>. HIDE DEF c
  <2>. QED
    BY <2>1, <2>2, BecomesKeeps, FailureKeeps
<1>3. CASE ReconcileRead(h)
  <2>1. \/ Throws(h)
        \/ Goto(h, "lookup") /\ UNCHANGED ses
        \/ \E t, r : Reconciled(h, t, r) /\ UNCHANGED ses
    BY <1>3 DEF ReconcileRead, disk
  <2>. QED
    BY <1>1, <2>1, GotoKeeps, FailureKeeps
<1>4. CASE ReconcileLookup(h)
  <2>1. \A d : [th[h] EXCEPT !.pc = "replace", !.draft = d].ses = th[h].ses
    BY DEF Typed, Coroutines
  <2>2. \/ Throws(h)
        \/ \E d : Becomes(h, [th[h] EXCEPT !.pc = "replace", !.draft = d]) /\ UNCHANGED ses
    BY <1>4 DEF ReconcileLookup, Becomes, disk, Typed
  <2>. QED
    BY <2>1, <2>2, BecomesKeeps, FailureKeeps
<1>5. CASE ReconcileReplace(h)
  <2>1. \/ Throws(h) \/ Fault(h)
        \/ \E t, r : Reconciled(h, t, r) /\ UNCHANGED ses
    BY <1>5 DEF ReconcileReplace
  <2>. QED
    BY <1>1, <2>1, FailureKeeps
<1>. QED
  BY <1>2, <1>3, <1>4, <1>5

\* A step to another place, or to a coroutine that starts afresh.
Plain(h) ==
    \/ \E p : Goto(h, p)
    \/ \E p, r, t : Becomes(h, At(p, r, t)) \/ Resume(h, At(p, r, t))

LEMMA PlainKeeps ==
    ASSUME Typed, NEW h \in Threads, Plain(h), UNCHANGED ses
    PROVE  KeepsSessions
  BY GotoKeeps, BecomesKeeps, ResumeKeeps, AtSession DEF Plain

LEMMA ProcessKeeps == ASSUME Typed, NEW h \in Threads, Process(h) PROVE KeepsSessions
<1>1. CASE Fetch(h)
  <2>. DEFINE t == th[h].tok
              c == [th[h] EXCEPT !.pc = "read", !.ret = "single", !.todo = {t}]
  <2>1. \/ Throws(h)
        \/ Becomes(h, c) /\ UNCHANGED ses
        \/ Goto(h, "previewRead") /\ UNCHANGED ses
        \/ Becomes(h, At("list", "authorize", t)) /\ UNCHANGED ses
    BY <1>1 DEF Fetch, Becomes, disk, Typed
  <2>2. c.ses = th[h].ses
    BY DEF Typed, Coroutines
  <2>. HIDE DEF c
  <2>. QED
    BY <2>1, <2>2, BecomesKeeps, FailureKeeps, GotoKeeps, AtSession
<1>2. CASE PreviewRead(h) \/ PreviewWrite(h) \/ Authorize(h)
  <2>1. \/ Throws(h) \/ Fault(h)
        \/ Plain(h) /\ UNCHANGED ses
    BY <1>2 DEF PreviewRead, PreviewWrite, Authorize, Plain, disk
  <2>. QED
    BY <2>1, PlainKeeps, FailureKeeps
<1>. QED
  BY <1>1, <1>2 DEF Process

LEMMA RegisterKeeps == ASSUME Typed, NEW h \in Threads, Register(h) PROVE KeepsSessions
<1>1. CASE InsertScan(h)
  <2>. DEFINE c == [th[h] EXCEPT !.pc = "commitRead", !.draft = Record("Committed", Len(db) + 1)]
  <2>1. Fault(h) \/ (Becomes(h, c) /\ UNCHANGED ses)
    BY <1>1 DEF InsertScan, Becomes, Typed
  <2>2. c.ses = th[h].ses
    BY DEF Typed, Coroutines
  <2>. HIDE DEF c
  <2>. QED
    BY <2>1, <2>2, BecomesKeeps, FailureKeeps
<1>2. CASE Lock(h) \/ Mark(h) \/ CommitAssets(h)
  <2>1. \/ Throws(h) \/ Fault(h)
        \/ Plain(h) /\ UNCHANGED ses
    BY <1>2 DEF Lock, Mark, CommitAssets, Plain, disk
  <2>. QED
    BY <2>1, PlainKeeps, FailureKeeps
<1>3. CASE CommitRead(h) \/ CommitWrite(h) \/ Unstage(h)
  <2>1. Plain(h) /\ UNCHANGED ses
    BY <1>3 DEF CommitRead, CommitWrite, Unstage, Plain, disk
  <2>. QED
    BY <2>1, PlainKeeps
<1>. QED
  BY <1>1, <1>2, <1>3 DEF Register

LEMMA ReadEntryKeeps ==
    ASSUME Typed, NEW h \in Threads, SavedRead(h) \/ ReportRead(h)
    PROVE  KeepsSessions
<1>1. \A p : [th[h] EXCEPT !.pc = p, !.ses = ses].ses = ses
  BY DEF Typed, Coroutines
<1>2. \/ Throws(h)
      \/ /\ Becomes(h, [th[h] EXCEPT !.pc = "savedReview", !.ses = ses]) /\ UNCHANGED ses
      \/ /\ Becomes(h, [th[h] EXCEPT !.pc = "reportReview", !.ses = ses]) /\ UNCHANGED ses
  BY DEF SavedRead, ReportRead, ReadEntry, Becomes, disk, Typed
<1>. QED
  BY <1>1, <1>2, BecomesKeeps, FailureKeeps

LEMMA PrepareKeeps ==
    ASSUME Typed, NEW h \in Threads, Begin(h) \/ Name(h) \/ Release(h)
    PROVE  KeepsSessions
<1>1. \/ Throws(h) \/ Fault(h)
      \/ Plain(h) /\ UNCHANGED ses
  BY DEF Begin, Name, Release, Plain, disk
<1>. QED
  BY <1>1, PlainKeeps, FailureKeeps

\* Two coroutines set at once, each afresh.
LEMMA TwoKeep ==
    ASSUME Typed, NEW h, NEW g, NEW c, NEW e, UNCHANGED ses,
           th' = [th EXCEPT ![h] = c, ![g] = e],
           c.ses = EmptySession, e.ses = EmptySession \/ e = th[g]
    PROVE  KeepsSessions
  BY DEF KeepsSessions, Typed

LEMMA ShootKeeps == ASSUME Typed, NEW h \in Threads, Shoot(h) PROVE KeepsSessions
<1>1. CASE CaptureFails(h)
  <2>1. /\ th' = [th EXCEPT ![h] = Off, ![Failure(h[1])] = At("reportRead", "none", th[h].tok)]
        /\ UNCHANGED ses
    BY <1>1 DEF CaptureFails, disk
  <2>2. At("reportRead", "none", th[h].tok).ses = EmptySession /\ Off.ses = EmptySession
    BY AtSession DEF Off
  <2>. QED
    BY <2>1, <2>2, TwoKeep
<1>2. CASE Plain(h) /\ UNCHANGED ses
  BY <1>2, PlainKeeps
<1>3. ASSUME PictureSaved(h), h[1] = screen,
             LET w == Worker(h[1]) IN
             th' = [th EXCEPT ![h] = Off,
                 ![w] = IF th[w] = Idle THEN At("list", "loop", 0) ELSE @]
      PROVE  KeepsSessions
  <2>1. \A g \in Threads : th'[g] \in {th[g], Off, At("list", "loop", 0)}
    BY <1>3 DEF Typed
  <2>2. Off.ses = EmptySession /\ At("list", "loop", 0).ses = EmptySession
    BY AtSession DEF Off
  <2>. QED
    BY <1>3, <2>1, <2>2 DEF PictureSaved, KeepsSessions
<1>. QED
  BY <1>1, <1>2, <1>3 DEF Shoot, TakePicture, PictureSaved, PictureLost, Plain, Off, disk

LEMMA DiscardKeeps == ASSUME Typed, NEW h \in Threads, Discard(h) PROVE KeepsSessions
<1>1. Plain(h) /\ UNCHANGED ses
  BY DEF Discard, DiscardRead, DiscardImage, DiscardRecord, Discarded, Plain, Off, disk
<1>. QED
  BY <1>1, PlainKeeps

LEMMA AcknowledgeKeeps == ASSUME Typed, NEW h \in Threads, Acknowledge(h) PROVE KeepsSessions
<1>. DEFINE t == First(th[h].todo)
            c == [th[h] EXCEPT !.todo = @ \ {t}]
<1>1. \/ Throws(h)
      \/ Plain(h) /\ UNCHANGED ses
      \/ Becomes(h, c) /\ UNCHANGED ses
  BY DEF Acknowledge, Plain, Becomes, disk, Typed
<1>2. c.ses = th[h].ses
  BY DEF Typed, Coroutines
<1>. HIDE DEF c
<1>. QED
  BY <1>1, <1>2, PlainKeeps, BecomesKeeps, FailureKeeps

LEMMA ScreenKeeps ==
    ASSUME Typed, RequestCapture \/ FinishBatch \/ Reopen \/ ProcessDeath
    PROVE  KeepsSessions
<1>1. CASE RequestCapture
  BY <1>1, BecomesKeeps, AtSession DEF RequestCapture
<1>2. CASE FinishBatch
  BY <1>2, BecomesKeeps, AtSession DEF FinishBatch, disk
<1>3. CASE Reopen
  BY <1>3, AtSession DEF Reopen, KeepsSessions, disk, Off
<1>4. CASE ProcessDeath
  BY <1>4, DiesKeeps DEF ProcessDeath, disk
<1>. QED
  BY <1>1, <1>2, <1>3, <1>4

\* The steps that edit a session: one coroutine keeps a settled copy, and a
\* settled session is written.
LEMMA EditSettled ==
    ASSUME Typed, SettledInv, NEW h, NEW c, th' = [th EXCEPT ![h] = c],
           h \in Threads => DoneIsSettled(c.ses),
           DoneIsSettled(ses')
    PROVE  SettledInv'
<1>1. \A g \in Threads : DoneIsSettled(th'[g].ses)
  BY DEF SettledInv, Typed
<1>. QED
  BY <1>1 DEF SettledInv, DoneIsSettled

\* The places where a session differs in one entry.
LEMMA EditedEntry ==
    ASSUME NEW s \in Sessions, DoneIsSettled(s), NEW t, NEW e, e.status # "Queued"
    PROVE  DoneIsSettled([s EXCEPT !.entry[t] = e])
<1>. DEFINE n == [s EXCEPT !.entry[t] = e]
<1>1. /\ n.done = s.done
      /\ \A u \in Tokens : n.entry[u] = IF u = t THEN e ELSE s.entry[u]
  BY DEF Sessions
<1>. HIDE DEF n
<1>2. Queued(n) \subseteq Queued(s)
  BY <1>1 DEF Queued
<1>3. DoneIsSettled(n)
  BY <1>1, <1>2 DEF DoneIsSettled
<1>. QED
  BY <1>3 DEF n

\* Settling takes entries from the queue and never completes the batch.
LEMMA SettlingKeepsSettled ==
    ASSUME NEW s \in Sessions, NEW recs, DoneIsSettled(s)
    PROVE  DoneIsSettled(Settled(s, recs))
<1>1. /\ Settled(s, recs).done = s.done
      /\ \A t \in Tokens : Settled(s, recs).entry[t].status = "Queued" =>
            s.entry[t].status = "Queued"
  <2>1. Settled(s, recs).done = s.done
    BY DEF Settled, Sessions
  <2>. SUFFICES ASSUME NEW t \in Tokens, s.entry[t].status # "Queued"
                PROVE  Settled(s, recs).entry[t].status # "Queued"
    BY <2>1
  <2>2. Settled(s, recs).entry[t] = s.entry[t]
    BY DEF Settled, Sessions
  <2>. QED
    BY <2>2
<1>2. Queued(Settled(s, recs)) \subseteq Queued(s)
  BY <1>1 DEF Queued
<1>. QED
  BY <1>1, <1>2 DEF DoneIsSettled

LEMMA SettleSettled ==
    ASSUME Typed, SettledInv, NEW h \in Threads, ReconcileSettle(h)
    PROVE  SettledInv'
<1>. DEFINE s == Settled(th[h].ses, th[h].snap)
<1>1. th[h].ses \in Sessions /\ DoneIsSettled(s)
  BY SettlingKeepsSettled DEF Typed, Coroutines, SettledInv
<1>. HIDE DEF s
<1>2. CASE Fault(h)
  BY <1>2, FailureKeeps, KeptSettled
<1>3. CASE ~Fault(h)
  <2>1. DoneIsSettled(ses')
    <3>1. ses' = ses \/ ses' = s
      BY <1>3 DEF ReconcileSettle, s
    <3>. QED
      BY <1>1, <3>1 DEF SettledInv
  <2>2. \/ Resume(h, At("list", "loop", 0)) \/ Resume(h, Idle)
        \/ Resume(h, At("fetch", "none", First(Queued(s))))
        \/ Becomes(h, [At(th[h].ret, "none", th[h].tok) EXCEPT !.ses = s])
    BY <1>3 DEF ReconcileSettle, s
  <2>3. [At(th[h].ret, "none", th[h].tok) EXCEPT !.ses = s].ses = s
    BY DEF At
  <2>4. \A c : Becomes(h, c) /\ DoneIsSettled(c.ses) => SettledInv'
    BY <2>1, EditSettled DEF Becomes
  <2>5. \A c : Resume(h, c) /\ c.ses = EmptySession => SettledInv'
    BY <2>4, NewSessionSettled, AtSession DEF Resume, Off
  <2>. QED
    BY <1>1, <2>2, <2>3, <2>4, <2>5, AtSession DEF Idle
<1>. QED
  BY <1>2, <1>3

LEMMA ReviewSettled ==
    ASSUME Typed, SettledInv, NEW h \in Threads, SavedReview(h) \/ ReportReview(h)
    PROVE  SettledInv'
<1>. DEFINE t == th[h].tok
            x == th[h].ses.entry[t]
<1>1. CASE SavedReview(h)
  <2>. DEFINE e == [[x EXCEPT !.status = "Saved", !.scan = th[h].draft.scan] EXCEPT !.review = TRUE]
              c == [th[h] EXCEPT !.pc = "savedWrite", !.ses.entry[t] = e]
  <2>. HIDE DEF e
  <2>1. Fault(h) \/ (th' = [th EXCEPT ![h] = c] /\ UNCHANGED ses)
    BY <1>1 DEF SavedReview, ReviewEntry, disk, Typed, e
  <2>2. c.ses = [th[h].ses EXCEPT !.entry[t] = e] /\ th[h].ses \in Sessions
    BY DEF Typed, Coroutines
  <2>. HIDE DEF c
  <2>3. t \in Tokens => e.status # "Queued"
    <3>1. t \in Tokens => x \in Entries
      BY <2>2 DEF Sessions
    <3>. QED
      BY <3>1 DEF e, Entries
  <2>4. DoneIsSettled(c.ses)
    <3>1. DoneIsSettled(th[h].ses)
      BY DEF SettledInv
    <3>2. CASE t \in Tokens
      <4>1. e.status # "Queued" /\ th[h].ses \in Sessions
        BY <2>2, <2>3, <3>2
      <4>2. DoneIsSettled([th[h].ses EXCEPT !.entry[t] = e])
        BY <4>1, <3>1, EditedEntry, Zenon
      <4>. QED
        BY <2>2, <4>2, Zenon
    <3>3. CASE t \notin Tokens
      <4>1. c.ses = th[h].ses
        BY <2>2, <3>3 DEF Sessions
      <4>. QED
        BY <3>1, <4>1
    <3>. QED
      BY <3>2, <3>3
  <2>. QED
    BY <2>1, <2>4, EditSettled, FailureKeeps, KeptSettled DEF SettledInv
<1>2. CASE ReportReview(h)
  <2>. DEFINE e == [[x EXCEPT !.status = "NeedsReview"] EXCEPT !.review = TRUE]
              c == [th[h] EXCEPT !.pc = "reportWrite", !.ses.entry[t] = e]
  <2>. HIDE DEF e
  <2>1. Fault(h) \/ (th' = [th EXCEPT ![h] = c] /\ UNCHANGED ses)
    BY <1>2 DEF ReportReview, ReviewEntry, disk, Typed, e
  <2>2. c.ses = [th[h].ses EXCEPT !.entry[t] = e] /\ th[h].ses \in Sessions
    BY DEF Typed, Coroutines
  <2>. HIDE DEF c
  <2>3. t \in Tokens => e.status # "Queued"
    <3>1. t \in Tokens => x \in Entries
      BY <2>2 DEF Sessions
    <3>. QED
      BY <3>1 DEF e, Entries
  <2>4. DoneIsSettled(c.ses)
    <3>1. DoneIsSettled(th[h].ses)
      BY DEF SettledInv
    <3>2. CASE t \in Tokens
      <4>1. e.status # "Queued" /\ th[h].ses \in Sessions
        BY <2>2, <2>3, <3>2
      <4>2. DoneIsSettled([th[h].ses EXCEPT !.entry[t] = e])
        BY <4>1, <3>1, EditedEntry, Zenon
      <4>. QED
        BY <2>2, <4>2, Zenon
    <3>3. CASE t \notin Tokens
      <4>1. c.ses = th[h].ses
        BY <2>2, <3>3 DEF Sessions
      <4>. QED
        BY <3>1, <4>1
    <3>. QED
      BY <3>2, <3>3
  <2>. QED
    BY <2>1, <2>4, EditSettled, FailureKeeps, KeptSettled DEF SettledInv
<1>. QED
  BY <1>1, <1>2

LEMMA WriteSettled ==
    ASSUME Typed, SettledInv, NEW h \in Threads,
           SavedWrite(h) \/ ReportWrite(h) \/ QueueWrite(h)
    PROVE  SettledInv'
<1>1. \/ Fault(h)
      \/ /\ ses' = th[h].ses
         /\ \E p, r, t : Becomes(h, At(p, r, t)) \/ Resume(h, At(p, r, t))
  BY DEF SavedWrite, ReportWrite, QueueWrite
<1>2. \A p, r, t : /\ ses' = th[h].ses
                   /\ Becomes(h, At(p, r, t)) \/ Resume(h, At(p, r, t))
                   => SettledInv'
  BY EditSettled, NewSessionSettled, AtSession DEF Becomes, Resume, Off, SettledInv
<1>. QED
  BY <1>1, <1>2, FailureKeeps, KeptSettled

\* Only a batch that is not completed takes a capture.
LEMMA QueueSettled ==
    ASSUME Typed, SettledInv, NEW h \in Threads, QueueRead(h)
    PROVE  SettledInv'
<1>. DEFINE n == [ses EXCEPT !.entry[th[h].tok].status = "Queued"]
            c == [th[h] EXCEPT !.pc = "queueWrite", !.ses = n]
<1>1. CASE Throws(h)
  BY <1>1, FailureKeeps, KeptSettled
<1>2. CASE ~Throws(h)
  <2>1. ~n.done
    BY <1>2 DEF QueueRead, Typed, Sessions
  <2>. HIDE DEF n
  <2>2. c.ses = n
    BY DEF Typed, Coroutines
  <2>3. th' = [th EXCEPT ![h] = c] /\ UNCHANGED ses
    BY <1>2 DEF QueueRead, disk, Typed, n
  <2>. HIDE DEF c
  <2>. QED
    BY <2>1, <2>2, <2>3, EditSettled DEF DoneIsSettled, SettledInv
<1>. QED
  BY <1>1, <1>2

LEMMA CompleteSettled ==
    ASSUME Typed, SettledInv, NEW h \in Threads, Complete(h)
    PROVE  SettledInv'
<1>. DEFINE s == th[h].ses
            d == [s EXCEPT !.done = TRUE]
            todo == {t \in Tokens : s.entry[t].scan # 0}
            c == [th[h] EXCEPT !.pc = "acknowledge", !.ret = "ack", !.ses = d, !.todo = todo]
<1>1. CASE Throws(h) \/ Fault(h)
  BY <1>1, FailureKeeps, KeptSettled
<1>2. CASE ~Throws(h) /\ ~Fault(h)
  <2>1. Queued(s) = {} /\ (ses' = ses \/ ses' = d) /\ th' = [th EXCEPT ![h] = c]
    BY <1>2 DEF Complete, Typed
  <2>2. Queued(d) = Queued(s)
    BY DEF Queued, Typed, Coroutines, Sessions
  <2>3. c.ses = d
    BY DEF Typed, Coroutines
  <2>. HIDE DEF c, d
  <2>. QED
    BY <2>1, <2>2, <2>3, EditSettled DEF DoneIsSettled, SettledInv
<1>. QED
  BY <1>1, <1>2

LEMMA SettledStep == Typed /\ SettledInv /\ [Next]_vars => SettledInv'
<1>. SUFFICES ASSUME Typed, SettledInv, [Next]_vars PROVE SettledInv'
  OBVIOUS
<1>1. CASE UNCHANGED vars
  BY <1>1 DEF vars, disk, SettledInv
<1>2. ASSUME NEW h \in Threads,
             \/ Reconcile(h) \/ Process(h) \/ Register(h) \/ Account(h)
             \/ Prepare(h) \/ Shoot(h) \/ Discard(h) \/ Close(h)
      PROVE  SettledInv'
  <2>1. CASE KeepsSessions
    BY <2>1, KeptSettled
  <2>2. CASE ~KeepsSessions
    <3>1. \/ ReconcileSettle(h) \/ SavedReview(h) \/ ReportReview(h)
          \/ SavedWrite(h) \/ ReportWrite(h) \/ QueueWrite(h) \/ QueueRead(h) \/ Complete(h)
      BY <1>2, <2>2, ReconcileKeeps, ProcessKeeps, RegisterKeeps, ReadEntryKeeps,
         PrepareKeeps, ShootKeeps, DiscardKeeps, AcknowledgeKeeps
         DEF Reconcile, Account, Prepare, Close
    <3>. QED
      BY <3>1, SettleSettled, ReviewSettled, WriteSettled, QueueSettled, CompleteSettled
  <2>. QED
    BY <2>1, <2>2
<1>3. CASE RequestCapture \/ FinishBatch \/ Reopen \/ ProcessDeath
  BY <1>3, ScreenKeeps, KeptSettled
<1>. QED
  BY <1>1, <1>2, <1>3 DEF Next

\* A completed session has no queued entry, even after a coroutine has written
\* back a copy it read before the completion.
THEOREM CompletionIsFinal == Spec => []CompletedBatchIsSettled
<1>1. Init => SettledInv
  BY NewSessionSettled, AtSession DEF Init, SettledInv, Opened, Off
<1>2. SettledInv => CompletedBatchIsSettled
  BY DEF SettledInv, DoneIsSettled, CompletedBatchIsSettled
<1>3. IInv => Typed
  BY DEF IInv
<1>. QED
  BY <1>1, <1>2, <1>3, SettledStep, InvariantHolds, PTL DEF Spec

-----------------------------------------------------------------------------
\* A picture has an owner. A capture belongs to one coroutine of the roles
\* "capture" and "failure" at a time, which alone may write its picture and
\* discard its record.

\* By the records r and the rows d.
Owned(r, d, t) == r[t] # NoRecord \/ \E i \in 1..Len(d) : d[i] = t

\* Places of a capture whose record is written, and of one whose picture is not.
Prepared == {"name", "queueRead", "queueWrite", "release", "pending", "shooting"}
Unshot   == {"begin", "name", "queueRead", "queueWrite", "release", "discardRecord"}

Discards == {"discardRead", "discardImage", "discardRecord", "discarded"}
Reports  == {"reportRead", "reportReview", "reportWrite"}
Holders  == {"capture", "failure"}

\* Where a coroutine can be: its capture is prepared, taken and discarded by
\* the coroutines that hold it, and a worker never becomes one.
InRole(h, p) ==
    /\ p \in Places
    /\ p \in Prepared \cup {"begin"} => h[2] = "capture"
    /\ p \in Discards => h[2] \in Holders
    /\ p \in Reports => h[2] \in {"worker", "failure"}
    /\ h[2] \in Holders => p \in {"off", "begin"} \cup Prepared \cup Discards \cup Reports

Holds(h) == h[2] \in Holders /\ th[h].pc # "off"

OwnInv ==
    /\ file \in [Tokens -> {"none", "reserved", "image"}]
    /\ \A t \in Tokens : file[t] = "image" => t <= captures /\ Owned(rec, db, t)
    /\ \A h \in Threads : InRole(h, th[h].pc)
    /\ \A h \in Threads : Holds(h) => th[h].tok \in Tokens /\ th[h].tok <= captures
    /\ \A g, h \in Threads : Holds(g) /\ Holds(h) /\ g # h => th[g].tok # th[h].tok
    /\ \A h \in Threads : th[h].pc \in Prepared => Owned(rec, db, th[h].tok)
    /\ \A h \in Threads : th[h].pc \in Unshot => file[th[h].tok] # "image"
    /\ \A h \in Threads : th[h].pc = "replace" => th[h].draft # NoRecord

\* A step of a coroutine that holds no capture makes no picture and leaves
\* every capture its owner.
LEMMA ServantStep ==
    ASSUME Typed, OwnInv, NEW h, NEW c, th' = [th EXCEPT ![h] = c], UNCHANGED captures,
           h \in Threads => /\ h[2] \notin Holders
                            /\ InRole(h, c.pc)
                            /\ c.pc = "replace" => c.draft # NoRecord,
           file' \in [Tokens -> {"none", "reserved", "image"}],
           \A t \in Tokens : file'[t] = "image" => file[t] = "image",
           \A t \in Tokens : Owned(rec, db, t) => Owned(rec', db', t)
    PROVE  OwnInv'
<1>1. \A g \in Threads : g # h => th'[g] = th[g]
  BY DEF Typed
<1>2. h \in Threads => th'[h] = c
  BY DEF Typed
<1>3. \A g \in Threads : Holds(g)' => g # h /\ Holds(g)
  BY <1>1, <1>2 DEF Holds
<1>4. \A g \in Threads : th'[g].pc \in Prepared => g # h /\ Holds(g)
  BY <1>1, <1>2 DEF Holds, InRole, Prepared, OwnInv, Holders
<1>5. \A g \in Threads : th'[g].pc \in Unshot => g # h /\ Holds(g)
  BY <1>1, <1>2 DEF Holds, InRole, Unshot, Prepared, Discards, OwnInv, Holders
<1>6. \A g \in Threads : Holds(g)' => th'[g].tok \in Tokens /\ th'[g].tok <= captures'
  BY <1>1, <1>3 DEF OwnInv
<1>7. \A f, g \in Threads : Holds(f)' /\ Holds(g)' /\ f # g => th'[f].tok # th'[g].tok
  BY <1>1, <1>3 DEF OwnInv
<1>8. \A g \in Threads : th'[g].pc \in Prepared => Owned(rec', db', th'[g].tok)
  BY <1>1, <1>4 DEF OwnInv
<1>9. \A g \in Threads : th'[g].pc \in Unshot => file'[th'[g].tok] # "image"
  BY <1>1, <1>5 DEF OwnInv
<1>10. \A g \in Threads : /\ InRole(g, th'[g].pc)
                          /\ th'[g].pc = "replace" => th'[g].draft # NoRecord
  BY <1>1, <1>2 DEF OwnInv
<1>11. \A t \in Tokens : file'[t] = "image" => t <= captures' /\ Owned(rec', db', t)
  BY DEF OwnInv
<1>. QED
  BY <1>6, <1>7, <1>8, <1>9, <1>10, <1>11 DEF OwnInv

\* A step of the coroutine that holds capture t changes the picture and the
\* record of t only.
LEMMA HolderStep ==
    ASSUME Typed, OwnInv, NEW h \in Threads, NEW c, th' = [th EXCEPT ![h] = c],
           UNCHANGED captures, Holds(h), NEW t, t = th[h].tok,
           InRole(h, c.pc), c.pc = "off" \/ c.tok = t,
           file' \in [Tokens -> {"none", "reserved", "image"}],
           \A u \in Tokens \ {t} : file'[u] = file[u] /\ (Owned(rec, db, u) => Owned(rec', db', u)),
           file'[t] = "image" => Owned(rec', db', t),
           c.pc \in Prepared => Owned(rec', db', t),
           c.pc \in Unshot => file'[t] # "image"
    PROVE  OwnInv'
<1>1. \A g \in Threads : g # h => th'[g] = th[g]
  BY DEF Typed
<1>2. th'[h] = c
  BY DEF Typed
<1>3. \A g \in Threads : Holds(g)' => Holds(g) /\ th'[g].tok = th[g].tok
  BY <1>1, <1>2 DEF Holds
<1>4. \A g \in Threads : th'[g].pc \in Prepared \cup Unshot => Holds(g)'
  BY <1>1, <1>2 DEF Holds, InRole, Unshot, Prepared, Discards, OwnInv, Holders
<1>5. \A g \in Threads : Holds(g)' /\ g # h => th'[g].tok \in Tokens \ {t}
  BY <1>1, <1>3 DEF OwnInv
<1>6. t \in Tokens /\ t <= captures
  BY DEF OwnInv
<1>7. \A g \in Threads : Holds(g)' => th'[g].tok \in Tokens /\ th'[g].tok <= captures'
  BY <1>3 DEF OwnInv
<1>8. \A f, g \in Threads : Holds(f)' /\ Holds(g)' /\ f # g => th'[f].tok # th'[g].tok
  BY <1>3 DEF OwnInv
<1>9. \A g \in Threads : th'[g].pc \in Prepared => Owned(rec', db', th'[g].tok)
  <2>. SUFFICES ASSUME NEW g \in Threads, th'[g].pc \in Prepared PROVE Owned(rec', db', th'[g].tok)
    OBVIOUS
  <2>1. CASE g = h
    BY <1>2, <2>1 DEF Prepared
  <2>2. CASE g # h
    BY <1>1, <1>4, <1>5, <2>2 DEF OwnInv
  <2>. QED
    BY <2>1, <2>2
<1>10. \A g \in Threads : th'[g].pc \in Unshot => file'[th'[g].tok] # "image"
  <2>. SUFFICES ASSUME NEW g \in Threads, th'[g].pc \in Unshot PROVE file'[th'[g].tok] # "image"
    OBVIOUS
  <2>1. CASE g = h
    BY <1>2, <2>1 DEF Unshot
  <2>2. CASE g # h
    BY <1>1, <1>4, <1>5, <2>2 DEF OwnInv
  <2>. QED
    BY <2>1, <2>2
<1>11. \A g \in Threads : /\ InRole(g, th'[g].pc)
                          /\ th'[g].pc = "replace" => th'[g].draft # NoRecord
  <2>1. c.pc # "replace"
    BY DEF InRole, Holds, Prepared, Discards, Reports
  <2>. QED
    BY <1>1, <1>2, <2>1 DEF OwnInv
<1>12. \A u \in Tokens : file'[u] = "image" => u <= captures' /\ Owned(rec', db', u)
  BY <1>6 DEF OwnInv
<1>. QED
  BY <1>7, <1>8, <1>9, <1>10, <1>11, <1>12 DEF OwnInv

\* Rows are only added, and records are only discarded by the coroutine that
\* holds the capture, or once the row is there.
LEMMA OwnedStays ==
    ASSUME Typed, NEW t \in Tokens, Owned(rec, db, t),
           db' = db \/ (\E x \in 0..MaxCaptures : db' = Append(db, x)),
           \/ rec'[t] = rec[t]
           \/ rec'[t] # NoRecord
           \/ \E i \in 1..Len(db) : db[i] = t
    PROVE  Owned(rec', db', t)
<1>1. \A i \in 1..Len(db) : i \in 1..Len(db') /\ db'[i] = db[i]
  BY DEF Typed
<1>. QED
  BY <1>1 DEF Owned

LEMMA AtFields == \A p, r, t : /\ At(p, r, t).pc = p /\ At(p, r, t).tok = t
                               /\ At(p, r, t).ret = r
  BY DEF At

LEMMA OffRole == \A h : InRole(h, "off") /\ Off.pc = "off"
  BY AtFields DEF InRole, Prepared, Discards, Reports, Places, Off

\* The coroutines end, or a worker starts to read the session.
LEMMA FreshStart ==
    ASSUME OwnInv, UNCHANGED <<file, rec, db, captures>>,
           \A h \in Threads : \/ th'[h] = th[h] \/ th'[h] = Off
                              \/ h[2] = "worker" /\ th'[h] = At("list", "start", 0)
    PROVE  OwnInv'
<1>1. At("list", "start", 0).pc = "list" /\ Off.pc = "off"
  BY AtFields DEF Off
<1>2. \A h \in Threads : th'[h] = th[h] \/ (~Holds(h)' /\ th'[h].pc \in {"off", "list"})
  BY <1>1 DEF Holds, Holders
<1>3. \A h \in Threads : InRole(h, th'[h].pc)
  BY <1>1, OffRole DEF InRole, Prepared, Discards, Reports, Places, OwnInv, Holders
<1>4. \A h \in Threads : Holds(h)' => Holds(h) /\ th'[h] = th[h]
  BY <1>2 DEF Holds
<1>5. /\ \A h \in Threads : Holds(h)' => th'[h].tok \in Tokens /\ th'[h].tok <= captures'
      /\ \A g, h \in Threads : Holds(g)' /\ Holds(h)' /\ g # h => th'[g].tok # th'[h].tok
  BY <1>4 DEF OwnInv
<1>6. \A h \in Threads : /\ th'[h].pc \in Prepared => Owned(rec', db', th'[h].tok)
                         /\ th'[h].pc \in Unshot => file'[th'[h].tok] # "image"
                         /\ th'[h].pc = "replace" => th'[h].draft # NoRecord
  BY <1>2 DEF OwnInv, Prepared, Unshot
<1>. QED
  BY <1>3, <1>5, <1>6 DEF OwnInv

LEMMA DiesOwn == ASSUME OwnInv, Dies, UNCHANGED <<file, rec, db, captures>> PROVE OwnInv'
<1>1. \A h \in Threads : \/ th'[h] = Off
                         \/ h[2] = "worker" /\ th'[h] = At("list", "start", 0)
  BY DEF Dies, Opened, Worker
<1>. QED
  BY <1>1, FreshStart

\* A step that leaves the disk.
LEMMA ServantMoves ==
    ASSUME Typed, OwnInv, NEW h, NEW c, Becomes(h, c) \/ Resume(h, c),
           UNCHANGED <<file, rec, db, captures>>,
           h \in Threads => /\ h[2] \notin Holders
                            /\ InRole(h, c.pc)
                            /\ c.pc = "replace" => c.draft # NoRecord
    PROVE  OwnInv'
<1>1. \A t \in Tokens : Owned(rec, db, t) => Owned(rec', db', t)
  OBVIOUS
<1>2. CASE th' = [th EXCEPT ![h] = c]
  BY <1>1, <1>2, ServantStep DEF OwnInv
<1>3. CASE th' = [th EXCEPT ![h] = Off]
  BY <1>1, <1>3, ServantStep, OffRole DEF OwnInv
<1>. QED
  BY <1>2, <1>3 DEF Becomes, Resume

LEMMA HolderMoves ==
    ASSUME Typed, OwnInv, NEW h \in Threads, NEW c, Becomes(h, c) \/ Resume(h, c),
           UNCHANGED <<file, rec, db, captures>>,
           Holds(h), InRole(h, c.pc), c.pc = "off" \/ c.tok = th[h].tok,
           c.pc \in Prepared => th[h].pc \in Prepared,
           c.pc \in Unshot => th[h].pc \in Unshot
    PROVE  OwnInv'
<1>. DEFINE t == th[h].tok
<1>1. /\ \A u \in Tokens \ {t} : file'[u] = file[u] /\ (Owned(rec, db, u) => Owned(rec', db', u))
      /\ file'[t] = "image" => Owned(rec', db', t)
      /\ th[h].pc \in Prepared => Owned(rec', db', t)
      /\ th[h].pc \in Unshot => file'[t] # "image"
      /\ file' \in [Tokens -> {"none", "reserved", "image"}]
  BY DEF OwnInv
<1>. HIDE DEF t
<1>2. CASE th' = [th EXCEPT ![h] = c]
  BY <1>1, <1>2, HolderStep DEF t
<1>3. CASE th' = [th EXCEPT ![h] = Off]
  <2>1. Off.pc \notin Prepared \cup Unshot
    BY OffRole DEF Prepared, Unshot
  <2>. QED
    <3>1. Off.pc = "off" /\ InRole(h, Off.pc)
      BY OffRole
    <3>. HIDE DEF Off
    <3>. QED
      BY <1>1, <1>3, <2>1, <3>1, HolderStep DEF t
<1>. QED
  BY <1>2, <1>3 DEF Becomes, Resume

LEMMA RaiseOwn ==
    ASSUME Typed, OwnInv, NEW h \in Threads, Raise(h), th[h].pc # "off",
           UNCHANGED <<file, rec, db, captures>>
    PROVE  OwnInv'
<1>1. CASE Dies
  BY <1>1, DiesOwn
<1>2. CASE h[2] = "capture" /\ Goto(h, "discardRead")
  <2>. DEFINE c == [th[h] EXCEPT !.pc = "discardRead"]
  <2>1. c.pc = "discardRead" /\ c.tok = th[h].tok /\ Becomes(h, c)
    BY <1>2 DEF Goto, Becomes, Typed, Coroutines
  <2>. HIDE DEF c
  <2>2. Holds(h) /\ InRole(h, c.pc) /\ c.pc \notin Prepared \cup Unshot
    BY <1>2, <2>1 DEF Holds, Holders, InRole, Prepared, Discards, Reports, Places, Unshot
  <2>. QED
    BY <2>1, <2>2, HolderMoves
<1>3. CASE h[2] \in {"failure", "finish"} /\ Becomes(h, Off)
  <2>1. Off.pc \notin Prepared \cup Unshot \cup {"replace"}
    BY OffRole DEF Prepared, Unshot
  <2>2. CASE h[2] = "failure"
    BY <1>3, <2>1, <2>2, HolderMoves, OffRole DEF Holds, Holders
  <2>3. CASE h[2] = "finish"
    BY <1>3, <2>1, <2>3, ServantMoves, OffRole DEF Holders
  <2>. QED
    BY <1>3, <2>2, <2>3
<1>4. CASE h[2] = "worker" /\ Resume(h, At("dead", "none", 0))
  BY <1>4, AtFields, ServantMoves DEF Holders, InRole, Prepared, Discards, Reports, Places
<1>5. CASE h[2] = "worker" /\ Resume(h, At("reportRead", "none", th[h].tok))
  BY <1>5, AtFields, ServantMoves DEF Holders, InRole, Prepared, Discards, Reports, Places
<1>. QED
  BY <1>1, <1>2, <1>3, <1>4, <1>5 DEF Raise

LEMMA FailureOwn ==
    ASSUME Typed, OwnInv, NEW h \in Threads, Throws(h) \/ Fault(h), th[h].pc # "off"
    PROVE  OwnInv'
  BY RaiseOwn DEF Throws, Fault, disk, bounds


\* Places where no capture is held.
Served == Places \ ({"off", "begin"} \cup Prepared \cup Discards \cup Reports)

LEMMA ServedRole ==
    ASSUME OwnInv, NEW h \in Threads, th[h].pc \in Served
    PROVE  h[2] \notin Holders /\ \A p \in Served \cup {"off"} : InRole(h, p)
<1>1. h[2] \notin Holders
  BY DEF OwnInv, InRole, Served
<1>2. \A p \in Served \cup {"off"} : InRole(h, p)
  BY <1>1 DEF InRole, Served, Places, Prepared, Discards, Reports
<1>. QED
  BY <1>1, <1>2

\* The record a step writes keeps its capture an owner.
RecordsKeepOwner ==
    \A t \in Tokens : \/ rec'[t] = rec[t]
                      \/ rec'[t] # NoRecord
                      \/ \E i \in 1..Len(db) : db[i] = t

LEMMA WriteKeepsOwner ==
    ASSUME Typed, NEW u, NEW r, rec' = [rec EXCEPT ![u] = r], r # NoRecord
    PROVE  RecordsKeepOwner
  BY DEF RecordsKeepOwner, Typed

\* A step of a coroutine that holds no capture to another such place, which
\* may write a record.
LEMMA ServedStep ==
    ASSUME Typed, OwnInv, NEW h \in Threads, th[h].pc \in Served, NEW c,
           Becomes(h, c) \/ Resume(h, c),
           c.pc \in Served \cup {"off"}, c.pc = "replace" => c.draft # NoRecord,
           UNCHANGED <<file, db, captures>>,
           RecordsKeepOwner
    PROVE  OwnInv'
<1>1. \A t \in Tokens : Owned(rec, db, t) => Owned(rec', db', t)
  BY OwnedStays DEF RecordsKeepOwner
<1>2. h[2] \notin Holders /\ InRole(h, c.pc)
  BY ServedRole
<1>3. CASE th' = [th EXCEPT ![h] = c]
  BY <1>1, <1>2, <1>3, ServantStep DEF OwnInv
<1>4. CASE th' = [th EXCEPT ![h] = Off]
  BY <1>1, <1>2, <1>4, ServantStep, OffRole DEF OwnInv
<1>. QED
  BY <1>3, <1>4 DEF Becomes, Resume

LEMMA ServedFails ==
    ASSUME Typed, OwnInv, NEW h \in Threads, th[h].pc \in Served, Throws(h) \/ Fault(h)
    PROVE  OwnInv'
  BY FailureOwn DEF Served

LEMMA ReconciledOwn ==
    ASSUME Typed, OwnInv, NEW h \in Threads, th[h].pc \in Served,
           NEW t, NEW r, Reconciled(h, t, r),
           UNCHANGED <<file, db, captures>>,
           RecordsKeepOwner
    PROVE  OwnInv'
<1>. DEFINE p == IF th[h].todo = {t} THEN "settle" ELSE "read"
            c == [th[h] EXCEPT !.pc = p, !.snap[t] = r, !.todo = @ \ {t},
                               !.draft = NoRecord]
            e == [th[h] EXCEPT !.pc = "acknowledge"]
<1>1. \/ Resume(h, At("list", "final", th[h].tok))
      \/ Becomes(h, e)
      \/ Becomes(h, c)
  BY ZenonT(40) DEF Reconciled, Becomes, Goto, Typed
<1>2. c.pc \in {"settle", "read"} /\ e.pc = "acknowledge"
  BY DEF Typed, Coroutines
<1>. HIDE DEF c, e
<1>3. {"settle", "read", "acknowledge", "list"} \subseteq Served \ {"replace"}
  BY DEF Served, Places, Prepared, Discards, Reports
<1>. QED
  BY <1>1, <1>2, <1>3, AtFields, ServedStep

LEMMA ReconcileOwn ==
    ASSUME Typed, OwnInv, NEW h \in Threads, Reconcile(h)
    PROVE  OwnInv'
<1>1. th[h].pc \in {"list", "read", "lookup", "replace", "settle"}
  BY DEF Reconcile, ReconcileList, ReconcileRead, ReconcileLookup, ReconcileReplace, ReconcileSettle
<1>2. {"list", "read", "lookup", "replace", "settle", "idle", "fetch"} \subseteq Served
  BY DEF Served, Places, Prepared, Discards, Reports
<1>3. th[h].pc \in Served
  BY <1>1, <1>2
<1>4. CASE Throws(h) \/ Fault(h)
  BY <1>3, <1>4, ServedFails
<1>5. CASE ReconcileList(h) /\ ~Throws(h)
  <2>. DEFINE todo == {t \in Tokens : rec[t].phase = "Registering"}
              c == [th[h] EXCEPT !.pc = IF todo = {} THEN "settle" ELSE "read",
                                 !.ses = ses, !.snap = rec, !.todo = todo]
  <2>1. Becomes(h, c) /\ UNCHANGED <<file, rec, db, captures>>
    BY <1>5 DEF ReconcileList, Becomes, Still, bounds, disk, Typed
  <2>2. c.pc \in {"settle", "read"}
    BY DEF Typed, Coroutines
  <2>. HIDE DEF c
  <2>. QED
    BY <1>2, <1>3, <2>1, <2>2, ServedStep DEF RecordsKeepOwner
<1>6. CASE ReconcileRead(h) /\ ~Throws(h)
  <2>. DEFINE c == [th[h] EXCEPT !.pc = "lookup"]
  <2>1. /\ UNCHANGED <<file, rec, db, captures>>
        /\ Becomes(h, c) \/ \E t, r : Reconciled(h, t, r)
    BY <1>6 DEF ReconcileRead, Goto, Becomes, Still, bounds, disk, Typed
  <2>2. c.pc = "lookup"
    BY DEF Typed, Coroutines
  <2>. HIDE DEF c
  <2>. QED
    BY <1>2, <1>3, <2>1, <2>2, ServedStep, ReconciledOwn DEF RecordsKeepOwner
<1>7. CASE ReconcileLookup(h) /\ ~Throws(h)
  <2>1. PICK d \in {Record("PreviewReady", 0)} \cup {Record("Committed", i) : i \in RowsOf(First(th[h].todo))} :
             th' = [th EXCEPT ![h].pc = "replace", ![h].draft = d]
    BY <1>7 DEF ReconcileLookup
  <2>. DEFINE c == [th[h] EXCEPT !.pc = "replace", !.draft = d]
  <2>2. d # NoRecord
    BY <2>1 DEF Record, NoRecord
  <2>3. Becomes(h, c) /\ UNCHANGED <<file, rec, db, captures>>
    BY <1>7, <2>1 DEF ReconcileLookup, Becomes, Still, bounds, disk, Typed
  <2>4. c.pc = "replace" /\ c.draft = d
    BY DEF Typed, Coroutines
  <2>. HIDE DEF c
  <2>. QED
    BY <1>2, <1>3, <2>2, <2>3, <2>4, ServedStep DEF RecordsKeepOwner
<1>8. CASE ReconcileReplace(h) /\ ~Throws(h) /\ ~Fault(h)
  <2>1. PICK t, x : /\ x = th[h].draft /\ rec' = [rec EXCEPT ![t] = x]
                    /\ Reconciled(h, t, x) /\ UNCHANGED <<file, db, captures>>
    BY <1>8 DEF ReconcileReplace, Still, bounds
  <2>2. x # NoRecord
    BY <1>8, <2>1 DEF ReconcileReplace, OwnInv
  <2>3. RecordsKeepOwner
    BY <2>1, <2>2, WriteKeepsOwner
  <2>. QED
    BY <1>3, <2>1, <2>3, ReconciledOwn
<1>9. CASE ReconcileSettle(h) /\ ~Fault(h)
  <2>. DEFINE s == Settled(th[h].ses, th[h].snap)
              p == First(Queued(s))
              c == [At(th[h].ret, "none", th[h].tok) EXCEPT !.ses = s]
  <2>1. /\ UNCHANGED <<file, rec, db, captures>>
        /\ \/ Resume(h, At("list", "loop", 0))
           \/ Resume(h, Idle)
           \/ Resume(h, At("fetch", "none", p))
           \/ th[h].ret \in {"authorize", "complete"} /\ Becomes(h, c)
    BY <1>9 DEF ReconcileSettle, Still, bounds
  <2>2. c.pc = th[h].ret
    BY DEF At
  <2>. HIDE DEF c, p
  <2>3. {"authorize", "complete"} \subseteq Served \ {"replace"}
    BY DEF Served, Places, Prepared, Discards, Reports
  <2>. QED
    BY <1>2, <1>3, <2>1, <2>2, <2>3, ServedStep, AtFields DEF Idle, RecordsKeepOwner
<1>. QED
  BY <1>4, <1>5, <1>6, <1>7, <1>8, <1>9 DEF Reconcile


LEMMA ServedGoto ==
    ASSUME Typed, OwnInv, NEW h \in Threads, th[h].pc \in Served,
           NEW p \in Served \ {"replace"}, Goto(h, p),
           UNCHANGED <<file, db, captures>>, RecordsKeepOwner
    PROVE  OwnInv'
<1>. DEFINE c == [th[h] EXCEPT !.pc = p]
<1>1. Becomes(h, c) /\ c.pc = p
  BY DEF Goto, Becomes, Typed, Coroutines
<1>. HIDE DEF c
<1>. QED
  BY <1>1, ServedStep

LEMMA ServedAt ==
    ASSUME Typed, OwnInv, NEW h \in Threads, th[h].pc \in Served,
           NEW p \in Served \ {"replace"}, NEW r, NEW t,
           Becomes(h, At(p, r, t)) \/ Resume(h, At(p, r, t)),
           UNCHANGED <<file, db, captures>>, RecordsKeepOwner
    PROVE  OwnInv'
  BY ServedStep, AtFields

LEMMA Written == \A p \in Phases : \A s : Record(p, s) # NoRecord
  BY DEF Record, NoRecord, Phases

LEMMA ProcessOwn == ASSUME Typed, OwnInv, NEW h \in Threads, Process(h) PROVE OwnInv'
<1>1. {"fetch", "previewRead", "previewWrite", "authorize", "lock", "list", "read"} \subseteq Served \ {"replace"}
  BY DEF Served, Places, Prepared, Discards, Reports
<1>2. th[h].pc \in Served
  BY <1>1 DEF Process, Fetch, PreviewRead, PreviewWrite, Authorize
<1>3. CASE Throws(h) \/ Fault(h)
  BY <1>2, <1>3, ServedFails
<1>4. CASE Fetch(h) /\ ~Throws(h)
  <2>. DEFINE t == th[h].tok
              c == [th[h] EXCEPT !.pc = "read", !.ret = "single", !.todo = {t}]
  <2>1. /\ UNCHANGED <<file, rec, db, captures>>
        /\ \/ Becomes(h, c) \/ Goto(h, "previewRead") \/ Becomes(h, At("list", "authorize", t))
    BY <1>4 DEF Fetch, Becomes, Still, bounds, disk, Typed
  <2>2. c.pc = "read"
    BY DEF Typed, Coroutines
  <2>. HIDE DEF c
  <2>. QED
    BY <1>1, <1>2, <2>1, <2>2, ServedStep, ServedGoto, ServedAt DEF RecordsKeepOwner
<1>5. CASE (PreviewRead(h) \/ Authorize(h)) /\ ~Throws(h)
  <2>1. /\ UNCHANGED <<file, rec, db, captures>>
        /\ Goto(h, "previewWrite") \/ Becomes(h, At("lock", "none", th[h].tok))
    BY <1>5 DEF PreviewRead, Authorize, Still, bounds, disk
  <2>. QED
    BY <1>1, <1>2, <2>1, ServedGoto, ServedAt DEF RecordsKeepOwner
<1>6. CASE PreviewWrite(h) /\ ~Throws(h) /\ ~Fault(h)
  <2>. DEFINE t == th[h].tok
  <2>1. /\ rec' = [rec EXCEPT ![t] = Record("PreviewReady", 0)]
        /\ Becomes(h, At("list", "authorize", t)) /\ UNCHANGED <<file, db, captures>>
    BY <1>6 DEF PreviewWrite, Still, bounds
  <2>2. RecordsKeepOwner
    BY <2>1, Written DEF RecordsKeepOwner, Phases
  <2>. QED
    BY <1>1, <1>2, <2>1, <2>2, ServedAt
<1>. QED
  BY <1>3, <1>4, <1>5, <1>6 DEF Process

\* The worker removes a picture once its row is there.
LEMMA RegisterOwn ==
    ASSUME IInv, OwnInv, NEW h \in Threads, Register(h)
    PROVE  OwnInv'
<1>. Typed
  BY DEF IInv
<1>1. {"lock", "marking", "assets", "transaction", "commitRead", "commitWrite", "unstage", "savedRead"}
        \subseteq Served \ {"replace"}
  BY DEF Served, Places, Prepared, Discards, Reports
<1>2. th[h].pc \in Served
  BY <1>1 DEF Register, Lock, Mark, CommitAssets, InsertScan, CommitRead, CommitWrite, Unstage
<1>3. CASE Throws(h) \/ Fault(h)
  BY <1>2, <1>3, ServedFails
<1>4. CASE (Lock(h) \/ CommitAssets(h)) /\ ~Throws(h) /\ ~Fault(h)
  <2>1. /\ UNCHANGED <<file, rec, db, captures>>
        /\ Goto(h, "marking") \/ Goto(h, "transaction")
    BY <1>4 DEF Lock, CommitAssets, Still, bounds, disk
  <2>. QED
    BY <1>1, <1>2, <2>1, ServedGoto DEF RecordsKeepOwner
<1>5. CASE Mark(h) /\ ~Throws(h) /\ ~Fault(h)
  <2>1. /\ rec' = [rec EXCEPT ![th[h].tok] = Record("Registering", 0)]
        /\ Goto(h, "assets") /\ UNCHANGED <<file, db, captures>>
    BY <1>5 DEF Mark, Still, bounds
  <2>2. RecordsKeepOwner
    BY <2>1, Written DEF RecordsKeepOwner, Phases
  <2>. QED
    BY <1>1, <1>2, <2>1, <2>2, ServedGoto
<1>6. CASE InsertScan(h) /\ ~Fault(h)
  <2>. DEFINE c == [th[h] EXCEPT !.pc = "commitRead", !.draft = Record("Committed", Len(db) + 1)]
              x == th[h].tok
  <2>1. /\ th' = [th EXCEPT ![h] = c] /\ UNCHANGED <<file, rec, captures>>
        /\ db' = Append(db, x)
    BY <1>6 DEF InsertScan, bounds, Typed
  <2>2. c.pc = "commitRead" /\ x \in 0..MaxCaptures
    BY DEF Typed, Coroutines
  <2>. HIDE DEF c, x
  <2>3. \A t \in Tokens : Owned(rec, db, t) => Owned(rec', db', t)
    BY <2>1, <2>2, OwnedStays, Written DEF Phases
  <2>4. h[2] \notin Holders /\ InRole(h, c.pc) /\ c.pc # "replace"
    BY <1>1, <1>2, <2>2, ServedRole
  <2>. QED
    BY <2>1, <2>3, <2>4, ServantStep DEF OwnInv
<1>7. CASE CommitRead(h)
  <2>1. /\ UNCHANGED <<file, rec, db, captures>>
        /\ Goto(h, "commitWrite") \/ Goto(h, "unstage")
    BY <1>7 DEF CommitRead, Still, bounds, disk
  <2>. QED
    BY <1>1, <1>2, <2>1, ServedGoto DEF RecordsKeepOwner
<1>8. CASE CommitWrite(h)
  <2>1. \E i \in 1..Len(db) : db[i] = th[h].tok
    BY <1>8 DEF CommitWrite, IInv, GoodCoroutine, Row
  <2>2. /\ rec' = rec \/ rec' = [rec EXCEPT ![th[h].tok] = th[h].draft]
        /\ Goto(h, "unstage") /\ UNCHANGED <<file, db, captures>>
    BY <1>8 DEF CommitWrite
  <2>3. RecordsKeepOwner
    <3>1. \A t \in Tokens : t # th[h].tok => rec'[t] = rec[t]
      BY <2>2 DEF Typed
    <3>. QED
      BY <2>1, <3>1 DEF RecordsKeepOwner
  <2>. QED
    BY <1>1, <1>2, <2>2, <2>3, ServedGoto
<1>9. CASE Unstage(h)
  <2>. DEFINE c == [th[h] EXCEPT !.pc = "savedRead"]
  <2>1. /\ file' = file \/ file' = [file EXCEPT ![th[h].tok] = "none"]
        /\ th' = [th EXCEPT ![h] = c] /\ UNCHANGED <<rec, db, captures>>
    BY <1>9 DEF Unstage, Goto, Typed
  <2>2. c.pc = "savedRead"
    BY DEF Typed, Coroutines
  <2>. HIDE DEF c
  <2>3. /\ \A t \in Tokens : Owned(rec, db, t) => Owned(rec', db', t)
        /\ \A t \in Tokens : file'[t] = "image" => file[t] = "image"
        /\ file' \in [Tokens -> {"none", "reserved", "image"}]
    BY <2>1 DEF OwnInv
  <2>4. h[2] \notin Holders /\ InRole(h, c.pc) /\ c.pc # "replace"
    BY <1>1, <1>2, <2>2, ServedRole
  <2>. QED
    BY <2>1, <2>3, <2>4, ServantStep
<1>. QED
  BY <1>3, <1>4, <1>5, <1>6, <1>7, <1>8, <1>9 DEF Register

\* A coroutine that moves on with its capture.
LEMMA HolderGoto ==
    ASSUME Typed, OwnInv, NEW h \in Threads, Holds(h), NEW p, Goto(h, p),
           UNCHANGED <<file, rec, db, captures>>,
           InRole(h, p),
           p \in Prepared => th[h].pc \in Prepared,
           p \in Unshot => th[h].pc \in Unshot
    PROVE  OwnInv'
<1>. DEFINE c == [th[h] EXCEPT !.pc = p]
<1>1. Becomes(h, c) /\ c.pc = p /\ c.tok = th[h].tok
  BY DEF Goto, Becomes, Typed, Coroutines
<1>. HIDE DEF c
<1>. QED
  BY <1>1, HolderMoves

LEMMA AccountOwn == ASSUME Typed, OwnInv, NEW h \in Threads, Account(h) PROVE OwnInv'
<1>1. th[h].pc \in {"savedRead", "savedReview", "savedWrite", "reportRead", "reportReview", "reportWrite"}
  BY DEF Account, SavedRead, SavedReview, SavedWrite, ReportRead, ReportReview, ReportWrite,
         ReadEntry, ReviewEntry
<1>2. CASE Throws(h) \/ Fault(h)
  BY <1>1, <1>2, FailureOwn
<1>3. CASE ~Throws(h) /\ ~Fault(h)
  <2>1. /\ UNCHANGED <<file, rec, db, captures>>
        /\ \/ \E c : /\ Becomes(h, c) /\ c.tok = th[h].tok
                     /\ \/ th[h].pc = "savedRead" /\ c.pc = "savedReview"
                        \/ th[h].pc = "savedReview" /\ c.pc = "savedWrite"
                        \/ th[h].pc = "reportRead" /\ c.pc = "reportReview"
                        \/ th[h].pc = "reportReview" /\ c.pc = "reportWrite"
           \/ th[h].pc = "savedWrite" /\ Resume(h, At("list", "final", th[h].tok))
           \/ th[h].pc = "reportWrite" /\ h[2] = "worker" /\ Resume(h, At("list", "loop", 0))
           \/ th[h].pc = "reportWrite" /\ h[2] # "worker" /\ Becomes(h, At("discardRead", "none", th[h].tok))
    <3>1. CASE SavedRead(h)
      <4>. DEFINE c == [th[h] EXCEPT !.pc = "savedReview", !.ses = ses]
      <4>1. Becomes(h, c) /\ UNCHANGED <<file, rec, db, captures>> /\ th[h].pc = "savedRead"
        BY <1>3, <3>1 DEF SavedRead, ReadEntry, Becomes, Still, bounds, disk, Typed
      <4>2. c.pc = "savedReview" /\ c.tok = th[h].tok
        BY DEF Typed, Coroutines
      <4>. HIDE DEF c
      <4>. QED
        BY <4>1, <4>2
    <3>2. CASE ReportRead(h)
      <4>. DEFINE c == [th[h] EXCEPT !.pc = "reportReview", !.ses = ses]
      <4>1. Becomes(h, c) /\ UNCHANGED <<file, rec, db, captures>> /\ th[h].pc = "reportRead"
        BY <1>3, <3>2 DEF ReportRead, ReadEntry, Becomes, Still, bounds, disk, Typed
      <4>2. c.pc = "reportReview" /\ c.tok = th[h].tok
        BY DEF Typed, Coroutines
      <4>. HIDE DEF c
      <4>. QED
        BY <4>1, <4>2
    <3>3. ASSUME NEW p, NEW q, NEW e, ReviewEntry(h, p, q, e)
          PROVE  /\ UNCHANGED <<file, rec, db, captures>> /\ th[h].pc = p
                 /\ \E c : Becomes(h, c) /\ c.tok = th[h].tok /\ c.pc = q
      <4>. DEFINE f == [e EXCEPT !.review = TRUE]
                  c == [th[h] EXCEPT !.pc = q, !.ses.entry[th[h].tok] = f]
      <4>. HIDE DEF f
      <4>1. Becomes(h, c) /\ UNCHANGED <<file, rec, db, captures>> /\ th[h].pc = p
        BY <1>3, <3>3 DEF ReviewEntry, Becomes, Still, bounds, disk, Typed, f
      <4>2. c.pc = q /\ c.tok = th[h].tok
        BY DEF Typed, Coroutines
      <4>. HIDE DEF c
      <4>. QED
        BY <4>1, <4>2
    <3>4. CASE SavedReview(h) \/ ReportReview(h)
      BY <3>3, <3>4 DEF SavedReview, ReportReview
    <3>5. CASE SavedWrite(h) \/ ReportWrite(h)
      BY <1>3, <3>5 DEF SavedWrite, ReportWrite, Still, bounds
    <3>. QED
      BY <3>1, <3>2, <3>4, <3>5 DEF Account
  <2>2. {"list", "savedRead", "savedReview", "savedWrite"} \subseteq Served \ {"replace"}
    BY DEF Served, Places, Prepared, Discards, Reports
  <2>3. ASSUME NEW c, Becomes(h, c), c.tok = th[h].tok, c.pc \in {"savedReview", "savedWrite"},
               th[h].pc \in {"savedRead", "savedReview"}
        PROVE  OwnInv'
    BY <2>1, <2>2, <2>3, ServedStep DEF RecordsKeepOwner
  <2>4. CASE th[h].pc = "savedWrite" /\ Resume(h, At("list", "final", th[h].tok))
    BY <2>1, <2>2, <2>4, ServedAt DEF RecordsKeepOwner
  <2>5. h[2] \in Holders /\ th[h].pc \in Reports => Holds(h)
    BY DEF Holds, Reports
  <2>6. ASSUME NEW c, Becomes(h, c), c.tok = th[h].tok, c.pc \in Reports, th[h].pc \in Reports
        PROVE  OwnInv'
    <3>1. InRole(h, c.pc) /\ c.pc \notin Prepared \cup Unshot \cup {"replace"}
      BY <2>6 DEF OwnInv, InRole, Prepared, Discards, Reports, Places, Unshot
    <3>2. CASE h[2] \in Holders
      BY <2>1, <2>5, <2>6, <3>1, <3>2, HolderMoves
    <3>3. CASE h[2] \notin Holders
      BY <2>1, <2>6, <3>1, <3>3, ServantMoves
    <3>. QED
      BY <3>2, <3>3
  <2>7. CASE th[h].pc = "reportWrite" /\ h[2] = "worker" /\ Resume(h, At("list", "loop", 0))
    <3>1. h[2] \notin Holders /\ InRole(h, "list")
      BY <2>7 DEF Holders, InRole, Places, Prepared, Discards, Reports
    <3>. QED
      BY <2>1, <2>7, <3>1, ServantMoves, AtFields
  <2>8. CASE /\ th[h].pc = "reportWrite" /\ h[2] # "worker"
             /\ Becomes(h, At("discardRead", "none", th[h].tok))
    <3>1. h[2] \in Holders /\ InRole(h, "discardRead") /\ Holds(h)
      BY <2>8 DEF OwnInv, Holds, Holders, InRole, Places, Prepared, Discards, Reports
    <3>2. "discardRead" \notin Prepared \cup Unshot
      BY DEF Prepared, Unshot
    <3>. QED
      BY <2>1, <2>8, <3>1, <3>2, HolderMoves, AtFields
  <2>. QED
    BY <2>1, <2>3, <2>4, <2>6, <2>7, <2>8 DEF Reports
<1>. QED
  BY <1>2, <1>3


\* A step of the coroutine that holds capture t, which writes its picture or
\* its record.
LEMMA HolderWrites ==
    ASSUME Typed, OwnInv, NEW h \in Threads, Holds(h), NEW c, NEW t, t = th[h].tok,
           Becomes(h, c) \/ Resume(h, c),
           InRole(h, c.pc), c.pc = "off" \/ c.tok = t,
           UNCHANGED <<db, captures>>,
           NEW f \in {"none", "reserved", "image"},
           file' = file \/ file' = [file EXCEPT ![t] = f],
           NEW r, rec' = rec \/ rec' = [rec EXCEPT ![t] = r],
           file'[t] = "image" => Owned(rec', db', t),
           c.pc \in Prepared => Owned(rec', db', t),
           c.pc \in Unshot => file'[t] # "image"
    PROVE  OwnInv'
<1>1. /\ \A u \in Tokens \ {t} : file'[u] = file[u] /\ rec'[u] = rec[u]
      /\ file' \in [Tokens -> {"none", "reserved", "image"}]
  BY DEF OwnInv, Typed
<1>2. \A u \in Tokens \ {t} : file'[u] = file[u] /\ (Owned(rec, db, u) => Owned(rec', db', u))
  BY <1>1 DEF Owned
<1>3. CASE th' = [th EXCEPT ![h] = c]
  BY <1>1, <1>2, <1>3, HolderStep
<1>4. CASE th' = [th EXCEPT ![h] = Off]
  <2>1. Off.pc = "off" /\ InRole(h, Off.pc) /\ Off.pc \notin Prepared \cup Unshot
    BY OffRole DEF Prepared, Unshot
  <2>. HIDE DEF Off
  <2>. QED
    BY <1>1, <1>2, <1>4, <2>1, HolderStep
<1>. QED
  BY <1>3, <1>4 DEF Becomes, Resume

LEMMA CaptureRole ==
    ASSUME OwnInv, NEW h \in Threads, th[h].pc \in {"begin"} \cup Prepared
    PROVE  /\ h[2] = "capture" /\ Holds(h)
           /\ \A p \in {"begin", "off"} \cup Prepared \cup Discards : InRole(h, p)
<1>1. h[2] = "capture" /\ Holds(h)
  BY DEF OwnInv, InRole, Holds, Holders, Prepared
<1>2. \A p \in {"begin", "off"} \cup Prepared \cup Discards : InRole(h, p)
  BY <1>1 DEF InRole, Holders, Prepared, Discards, Reports, Places
<1>. QED
  BY <1>1, <1>2

LEMMA PrepareOwn == ASSUME Typed, OwnInv, NEW h \in Threads, Prepare(h) PROVE OwnInv'
<1>. DEFINE t == th[h].tok
<1>1. th[h].pc \in {"begin", "name", "queueRead", "queueWrite", "release"}
  BY DEF Prepare, Begin, Name, QueueRead, QueueWrite, Release
<1>2. /\ Holds(h) /\ t \in Tokens
      /\ InRole(h, "name") /\ InRole(h, "queueRead") /\ InRole(h, "queueWrite")
      /\ InRole(h, "release") /\ InRole(h, "pending")
  <2>1. Holds(h) /\ \A p \in Prepared : InRole(h, p)
    BY <1>1, CaptureRole DEF Prepared
  <2>. QED
    BY <2>1 DEF OwnInv, Prepared
<1>3. file[t] # "image" /\ (th[h].pc # "begin" => Owned(rec, db, t))
  BY <1>1 DEF OwnInv, Unshot, Prepared
<1>4. \A p : [th[h] EXCEPT !.pc = p].pc = p /\ [th[h] EXCEPT !.pc = p].tok = t
  BY DEF Typed, Coroutines
<1>5. \A p : Goto(h, p) => Becomes(h, [th[h] EXCEPT !.pc = p])
  BY DEF Goto, Becomes, Typed
<1>6. CASE Throws(h) \/ Fault(h)
  BY <1>1, <1>6, FailureOwn
<1>7. CASE (Begin(h) \/ Name(h)) /\ ~Throws(h) /\ ~Fault(h)
  <2>1. PICK r \in {EmptyRecord, Record("Captured", 0)}, p \in {"name", "queueRead"} :
             /\ rec' = [rec EXCEPT ![t] = r] /\ Goto(h, p) /\ UNCHANGED <<file, db, captures>>
    BY <1>7 DEF Begin, Name, Still, bounds
  <2>2. Owned(rec', db', t)
    <3>1. r # NoRecord
      BY <2>1 DEF EmptyRecord, Record, NoRecord
    <3>. QED
      BY <1>2, <2>1, <3>1 DEF Owned, Typed
  <2>. DEFINE c == [th[h] EXCEPT !.pc = p]
  <2>3. Becomes(h, c) /\ c.pc = p /\ c.tok = t
    BY <1>4, <1>5, <2>1
  <2>. HIDE DEF c, t
  <2>. QED
    BY <1>2, <1>3, <2>1, <2>2, <2>3, HolderWrites DEF t
<1>8. CASE QueueRead(h) /\ ~Throws(h)
  <2>. DEFINE n == [ses EXCEPT !.entry[t].status = "Queued"]
              c == [th[h] EXCEPT !.pc = "queueWrite", !.ses = n]
  <2>. HIDE DEF n
  <2>1. Becomes(h, c) /\ UNCHANGED <<file, rec, db, captures>> /\ th[h].pc = "queueRead"
    BY <1>8 DEF QueueRead, Becomes, Still, bounds, disk, Typed, n
  <2>2. c.pc = "queueWrite" /\ c.tok = t
    BY DEF Typed, Coroutines
  <2>. HIDE DEF c
  <2>. QED
    BY <1>2, <2>1, <2>2, HolderMoves DEF Prepared, Unshot
<1>9. CASE QueueWrite(h) /\ ~Fault(h)
  <2>1. /\ Becomes(h, At("release", "none", t)) /\ UNCHANGED <<file, rec, db, captures>>
        /\ th[h].pc = "queueWrite"
    BY <1>9 DEF QueueWrite, Still, bounds
  <2>2. At("release", "none", t).pc = "release" /\ At("release", "none", t).tok = t
    BY AtFields
  <2>. QED
    BY <1>2, <2>1, <2>2, HolderMoves DEF Prepared, Unshot
<1>10. CASE Release(h) /\ ~Fault(h)
  <2>1. /\ Resume(h, At("pending", "none", t)) /\ file' = [file EXCEPT ![t] = "none"]
        /\ UNCHANGED <<rec, db, captures>> /\ th[h].pc = "release"
    BY <1>10 DEF Release, Still, bounds
  <2>2. At("pending", "none", t).pc = "pending" /\ At("pending", "none", t).tok = t
    BY AtFields
  <2>3. file'[t] = "none" /\ Owned(rec', db', t)
    BY <1>2, <1>3, <2>1 DEF OwnInv
  <2>4. "pending" \notin Unshot
    BY DEF Unshot
  <2>. HIDE DEF t
  <2>. QED
    BY <1>2, <2>1, <2>2, <2>3, <2>4, HolderWrites DEF t
<1>. QED
  BY <1>6, <1>7, <1>8, <1>9, <1>10 DEF Prepare


\* A capture that fails passes from one coroutine to another.
LEMMA FailsOwn ==
    ASSUME Typed, OwnInv, NEW h \in Threads, CaptureFails(h), th[h].pc \in Prepared,
           UNCHANGED captures
    PROVE  OwnInv'
<1>. DEFINE g == Failure(h[1])
            t == th[h].tok
            c == At("reportRead", "none", t)
<1>1. /\ th' = [th EXCEPT ![h] = Off, ![g] = c] /\ th[g] = Off
      /\ UNCHANGED <<file, rec, db, captures>>
  BY DEF CaptureFails, disk
<1>2. h[2] = "capture" /\ Holds(h) /\ t \in Tokens /\ t <= captures
  BY CaptureRole DEF OwnInv
<1>3. g \in Threads /\ g[2] = "failure" /\ g # h
  BY <1>2 DEF Failure, Threads, Roles
<1>4. c.pc = "reportRead" /\ c.tok = t /\ Off.pc = "off"
  BY AtFields DEF Off
<1>. HIDE DEF g, t, c
<1>5. /\ th'[h] = Off /\ th'[g] = c
      /\ \A f \in Threads : f # h /\ f # g => th'[f] = th[f]
  BY <1>1, <1>3 DEF Typed
<1>6. /\ ~Holds(h)' /\ ~Holds(g)
      /\ \A f \in Threads : Holds(f)' /\ f # g => Holds(f) /\ f # h /\ th'[f] = th[f]
  BY <1>1, <1>4, <1>5 DEF Holds
<1>7. /\ InRole(g, "reportRead") /\ InRole(h, "off")
  BY <1>3, OffRole DEF InRole, Holders, Prepared, Discards, Reports, Places
<1>8. \A f \in Threads : InRole(f, th'[f].pc)
  BY <1>4, <1>5, <1>7 DEF OwnInv
<1>9. \A f \in Threads : Holds(f)' => th'[f].tok \in Tokens /\ th'[f].tok <= captures'
  <2>. SUFFICES ASSUME NEW f \in Threads, Holds(f)'
                PROVE  th'[f].tok \in Tokens /\ th'[f].tok <= captures'
    OBVIOUS
  <2>1. CASE f = g
    BY <1>1, <1>2, <1>4, <1>5, <2>1 DEF t
  <2>2. CASE f # g
    BY <1>1, <1>6, <2>2 DEF OwnInv
  <2>. QED
    BY <2>1, <2>2
<1>10. \A e, f \in Threads : Holds(e)' /\ Holds(f)' /\ e # f => th'[e].tok # th'[f].tok
  <2>. SUFFICES ASSUME NEW e \in Threads, NEW f \in Threads, Holds(e)', Holds(f)', e # f
                PROVE  th'[e].tok # th'[f].tok
    OBVIOUS
  <2>1. CASE e # g /\ f # g
    BY <1>6, <2>1 DEF OwnInv
  <2>2. CASE e = g
    BY <1>2, <1>4, <1>5, <1>6, <2>2 DEF OwnInv, t
  <2>3. CASE f = g
    BY <1>2, <1>4, <1>5, <1>6, <2>3 DEF OwnInv, t
  <2>. QED
    BY <2>1, <2>2, <2>3
<1>11. \A f \in Threads : /\ th'[f].pc \in Prepared => Owned(rec', db', th'[f].tok)
                          /\ th'[f].pc \in Unshot => file'[th'[f].tok] # "image"
                          /\ th'[f].pc = "replace" => th'[f].draft # NoRecord
  BY <1>1, <1>4, <1>5 DEF OwnInv, Prepared, Unshot
<1>. QED
  BY <1>1, <1>8, <1>9, <1>10, <1>11 DEF OwnInv

LEMMA ShootOwn == ASSUME Typed, OwnInv, NEW h \in Threads, Shoot(h) PROVE OwnInv'
<1>. DEFINE t == th[h].tok
<1>1. th[h].pc \in {"pending", "shooting"}
  BY DEF Shoot, TakePicture, PictureSaved, PictureLost
<1>2. /\ Holds(h) /\ h[2] = "capture" /\ t \in Tokens /\ Owned(rec, db, t)
      /\ InRole(h, "pending") /\ InRole(h, "shooting") /\ InRole(h, "off")
  <2>1. /\ Holds(h) /\ h[2] = "capture" /\ \A p \in {"off"} \cup Prepared : InRole(h, p)
    BY <1>1, CaptureRole DEF Prepared
  <2>. QED
    BY <1>1, <2>1 DEF OwnInv, Prepared
<1>3. UNCHANGED <<rec, db, captures>>
  BY DEF Shoot, TakePicture, PictureSaved, PictureLost, CaptureFails, Still, disk, bounds
<1>4. CASE CaptureFails(h)
  BY <1>1, <1>3, <1>4, FailsOwn DEF Prepared
<1>5. ASSUME \/ Goto(h, "pending") \/ Goto(h, "shooting") \/ Becomes(h, Off),
             file' = file \/ file' = [file EXCEPT ![t] = "image"]
      PROVE  OwnInv'
  <2>1. PICK c : /\ Becomes(h, c) /\ c.pc \in {"off", "pending", "shooting"}
                 /\ c.pc = "off" \/ c.tok = t
    <3>1. \A p : [th[h] EXCEPT !.pc = p].pc = p /\ [th[h] EXCEPT !.pc = p].tok = t
      BY DEF Typed, Coroutines
    <3>2. \A p : Goto(h, p) => Becomes(h, [th[h] EXCEPT !.pc = p])
      BY DEF Goto, Becomes, Typed
    <3>3. Off.pc = "off"
      BY OffRole
    <3>. HIDE DEF t, Off
    <3>. QED
      BY <1>5, <3>1, <3>2, <3>3
  <2>2. Owned(rec', db', t) /\ InRole(h, c.pc) /\ c.pc \notin Unshot
    BY <1>2, <1>3, <2>1 DEF Unshot
  <2>. HIDE DEF t
  <2>. QED
    BY <1>2, <1>3, <1>5, <2>1, <2>2, HolderWrites DEF t
<1>6. ASSUME PictureSaved(h), h[1] = screen,
             LET w == Worker(h[1]) IN
             th' = [th EXCEPT ![h] = Off,
                 ![w] = IF th[w] = Idle THEN At("list", "loop", 0) ELSE @]
      PROVE  OwnInv'
  <2>. DEFINE w == Worker(h[1])
              e == IF th[w] = Idle THEN At("list", "loop", 0) ELSE th[w]
  <2>1. w # h /\ w[2] = "worker" /\ w \in Threads
    BY <1>2 DEF Worker, Threads, Roles
  <2>2. th' = [[th EXCEPT ![h] = Off] EXCEPT ![w] = e]
    BY <1>6, <2>1 DEF Typed
  <2>3. /\ e.pc = th[w].pc \/ e.pc = "list"
        /\ e.pc = "replace" => e.draft # NoRecord
    BY <2>1, AtFields DEF OwnInv
  <2>4. InRole(w, e.pc)
    <3>1. InRole(w, "list") /\ InRole(w, th[w].pc)
      BY <2>1 DEF OwnInv, InRole, Holders, Prepared, Discards, Reports, Places
    <3>. QED
      BY <2>3, <3>1
  <2>. HIDE DEF w, e
  <2>5. /\ th'[h] = Off /\ th'[w] = e
        /\ \A f \in Threads : f # h /\ f # w => th'[f] = th[f]
    BY <2>1, <2>2 DEF Typed
  <2>6. file' = [file EXCEPT ![t] = "image"]
    BY <1>6 DEF PictureSaved
  <2>7. /\ Off.pc = "off" /\ InRole(h, "off")
    BY OffRole
  <2>8. \A f \in Threads : Holds(f)' => f # h /\ f # w /\ Holds(f) /\ th'[f] = th[f]
    BY <2>1, <2>5, <2>7 DEF Holds, Holders
  <2>9. \A f \in Threads : th'[f].pc \in Prepared \cup Unshot => Holds(f)'
    BY <2>1, <2>4, <2>5, <2>7 DEF Holds, OwnInv, InRole, Holders, Prepared, Unshot, Discards
  <2>10. \A f \in Threads : InRole(f, th'[f].pc)
    BY <2>4, <2>5, <2>7 DEF OwnInv
  <2>11. \A f \in Threads : Holds(f)' => th'[f].tok \in Tokens \ {t} /\ th'[f].tok <= captures'
    BY <1>2, <1>3, <2>8 DEF OwnInv
  <2>12. \A f, g \in Threads : Holds(f)' /\ Holds(g)' /\ f # g => th'[f].tok # th'[g].tok
    BY <2>8 DEF OwnInv
  <2>13. \A u \in Tokens : file'[u] = IF u = t THEN "image" ELSE file[u]
    BY <2>6 DEF OwnInv
  <2>14. \A f \in Threads : /\ th'[f].pc \in Prepared => Owned(rec', db', th'[f].tok)
                            /\ th'[f].pc \in Unshot => file'[th'[f].tok] # "image"
    BY <1>3, <2>8, <2>9, <2>11, <2>13 DEF OwnInv
  <2>15. \A f \in Threads : th'[f].pc = "replace" => th'[f].draft # NoRecord
    BY <2>3, <2>5, <2>7 DEF OwnInv
  <2>16. \A u \in Tokens : file'[u] = "image" => u <= captures' /\ Owned(rec', db', u)
    BY <1>2, <1>3, <2>13 DEF OwnInv
  <2>17. file' \in [Tokens -> {"none", "reserved", "image"}]
    BY <2>6 DEF OwnInv
  <2>. QED
    BY <2>10, <2>11, <2>12, <2>14, <2>15, <2>16, <2>17 DEF OwnInv
<1>. QED
  BY <1>4, <1>5, <1>6 DEF Shoot, TakePicture, PictureSaved, PictureLost, disk


LEMMA DiscardOwn == ASSUME Typed, OwnInv, NEW h \in Threads, Discard(h) PROVE OwnInv'
<1>. DEFINE t == th[h].tok
<1>1. th[h].pc \in Discards
  BY DEF Discard, DiscardRead, DiscardImage, DiscardRecord, Discarded, Discards
<1>2. /\ Holds(h) /\ t \in Tokens /\ InRole(h, "off")
      /\ \A p \in Discards : InRole(h, p)
  <2>1. h[2] \in Holders
    BY <1>1 DEF OwnInv, InRole
  <2>2. Holds(h)
    BY <1>1, <2>1 DEF Holds, Discards
  <2>3. \A p \in Discards : InRole(h, p)
    BY <2>1 DEF InRole, Holders, Prepared, Discards, Reports, Places
  <2>. QED
    BY <2>2, <2>3, OffRole DEF OwnInv
<1>3. \A p : [th[h] EXCEPT !.pc = p].pc = p /\ [th[h] EXCEPT !.pc = p].tok = t
  BY DEF Typed, Coroutines
<1>4. \A p : Goto(h, p) => Becomes(h, [th[h] EXCEPT !.pc = p])
  BY DEF Goto, Becomes, Typed
<1>5. UNCHANGED <<db, captures>>
  BY DEF Discard, DiscardRead, DiscardImage, DiscardRecord, Discarded, Still, bounds, disk
<1>6. CASE DiscardRead(h)
  <2>1. PICK p \in {"discardImage", "discarded"} : Goto(h, p) /\ UNCHANGED <<file, rec>>
    BY <1>6 DEF DiscardRead, disk
  <2>. DEFINE c == [th[h] EXCEPT !.pc = p]
  <2>2. Becomes(h, c) /\ c.pc = p /\ c.tok = t
    BY <1>3, <1>4, <2>1
  <2>3. p \in Discards /\ p \notin Prepared \cup Unshot
    BY <2>1 DEF Discards, Prepared, Unshot
  <2>. HIDE DEF c
  <2>. QED
    BY <1>2, <1>5, <2>1, <2>2, <2>3, HolderMoves
<1>7. CASE DiscardImage(h)
  <2>1. PICK p \in {"discardRecord", "discarded"} :
             Goto(h, p) /\ file' = [file EXCEPT ![t] = "none"] /\ UNCHANGED rec
    BY <1>7 DEF DiscardImage
  <2>. DEFINE c == [th[h] EXCEPT !.pc = p]
  <2>2. Becomes(h, c) /\ c.pc = p /\ c.tok = t
    BY <1>3, <1>4, <2>1
  <2>3. p \in Discards /\ p \notin Prepared
    BY <2>1 DEF Discards, Prepared
  <2>4. file'[t] = "none"
    BY <1>2, <2>1 DEF OwnInv
  <2>. HIDE DEF c, t
  <2>. QED
    BY <1>2, <1>5, <2>1, <2>2, <2>3, <2>4, HolderWrites DEF t
<1>8. CASE DiscardRecord(h)
  <2>1. /\ Goto(h, "discarded") /\ rec' = [rec EXCEPT ![t] = NoRecord] /\ UNCHANGED file
        /\ th[h].pc = "discardRecord"
    BY <1>8 DEF DiscardRecord
  <2>. DEFINE c == [th[h] EXCEPT !.pc = "discarded"]
  <2>2. Becomes(h, c) /\ c.pc = "discarded" /\ c.tok = t
    BY <1>3, <1>4, <2>1
  <2>3. "discarded" \in Discards /\ "discarded" \notin Prepared \cup Unshot
    BY DEF Discards, Prepared, Unshot
  <2>4. file'[t] # "image"
    BY <2>1 DEF OwnInv, Unshot
  <2>. HIDE DEF c, t
  <2>. QED
    BY <1>2, <1>5, <2>1, <2>2, <2>3, <2>4, HolderWrites DEF t
<1>9. CASE Discarded(h)
  <2>1. /\ Becomes(h, Off) /\ UNCHANGED rec
        /\ file' = file \/ (h[2] = "capture" /\ file' = [file EXCEPT ![t] = "none"])
    BY <1>9 DEF Discarded
  <2>2. Off.pc = "off" /\ Off.pc \notin Prepared \cup Unshot
    BY OffRole DEF Prepared, Unshot
  <2>3. file'[t] = "image" => Owned(rec', db', t)
    BY <1>2, <1>5, <2>1 DEF OwnInv
  <2>. HIDE DEF t, Off
  <2>. QED
    BY <1>2, <1>5, <2>1, <2>2, <2>3, HolderWrites DEF t
<1>. QED
  BY <1>6, <1>7, <1>8, <1>9 DEF Discard

\* The record that is acknowledged has its row, or is already gone.
LEMMA CloseOwn == ASSUME IInv, OwnInv, NEW h \in Threads, Close(h) PROVE OwnInv'
<1>. Typed
  BY DEF IInv
<1>1. {"complete", "acknowledge", "read", "closed"} \subseteq Served \ {"replace"}
  BY DEF Served, Places, Prepared, Discards, Reports
<1>2. th[h].pc \in Served
  BY <1>1 DEF Close, Complete, Acknowledge
<1>3. CASE Throws(h) \/ Fault(h)
  BY <1>2, <1>3, ServedFails
<1>4. CASE Complete(h) /\ ~Throws(h) /\ ~Fault(h)
  <2>. DEFINE s == th[h].ses
              d == [s EXCEPT !.done = TRUE]
              todo == {t \in Tokens : s.entry[t].scan # 0}
              c == [th[h] EXCEPT !.pc = "acknowledge", !.ret = "ack", !.ses = d, !.todo = todo]
  <2>1. Becomes(h, c) /\ UNCHANGED <<file, rec, db, captures>>
    BY <1>4 DEF Complete, Becomes, Still, bounds, Typed
  <2>2. c.pc = "acknowledge"
    BY DEF Typed, Coroutines
  <2>. HIDE DEF c
  <2>. QED
    BY <1>1, <1>2, <2>1, <2>2, ServedStep DEF RecordsKeepOwner
<1>5. CASE Acknowledge(h) /\ ~Throws(h)
  <2>. DEFINE t == First(th[h].todo)
              c == [th[h] EXCEPT !.todo = @ \ {t}]
  <2>1. /\ UNCHANGED <<file, db, captures>>
        /\ \/ Resume(h, At("closed", "none", 0)) /\ UNCHANGED rec
           \/ Goto(h, "read") /\ UNCHANGED rec
           \/ /\ Becomes(h, c) /\ th[h].pc = "acknowledge"
              /\ rec' = [rec EXCEPT ![t] = NoRecord]
              /\ rec[t] = NoRecord \/ rec[t] = Record("Committed", th[h].ses.entry[t].scan)
    BY <1>5 DEF Acknowledge, Becomes, Still, bounds, disk, Typed
  <2>2. c.pc = th[h].pc
    BY DEF Typed, Coroutines
  <2>. HIDE DEF c
  <2>3. CASE \/ Resume(h, At("closed", "none", 0)) /\ UNCHANGED rec
             \/ Goto(h, "read") /\ UNCHANGED rec
    BY <1>1, <1>2, <2>1, <2>3, ServedAt, ServedGoto DEF RecordsKeepOwner
  <2>4. CASE /\ Becomes(h, c) /\ th[h].pc = "acknowledge"
             /\ rec' = [rec EXCEPT ![t] = NoRecord]
             /\ rec[t] = NoRecord \/ rec[t] = Record("Committed", th[h].ses.entry[t].scan)
    <3>. HIDE DEF t
    <3>1. RecordsKeepOwner
      <4>1. CASE t \notin Tokens \/ rec[t] = NoRecord
        <5>1. rec' = rec
          BY <2>4, <4>1 DEF Typed
        <5>. QED
          BY <5>1 DEF RecordsKeepOwner
      <4>2. CASE t \in Tokens /\ rec[t] # NoRecord
        <5>1. rec[t].phase = "Committed"
          BY <2>4, <4>2 DEF Record
        <5>2. \E i \in 1..Len(db) : db[i] = t
          BY <4>2, <5>1 DEF IInv, GoodRecord, Row
        <5>. QED
          BY <2>4, <5>2 DEF RecordsKeepOwner
      <4>. QED
        BY <4>1, <4>2
    <3>. QED
      BY <1>1, <1>2, <2>1, <2>2, <2>4, <3>1, ServedStep
  <2>. QED
    BY <2>1, <2>3, <2>4
<1>. QED
  BY <1>3, <1>4, <1>5 DEF Close

\* A capture that starts has a number no coroutine holds and no picture has.
LEMMA RequestOwn == ASSUME Typed, OwnInv, RequestCapture PROVE OwnInv'
<1>. DEFINE h == Capture(screen)
            n == captures + 1
            c == At("begin", "none", n)
<1>1. /\ th' = [th EXCEPT ![h] = c] /\ captures' = n /\ n \in Tokens /\ captures < n
      /\ file' = [file EXCEPT ![n] = "reserved"] /\ UNCHANGED <<rec, db>>
  BY BoundsAssumption DEF RequestCapture, Becomes, Typed, Tokens
<1>2. c.pc = "begin" /\ c.tok = n
  BY AtFields
<1>3. h[2] = "capture"
  BY DEF Capture
<1>4. captures \in Nat
  BY DEF Typed
<1>. HIDE DEF h, c, n
<1>5. /\ \A f \in Threads : f # h => th'[f] = th[f]
      /\ h \in Threads => th'[h] = c
  BY <1>1 DEF Typed
<1>6. InRole(h, "begin")
  BY <1>3 DEF InRole, Holders, Prepared, Discards, Reports, Places
<1>7. \A f \in Threads : InRole(f, th'[f].pc)
  BY <1>2, <1>5, <1>6 DEF OwnInv
<1>8. \A f \in Threads : Holds(f)' /\ f # h => /\ Holds(f) /\ th'[f] = th[f]
                                              /\ th[f].tok \in Tokens \ {n}
                                              /\ th[f].tok <= captures
  BY <1>1, <1>4, <1>5 DEF Holds, OwnInv, Tokens
<1>9. \A f \in Threads : Holds(f)' => th'[f].tok \in Tokens /\ th'[f].tok <= captures'
  <2>. SUFFICES ASSUME NEW f \in Threads, Holds(f)'
                PROVE  th'[f].tok \in Tokens /\ th'[f].tok <= captures'
    OBVIOUS
  <2>1. CASE f = h
    BY <1>1, <1>2, <1>4, <1>5, <2>1 DEF Tokens
  <2>2. CASE f # h
    BY <1>1, <1>4, <1>8, <2>2 DEF Tokens
  <2>. QED
    BY <2>1, <2>2
<1>10. \A f, g \in Threads : Holds(f)' /\ Holds(g)' /\ f # g => th'[f].tok # th'[g].tok
  <2>. SUFFICES ASSUME NEW f \in Threads, NEW g \in Threads, Holds(f)', Holds(g)', f # g
                PROVE  th'[f].tok # th'[g].tok
    OBVIOUS
  <2>1. CASE f = h
    BY <1>2, <1>5, <1>8, <2>1
  <2>2. CASE g = h
    BY <1>2, <1>5, <1>8, <2>2
  <2>3. CASE f # h /\ g # h
    BY <1>8, <2>3 DEF OwnInv
  <2>. QED
    BY <2>1, <2>2, <2>3
<1>11. \A u \in Tokens : file'[u] = IF u = n THEN "reserved" ELSE file[u]
  BY <1>1 DEF OwnInv
<1>12. file' \in [Tokens -> {"none", "reserved", "image"}]
  BY <1>1 DEF OwnInv
<1>13. \A u \in Tokens : file'[u] = "image" => u <= captures' /\ Owned(rec', db', u)
  BY <1>1, <1>4, <1>11 DEF OwnInv, Tokens
<1>14. \A f \in Threads : th'[f].pc \in Prepared \cup Unshot => Holds(f)'
  BY <1>7 DEF Holds, InRole, Holders, Prepared, Unshot, Discards
<1>15. \A f \in Threads : th'[f].pc \in Prepared => Owned(rec', db', th'[f].tok)
  BY <1>1, <1>2, <1>5 DEF OwnInv, Prepared
<1>16. \A f \in Threads : th'[f].pc \in Unshot => file'[th'[f].tok] # "image"
  <2>. SUFFICES ASSUME NEW f \in Threads, th'[f].pc \in Unshot
                PROVE  file'[th'[f].tok] # "image"
    OBVIOUS
  <2>1. CASE f = h
    BY <1>1, <1>2, <1>5, <1>11, <2>1
  <2>2. CASE f # h
    BY <1>5, <1>8, <1>11, <1>14, <2>2 DEF OwnInv
  <2>. QED
    BY <2>1, <2>2
<1>17. \A f \in Threads : th'[f].pc = "replace" => th'[f].draft # NoRecord
  BY <1>2, <1>5 DEF OwnInv
<1>. QED
  BY <1>7, <1>9, <1>10, <1>12, <1>13, <1>15, <1>16, <1>17 DEF OwnInv

LEMMA ScreenOwn ==
    ASSUME Typed, OwnInv, FinishBatch \/ Reopen \/ ProcessDeath
    PROVE  OwnInv'
<1>1. CASE FinishBatch
  <2>. DEFINE h == Finish(screen)
              c == At("list", "complete", 0)
  <2>1. Becomes(h, c) /\ UNCHANGED <<file, rec, db, captures>>
    BY <1>1 DEF FinishBatch, Still, bounds, disk
  <2>2. c.pc = "list" /\ h[2] = "finish"
    BY AtFields DEF Finish
  <2>3. h[2] \notin Holders /\ InRole(h, "list")
    BY <2>2 DEF InRole, Holders, Prepared, Discards, Reports, Places
  <2>. HIDE DEF h, c
  <2>. QED
    BY <2>1, <2>2, <2>3, ServantMoves
<1>2. CASE Reopen
  <2>1. /\ \A h \in Threads : \/ th'[h] = th[h] \/ th'[h] = Off
                              \/ h[2] = "worker" /\ th'[h] = At("list", "start", 0)
        /\ UNCHANGED <<file, rec, db, captures>>
    BY <1>2 DEF Reopen, Worker, disk, bounds
  <2>. QED
    BY <2>1, FreshStart
<1>3. CASE ProcessDeath
  BY <1>3, DiesOwn DEF ProcessDeath, disk, bounds
<1>. QED
  BY <1>1, <1>2, <1>3


LEMMA OwnStep == IInv /\ OwnInv /\ [Next]_vars => OwnInv'
<1>. SUFFICES ASSUME IInv, OwnInv, [Next]_vars PROVE OwnInv'
  OBVIOUS
<1>1. Typed
  BY DEF IInv
<1>2. CASE UNCHANGED vars
  BY <1>2 DEF vars, disk, bounds, OwnInv, Holds, InRole
<1>3. ASSUME NEW h \in Threads,
             \/ Reconcile(h) \/ Process(h) \/ Register(h) \/ Account(h)
             \/ Prepare(h) \/ Shoot(h) \/ Discard(h) \/ Close(h)
      PROVE  OwnInv'
  BY <1>1, <1>3, ReconcileOwn, ProcessOwn, RegisterOwn, AccountOwn, PrepareOwn, ShootOwn,
     DiscardOwn, CloseOwn
<1>4. CASE RequestCapture \/ FinishBatch \/ Reopen \/ ProcessDeath
  BY <1>1, <1>4, RequestOwn, ScreenOwn
<1>. QED
  BY <1>2, <1>3, <1>4 DEF Next

LEMMA OwnInit == Init => OwnInv
<1>. SUFFICES ASSUME Init PROVE OwnInv
  OBVIOUS
<1>1. \A h \in Threads : \/ th[h].pc = "off"
                         \/ th[h].pc = "list" /\ h[2] = "worker"
  BY AtFields DEF Init, Opened, Off, Worker
<1>2. \A h \in Threads : ~Holds(h) /\ InRole(h, th[h].pc)
  BY <1>1 DEF Holds, InRole, Holders, Prepared, Discards, Reports, Places
<1>3. file = [t \in Tokens |-> "none"]
  BY DEF Init
<1>. QED
  BY <1>1, <1>2, <1>3 DEF OwnInv, Prepared, Unshot

LEMMA OwnHolds == Spec => [](IInv /\ OwnInv)
<1>1. Init => OwnInv
  BY OwnInit
<1>. QED
  BY <1>1, OwnStep, InvariantHolds, PTL DEF Spec

\* A picture on disk has an owner: the record through which a restart finds it,
\* or the scan row it became.
THEOREM PicturesAreFound == Spec => []PictureHasOwner
<1>1. OwnInv => PictureHasOwner
  BY SMTT(30) DEF OwnInv, PictureHasOwner, Owned, RowsOf
<1>. QED
  BY <1>1, OwnHolds, PTL

\* Steps that leave the staging files.
LEMMA FilesStay ==
    ASSUME NEW h,
           \/ Throws(h) \/ Fault(h) \/ Reconcile(h) \/ Process(h) \/ Account(h) \/ Close(h)
    PROVE  UNCHANGED file
  BY DEF Throws, Fault, disk, Reconcile, ReconcileList, ReconcileRead, ReconcileLookup,
         ReconcileReplace, ReconcileSettle, Process, Fetch, PreviewRead, PreviewWrite, Authorize,
         Account, SavedRead, SavedReview, SavedWrite, ReportRead, ReportReview, ReportWrite,
         ReadEntry, ReviewEntry, Close, Complete, Acknowledge

\* A picture goes only after its row is committed, or when its capture has been
\* given up: no failure on the way to the row deletes it.
THEOREM PicturesAreKept == Spec => PictureKeptUntilRegistered
<1>. DEFINE Kept == \A t \in Tokens : file[t] = "image" /\ file'[t] # "image" =>
                       RowsOf(t) # {} \/ Discarding(t)
<1>1. IInv /\ OwnInv /\ [Next]_vars => [Kept]_vars
  <2>. SUFFICES ASSUME IInv, OwnInv, Next, NEW u \in Tokens,
                       file[u] = "image", file'[u] # "image"
                PROVE  RowsOf(u) # {} \/ Discarding(u)
    OBVIOUS
  <2>1. ASSUME NEW h \in Threads,
               \/ Reconcile(h) \/ Process(h) \/ Register(h) \/ Account(h)
               \/ Prepare(h) \/ Shoot(h) \/ Discard(h) \/ Close(h)
        PROVE  RowsOf(u) # {} \/ Discarding(u)
    <3>1. ~(Throws(h) \/ Fault(h) \/ Reconcile(h) \/ Process(h) \/ Account(h) \/ Close(h))
      BY FilesStay
    <3>2. CASE Register(h)
      <4>1. th[h].pc = "unstage" /\ u = th[h].tok
        BY <3>1, <3>2 DEF Register, Lock, Mark, CommitAssets, InsertScan, CommitRead,
           CommitWrite, Unstage, disk, OwnInv
      <4>. QED
        BY <4>1 DEF IInv, GoodCoroutine, Row, RowsOf
    <3>3. CASE Prepare(h)
      <4>1. th[h].pc = "release" /\ u = th[h].tok
        BY <3>1, <3>3 DEF Prepare, Begin, Name, QueueRead, QueueWrite, Release, disk, OwnInv
      <4>. QED
        BY <4>1 DEF OwnInv, Unshot
    <3>4. CASE Shoot(h)
      BY <3>4 DEF Shoot, TakePicture, PictureSaved, PictureLost, CaptureFails, disk, OwnInv
    <3>5. CASE Discard(h)
      <4>1. th[h].pc \in {"discardImage", "discarded"} /\ u = th[h].tok
        BY <3>5 DEF Discard, DiscardRead, DiscardImage, DiscardRecord, Discarded, disk, OwnInv
      <4>. QED
        BY <4>1 DEF Discarding
    <3>. QED
      BY <2>1, <3>1, <3>2, <3>3, <3>4, <3>5
  <2>2. CASE RequestCapture
    <3>1. u = captures + 1
      BY <2>2 DEF RequestCapture, OwnInv
    <3>2. u <= captures /\ captures \in Nat
      BY DEF OwnInv, IInv, Typed
    <3>. QED
      BY <3>1, <3>2
  <2>3. CASE FinishBatch \/ Reopen \/ ProcessDeath
    BY <2>3 DEF FinishBatch, Reopen, ProcessDeath, disk
  <2>. QED
    BY <2>1, <2>2, <2>3 DEF Next
<1>. QED
  BY <1>1, OwnHolds, PTL DEF Spec, PictureKeptUntilRegistered

-----------------------------------------------------------------------------
\* A picture is registered once while one screen is open at a time and no I/O
\* operation fails. A registration without a row is then either in the hands of
\* the worker, which holds the mutex, or was interrupted by a death of the
\* process and waits for the start of the next worker, which runs alone.

Clean == reopens = 0 /\ faults = 0

\* Places between the mark of a registration and its row, under the mutex.
Locked == {"marking", "assets", "transaction"}
Marked == {"assets", "transaction"}
\* Places on the way to the row of the capture.
Inserting == {"previewWrite"} \cup Locked
Registers == {"fetch", "previewRead", "previewWrite", "authorize", "lock"} \cup Locked
Reconciles == {"read", "lookup", "replace"}
Reconciling == {"list", "settle"} \cup Reconciles

\* Phases from which a capture can be registered.
Open == {"Captured", "PreviewReady", "Empty"}

HasRow(d, t) == \E i \in 1..Len(d) : d[i] = t
RegisteringIn(r) == {t \in Tokens : r[t].phase = "Registering"}

IsWorker(h) == h[1] = screen /\ h[2] = "worker"

\* The worker of a screen that has just been opened, or that failed to open.
Starting(c) == c.pc \in {"off", "dead"} \/ c.ret = "start"

\* A capture whose record does not hold its phase yet.
Unrecorded(t) ==
    \/ t > captures
    \/ \E h \in Threads : th[h].pc \in {"begin", "name"} /\ th[h].tok = t

\* The worker is between the mark and the row of t.
InHand(t) == \E h \in Threads : th[h].pc \in Marked /\ th[h].tok = t

\* What holds of each coroutine by itself while s is the open screen.
WellPlaced(s, h, c) ==
    /\ h[1] # s => c.pc = "off"
    /\ h[2] = "finish" =>
          c.pc \in {"off", "complete", "acknowledge", "closed"} \cup Reconciling
    /\ h[2] = "finish" /\ c.pc \in Reconciling => c.ret \in {"complete", "ack"}
    /\ c.pc = "acknowledge" => c.ret = "ack"
    /\ c.ret = "start" => h[2] = "worker" /\ c.pc \in Reconciling
    /\ c.pc \in Reconciles => c.todo # {}
    /\ c.pc \in Registers \/ (c.pc \in Reconciling /\ c.ret = "authorize") => c.tok \in Tokens
    /\ c.pc \in {"commitRead", "commitWrite"} => c.draft.phase = "Committed"

MutexHeld == \A h \in Threads : th[h].pc \in Locked => mutex = h

StartsAlone ==
    \A g, h \in Threads : IsWorker(h) /\ g # h /\ Starting(th[h]) => th[g].pc = "off"

\* A worker that starts has still to reconcile all interrupted registrations.
StartReadsAll ==
    \A h \in Threads :
        IsWorker(h) /\ th[h].pc \in Reconciling \ {"list"} /\ th[h].ret = "start" =>
            /\ th[h].todo = RegisteringIn(rec)
            /\ th[h].pc = "settle" => th[h].todo = {}

Interrupted ==
    \A t \in RegisteringIn(rec) :
        \/ HasRow(db, t)
        \/ InHand(t)
        \/ \E h \in Threads : IsWorker(h) /\ Starting(th[h])

\* A registration that is judged has its row, or is in the hands of the worker;
\* only a worker that starts finds none.
JudgedLookup ==
    \A h \in Threads : th[h].pc = "lookup" /\ th[h].ret # "start" =>
        HasRow(db, First(th[h].todo)) \/ InHand(First(th[h].todo))

JudgedDraft(h, c) ==
    \/ c.draft.phase = "Committed"
    \/ /\ c.draft.phase = "PreviewReady" /\ IsWorker(h) /\ c.ret = "start"
       /\ ~HasRow(db, First(c.todo))

JudgedReplace == \A h \in Threads : th[h].pc = "replace" => JudgedDraft(h, th[h])

NoRowYet ==
    \A h \in Threads :
        /\ th[h].pc \in Inserting => ~HasRow(db, th[h].tok)
        /\ th[h].pc \in Marked => rec[th[h].tok].phase \notin Open

Fresh ==
    \A t \in Tokens : Unrecorded(t) =>
        /\ ~HasRow(db, t)
        /\ rec[t].phase \in {"None", "Empty"}
        /\ \A h \in Threads : th[h].pc \in Inserting => th[h].tok # t

OpenHasNoRow == \A t \in Tokens : rec[t].phase \in Open => ~HasRow(db, t)

RowsDiffer == \A i, j \in 1..Len(db) : db[i] = db[j] => i = j

OnceInv ==
    /\ screen \in 1..MaxScreens
    /\ \A h \in Threads : WellPlaced(screen, h, th[h])
    /\ MutexHeld /\ StartsAlone /\ StartReadsAll /\ Interrupted /\ JudgedLookup
    /\ JudgedReplace /\ NoRowYet /\ Fresh /\ OpenHasNoRow /\ RowsDiffer

LEMMA OneWorker == \A g, h \in Threads : IsWorker(g) /\ IsWorker(h) => g = h
  BY DEF IsWorker, Threads

\* No worker is starting.
NoStart == \A h \in Threads : IsWorker(h) => ~Starting(th[h])

\* What the step that leaves coroutine h as c and the records as rec' has to
\* show, when it commits no row.
LEMMA OnceFrame ==
    ASSUME Typed, OnceInv, NEW h \in Threads,
           NEW c, th' = [th EXCEPT ![h] = c], UNCHANGED <<screen, db>>,
           \A t \in Tokens : Unrecorded(t)' => Unrecorded(t),
           WellPlaced(screen, h, c),
           th[h].pc # "off" \/ NoStart,
           mutex' = mutex \/ mutex = h \/ mutex = NoThread,
           c.pc \in Locked => mutex' = h,
           IsWorker(h) /\ Starting(c) => Starting(th[h]),
           IsWorker(h) /\ c.pc \in Reconciling \ {"list"} /\ c.ret = "start" =>
              c.todo = RegisteringIn(rec') /\ (c.pc = "settle" => c.todo = {}),
           th[h].pc \in Marked => c.pc \in Marked /\ c.tok = th[h].tok,
           IsWorker(h) /\ Starting(th[h]) => Starting(c) \/ RegisteringIn(rec') = {},
           \A t \in RegisteringIn(rec') : t \in RegisteringIn(rec) \/ (c.pc \in Marked /\ c.tok = t),
           c.pc = "lookup" /\ c.ret # "start" =>
              HasRow(db, First(c.todo)) \/ InHand(First(c.todo)),
           c.pc = "replace" => JudgedDraft(h, c),
           c.pc \in Inserting => ~HasRow(db, c.tok) /\ ~Unrecorded(c.tok),
           c.pc \in Marked => rec'[c.tok].phase \notin Open,
           \A t \in Tokens : rec'[t].phase \in Open =>
              rec[t].phase \in Open \/ (~HasRow(db, t) /\ ~InHand(t)),
           \A t \in Tokens : Unrecorded(t)' => rec'[t].phase \in {"None", "Empty"}
    PROVE  OnceInv'
<1>1. \A g \in Threads : g # h => th'[g] = th[g]
  BY DEF Typed
<1>2. th'[h] = c
  BY DEF Typed
<1>3. \A g \in Threads : IsWorker(g)' <=> IsWorker(g)
  BY DEF IsWorker
<1>4. \A t : InHand(t) => InHand(t)'
  BY <1>1, <1>2 DEF InHand
<1>5. \A g \in Threads : IsWorker(g) /\ g # h => ~Starting(th[g])
  BY DEF OnceInv, StartsAlone, NoStart
<1>6. \A g \in Threads : WellPlaced(screen, g, th'[g])
  BY <1>1, <1>2 DEF OnceInv
<1>7. MutexHeld'
  <2>1. \A g \in Threads : g # NoThread
    BY DEF Threads, NoThread
  <2>. SUFFICES ASSUME NEW g \in Threads, th'[g].pc \in Locked PROVE mutex' = g
    BY DEF MutexHeld
  <2>2. CASE g = h
    BY <1>2, <2>2
  <2>3. CASE g # h
    BY <1>1, <2>1, <2>3 DEF OnceInv, MutexHeld
  <2>. QED
    BY <2>2, <2>3
<1>8. StartsAlone'
  <2>. SUFFICES ASSUME NEW f \in Threads, NEW g \in Threads,
                       IsWorker(g), f # g, Starting(th'[g])
                PROVE  th'[f].pc = "off"
    BY <1>3 DEF StartsAlone, Starting
  <2>1. g = h /\ Starting(th[g])
    BY <1>1, <1>2, <1>5
  <2>. QED
    BY <1>1, <2>1 DEF OnceInv, StartsAlone
<1>9. StartReadsAll'
  <2>. SUFFICES ASSUME NEW g \in Threads, IsWorker(g),
                       th'[g].pc \in Reconciling \ {"list"}, th'[g].ret = "start"
                PROVE  /\ th'[g].todo = RegisteringIn(rec')
                       /\ th'[g].pc = "settle" => th'[g].todo = {}
    BY <1>3 DEF StartReadsAll, RegisteringIn
  <2>1. CASE g = h
    BY <1>2, <2>1
  <2>2. CASE g # h
    BY <1>1, <1>5, <2>2 DEF Starting
  <2>. QED
    BY <2>1, <2>2
<1>10. Interrupted'
  <2>. SUFFICES ASSUME NEW t \in RegisteringIn(rec'), ~HasRow(db, t), ~InHand(t)'
                PROVE  \E g \in Threads : IsWorker(g) /\ Starting(th'[g])
    BY <1>3 DEF Interrupted, RegisteringIn
  <2>1. t \in RegisteringIn(rec)
    BY <1>2 DEF InHand
  <2>2. PICK g \in Threads : IsWorker(g) /\ Starting(th[g])
    BY <1>4, <2>1 DEF OnceInv, Interrupted
  <2>3. Starting(th'[g])
    BY <1>1, <1>2, <2>2
  <2>. QED
    BY <2>2, <2>3
<1>11. JudgedLookup'
  <2>. SUFFICES ASSUME NEW g \in Threads, th'[g].pc = "lookup", th'[g].ret # "start"
                PROVE  HasRow(db, First(th'[g].todo)) \/ InHand(First(th'[g].todo))
    BY <1>4 DEF JudgedLookup, First
  <2>. QED
    BY <1>1, <1>2 DEF OnceInv, JudgedLookup
<1>12. JudgedReplace'
  <2>. SUFFICES ASSUME NEW g \in Threads, th'[g].pc = "replace"
                PROVE  JudgedDraft(g, th'[g])
    BY <1>3 DEF JudgedReplace, JudgedDraft, IsWorker, First
  <2>. QED
    BY <1>1, <1>2 DEF OnceInv, JudgedReplace
<1>13. NoRowYet'
  <2>. SUFFICES ASSUME NEW g \in Threads
                PROVE  /\ th'[g].pc \in Inserting => ~HasRow(db, th'[g].tok)
                       /\ th'[g].pc \in Marked => rec'[th'[g].tok].phase \notin Open
    BY DEF NoRowYet
  <2>1. CASE g = h
    BY <1>2, <2>1
  <2>2. CASE g # h
    <3>1. th[g].pc \in Inserting => ~HasRow(db, th[g].tok)
      BY DEF OnceInv, NoRowYet
    <3>2. ASSUME th[g].pc \in Marked PROVE rec'[th[g].tok].phase \notin Open
      <4>1. InHand(th[g].tok) /\ rec[th[g].tok].phase \notin Open
        BY <3>2 DEF InHand, OnceInv, NoRowYet
      <4>2. th[g].tok \in Tokens
        BY <3>2 DEF OnceInv, WellPlaced, Registers, Locked, Marked
      <4>. QED
        BY <4>1, <4>2
    <3>. QED
      BY <1>1, <2>2, <3>1, <3>2
  <2>. QED
    BY <2>1, <2>2
<1>14. Fresh'
  <2>. SUFFICES ASSUME NEW t \in Tokens, Unrecorded(t)'
                PROVE  /\ ~HasRow(db, t)
                       /\ rec'[t].phase \in {"None", "Empty"}
                       /\ \A g \in Threads : th'[g].pc \in Inserting => th'[g].tok # t
    BY DEF Fresh
  <2>1. Unrecorded(t)
    OBVIOUS
  <2>. QED
    BY <1>1, <1>2, <2>1 DEF OnceInv, Fresh
<1>15. OpenHasNoRow'
  BY DEF OnceInv, OpenHasNoRow
<1>16. RowsDiffer'
  BY DEF OnceInv, RowsDiffer
<1>. QED
  BY <1>6, <1>7, <1>8, <1>9, <1>10, <1>11, <1>12, <1>13, <1>14, <1>15, <1>16 DEF OnceInv

\* Places about which the invariant says nothing but where they are.
Calm(p) == p \notin {"read", "lookup", "replace", "settle", "begin", "name"} \cup Inserting

\* Coroutines go from one calm place to another; none of them is starting.
LEMMA CalmStep ==
    ASSUME Typed, OnceInv, NoStart, UNCHANGED <<screen, db, rec, mutex>>,
           \A t : Unrecorded(t)' => Unrecorded(t),
           \A g \in Threads :
              \/ th'[g] = th[g]
              \/ /\ Calm(th[g].pc) /\ Calm(th'[g].pc)
                 /\ WellPlaced(screen, g, th'[g])
                 /\ IsWorker(g) => ~Starting(th'[g])
    PROVE  OnceInv'
<1>1. \A g \in Threads : IsWorker(g)' <=> IsWorker(g)
  BY DEF IsWorker
<1>2. \A g \in Threads : th'[g].pc \in Reconciles \cup Inserting \cup {"settle"} => th'[g] = th[g]
  BY DEF Calm, Reconciles
<1>3. \A g \in Threads : th[g].pc \in Reconciles \cup Inserting \cup {"settle"} => th'[g] = th[g]
  BY DEF Calm, Reconciles
<1>4. \A t : InHand(t)' <=> InHand(t)
  BY <1>2, <1>3 DEF InHand, Inserting, Locked, Marked
<1>5. \A g \in Threads : IsWorker(g) => ~Starting(th[g]) /\ ~Starting(th'[g])
  BY DEF NoStart
<1>6. \A g \in Threads : WellPlaced(screen, g, th'[g])
  BY DEF OnceInv
<1>7. MutexHeld' /\ NoRowYet'
  BY <1>2 DEF OnceInv, MutexHeld, NoRowYet, Inserting, Locked, Marked
<1>8. StartsAlone'
  <2>. SUFFICES ASSUME NEW f \in Threads, NEW g \in Threads, IsWorker(g), Starting(th'[g])
                PROVE  FALSE
    BY <1>1 DEF StartsAlone, Starting
  <2>. QED
    BY <1>5
<1>9. StartReadsAll'
  <2>. SUFFICES ASSUME NEW g \in Threads, IsWorker(g), th'[g].ret = "start" PROVE FALSE
    BY <1>1 DEF StartReadsAll, RegisteringIn
  <2>. QED
    BY <1>5 DEF Starting
<1>10. Interrupted'
  <2>. SUFFICES ASSUME NEW t \in RegisteringIn(rec), ~HasRow(db, t), ~InHand(t)
                PROVE  FALSE
    BY <1>4 DEF Interrupted, RegisteringIn
  <2>. QED
    BY <1>5 DEF OnceInv, Interrupted
<1>11. JudgedLookup'
  <2>. SUFFICES ASSUME NEW g \in Threads, th'[g].pc = "lookup", th'[g].ret # "start"
                PROVE  HasRow(db, First(th'[g].todo)) \/ InHand(First(th'[g].todo))
    BY <1>4 DEF JudgedLookup, First
  <2>. QED
    BY <1>2 DEF OnceInv, JudgedLookup, Reconciles
<1>12. JudgedReplace'
  <2>. SUFFICES ASSUME NEW g \in Threads, th'[g].pc = "replace" PROVE JudgedDraft(g, th'[g])
    BY <1>1 DEF JudgedReplace, JudgedDraft, IsWorker, First
  <2>. QED
    BY <1>2 DEF OnceInv, JudgedReplace, Reconciles
<1>13. Fresh'
  BY <1>2 DEF OnceInv, Fresh
<1>14. OpenHasNoRow' /\ RowsDiffer'
  BY DEF OnceInv, OpenHasNoRow, RowsDiffer
<1>. QED
  BY <1>6, <1>7, <1>8, <1>9, <1>10, <1>11, <1>12, <1>13, <1>14 DEF OnceInv

\* A coroutine that does something belongs to the screen.
LEMMA Here ==
    ASSUME OnceInv, NEW h \in Threads, th[h].pc # "off"
    PROVE  /\ h[1] = screen
           /\ \A c : Resume(h, c) => Becomes(h, c)
           /\ h[2] = "worker" <=> IsWorker(h)
  BY DEF OnceInv, WellPlaced, Resume, IsWorker

\* What a step does to the records that gives no capture back to registration
\* and leaves no registration behind.
RecordsKeep ==
    /\ RegisteringIn(rec') \subseteq RegisteringIn(rec)
    /\ \A t \in Tokens : rec'[t].phase \in Open =>
          rec[t].phase \in Open \/ (~HasRow(db, t) /\ ~InHand(t))
    /\ \A t \in Tokens : Unrecorded(t)' => rec'[t].phase \in {"None", "Empty"}

\* A step to a calm place.
LEMMA CalmEnd ==
    ASSUME Typed, OnceInv, NEW h \in Threads, th[h].pc # "off", th[h].pc \notin Marked,
           NEW c, Becomes(h, c), UNCHANGED <<screen, db, captures>>,
           mutex' = mutex \/ mutex = h \/ mutex = NoThread,
           WellPlaced(screen, h, c), Calm(c.pc), c.ret # "start",
           IsWorker(h) /\ Starting(c) => Starting(th[h]),
           IsWorker(h) /\ Starting(th[h]) => Starting(c) \/ RegisteringIn(rec') = {},
           rec' = rec \/ RecordsKeep
    PROVE  OnceInv'
<1>1. th' = [th EXCEPT ![h] = c]
  BY DEF Becomes
<1>2. \A t : Unrecorded(t)' => Unrecorded(t)
  <2>1. \A g \in Threads : th'[g].pc \in {"begin", "name"} => th'[g] = th[g]
    BY <1>1 DEF Calm, Typed
  <2>. QED
    BY <2>1 DEF Unrecorded
<1>3. c.pc \notin Reconciles \cup Inserting \cup {"settle"} \cup Locked \cup Marked
  BY DEF Calm, Reconciles, Inserting, Locked, Marked
<1>4. /\ \A t \in RegisteringIn(rec') : t \in RegisteringIn(rec)
      /\ \A t \in Tokens : rec'[t].phase \in Open =>
            rec[t].phase \in Open \/ (~HasRow(db, t) /\ ~InHand(t))
      /\ \A t \in Tokens : Unrecorded(t)' => rec'[t].phase \in {"None", "Empty"}
  BY <1>2 DEF RecordsKeep, OnceInv, Fresh
<1>5. c.pc \notin {"lookup", "replace"} /\ ~(c.pc \in Reconciling /\ c.ret = "start")
  BY <1>3 DEF Reconciles
<1>. QED
  BY <1>1, <1>2, <1>3, <1>4, <1>5, OnceFrame

\* The process dies: the registration it was in waits for the next worker.
LEMMA DiesOnce ==
    ASSUME Typed, OnceInv, reopens = 0, Dies, UNCHANGED <<rec, db, captures>>
    PROVE  OnceInv'
<1>1. screen' \in 1..MaxScreens
  BY BoundsAssumption DEF OnceInv, Dies, MaxScreens
<1>2. \A h \in Threads :
         /\ \/ th'[h].pc = "off"
            \/ h = Worker(screen') /\ th'[h].pc = "list" /\ th'[h].ret = "start"
         /\ WellPlaced(screen', h, th'[h])
  <2>1. \A h \in Threads : \/ th'[h] = Off
                           \/ h = Worker(screen') /\ th'[h] = At("list", "start", 0)
    BY DEF Dies, Opened
  <2>2. \A h \in Threads : WellPlaced(screen', h, Off)
    BY AtFields DEF WellPlaced, Off, Registers, Locked, Reconciles, Reconciling
  <2>3. WellPlaced(screen', Worker(screen'), At("list", "start", 0))
    BY AtFields DEF WellPlaced, Worker, Registers, Locked, Reconciles, Reconciling
  <2>. QED
    BY <2>1, <2>2, <2>3, AtFields DEF Off
<1>3. Worker(screen') \in Threads
  BY <1>1 DEF Worker, Threads, Roles
<1>4. \A h \in Threads : IsWorker(h)' <=> h = Worker(screen')
  BY DEF IsWorker, Worker, Threads
<1>5. \A t : Unrecorded(t)' => Unrecorded(t)
  BY <1>2 DEF Unrecorded
<1>6. MutexHeld' /\ JudgedLookup' /\ JudgedReplace' /\ NoRowYet' /\ StartReadsAll'
  <2>1. \A h \in Threads : th'[h].pc \in {"off", "list"}
    BY <1>2
  <2>2. MutexHeld' /\ NoRowYet'
    BY <2>1 DEF MutexHeld, NoRowYet, Locked, Inserting, Marked
  <2>3. JudgedLookup' /\ JudgedReplace'
    BY <2>1 DEF JudgedLookup, JudgedReplace
  <2>4. StartReadsAll'
    BY <2>1 DEF StartReadsAll, Reconciling, Reconciles
  <2>. QED
    BY <2>2, <2>3, <2>4
<1>7. StartsAlone' /\ Interrupted'
  BY <1>2, <1>3, <1>4 DEF StartsAlone, Interrupted, Starting
<1>8. Fresh' /\ OpenHasNoRow' /\ RowsDiffer'
  BY <1>2, <1>5 DEF OnceInv, Fresh, OpenHasNoRow, RowsDiffer, Inserting, Locked
<1>. QED
  BY <1>1, <1>2, <1>6, <1>7, <1>8 DEF OnceInv

\* A call that throws outside a registration.
LEMMA ThrowsOnce ==
    ASSUME Typed, OwnInv, OnceInv, reopens = 0, NEW h \in Threads, Throws(h),
           th[h].pc \notin {"off", "dead"}, th[h].pc \notin Marked
    PROVE  OnceInv'
<1>1. UNCHANGED <<rec, db, captures>> /\ Raise(h)
  BY DEF Throws, disk, bounds
<1>2. h[1] = screen /\ (\A c : Resume(h, c) => Becomes(h, c))
  BY Here
<1>3. CASE Dies
  BY <1>1, <1>3, DiesOnce
<1>4. CASE ~Dies
  <2>1. /\ UNCHANGED screen
        /\ mutex' = mutex \/ mutex = h
        /\ \/ h[2] = "capture" /\ Goto(h, "discardRead")
           \/ h[2] \in {"failure", "finish"} /\ Becomes(h, Off)
           \/ h[2] = "worker" /\ th[h].ret = "start" /\ Becomes(h, At("dead", "none", 0))
           \/ /\ h[2] = "worker" /\ th[h].ret # "start"
              /\ Becomes(h, At("reportRead", "none", th[h].tok))
    BY <1>1, <1>2, <1>4 DEF Raise, app, Released
  <2>2. \A c : h[2] # "finish" /\ c.ret # "start" /\ c.pc \in {"discardRead", "off", "dead", "reportRead"} =>
            WellPlaced(screen, h, c) /\ Calm(c.pc)
    BY <1>2 DEF WellPlaced, Calm, Inserting, Registers, Locked, Reconciles, Reconciling
  <2>3. CASE h[2] = "capture" /\ Goto(h, "discardRead")
    <3>. DEFINE c == [th[h] EXCEPT !.pc = "discardRead"]
    <3>1. Becomes(h, c) /\ c.pc = "discardRead" /\ c.ret = th[h].ret
      BY <2>3 DEF Goto, Becomes, Typed, Coroutines
    <3>. HIDE DEF c
    <3>2. c.ret # "start" /\ ~IsWorker(h)
      BY <2>3, <3>1 DEF OnceInv, WellPlaced, IsWorker
    <3>. QED
      BY <1>1, <2>1, <2>2, <2>3, <3>1, <3>2, CalmEnd
  <2>4. CASE h[2] \in {"failure", "finish"} /\ Becomes(h, Off)
    <3>1. Off.pc = "off" /\ Off.ret = "none" /\ ~IsWorker(h)
      BY <2>4, AtFields DEF Off, IsWorker
    <3>. HIDE DEF Off
    <3>2. WellPlaced(screen, h, Off) /\ Calm(Off.pc)
      BY <1>2, <3>1 DEF WellPlaced, Calm, Inserting, Registers, Locked, Reconciles, Reconciling
    <3>. QED
      BY <1>1, <2>1, <2>4, <3>1, <3>2, CalmEnd
  <2>5. CASE h[2] = "worker" /\ th[h].ret = "start" /\ Becomes(h, At("dead", "none", 0))
    <3>. DEFINE c == At("dead", "none", 0)
    <3>1. c.pc = "dead" /\ c.ret = "none"
      BY AtFields
    <3>. HIDE DEF c
    <3>2. Starting(c) /\ Starting(th[h])
      BY <2>5, <3>1 DEF Starting
    <3>. QED
      BY <1>1, <2>1, <2>2, <2>5, <3>1, <3>2, CalmEnd DEF c
  <2>6. CASE /\ h[2] = "worker" /\ th[h].ret # "start"
             /\ Becomes(h, At("reportRead", "none", th[h].tok))
    <3>. DEFINE c == At("reportRead", "none", th[h].tok)
    <3>1. c.pc = "reportRead" /\ c.ret = "none"
      BY AtFields
    <3>. HIDE DEF c
    <3>2. ~Starting(c)
      BY <3>1 DEF Starting
    <3>4. ~Starting(th[h])
      BY <2>6 DEF Starting
    <3>. QED
      BY <1>1, <2>1, <2>2, <2>6, <3>1, <3>2, <3>4, CalmEnd DEF c
  <2>. QED
    BY <2>1, <2>3, <2>4, <2>5, <2>6
<1>. QED
  BY <1>3, <1>4

LEMMA NoFault == ASSUME Clean, Clean', NEW h, Fault(h) PROVE FALSE
  BY DEF Clean, Fault

LEMMA UnrecordedStays ==
    ASSUME Typed, NEW h \in Threads, NEW c, Becomes(h, c), UNCHANGED captures,
           c.pc \in {"begin", "name"} => th[h].pc \in {"begin", "name"} /\ c.tok = th[h].tok
    PROVE  \A t : Unrecorded(t)' => Unrecorded(t)
<1>1. /\ \A g \in Threads : g # h => th'[g] = th[g]
      /\ th'[h] = c
  BY DEF Becomes, Typed
<1>. QED
  BY <1>1 DEF Unrecorded

\* A step of a reconciliation that stays in it and leaves the records.
LEMMA ReconcilingStep ==
    ASSUME Typed, OnceInv, NEW h \in Threads, NEW c, Becomes(h, c),
           UNCHANGED <<mutex, screen, db, captures>>,
           th[h].pc \in Reconciling,
           c.pc \in Reconciling, c.ret = th[h].ret, c.tok = th[h].tok,
           c.pc \in Reconciles => c.todo # {},
           c.pc # "list" /\ c.ret = "start" =>
              c.todo = RegisteringIn(rec') /\ (c.pc = "settle" => c.todo = {}),
           c.pc = "lookup" /\ c.ret # "start" =>
              HasRow(db, First(c.todo)) \/ InHand(First(c.todo)),
           c.pc = "replace" => JudgedDraft(h, c),
           rec' = rec \/ RecordsKeep
    PROVE  OnceInv'
<1>. DEFINE places == {"list", "settle", "read", "lookup", "replace"}
<1>1. th[h].pc \in places /\ c.pc \in places
  BY DEF Reconciling, Reconciles
<1>. HIDE DEF places
<1>2. /\ th[h].pc \notin Marked \cup {"off", "dead"}
      /\ c.pc \notin Marked \cup Inserting \cup Locked \cup {"begin", "name", "off", "dead"}
  BY <1>1 DEF places, Marked, Inserting, Locked
<1>3. th' = [th EXCEPT ![h] = c] /\ \A t : Unrecorded(t)' => Unrecorded(t)
  BY <1>2, UnrecordedStays DEF Becomes
<1>4. Starting(c) <=> Starting(th[h])
  BY <1>2 DEF Starting
<1>5. WellPlaced(screen, h, c)
  <2>1. WellPlaced(screen, h, th[h]) /\ h[1] = screen
    BY <1>2, Here DEF OnceInv
  <2>2. c.pc \notin Registers \cup {"commitRead", "commitWrite", "acknowledge"}
    BY <1>1 DEF places, Registers, Locked
  <2>. QED
    BY <2>1, <2>2 DEF WellPlaced
<1>6. /\ \A t \in RegisteringIn(rec') : t \in RegisteringIn(rec)
      /\ \A t \in Tokens : rec'[t].phase \in Open =>
            rec[t].phase \in Open \/ (~HasRow(db, t) /\ ~InHand(t))
      /\ \A t \in Tokens : Unrecorded(t)' => rec'[t].phase \in {"None", "Empty"}
  BY <1>3 DEF RecordsKeep, OnceInv, Fresh
<1>. QED
  BY <1>2, <1>3, <1>4, <1>5, <1>6, OnceFrame

LEMMA ListOnce ==
    ASSUME Typed, OwnInv, OnceInv, Clean, NEW h \in Threads, ReconcileList(h)
    PROVE  OnceInv'
<1>1. CASE Throws(h)
  <2>1. th[h].pc = "list"
    BY DEF ReconcileList
  <2>2. "list" \notin Marked \cup {"off", "dead"}
    BY DEF Marked
  <2>. QED
    BY <1>1, <2>1, <2>2, ThrowsOnce, SMTT(30) DEF Clean
<1>2. CASE ~Throws(h)
  <2>. DEFINE todo == {t \in Tokens : rec[t].phase = "Registering"}
              c == [th[h] EXCEPT !.pc = IF todo = {} THEN "settle" ELSE "read",
                                 !.ses = ses, !.snap = rec, !.todo = todo]
  <2>1. /\ Becomes(h, c) /\ UNCHANGED <<rec, mutex, screen, db, captures>>
        /\ th[h].pc = "list"
    BY <1>2 DEF ReconcileList, Becomes, Still, bounds, disk, app, Typed
  <2>2. /\ c.pc = IF todo = {} THEN "settle" ELSE "read"
        /\ c.ret = th[h].ret /\ c.tok = th[h].tok /\ c.todo = todo
    BY DEF Typed, Coroutines
  <2>3. todo = RegisteringIn(rec)
    BY DEF RegisteringIn
  <2>. HIDE DEF c, todo
  <2>4. th[h].pc \in Reconciling /\ c.pc \in Reconciling
    BY <2>1, <2>2 DEF Reconciling, Reconciles
  <2>. QED
    BY <2>1, <2>2, <2>3, <2>4, ReconcilingStep DEF Reconciles
<1>. QED
  BY <1>1, <1>2

\* Where a thread goes when the record it reconciles has left Registering.
LEMMA ReconciledOnce ==
    ASSUME Typed, OnceInv, NEW h \in Threads, th[h].pc \in {"read", "replace"},
           NEW t, NEW r, t = First(th[h].todo), Reconciled(h, t, r),
           UNCHANGED <<mutex, screen, db, captures>>,
           th[h].ret = "start" => RegisteringIn(rec') = th[h].todo \ {t},
           rec' = rec \/ RecordsKeep
    PROVE  OnceInv'
<1>1. /\ th[h].pc \in Reconciling /\ th[h].pc \notin Marked \cup {"off", "dead"}
      /\ th[h].todo # {}
  BY DEF Reconciling, Reconciles, Marked, OnceInv, WellPlaced
<1>2. h[1] = screen /\ \A c : Resume(h, c) => Becomes(h, c)
  BY <1>1, Here
<1>3. CASE th[h].ret = "single"
  <2>. DEFINE c == At("list", "final", th[h].tok)
  <2>1. Becomes(h, c)
    BY <1>2, <1>3 DEF Reconciled
  <2>2. c.pc = "list" /\ c.ret = "final"
    BY AtFields
  <2>. HIDE DEF c
  <2>3. h[2] # "finish"
    BY <1>1, <1>3 DEF OnceInv, WellPlaced
  <2>4. WellPlaced(screen, h, c) /\ Calm(c.pc) /\ ~Starting(c) /\ ~Starting(th[h])
    BY <1>1, <1>2, <1>3, <2>2, <2>3 DEF WellPlaced, Calm, Inserting, Registers, Locked, Reconciles,
       Reconciling, Starting
  <2>. QED
    BY <1>1, <2>1, <2>2, <2>4, CalmEnd
<1>4. CASE th[h].ret = "ack"
  <2>. DEFINE c == [th[h] EXCEPT !.pc = "acknowledge"]
  <2>1. Becomes(h, c)
    BY <1>4 DEF Reconciled, Goto, Becomes, Typed
  <2>2. c.pc = "acknowledge" /\ c.ret = "ack"
    BY <1>4 DEF Typed, Coroutines
  <2>. HIDE DEF c
  <2>4. WellPlaced(screen, h, c) /\ Calm(c.pc) /\ ~Starting(c) /\ ~Starting(th[h])
    BY <1>1, <1>2, <1>4, <2>2 DEF WellPlaced, Calm, Inserting, Registers, Locked, Reconciles,
       Reconciling, Starting
  <2>. QED
    BY <1>1, <2>1, <2>2, <2>4, CalmEnd
<1>5. CASE th[h].ret \notin {"single", "ack"}
  <2>. DEFINE p == IF th[h].todo = {t} THEN "settle" ELSE "read"
              c == [th[h] EXCEPT !.pc = p, !.snap[t] = r, !.todo = @ \ {t},
                                 !.draft = NoRecord]
  <2>1. Becomes(h, c)
    BY <1>5 DEF Reconciled, Becomes, Goto, Typed
  <2>2. c.pc = p /\ c.todo = th[h].todo \ {t} /\ c.ret = th[h].ret /\ c.tok = th[h].tok
    BY DEF Typed, Coroutines
  <2>. HIDE DEF c
  <2>3. c.pc \in {"settle", "read"} /\ (c.pc = "settle" <=> c.todo = {})
    <3>1. th[h].todo = {t} => th[h].todo \ {t} = {}
      OBVIOUS
    <3>2. th[h].todo # {t} => th[h].todo \ {t} # {}
      BY <1>1
    <3>. QED
      BY <2>2, <3>1, <3>2
  <2>. HIDE DEF p
  <2>4. c.pc \in Reconciling
    BY <2>3 DEF Reconciling, Reconciles
  <2>. QED
    BY <1>1, <2>1, <2>2, <2>3, <2>4, ReconcilingStep DEF Reconciles
<1>. QED
  BY <1>3, <1>4, <1>5

\* A registration that is found without the storage mutex has its row, or is in
\* the hands of the worker, unless the worker has just started.
LEMMA ReadOnce ==
    ASSUME Typed, OwnInv, OnceInv, Clean, NEW h \in Threads, ReconcileRead(h)
    PROVE  OnceInv'
<1>. DEFINE t == First(th[h].todo)
<1>1. th[h].pc = "read" /\ th[h].pc \in Reconciling \ {"list"}
  BY DEF ReconcileRead, Reconciling, Reconciles
<1>2. th[h].todo # {} /\ th[h].todo \in SUBSET Tokens
  BY <1>1 DEF OnceInv, WellPlaced, Reconciles, Typed, Coroutines
<1>3. t \in th[h].todo
  BY <1>2, FirstIsElement DEF Tokens
<1>4. th[h].ret = "start" => IsWorker(h) /\ th[h].todo = RegisteringIn(rec)
  <2>. SUFFICES ASSUME th[h].ret = "start" PROVE IsWorker(h) /\ th[h].todo = RegisteringIn(rec)
    OBVIOUS
  <2>1. h[2] = "worker"
    BY DEF OnceInv, WellPlaced
  <2>2. IsWorker(h)
    BY <1>1, <2>1, Here
  <2>. QED
    BY <1>1, <2>2 DEF OnceInv, StartReadsAll
<1>5. CASE Throws(h)
  BY <1>1, <1>5, ThrowsOnce DEF Clean, Marked
<1>6. CASE ~Throws(h) /\ rec[t].phase = "Registering"
  <2>. DEFINE c == [th[h] EXCEPT !.pc = "lookup"]
  <2>1. Becomes(h, c) /\ UNCHANGED <<rec, mutex, screen, db, captures>>
    BY <1>6 DEF ReconcileRead, Goto, Becomes, Still, bounds, disk, app, Typed
  <2>2. c.pc = "lookup" /\ c.ret = th[h].ret /\ c.tok = th[h].tok /\ c.todo = th[h].todo
    BY DEF Typed, Coroutines
  <2>. HIDE DEF c
  <2>3. ASSUME th[h].ret # "start" PROVE HasRow(db, t) \/ InHand(t)
    <3>1. t \in RegisteringIn(rec)
      BY <1>2, <1>3, <1>6 DEF RegisteringIn
    <3>2. ASSUME NEW g \in Threads, IsWorker(g), Starting(th[g]) PROVE FALSE
      <4>1. g = h
        BY <1>1, <3>2 DEF OnceInv, StartsAlone
      <4>. QED
        BY <1>1, <2>3, <3>2, <4>1 DEF Starting
    <3>. QED
      BY <3>1, <3>2 DEF OnceInv, Interrupted
  <2>4. c.pc \in Reconciling
    BY <2>2 DEF Reconciling, Reconciles
  <2>. QED
    BY <1>1, <1>2, <1>4, <2>1, <2>2, <2>3, <2>4, ReconcilingStep
<1>7. CASE ~Throws(h) /\ rec[t].phase # "Registering"
  <2>1. Reconciled(h, t, rec[t]) /\ UNCHANGED <<rec, mutex, screen, db, captures>>
    BY <1>7 DEF ReconcileRead, Still, bounds, disk, app
  <2>2. th[h].ret # "start"
    BY <1>3, <1>4, <1>7 DEF RegisteringIn
  <2>. QED
    BY <1>1, <2>1, <2>2, ReconciledOnce
<1>. QED
  BY <1>5, <1>6, <1>7

\* The lookup holds the mutex, so that no registration is in anyone's hands.
LEMMA LookupOnce ==
    ASSUME Typed, OwnInv, OnceInv, Clean, NEW h \in Threads, ReconcileLookup(h)
    PROVE  OnceInv'
<1>. DEFINE t == First(th[h].todo)
<1>1. th[h].pc = "lookup" /\ th[h].pc \in Reconciling \ {"list"}
  BY DEF ReconcileLookup, Reconciling, Reconciles
<1>2. CASE Throws(h)
  BY <1>1, <1>2, ThrowsOnce DEF Clean, Marked
<1>3. CASE ~Throws(h)
  <2>1. PICK d \in IF RowsOf(t) = {} THEN {Record("PreviewReady", 0)}
                   ELSE {Record("Committed", i) : i \in RowsOf(t)} :
             th' = [th EXCEPT ![h].pc = "replace", ![h].draft = d]
    BY <1>3 DEF ReconcileLookup
  <2>. DEFINE c == [th[h] EXCEPT !.pc = "replace", !.draft = d]
  <2>2. Becomes(h, c) /\ MutexFree /\ UNCHANGED <<rec, mutex, screen, db, captures>>
    BY <1>3, <2>1 DEF ReconcileLookup, Becomes, Still, bounds, disk, app, Typed
  <2>3. /\ c.pc = "replace" /\ c.ret = th[h].ret /\ c.tok = th[h].tok
        /\ c.todo = th[h].todo /\ c.draft = d
    BY DEF Typed, Coroutines
  <2>. HIDE DEF c
  <2>4. h[2] = "worker" <=> IsWorker(h)
    BY <1>1, Here
  <2>5. JudgedDraft(h, c)
    <3>1. CASE RowsOf(t) # {}
      BY <2>1, <2>3, <3>1 DEF JudgedDraft, Record
    <3>2. CASE RowsOf(t) = {}
      <4>1. d.phase = "PreviewReady" /\ ~HasRow(db, t)
        BY <2>1, <3>2 DEF Record, RowsOf, HasRow
      <4>2. ~InHand(t)
        <5>1. \A g \in Threads : th[g].pc \notin Locked
          BY <2>2 DEF OnceInv, MutexHeld, MutexFree, Threads, NoThread
        <5>. QED
          BY <5>1 DEF InHand, Marked, Locked
      <4>3. th[h].ret = "start"
        BY <1>1, <4>1, <4>2 DEF OnceInv, JudgedLookup
      <4>4. IsWorker(h)
        BY <2>4, <4>3 DEF OnceInv, WellPlaced
      <4>. QED
        BY <2>3, <4>1, <4>3, <4>4 DEF JudgedDraft
    <3>. QED
      BY <3>1, <3>2
  <2>6. th[h].todo # {}
    BY <1>1 DEF OnceInv, WellPlaced, Reconciles
  <2>7. th[h].ret = "start" => th[h].todo = RegisteringIn(rec)
    BY <1>1, <2>4 DEF OnceInv, WellPlaced, StartReadsAll
  <2>8. c.pc \in Reconciling
    BY <2>3 DEF Reconciling, Reconciles
  <2>. QED
    BY <1>1, <2>2, <2>3, <2>5, <2>6, <2>7, <2>8, ReconcilingStep
<1>. QED
  BY <1>2, <1>3

\* The draft of a reconciliation replaces the record of a registration that has
\* its row, or of one that the worker which has just started found interrupted.
LEMMA ReplaceOnce ==
    ASSUME IInv, OwnInv, OnceInv, Clean, Clean', NEW h \in Threads, ReconcileReplace(h)
    PROVE  OnceInv'
<1>. DEFINE t == First(th[h].todo)
            d == th[h].draft
<1>. Typed
  BY DEF IInv
<1>1. th[h].pc = "replace" /\ th[h].pc \in Reconciling \ {"list"}
  BY DEF ReconcileReplace, Reconciling, Reconciles
<1>2. th[h].todo # {} /\ th[h].todo \in SUBSET Tokens
  BY <1>1 DEF OnceInv, WellPlaced, Reconciles, Typed, Coroutines
<1>3. t \in th[h].todo
  BY <1>2, FirstIsElement DEF Tokens
<1>4. th[h].ret = "start" => IsWorker(h) /\ th[h].todo = RegisteringIn(rec)
  <2>. SUFFICES ASSUME th[h].ret = "start" PROVE IsWorker(h) /\ th[h].todo = RegisteringIn(rec)
    OBVIOUS
  <2>1. h[2] = "worker"
    BY DEF OnceInv, WellPlaced
  <2>2. IsWorker(h)
    BY <1>1, <2>1, Here
  <2>. QED
    BY <1>1, <2>2 DEF OnceInv, StartReadsAll
<1>5. CASE Throws(h)
  BY <1>1, <1>5, ThrowsOnce DEF Clean, Marked
<1>6. CASE ~Throws(h)
  <2>1. /\ rec' = [rec EXCEPT ![t] = d] /\ Reconciled(h, t, d)
        /\ UNCHANGED <<mutex, screen, db, captures>>
    BY <1>6, NoFault DEF ReconcileReplace, Still, bounds, app
  <2>2. JudgedDraft(h, th[h])
    BY <1>1 DEF OnceInv, JudgedReplace
  <2>3. \A u \in Tokens : rec'[u] = IF u = t THEN d ELSE rec[u]
    BY <2>1 DEF Typed
  <2>4. \A u : Unrecorded(u)' => Unrecorded(u)
    <3>1. PICK c : Becomes(h, c) /\ c.pc \notin {"begin", "name"}
      <4>. DEFINE p == IF th[h].todo = {t} THEN "settle" ELSE "read"
                  c == [th[h] EXCEPT !.pc = p, !.snap[t] = d, !.todo = @ \ {t},
                                     !.draft = NoRecord]
                  e == [th[h] EXCEPT !.pc = "acknowledge"]
      <4>1. \/ Resume(h, At("list", "final", th[h].tok))
            \/ Becomes(h, e)
            \/ Becomes(h, c)
        BY <2>1 DEF Reconciled, Becomes, Goto, Typed
      <4>2. c.pc \in {"settle", "read"} /\ e.pc = "acknowledge"
        BY DEF Typed, Coroutines
      <4>. HIDE DEF c, e
      <4>3. \A x : Resume(h, x) => Becomes(h, x)
        BY <1>1, Here
      <4>. QED
        BY <4>1, <4>2, <4>3, AtFields
    <3>. QED
      BY <2>1, <3>1, UnrecordedStays
  <2>5. /\ d.phase \in {"Committed", "PreviewReady"}
        /\ ~Unrecorded(t)
        /\ d.phase = "PreviewReady" => ~HasRow(db, t) /\ ~InHand(t)
    <3>1. CASE d.phase = "Committed"
      <4>1. HasRow(db, t)
        BY <1>1, <3>1 DEF IInv, GoodCoroutine, GoodRecord, Row, HasRow
      <4>. QED
        BY <1>2, <1>3, <3>1, <4>1 DEF OnceInv, Fresh
    <3>2. CASE d.phase # "Committed"
      <4>1. d.phase = "PreviewReady" /\ IsWorker(h) /\ th[h].ret = "start" /\ ~HasRow(db, t)
        BY <2>2, <3>2 DEF JudgedDraft
      <4>2. rec[t].phase = "Registering"
        BY <1>3, <1>4, <4>1 DEF RegisteringIn
      <4>3. \A g \in Threads : th[g].pc \notin Marked
        BY <1>1, <4>1 DEF OnceInv, StartsAlone, Starting, Marked
      <4>. QED
        BY <1>2, <1>3, <4>1, <4>2, <4>3 DEF OnceInv, Fresh, InHand
    <3>. QED
      BY <3>1, <3>2
  <2>. HIDE DEF t, d
  <2>6. RecordsKeep
    <3>1. RegisteringIn(rec') \subseteq RegisteringIn(rec)
      BY <2>3, <2>5 DEF RegisteringIn
    <3>2. \A u \in Tokens : rec'[u].phase \in Open =>
             rec[u].phase \in Open \/ (~HasRow(db, u) /\ ~InHand(u))
      BY <2>3, <2>5 DEF Open
    <3>3. \A u \in Tokens : Unrecorded(u)' => rec'[u].phase \in {"None", "Empty"}
      BY <2>3, <2>4, <2>5 DEF OnceInv, Fresh
    <3>. QED
      BY <3>1, <3>2, <3>3 DEF RecordsKeep
  <2>7. th[h].ret = "start" => RegisteringIn(rec') = th[h].todo \ {t}
    BY <1>2, <1>3, <1>4, <2>3, <2>5 DEF RegisteringIn
  <2>. QED
    BY <1>1, <2>1, <2>6, <2>7, ReconciledOnce DEF t
<1>. QED
  BY <1>5, <1>6

\* Only a worker that has reconciled all interrupted registrations goes on.
LEMMA SettleOnce ==
    ASSUME Typed, OwnInv, OnceInv, Clean, Clean', NEW h \in Threads, ReconcileSettle(h)
    PROVE  OnceInv'
<1>. DEFINE s == Settled(th[h].ses, th[h].snap)
            p == First(Queued(s))
            c == [At(th[h].ret, "none", th[h].tok) EXCEPT !.ses = s]
<1>1. th[h].pc = "settle"
  BY DEF ReconcileSettle
<1>2. /\ UNCHANGED <<rec, mutex, screen, db, captures>>
      /\ \/ th[h].ret \in {"start", "final"} /\ Resume(h, At("list", "loop", 0))
         \/ th[h].ret = "loop" /\ Resume(h, Idle)
         \/ th[h].ret = "loop" /\ Queued(s) # {} /\ Resume(h, At("fetch", "none", p))
         \/ th[h].ret \in {"authorize", "complete"} /\ Becomes(h, c)
  BY NoFault DEF ReconcileSettle, Still, bounds, app
<1>3. c.pc = th[h].ret /\ c.ret = "none" /\ c.tok = th[h].tok
  BY DEF At
<1>4. h[1] = screen /\ (\A x : Resume(h, x) => Becomes(h, x)) /\ (h[2] = "worker" <=> IsWorker(h))
  BY <1>1, Here
<1>5. Queued(s) # {} => p \in Tokens
  BY FirstIsElement DEF Queued, Tokens
<1>6. /\ h[2] = "finish" => th[h].ret \in {"complete", "ack"}
      /\ th[h].ret = "authorize" => th[h].tok \in Tokens
      /\ th[h].ret = "start" => IsWorker(h) /\ RegisteringIn(rec) = {}
  <2>1. WellPlaced(screen, h, th[h]) /\ "settle" \in Reconciling \ {"list"}
    BY DEF OnceInv, Reconciling
  <2>2. th[h].ret = "start" => IsWorker(h)
    BY <1>4, <2>1 DEF WellPlaced
  <2>3. th[h].ret = "start" => RegisteringIn(rec) = {}
    BY <1>1, <2>1, <2>2 DEF OnceInv, StartReadsAll
  <2>. QED
    BY <1>1, <2>1, <2>2, <2>3 DEF WellPlaced
<1>. HIDE DEF c, s, p
<1>7. PICK e : /\ Becomes(h, e) /\ e.ret # "start" /\ ~Starting(e)
               /\ e.pc \in {"list", "idle", "fetch", "authorize", "complete"}
               /\ h[2] = "finish" => e.pc = "complete"
               /\ e.pc = "list" => e.ret = "loop"
               /\ e.pc \in {"fetch", "authorize"} => e.tok \in Tokens
  <2>1. CASE th[h].ret \in {"start", "final"} /\ Resume(h, At("list", "loop", 0))
    BY <1>4, <1>6, <2>1, AtFields DEF Starting
  <2>2. CASE th[h].ret = "loop" /\ Resume(h, Idle)
    BY <1>4, <1>6, <2>2, AtFields DEF Starting, Idle
  <2>3. CASE th[h].ret = "loop" /\ Queued(s) # {} /\ Resume(h, At("fetch", "none", p))
    BY <1>4, <1>5, <1>6, <2>3, AtFields DEF Starting
  <2>4. CASE th[h].ret \in {"authorize", "complete"} /\ Becomes(h, c)
    BY <1>3, <1>4, <1>6, <2>4 DEF Starting
  <2>. QED
    BY <1>2, <2>1, <2>2, <2>3, <2>4
<1>8. WellPlaced(screen, h, e) /\ Calm(e.pc)
  BY <1>4, <1>7 DEF WellPlaced, Calm, Inserting, Registers, Locked, Reconciles, Reconciling
<1>9. th[h].pc \notin Marked \cup {"off", "dead"}
  BY <1>1 DEF Marked
<1>10. IsWorker(h) /\ Starting(th[h]) => RegisteringIn(rec') = {}
  BY <1>2, <1>6, <1>9 DEF Starting
<1>. QED
  BY <1>2, <1>7, <1>8, <1>9, <1>10, CalmEnd

LEMMA ReconcileOnce ==
    ASSUME IInv, OwnInv, OnceInv, Clean, Clean', NEW h \in Threads, Reconcile(h)
    PROVE  OnceInv'
  BY ListOnce, ReadOnce, LookupOnce, ReplaceOnce, SettleOnce DEF Reconcile, IInv

\* Only the worker registers.
LEMMA RegistersRole ==
    ASSUME OwnInv, OnceInv, NEW h \in Threads,
           th[h].pc \in Registers \cup {"commitRead", "commitWrite", "unstage", "savedRead",
                                        "savedReview", "savedWrite"}
    PROVE  /\ IsWorker(h) /\ h[1] = screen /\ h[2] = "worker"
           /\ th[h].ret # "start" /\ ~Starting(th[h])
           /\ th[h].pc \in Registers => th[h].tok \in Tokens
<1>1. th[h].pc \notin {"off", "dead", "closed", "begin", "complete", "acknowledge"} \cup Reconciling
                       \cup Prepared \cup Discards \cup Reports
  BY DEF Registers, Locked, Reconciling, Reconciles, Prepared, Discards, Reports
<1>2. h[2] \notin Holders \cup {"finish"}
  BY <1>1 DEF OnceInv, OwnInv, WellPlaced, InRole
<1>3. h[2] = "worker"
  BY <1>2 DEF Threads, Roles, Holders
<1>4. th[h].ret # "start" /\ (th[h].pc \in Registers => th[h].tok \in Tokens)
  BY <1>1 DEF OnceInv, WellPlaced
<1>. QED
  BY <1>1, <1>3, <1>4, Here DEF Starting

\* A worker that registers moves on to a place that is not under the mutex.
LEMMA RegisterMoves ==
    ASSUME Typed, OwnInv, OnceInv, NEW h \in Threads,
           th[h].pc \in Registers \cup {"commitRead", "commitWrite", "unstage", "savedRead",
                                        "savedReview", "savedWrite"},
           th[h].pc \notin Marked,
           NEW c, Becomes(h, c), UNCHANGED <<mutex, screen, db, captures>>,
           c.pc \in {"list", "previewRead", "lock", "commitWrite", "unstage", "savedRead",
                     "savedReview", "savedWrite"},
           c.pc = "list" => c.ret \in {"authorize", "final"},
           c.pc # "list" => c.ret # "start",
           c.pc \in {"previewRead", "lock", "list"} => c.ret = "final" \/ c.tok \in Tokens,
           c.pc \in {"previewRead", "lock"} => c.tok \in Tokens,
           c.pc = "commitWrite" => c.draft.phase = "Committed",
           rec' = rec \/ RecordsKeep
    PROVE  OnceInv'
<1>1. /\ IsWorker(h) /\ h[1] = screen /\ h[2] = "worker" /\ ~Starting(th[h])
      /\ th[h].pc # "off" /\ c.ret # "start" /\ ~Starting(c)
  BY RegistersRole DEF Starting
<1>2. WellPlaced(screen, h, c) /\ Calm(c.pc)
  BY <1>1 DEF WellPlaced, Calm, Inserting, Registers, Locked, Reconciles, Reconciling
<1>. QED
  BY <1>1, <1>2, CalmEnd

\* The worker goes under the mutex, or comes to the write before it.
LEMMA InsertingStep ==
    ASSUME Typed, OwnInv, OnceInv, NEW h \in Threads, th[h].pc \in Registers,
           NEW p \in Inserting, Goto(h, p), UNCHANGED <<screen, db, captures>>,
           mutex' = mutex \/ mutex = h \/ mutex = NoThread,
           p \in Locked => mutex' = h,
           th[h].pc \in Marked => p \in Marked,
           ~HasRow(db, th[h].tok), ~Unrecorded(th[h].tok),
           p \in Marked => rec'[th[h].tok].phase \notin Open,
           \A t \in Tokens : rec'[t] = rec[t] \/ (p \in Marked /\ t = th[h].tok)
    PROVE  OnceInv'
<1>. DEFINE c == [th[h] EXCEPT !.pc = p]
            t == th[h].tok
<1>1. Becomes(h, c) /\ c.pc = p /\ c.tok = t /\ c.ret = th[h].ret
  BY DEF Goto, Becomes, Typed, Coroutines
<1>. HIDE DEF c
<1>2. /\ IsWorker(h) /\ h[1] = screen /\ h[2] = "worker" /\ ~Starting(th[h])
      /\ c.ret # "start" /\ t \in Tokens
  BY <1>1, RegistersRole
<1>. HIDE DEF t
<1>3. p \notin Reconciling \cup {"off", "dead", "lookup", "replace", "begin", "name", "acknowledge",
                                 "commitRead", "commitWrite"}
  BY DEF Inserting, Locked, Reconciling, Reconciles
<1>4. WellPlaced(screen, h, c) /\ ~Starting(c)
  BY <1>1, <1>2, <1>3 DEF WellPlaced, Starting, Reconciling
<1>5. th' = [th EXCEPT ![h] = c] /\ \A u : Unrecorded(u)' => Unrecorded(u)
  BY <1>1, <1>3, UnrecordedStays DEF Becomes
<1>6. /\ \A u \in RegisteringIn(rec') : u \in RegisteringIn(rec) \/ (c.pc \in Marked /\ c.tok = u)
      /\ \A u \in Tokens : rec'[u].phase \in Open => rec[u].phase \in Open
  BY <1>1 DEF RegisteringIn, t
<1>7. \A u \in Tokens : Unrecorded(u)' => rec'[u].phase \in {"None", "Empty"}
  BY <1>5 DEF OnceInv, Fresh, t
<1>8. th[h].pc # "off"
  BY DEF Registers, Locked
<1>9. /\ c.pc \in Inserting => ~HasRow(db, c.tok) /\ ~Unrecorded(c.tok)
      /\ c.pc \in Marked => rec'[c.tok].phase \notin Open
      /\ th[h].pc \in Marked => c.pc \in Marked /\ c.tok = th[h].tok
      /\ c.pc \in Locked => mutex' = h
  BY <1>1 DEF t
<1>. QED
  BY <1>1, <1>2, <1>3, <1>4, <1>5, <1>6, <1>7, <1>8, <1>9, OnceFrame

LEMMA ProcessOnce ==
    ASSUME IInv, OwnInv, OnceInv, Clean, Clean', NEW h \in Threads, Process(h)
    PROVE  OnceInv'
<1>. DEFINE t == th[h].tok
<1>. Typed
  BY DEF IInv
<1>1. /\ th[h].pc \in {"fetch", "previewRead", "previewWrite", "authorize"}
      /\ th[h].pc \in Registers /\ th[h].pc \notin Marked \cup {"off", "dead"}
  BY DEF Process, Fetch, PreviewRead, PreviewWrite, Authorize, Registers, Marked
<1>2. /\ IsWorker(h) /\ h[1] = screen /\ h[2] = "worker" /\ ~Starting(th[h])
      /\ th[h].ret # "start" /\ t \in Tokens
  BY <1>1, RegistersRole
<1>3. CASE Throws(h)
  BY <1>1, <1>3, ThrowsOnce DEF Clean
<1>4. ~Fault(h)
  BY NoFault
<1>5. rec[t].phase \in {"Captured", "PreviewReady"} => ~HasRow(db, t) /\ ~Unrecorded(t)
  BY <1>2 DEF OnceInv, OpenHasNoRow, Open, Fresh
<1>6. CASE Fetch(h) /\ ~Throws(h)
  <2>. DEFINE c == [th[h] EXCEPT !.pc = "read", !.ret = "single", !.todo = {t}]
  <2>1. /\ UNCHANGED <<rec, mutex, screen, db, captures>>
        /\ \/ Becomes(h, c) \/ Goto(h, "previewRead") \/ Becomes(h, At("list", "authorize", t))
    BY <1>6 DEF Fetch, Becomes, Still, bounds, disk, app, Typed
  <2>2. CASE Becomes(h, c)
    <3>1. c.pc = "read" /\ c.ret = "single" /\ c.todo # {}
      BY DEF Typed, Coroutines
    <3>. HIDE DEF c
    <3>2. WellPlaced(screen, h, c) /\ ~Starting(c) /\ c.pc \notin Locked \cup Marked \cup Inserting
      BY <1>2, <3>1 DEF WellPlaced, Starting, Registers, Locked, Marked, Inserting
    <3>3. \A u : Unrecorded(u)' => Unrecorded(u)
      BY <2>1, <2>2, <3>1, UnrecordedStays
    <3>4. /\ \A u \in RegisteringIn(rec') : u \in RegisteringIn(rec)
          /\ \A u \in Tokens : rec'[u].phase \in Open => rec[u].phase \in Open
          /\ \A u \in Tokens : Unrecorded(u)' => rec'[u].phase \in {"None", "Empty"}
      BY <2>1, <3>3 DEF OnceInv, Fresh
    <3>. QED
      BY <1>1, <1>2, <2>1, <2>2, <3>1, <3>2, <3>3, <3>4, OnceFrame DEF Becomes
  <2>3. CASE Goto(h, "previewRead") \/ Becomes(h, At("list", "authorize", t))
    <3>1. PICK e : /\ Becomes(h, e) /\ e.pc \in {"previewRead", "list"} /\ e.tok \in Tokens
                   /\ e.pc = "list" => e.ret = "authorize"
                   /\ e.pc = "previewRead" => e.ret # "start"
      <4>. DEFINE d == [th[h] EXCEPT !.pc = "previewRead"]
      <4>1. d.pc = "previewRead" /\ d.tok = t /\ d.ret = th[h].ret
        BY DEF Typed, Coroutines
      <4>2. Becomes(h, d) \/ Becomes(h, At("list", "authorize", t))
        BY <2>3 DEF Goto, Becomes, Typed
      <4>. HIDE DEF d, t
      <4>. QED
        BY <1>2, <4>1, <4>2, AtFields
    <3>. QED
      BY <1>1, <2>1, <3>1, RegisterMoves
  <2>. QED
    BY <2>1, <2>2, <2>3
<1>7. CASE PreviewRead(h) /\ ~Throws(h)
  <2>1. /\ Goto(h, "previewWrite") /\ UNCHANGED <<rec, mutex, screen, db, captures>>
        /\ rec[t].phase = "Captured"
    BY <1>7 DEF PreviewRead, Still, bounds, disk, app
  <2>2. "previewWrite" \in Inserting \ (Locked \cup Marked)
    BY DEF Inserting, Locked, Marked
  <2>. QED
    BY <1>1, <1>5, <2>1, <2>2, InsertingStep
<1>8. CASE PreviewWrite(h) /\ ~Throws(h)
  <2>. DEFINE c == At("list", "authorize", t)
  <2>1. /\ rec' = [rec EXCEPT ![t] = Record("PreviewReady", 0)]
        /\ Becomes(h, c) /\ UNCHANGED <<mutex, screen, db, captures>>
        /\ th[h].pc = "previewWrite"
    BY <1>4, <1>8 DEF PreviewWrite, Still, bounds, app
  <2>2. c.pc = "list" /\ c.ret = "authorize" /\ c.tok = t
    BY AtFields
  <2>. HIDE DEF c
  <2>3. /\ \A u \in Tokens : rec'[u] = IF u = t THEN Record("PreviewReady", 0) ELSE rec[u]
        /\ Record("PreviewReady", 0).phase = "PreviewReady"
    BY <2>1 DEF Typed, Record
  <2>4. ~HasRow(db, t) /\ ~Unrecorded(t)
    BY <1>2, <2>1 DEF OnceInv, NoRowYet, Fresh, Inserting
  <2>5. ~InHand(t)
    <3>1. ASSUME NEW g \in Threads, th[g].pc \in Marked PROVE FALSE
      <4>1. IsWorker(g)
        BY <3>1, RegistersRole DEF Registers, Locked, Marked
      <4>. QED
        BY <1>1, <1>2, <3>1, <4>1, OneWorker
    <3>. QED
      BY <3>1 DEF InHand
  <2>. HIDE DEF t
  <2>6. \A u : Unrecorded(u)' => Unrecorded(u)
    BY <2>1, <2>2, UnrecordedStays
  <2>7. RecordsKeep
    BY <2>3, <2>4, <2>5, <2>6 DEF RecordsKeep, RegisteringIn, OnceInv, Fresh
  <2>. QED
    BY <1>1, <1>2, <2>1, <2>2, <2>7, RegisterMoves
<1>9. CASE Authorize(h) /\ ~Throws(h)
  <2>. DEFINE c == At("lock", "none", t)
  <2>1. Becomes(h, c) /\ UNCHANGED <<rec, mutex, screen, db, captures>>
    BY <1>9 DEF Authorize, Still, bounds, disk, app
  <2>2. c.pc = "lock" /\ c.ret = "none" /\ c.tok = t
    BY AtFields
  <2>. HIDE DEF c
  <2>. QED
    BY <1>1, <1>2, <2>1, <2>2, RegisterMoves
<1>. QED
  BY <1>3, <1>6, <1>7, <1>8, <1>9 DEF Process

\* The row of a capture that has none.
LEMMA InsertOnce ==
    ASSUME Typed, OwnInv, OnceInv, NEW h \in Threads, th[h].pc = "transaction",
           NEW c, Becomes(h, c), c.pc = "commitRead", c.ret = th[h].ret, c.tok = th[h].tok,
           c.draft.phase = "Committed",
           db' = Append(db, th[h].tok), mutex' = NoThread, UNCHANGED <<rec, screen, captures>>
    PROVE  OnceInv'
<1>. DEFINE t == th[h].tok
<1>1. /\ \A g \in Threads : g # h => th'[g] = th[g]
      /\ th'[h] = c
  BY DEF Becomes, Typed
<1>2. /\ IsWorker(h) /\ h[1] = screen /\ h[2] = "worker" /\ ~Starting(th[h])
      /\ c.ret # "start" /\ ~Starting(c) /\ t \in Tokens
  BY RegistersRole DEF Registers, Locked, Starting
<1>3. \A g \in Threads : th'[g].pc \notin Inserting \cup Locked \cup Marked
  <2>. SUFFICES ASSUME NEW g \in Threads, g # h, th[g].pc \in Inserting PROVE FALSE
    BY <1>1 DEF Inserting, Locked, Marked
  <2>1. IsWorker(g)
    BY RegistersRole DEF Registers, Inserting
  <2>. QED
    BY <1>2, <2>1, OneWorker
<1>4. ~HasRow(db, t) /\ rec[t].phase \notin Open
  BY DEF OnceInv, NoRowYet, Inserting, Locked, Marked
<1>. HIDE DEF t
<1>5. /\ Len(db') = Len(db) + 1 /\ db'[Len(db) + 1] = t
      /\ \A i \in 1..Len(db) : i \in 1..Len(db') /\ db'[i] = db[i]
      /\ Len(db) \in Nat
  BY DEF Typed, t
<1>6. \A u : HasRow(db', u) <=> HasRow(db, u) \/ u = t
  BY <1>5 DEF HasRow
<1>7. \A u : Unrecorded(u)' => Unrecorded(u)
  BY UnrecordedStays
<1>8. \A g \in Threads : IsWorker(g)' <=> IsWorker(g)
  BY DEF IsWorker
<1>9. \A g \in Threads : IsWorker(g) => ~Starting(th[g]) /\ ~Starting(th'[g])
  BY <1>1, <1>2, OneWorker
<1>10. \A u : InHand(u) => u = t
  <2>. SUFFICES ASSUME NEW g \in Threads, th[g].pc \in Marked PROVE g = h
    BY DEF InHand, t
  <2>1. IsWorker(g)
    BY RegistersRole DEF Registers, Locked, Marked
  <2>. QED
    BY <1>2, <2>1, OneWorker
<1>11. \A g \in Threads : WellPlaced(screen, g, th'[g])
  <2>1. WellPlaced(screen, h, c)
    BY <1>2 DEF WellPlaced, Registers, Locked, Reconciles, Reconciling
  <2>. QED
    BY <1>1, <2>1 DEF OnceInv
<1>12. MutexHeld' /\ NoRowYet'
  BY <1>3 DEF MutexHeld, NoRowYet
<1>13. StartsAlone' /\ StartReadsAll'
  <2>1. \A g \in Threads : IsWorker(g)' => ~Starting(th'[g]) /\ th'[g].ret # "start"
    BY <1>8, <1>9 DEF Starting
  <2>. HIDE DEF IsWorker
  <2>. QED
    BY <2>1 DEF StartsAlone, StartReadsAll, Starting
<1>14. Interrupted'
  <2>. SUFFICES ASSUME NEW u \in RegisteringIn(rec) PROVE HasRow(db', u)
    BY DEF Interrupted, RegisteringIn
  <2>1. HasRow(db, u) \/ InHand(u)
    BY <1>9 DEF OnceInv, Interrupted
  <2>. QED
    BY <1>6, <1>10, <2>1
<1>15. JudgedLookup'
  <2>. SUFFICES ASSUME NEW g \in Threads, th'[g].pc = "lookup", th'[g].ret # "start"
                PROVE  HasRow(db', First(th'[g].todo))
    BY DEF JudgedLookup, First
  <2>1. th'[g] = th[g]
    BY <1>1
  <2>2. HasRow(db, First(th[g].todo)) \/ InHand(First(th[g].todo))
    BY <2>1 DEF OnceInv, JudgedLookup
  <2>. QED
    BY <1>6, <1>10, <2>1, <2>2
<1>16. JudgedReplace'
  <2>. SUFFICES ASSUME NEW g \in Threads, th'[g].pc = "replace"
                PROVE  th'[g].draft.phase = "Committed"
    BY DEF JudgedReplace, JudgedDraft
  <2>1. th'[g] = th[g] /\ th[g].pc = "replace"
    BY <1>1
  <2>. QED
    BY <1>9, <2>1 DEF OnceInv, JudgedReplace, JudgedDraft, Starting
<1>17. Fresh'
  <2>. SUFFICES ASSUME NEW u \in Tokens, Unrecorded(u)
                PROVE  /\ ~HasRow(db', u)
                       /\ rec[u].phase \in {"None", "Empty"}
    BY <1>3, <1>7 DEF Fresh
  <2>1. u # t
    BY DEF OnceInv, Fresh, Inserting, Locked, t
  <2>. QED
    BY <1>6, <2>1 DEF OnceInv, Fresh
<1>18. OpenHasNoRow'
  BY <1>4, <1>6 DEF OnceInv, OpenHasNoRow
<1>19. RowsDiffer'
  <2>. SUFFICES ASSUME NEW i \in 1..Len(db'), NEW j \in 1..Len(db'), db'[i] = db'[j]
                PROVE  i = j
    BY DEF RowsDiffer
  <2>1. CASE i \in 1..Len(db) /\ j \in 1..Len(db)
    BY <1>5, <2>1 DEF OnceInv, RowsDiffer
  <2>2. CASE i = Len(db) + 1 /\ j \in 1..Len(db)
    BY <1>4, <1>5, <2>2 DEF HasRow
  <2>3. CASE j = Len(db) + 1 /\ i \in 1..Len(db)
    BY <1>4, <1>5, <2>3 DEF HasRow
  <2>. QED
    BY <1>5, <2>1, <2>2, <2>3
<1>. QED
  BY <1>11, <1>12, <1>13, <1>14, <1>15, <1>16, <1>17, <1>18, <1>19 DEF OnceInv

LEMMA RegisterOnce ==
    ASSUME IInv, OwnInv, OnceInv, Clean, Clean', NEW h \in Threads, Register(h)
    PROVE  OnceInv'
<1>. DEFINE t == th[h].tok
<1>. Typed
  BY DEF IInv
<1>1. /\ th[h].pc \in {"lock", "marking", "assets", "transaction", "commitRead", "commitWrite", "unstage"}
      /\ th[h].pc \in Registers \cup {"commitRead", "commitWrite", "unstage"}
      /\ th[h].pc \notin {"off", "dead"}
  BY DEF Register, Lock, Mark, CommitAssets, InsertScan, CommitRead, CommitWrite, Unstage,
     Registers, Locked
<1>2. /\ IsWorker(h) /\ h[1] = screen /\ h[2] = "worker" /\ ~Starting(th[h])
      /\ th[h].ret # "start" /\ (th[h].pc \in Registers => t \in Tokens)
  BY <1>1, RegistersRole
<1>3. CASE Throws(h) /\ (Lock(h) \/ Mark(h))
  <2>1. th[h].pc \notin Marked
    BY <1>3 DEF Lock, Mark, Marked
  <2>. QED
    BY <1>1, <1>3, <2>1, ThrowsOnce DEF Clean
<1>4. ~Fault(h)
  BY NoFault
<1>5. CASE Lock(h) /\ ~Throws(h)
  <2>1. /\ Goto(h, "marking") /\ mutex' = h /\ UNCHANGED <<rec, screen, db, captures>>
        /\ mutex = NoThread /\ rec[t].phase = "PreviewReady" /\ th[h].pc = "lock"
    BY <1>5 DEF Lock, bounds, disk, app, MutexFree
  <2>2. "marking" \in Inserting \ Marked /\ "lock" \in Registers \ Marked
    BY DEF Inserting, Locked, Marked, Registers
  <2>3. ~HasRow(db, t) /\ ~Unrecorded(t)
    BY <1>2, <2>1, <2>2 DEF OnceInv, OpenHasNoRow, Open, Fresh
  <2>. QED
    BY <2>1, <2>2, <2>3, InsertingStep
<1>6. CASE Mark(h) /\ ~Throws(h)
  <2>1. /\ rec' = [rec EXCEPT ![t] = Record("Registering", 0)]
        /\ Goto(h, "assets") /\ UNCHANGED <<mutex, screen, db, captures>> /\ th[h].pc = "marking"
    BY <1>4, <1>6 DEF Mark, Still, bounds, app
  <2>2. "assets" \in Inserting \cap Locked \cap Marked /\ "marking" \in Registers \ Marked
    BY DEF Inserting, Locked, Marked, Registers
  <2>3. ~HasRow(db, t) /\ ~Unrecorded(t) /\ mutex = h
    BY <1>2, <2>1, <2>2 DEF OnceInv, NoRowYet, Fresh, Inserting, Locked, MutexHeld
  <2>4. /\ rec'[t].phase \notin Open
        /\ \A u \in Tokens : u # t => rec'[u] = rec[u]
    BY <1>2, <2>1, <2>2 DEF Typed, Record, Open
  <2>. QED
    BY <2>1, <2>2, <2>3, <2>4, InsertingStep
<1>7. CASE CommitAssets(h)
  <2>1. /\ Goto(h, "transaction") /\ UNCHANGED <<rec, mutex, screen, db, captures>>
        /\ th[h].pc = "assets"
    BY <1>4, <1>7 DEF CommitAssets, Still, bounds, disk, app
  <2>2. {"assets", "transaction"} \subseteq Inserting \cap Locked \cap Marked /\ "assets" \in Registers
    BY DEF Inserting, Locked, Marked, Registers
  <2>3. ~HasRow(db, t) /\ ~Unrecorded(t) /\ mutex = h /\ rec[t].phase \notin Open
    BY <1>2, <2>1, <2>2 DEF OnceInv, NoRowYet, Fresh, MutexHeld
  <2>. QED
    BY <2>1, <2>2, <2>3, InsertingStep
<1>8. CASE InsertScan(h)
  <2>. DEFINE c == [th[h] EXCEPT !.pc = "commitRead", !.draft = Record("Committed", Len(db) + 1)]
  <2>1. /\ Becomes(h, c) /\ UNCHANGED <<rec, screen, captures>> /\ th[h].pc = "transaction"
        /\ db' = Append(db, t) /\ mutex' = NoThread
    BY <1>4, <1>8 DEF InsertScan, Becomes, bounds, app, Typed
  <2>2. c.pc = "commitRead" /\ c.ret = th[h].ret /\ c.tok = t /\ c.draft.phase = "Committed"
    BY DEF Typed, Coroutines, Record
  <2>. HIDE DEF c
  <2>. QED
    BY <2>1, <2>2, InsertOnce
<1>9. CASE CommitRead(h) \/ CommitWrite(h) \/ Unstage(h)
  <2>1. PICK p : /\ Goto(h, p) /\ UNCHANGED <<mutex, screen, db, captures>>
                 /\ p \in {"commitWrite", "unstage", "savedRead"}
                 /\ p = "commitWrite" => th[h].pc = "commitRead"
    <3>1. CASE CommitRead(h)
      BY <3>1 DEF CommitRead, Still, bounds, disk, app
    <3>2. CASE CommitWrite(h)
      BY <3>2 DEF CommitWrite, bounds, disk, app
    <3>3. CASE Unstage(h)
      BY <3>3 DEF Unstage, bounds, disk, app
    <3>. QED
      BY <1>9, <3>1, <3>2, <3>3
  <2>. DEFINE c == [th[h] EXCEPT !.pc = p]
  <2>2. Becomes(h, c) /\ c.pc = p /\ c.ret = th[h].ret /\ c.draft = th[h].draft
    BY <2>1 DEF Goto, Becomes, Typed, Coroutines
  <2>. HIDE DEF c
  <2>3. \A u : Unrecorded(u)' => Unrecorded(u)
    BY <2>1, <2>2, UnrecordedStays
  <2>4. rec' = rec \/ RecordsKeep
    <3>1. CASE CommitWrite(h) /\ rec' # rec
      <4>1. rec' = [rec EXCEPT ![t] = th[h].draft] /\ th[h].pc = "commitWrite"
        BY <3>1 DEF CommitWrite
      <4>2. th[h].draft.phase = "Committed" /\ HasRow(db, t)
        BY <4>1 DEF OnceInv, WellPlaced, IInv, GoodCoroutine, Row, HasRow
      <4>3. \A u \in Tokens : rec'[u] = IF u = t THEN th[h].draft ELSE rec[u]
        BY <4>1 DEF Typed
      <4>. HIDE DEF t
      <4>4. t \in Tokens => ~Unrecorded(t)
        BY <4>2 DEF OnceInv, Fresh
      <4>. QED
        BY <2>3, <4>2, <4>3, <4>4 DEF RecordsKeep, RegisteringIn, Open, OnceInv, Fresh
    <3>. QED
      BY <1>9, <3>1 DEF CommitRead, Unstage, disk
  <2>5. th[h].pc \in {"commitRead", "commitWrite", "unstage"}
    BY <1>9 DEF CommitRead, CommitWrite, Unstage
  <2>6. p = "commitWrite" => c.draft.phase = "Committed"
    BY <2>1, <2>2 DEF OnceInv, WellPlaced
  <2>7. th[h].pc \notin Marked
    BY <2>5 DEF Marked
  <2>. QED
    BY <1>2, <2>1, <2>2, <2>4, <2>5, <2>6, <2>7, RegisterMoves
<1>. QED
  BY <1>3, <1>5, <1>6, <1>7, <1>8, <1>9 DEF Register

\* A step outside reconciliation and registration.
LEMMA BusyMoves ==
    ASSUME Typed, OnceInv, NEW h \in Threads,
           th[h].pc \notin Reconciling \cup Marked \cup {"off", "dead"},
           NEW c, Becomes(h, c), UNCHANGED <<mutex, screen, db, captures>>,
           c.pc \in {"list", "savedReview", "savedWrite", "acknowledge", "closed",
                     "queueRead", "queueWrite", "release", "pending", "shooting", "off"}
                    \cup Reports \cup Discards,
           c.ret # "start",
           h[2] = "worker" => c.pc # "off",
           h[2] = "finish" => c.pc \in {"acknowledge", "closed", "off"},
           c.pc = "acknowledge" => c.ret = "ack",
           c.pc = "list" => c.ret \in {"loop", "final"},
           rec' = rec \/ RecordsKeep
    PROVE  OnceInv'
<1>1. h[1] = screen /\ (h[2] = "worker" <=> IsWorker(h)) /\ ~Starting(th[h])
  <2>1. th[h].ret # "start"
    BY DEF OnceInv, WellPlaced
  <2>. QED
    BY <2>1, Here DEF Starting
<1>2. IsWorker(h) => ~Starting(c)
  BY <1>1 DEF Starting, Reports, Discards
<1>3. WellPlaced(screen, h, c) /\ Calm(c.pc)
  BY <1>1 DEF WellPlaced, Calm, Inserting, Registers, Locked, Reconciles, Reconciling, Reports,
     Discards
<1>. QED
  BY <1>1, <1>2, <1>3, CalmEnd

LEMMA AccountOnce ==
    ASSUME Typed, OwnInv, OnceInv, Clean, Clean', NEW h \in Threads, Account(h)
    PROVE  OnceInv'
<1>1. th[h].pc \in {"savedRead", "savedReview", "savedWrite", "reportRead", "reportReview", "reportWrite"}
  BY DEF Account, SavedRead, SavedReview, SavedWrite, ReportRead, ReportReview, ReportWrite,
         ReadEntry, ReviewEntry
<1>2. th[h].pc \notin Reconciling \cup Marked \cup {"off", "dead"}
  BY <1>1 DEF Reconciling, Reconciles, Marked
<1>3. CASE Throws(h)
  BY <1>2, <1>3, ThrowsOnce DEF Clean
<1>4. CASE ~Throws(h)
  <2>1. /\ ~Fault(h) /\ h[2] \in {"worker", "failure"}
        /\ th[h].ret # "start" /\ (\A x : Resume(h, x) => Becomes(h, x))
    <3>1. h[2] # "finish" /\ th[h].ret # "start"
      BY <1>1, <1>2 DEF OnceInv, WellPlaced
    <3>2. h[2] # "capture"
      BY <1>1 DEF OwnInv, InRole, Reports, Holders, Prepared, Discards
    <3>. QED
      BY <1>2, <3>1, <3>2, NoFault, Here DEF Threads, Roles
  <2>2. ASSUME NEW p, NEW q, NEW x, ReadEntry(h, p, q, x)
        PROVE  /\ UNCHANGED <<rec, mutex, screen, db, captures>>
               /\ \E c : Becomes(h, c) /\ c.pc = q /\ c.ret = th[h].ret
    <3>. DEFINE c == [th[h] EXCEPT !.pc = q, !.ses = ses]
    <3>1. Becomes(h, c) /\ UNCHANGED <<rec, mutex, screen, db, captures>>
      BY <1>4, <2>2 DEF ReadEntry, Becomes, Still, bounds, disk, app, Typed
    <3>2. c.pc = q /\ c.ret = th[h].ret
      BY DEF Typed, Coroutines
    <3>. HIDE DEF c
    <3>. QED
      BY <3>1, <3>2
  <2>3. ASSUME NEW p, NEW q, NEW e, ReviewEntry(h, p, q, e)
        PROVE  /\ UNCHANGED <<rec, mutex, screen, db, captures>>
               /\ \E c : Becomes(h, c) /\ c.pc = q /\ c.ret = th[h].ret
    <3>. DEFINE f == [e EXCEPT !.review = TRUE]
                c == [th[h] EXCEPT !.pc = q, !.ses.entry[th[h].tok] = f]
    <3>. HIDE DEF f
    <3>1. Becomes(h, c) /\ UNCHANGED <<rec, mutex, screen, db, captures>>
      BY <2>1, <2>3 DEF ReviewEntry, Becomes, Still, bounds, disk, app, Typed, f
    <3>2. c.pc = q /\ c.ret = th[h].ret
      BY DEF Typed, Coroutines
    <3>. HIDE DEF c
    <3>. QED
      BY <3>1, <3>2
  <2>4. /\ UNCHANGED <<rec, mutex, screen, db, captures>>
        /\ \E c : /\ Becomes(h, c) /\ c.ret # "start"
                  /\ c.pc \in {"list", "savedReview", "savedWrite", "reportReview", "reportWrite",
                               "discardRead"}
                  /\ c.pc = "list" => c.ret \in {"loop", "final"}
    <3>1. CASE SavedRead(h) \/ ReportRead(h)
      BY <2>1, <2>2, <3>1 DEF SavedRead, ReportRead
    <3>2. CASE SavedReview(h) \/ ReportReview(h)
      BY <2>1, <2>3, <3>2 DEF SavedReview, ReportReview
    <3>3. CASE SavedWrite(h) \/ ReportWrite(h)
      <4>1. /\ UNCHANGED <<rec, mutex, screen, db, captures>>
            /\ \E p \in {"list", "discardRead"}, r \in {"final", "loop", "none"} :
                  /\ Becomes(h, At(p, r, th[h].tok)) \/ Becomes(h, At(p, r, 0))
                  /\ p = "list" => r \in {"loop", "final"}
        BY <2>1, <3>3 DEF SavedWrite, ReportWrite, Still, bounds, app
      <4>. QED
        BY <4>1, AtFields
    <3>. QED
      BY <3>1, <3>2, <3>3 DEF Account
  <2>. QED
    BY <1>2, <2>1, <2>4, BusyMoves DEF Reports, Discards
<1>. QED
  BY <1>3, <1>4

LEMMA PrepareOnce ==
    ASSUME Typed, OwnInv, OnceInv, Clean, Clean', NEW h \in Threads, Prepare(h)
    PROVE  OnceInv'
<1>. DEFINE t == th[h].tok
<1>1. th[h].pc \in {"begin", "name", "queueRead", "queueWrite", "release"}
  BY DEF Prepare, Begin, Name, QueueRead, QueueWrite, Release
<1>2. th[h].pc \notin Reconciling \cup Marked \cup {"off", "dead"}
  BY <1>1 DEF Reconciling, Reconciles, Marked
<1>3. CASE Throws(h)
  BY <1>2, <1>3, ThrowsOnce DEF Clean
<1>4. /\ ~Fault(h) /\ h[1] = screen /\ h[2] = "capture" /\ Holds(h) /\ t \in Tokens /\ t <= captures
      /\ th[h].ret # "start" /\ (\A x : Resume(h, x) => Becomes(h, x)) /\ ~IsWorker(h)
  <2>1. h[2] = "capture" /\ Holds(h)
    BY <1>1, CaptureRole DEF Prepared
  <2>2. th[h].ret # "start"
    BY <1>2 DEF OnceInv, WellPlaced
  <2>. QED
    BY <1>2, <2>1, <2>2, NoFault, Here DEF OwnInv, IsWorker
<1>5. \A p : Goto(h, p) => \E c : Becomes(h, c) /\ c.pc = p /\ c.ret = th[h].ret /\ c.tok = t
  <2>. SUFFICES ASSUME NEW p, Goto(h, p)
                PROVE  \E c : Becomes(h, c) /\ c.pc = p /\ c.ret = th[h].ret /\ c.tok = t
    OBVIOUS
  <2>. DEFINE c == [th[h] EXCEPT !.pc = p]
  <2>1. Becomes(h, c)
    BY DEF Goto, Becomes, Typed
  <2>2. c.pc = p /\ c.ret = th[h].ret /\ c.tok = t
    BY DEF Typed, Coroutines
  <2>. HIDE DEF c, t
  <2>. QED
    BY <2>1, <2>2
<1>6. th[h].pc \in {"begin", "name"} =>
         ~HasRow(db, t) /\ ~InHand(t) /\ rec[t].phase \in {"None", "Empty"}
  BY <1>4 DEF OnceInv, Fresh, Unrecorded, InHand, Inserting, Locked, Marked
<1>7. CASE Begin(h) /\ ~Throws(h)
  <2>1. /\ Goto(h, "name") /\ th[h].pc = "begin" /\ rec' = [rec EXCEPT ![t] = EmptyRecord]
        /\ UNCHANGED <<mutex, screen, db, captures>>
    BY <1>4, <1>7 DEF Begin, Still, bounds, app
  <2>2. PICK c : Becomes(h, c) /\ c.pc = "name" /\ c.ret = th[h].ret /\ c.tok = t
    BY <1>5, <2>1
  <2>3. \A u : Unrecorded(u)' => Unrecorded(u)
    BY <2>1, <2>2, UnrecordedStays
  <2>4. \A u \in Tokens : /\ u # t => rec'[u] = rec[u]
                          /\ u = t => rec'[u].phase = "Empty"
    BY <2>1 DEF Typed, EmptyRecord, Record
  <2>. HIDE DEF t
  <2>5. RegisteringIn(rec') \subseteq RegisteringIn(rec)
    BY <2>4 DEF RegisteringIn
  <2>6. \A u \in Tokens : rec'[u].phase \in Open =>
           rec[u].phase \in Open \/ (~HasRow(db, u) /\ ~InHand(u))
    BY <1>6, <2>1, <2>4
  <2>7. \A u \in Tokens : Unrecorded(u)' => rec'[u].phase \in {"None", "Empty"}
    BY <2>3, <2>4 DEF OnceInv, Fresh
  <2>8. /\ WellPlaced(screen, h, c)
        /\ c.pc \notin Locked \cup Inserting \cup Marked \cup Reconciling
    BY <1>4, <2>2 DEF WellPlaced, Registers, Locked, Inserting, Marked, Reconciles, Reconciling
  <2>. QED
    BY <1>2, <1>4, <2>1, <2>2, <2>3, <2>5, <2>6, <2>7, <2>8, OnceFrame DEF Becomes
<1>8. CASE Name(h)
  <2>1. /\ Goto(h, "queueRead") /\ th[h].pc = "name" /\ rec' = [rec EXCEPT ![t] = Record("Captured", 0)]
        /\ UNCHANGED <<mutex, screen, db, captures>>
    BY <1>8 DEF Name, Still, bounds, app
  <2>2. PICK c : Becomes(h, c) /\ c.pc = "queueRead" /\ c.ret = th[h].ret /\ c.tok = t
    BY <1>5, <2>1
  <2>3. \A u : Unrecorded(u)' => Unrecorded(u)
    BY <2>1, <2>2, UnrecordedStays
  <2>4. ASSUME NEW u, u = t PROVE ~Unrecorded(u)'
    <3>1. \A g \in Threads : g # h => th'[g] = th[g]
      BY <2>2 DEF Becomes, Typed
    <3>2. th'[h].pc = "queueRead"
      BY <2>2 DEF Becomes, Typed
    <3>3. ASSUME NEW g \in Threads, th[g].pc \in {"begin", "name"}, g # h PROVE th[g].tok # t
      <4>1. Holds(g)
        BY <3>3, CaptureRole DEF Prepared
      <4>. QED
        BY <1>4, <3>3, <4>1 DEF OwnInv
    <3>4. ~(u > captures)
      BY <1>4, <2>4 DEF Typed, Tokens
    <3>. HIDE DEF t
    <3>. QED
      BY <2>1, <2>4, <3>1, <3>2, <3>3, <3>4 DEF Unrecorded
  <2>5. \A u \in Tokens : /\ u # t => rec'[u] = rec[u]
                          /\ u = t => rec'[u].phase = "Captured"
    BY <2>1 DEF Typed, Record
  <2>. HIDE DEF t
  <2>6. RecordsKeep
    <3>1. RegisteringIn(rec') \subseteq RegisteringIn(rec)
      BY <2>5 DEF RegisteringIn
    <3>2. \A u \in Tokens : rec'[u].phase \in Open =>
             rec[u].phase \in Open \/ (~HasRow(db, u) /\ ~InHand(u))
      BY <1>6, <2>1, <2>5
    <3>3. \A u \in Tokens : Unrecorded(u)' => rec'[u].phase \in {"None", "Empty"}
      BY <2>3, <2>4, <2>5 DEF OnceInv, Fresh
    <3>. QED
      BY <3>1, <3>2, <3>3 DEF RecordsKeep
  <2>. QED
    BY <1>2, <1>4, <2>1, <2>2, <2>6, BusyMoves
<1>9. CASE QueueRead(h) /\ ~Throws(h)
  <2>. DEFINE n == [ses EXCEPT !.entry[t].status = "Queued"]
              c == [th[h] EXCEPT !.pc = "queueWrite", !.ses = n]
  <2>. HIDE DEF n
  <2>1. Becomes(h, c) /\ UNCHANGED <<rec, mutex, screen, db, captures>>
    BY <1>9 DEF QueueRead, Becomes, Still, bounds, disk, app, Typed, n
  <2>2. c.pc = "queueWrite" /\ c.ret = th[h].ret
    BY DEF Typed, Coroutines
  <2>. HIDE DEF c
  <2>. QED
    BY <1>2, <1>4, <2>1, <2>2, BusyMoves
<1>10. CASE (QueueWrite(h) \/ Release(h)) /\ ~Throws(h)
  <2>1. /\ \E p \in {"release", "pending"} : Becomes(h, At(p, "none", t))
        /\ UNCHANGED <<rec, mutex, screen, db, captures>>
    BY <1>4, <1>10 DEF QueueWrite, Release, Still, bounds, app
  <2>. QED
    BY <1>2, <1>4, <2>1, BusyMoves, AtFields
<1>. QED
  BY <1>3, <1>7, <1>8, <1>9, <1>10 DEF Prepare, Name

\* Coroutines of a capture that are busy: the worker is past its start.
LEMMA PastStart ==
    ASSUME OnceInv, NEW h \in Threads, ~IsWorker(h), th[h].pc # "off"
    PROVE  NoStart
  BY DEF OnceInv, StartsAlone, NoStart

LEMMA SameCaptures ==
    ASSUME UNCHANGED captures,
           \A g \in Threads : th'[g].pc \in {"begin", "name"} => th'[g] = th[g]
    PROVE  \A t : Unrecorded(t)' => Unrecorded(t)
  BY DEF Unrecorded

LEMMA ShootOnce ==
    ASSUME Typed, OwnInv, OnceInv, NEW h \in Threads, Shoot(h)
    PROVE  OnceInv'
<1>1. th[h].pc \in {"pending", "shooting"}
  BY DEF Shoot, TakePicture, PictureSaved, PictureLost
<1>2. /\ h[2] = "capture" /\ h[1] = screen /\ ~IsWorker(h) /\ th[h].ret # "start"
      /\ th[h].pc \notin Reconciling \cup Marked \cup {"off", "dead"}
  <2>1. h[2] = "capture"
    BY <1>1, CaptureRole DEF Prepared
  <2>2. th[h].pc \notin Reconciling \cup Marked \cup {"off", "dead"}
    BY <1>1 DEF Reconciling, Reconciles, Marked
  <2>. QED
    BY <2>1, <2>2, Here DEF OnceInv, WellPlaced, IsWorker
<1>3. UNCHANGED <<rec, mutex, screen, db, captures>>
  BY DEF Shoot, TakePicture, PictureSaved, PictureLost, CaptureFails, Still, disk, app, bounds
<1>4. NoStart
  BY <1>2, PastStart
<1>5. /\ Off.pc = "off" /\ Off.ret = "none" /\ Calm("off") /\ Calm(th[h].pc)
      /\ \A g \in Threads : WellPlaced(screen, g, Off)
  <2>1. Off.pc = "off" /\ Off.ret = "none"
    BY AtFields DEF Off
  <2>. HIDE DEF Off
  <2>. QED
    BY <1>1, <2>1 DEF Calm, Inserting, Locked, WellPlaced, Registers, Reconciles, Reconciling
<1>6. CASE \/ Goto(h, "pending") \/ Goto(h, "shooting") \/ Becomes(h, Off)
  <2>1. PICK c : Becomes(h, c) /\ c.pc \in {"off", "pending", "shooting"} /\ c.ret # "start"
    <3>1. ASSUME NEW p, Goto(h, p)
          PROVE  \E c : Becomes(h, c) /\ c.pc = p /\ c.ret # "start"
      <4>. DEFINE c == [th[h] EXCEPT !.pc = p]
      <4>1. Becomes(h, c)
        BY <3>1 DEF Goto, Becomes, Typed
      <4>2. c.pc = p /\ c.ret = th[h].ret
        BY DEF Typed, Coroutines
      <4>. HIDE DEF c
      <4>. QED
        BY <1>2, <4>1, <4>2
    <3>. HIDE DEF Off
    <3>. QED
      BY <1>5, <1>6, <3>1
  <2>. QED
    BY <1>2, <1>3, <2>1, BusyMoves
<1>7. CASE CaptureFails(h)
  <2>. DEFINE g == Failure(h[1])
              c == At("reportRead", "none", th[h].tok)
  <2>1. th' = [th EXCEPT ![h] = Off, ![g] = c] /\ th[g] = Off
    BY <1>7 DEF CaptureFails
  <2>2. g[2] = "failure" /\ g[1] = screen /\ g # h /\ ~IsWorker(g)
    BY <1>2 DEF Failure, IsWorker
  <2>3. c.pc = "reportRead" /\ c.ret = "none"
    BY AtFields
  <2>. HIDE DEF g, c
  <2>4. /\ th'[h] = Off
        /\ \A f \in Threads : f # h /\ f # g => th'[f] = th[f]
        /\ g \in Threads => th'[g] = c
    BY <2>1, <2>2 DEF Typed
  <2>5. WellPlaced(screen, g, c) /\ Calm(c.pc)
    BY <2>2, <2>3 DEF Calm, Inserting, Locked, WellPlaced, Registers, Reconciles, Reconciling
  <2>6. \A f \in Threads : th'[f].pc \in {"begin", "name"} => th'[f] = th[f]
    BY <1>5, <2>3, <2>4
  <2>7. \A t : Unrecorded(t)' => Unrecorded(t)
    BY <1>3, <2>6, SameCaptures
  <2>8. \A f \in Threads :
              \/ th'[f] = th[f]
              \/ /\ Calm(th[f].pc) /\ Calm(th'[f].pc)
                 /\ WellPlaced(screen, f, th'[f])
                 /\ IsWorker(f) => ~Starting(th'[f])
    BY <1>2, <1>5, <2>1, <2>2, <2>4, <2>5
  <2>. QED
    BY <1>3, <1>4, <2>7, <2>8, CalmStep
<1>8. ASSUME LET w == Worker(h[1]) IN
             th' = [th EXCEPT ![h] = Off,
                 ![w] = IF th[w] = Idle THEN At("list", "loop", 0) ELSE @]
      PROVE  OnceInv'
  <2>. DEFINE w == Worker(h[1])
              c == At("list", "loop", 0)
              e == IF th[w] = Idle THEN c ELSE th[w]
  <2>1. w # h /\ w[2] = "worker" /\ w[1] = screen
    BY <1>2 DEF Worker
  <2>2. th' = [[th EXCEPT ![h] = Off] EXCEPT ![w] = e]
    BY <1>8, <2>1 DEF Typed
  <2>3. c.pc = "list" /\ c.ret = "loop" /\ Idle.pc = "idle"
    BY AtFields DEF Idle
  <2>. HIDE DEF w, c
  <2>4. /\ th'[h] = Off
        /\ \A f \in Threads : f # h /\ f # w => th'[f] = th[f]
        /\ w \in Threads => th'[w] = e
    BY <2>1, <2>2 DEF Typed
  <2>5. WellPlaced(screen, w, c) /\ Calm(c.pc) /\ Calm(Idle.pc) /\ ~Starting(c)
    BY <2>1, <2>3 DEF Calm, Inserting, Locked, WellPlaced, Registers, Reconciles, Reconciling, Starting
  <2>6. w \in Threads => th'[w] = th[w] \/ (th[w] = Idle /\ th'[w] = c)
    BY <2>4
  <2>. HIDE DEF e, Idle
  <2>7. \A f \in Threads : th'[f].pc \in {"begin", "name"} => th'[f] = th[f]
    BY <1>5, <2>3, <2>4, <2>6
  <2>8. \A t : Unrecorded(t)' => Unrecorded(t)
    BY <1>3, <2>7, SameCaptures
  <2>9. \A f \in Threads :
              \/ th'[f] = th[f]
              \/ /\ Calm(th[f].pc) /\ Calm(th'[f].pc)
                 /\ WellPlaced(screen, f, th'[f])
                 /\ IsWorker(f) => ~Starting(th'[f])
    BY <1>2, <1>5, <2>1, <2>4, <2>5, <2>6
  <2>. QED
    BY <1>3, <1>4, <2>8, <2>9, CalmStep
<1>. QED
  BY <1>6, <1>7, <1>8 DEF Shoot, TakePicture, PictureSaved, PictureLost

LEMMA DiscardOnce ==
    ASSUME Typed, OwnInv, OnceInv, NEW h \in Threads, Discard(h)
    PROVE  OnceInv'
<1>. DEFINE t == th[h].tok
<1>1. th[h].pc \in Discards
  BY DEF Discard, DiscardRead, DiscardImage, DiscardRecord, Discarded, Discards
<1>2. /\ h[2] \in Holders /\ th[h].ret # "start"
      /\ th[h].pc \notin Reconciling \cup Marked \cup {"off", "dead"}
  <2>1. h[2] \in Holders
    BY <1>1 DEF OwnInv, InRole
  <2>2. th[h].pc \notin Reconciling \cup Marked \cup {"off", "dead"}
    BY <1>1 DEF Discards, Reconciling, Reconciles, Marked
  <2>. QED
    BY <2>1, <2>2 DEF OnceInv, WellPlaced
<1>3. UNCHANGED <<mutex, screen, db, captures>>
  BY DEF Discard, DiscardRead, DiscardImage, DiscardRecord, Discarded, Still, bounds, app, disk
<1>4. PICK c : /\ Becomes(h, c) /\ c.ret # "start"
               /\ c.pc \in {"discardImage", "discardRecord", "discarded", "off"}
  <2>1. ASSUME NEW p, Goto(h, p)
        PROVE  \E c : Becomes(h, c) /\ c.pc = p /\ c.ret # "start"
    <3>. DEFINE c == [th[h] EXCEPT !.pc = p]
    <3>1. Becomes(h, c)
      BY <2>1 DEF Goto, Becomes, Typed
    <3>2. c.pc = p /\ c.ret = th[h].ret
      BY DEF Typed, Coroutines
    <3>. HIDE DEF c
    <3>. QED
      BY <1>2, <3>1, <3>2
  <2>2. \/ \E p \in {"discardImage", "discardRecord", "discarded"} : Goto(h, p)
        \/ Becomes(h, Off)
    BY DEF Discard, DiscardRead, DiscardImage, DiscardRecord, Discarded
  <2>3. Off.pc = "off" /\ Off.ret = "none"
    BY AtFields DEF Off
  <2>. HIDE DEF Off
  <2>. QED
    BY <2>1, <2>2, <2>3
<1>5. rec' = rec \/ RecordsKeep
  <2>. SUFFICES ASSUME rec' # rec PROVE RecordsKeep
    OBVIOUS
  <2>1. rec' = [rec EXCEPT ![t] = NoRecord]
    BY DEF Discard, DiscardRead, DiscardImage, DiscardRecord, Discarded, disk
  <2>2. \A u \in Tokens : /\ u # t => rec'[u] = rec[u]
                          /\ u = t => rec'[u].phase = "None"
    BY <2>1 DEF Typed, NoRecord, Record
  <2>3. \A u : Unrecorded(u)' => Unrecorded(u)
    BY <1>3, <1>4, UnrecordedStays
  <2>. HIDE DEF t
  <2>. QED
    BY <2>2, <2>3 DEF RecordsKeep, RegisteringIn, Open, OnceInv, Fresh
<1>. QED
  BY <1>2, <1>3, <1>4, <1>5, BusyMoves DEF Discards, Holders

LEMMA CloseOnce ==
    ASSUME Typed, OwnInv, OnceInv, Clean, Clean', NEW h \in Threads, Close(h)
    PROVE  OnceInv'
<1>1. th[h].pc \in {"complete", "acknowledge"}
  BY DEF Close, Complete, Acknowledge
<1>2. th[h].pc \notin Reconciling \cup Marked \cup {"off", "dead"}
  BY <1>1 DEF Reconciling, Reconciles, Marked
<1>3. CASE Throws(h)
  BY <1>2, <1>3, ThrowsOnce DEF Clean
<1>4. /\ ~Fault(h) /\ h[1] = screen /\ th[h].ret # "start" /\ (\A x : Resume(h, x) => Becomes(h, x))
      /\ th[h].pc = "acknowledge" => th[h].ret = "ack"
      /\ ~Starting(th[h])
  <2>1. th[h].ret # "start" /\ (th[h].pc = "acknowledge" => th[h].ret = "ack")
    BY <1>2 DEF OnceInv, WellPlaced
  <2>. QED
    BY <1>2, <2>1, NoFault, Here DEF Starting
<1>5. CASE Complete(h) /\ ~Throws(h)
  <2>. DEFINE s == th[h].ses
              d == [s EXCEPT !.done = TRUE]
              todo == {t \in Tokens : s.entry[t].scan # 0}
              c == [th[h] EXCEPT !.pc = "acknowledge", !.ret = "ack", !.ses = d, !.todo = todo]
  <2>1. Becomes(h, c) /\ UNCHANGED <<rec, mutex, screen, db, captures>>
    BY <1>4, <1>5 DEF Complete, Becomes, Still, bounds, app, Typed
  <2>2. c.pc = "acknowledge" /\ c.ret = "ack"
    BY DEF Typed, Coroutines
  <2>. HIDE DEF c
  <2>. QED
    BY <1>2, <2>1, <2>2, BusyMoves
<1>6. CASE Acknowledge(h) /\ ~Throws(h)
  <2>. DEFINE t == First(th[h].todo)
              c == [th[h] EXCEPT !.todo = @ \ {t}]
              r == [th[h] EXCEPT !.pc = "read"]
  <2>1. /\ UNCHANGED <<mutex, screen, db, captures>> /\ th[h].pc = "acknowledge"
        /\ \/ Becomes(h, At("closed", "none", 0)) /\ UNCHANGED rec
           \/ Becomes(h, r) /\ UNCHANGED rec /\ th[h].todo # {}
           \/ Becomes(h, c) /\ rec' = [rec EXCEPT ![t] = NoRecord]
    BY <1>4, <1>6 DEF Acknowledge, Becomes, Goto, Still, bounds, app, disk, Typed
  <2>2. /\ c.pc = th[h].pc /\ c.ret = th[h].ret
        /\ r.pc = "read" /\ r.ret = th[h].ret /\ r.todo = th[h].todo
    BY DEF Typed, Coroutines
  <2>. HIDE DEF c, r
  <2>3. CASE Becomes(h, At("closed", "none", 0)) /\ UNCHANGED rec
    BY <1>2, <2>1, <2>3, AtFields, BusyMoves
  <2>4. CASE Becomes(h, r) /\ UNCHANGED rec /\ th[h].todo # {}
    <3>1. /\ WellPlaced(screen, h, r) /\ ~Starting(r)
          /\ r.pc \notin Locked \cup Inserting \cup Marked
      BY <1>4, <2>1, <2>2, <2>4 DEF WellPlaced, Registers, Locked, Inserting, Marked, Reconciles,
         Reconciling, Starting
    <3>2. \A u : Unrecorded(u)' => Unrecorded(u)
      BY <2>1, <2>2, <2>4, UnrecordedStays
    <3>3. /\ \A u \in RegisteringIn(rec') : u \in RegisteringIn(rec)
          /\ \A u \in Tokens : rec'[u].phase \in Open => rec[u].phase \in Open
          /\ \A u \in Tokens : Unrecorded(u)' => rec'[u].phase \in {"None", "Empty"}
      BY <2>4, <3>2 DEF OnceInv, Fresh
    <3>. QED
      BY <1>2, <1>4, <2>1, <2>2, <2>4, <3>1, <3>2, <3>3, OnceFrame DEF Becomes
  <2>5. CASE Becomes(h, c) /\ rec' = [rec EXCEPT ![t] = NoRecord]
    <3>1. \A u \in Tokens : /\ u # t => rec'[u] = rec[u]
                            /\ u = t => rec'[u].phase = "None"
      BY <2>5 DEF Typed, NoRecord, Record
    <3>2. \A u : Unrecorded(u)' => Unrecorded(u)
      BY <2>1, <2>2, <2>5, UnrecordedStays
    <3>. HIDE DEF t
    <3>3. RecordsKeep
      BY <3>1, <3>2 DEF RecordsKeep, RegisteringIn, Open, OnceInv, Fresh
    <3>. QED
      BY <1>2, <1>4, <2>1, <2>2, <2>5, <3>3, BusyMoves
  <2>. QED
    BY <2>1, <2>3, <2>4, <2>5
<1>. QED
  BY <1>3, <1>5, <1>6 DEF Close

\* Pictures are requested, and the batch is finished, once the worker is past
\* its start.
LEMMA RequestOnce ==
    ASSUME Typed, OwnInv, OnceInv, RequestCapture
    PROVE  OnceInv'
<1>. DEFINE h == Capture(screen)
            c == At("begin", "none", captures + 1)
<1>1. /\ th' = [th EXCEPT ![h] = c] /\ captures' = captures + 1 /\ th[h] = Off
      /\ UNCHANGED <<rec, db, mutex, screen>>
  BY DEF RequestCapture, Becomes, app
<1>2. h \in Threads /\ h[1] = screen /\ h[2] = "capture" /\ ~IsWorker(h)
  BY DEF OnceInv, Capture, Threads, Roles, IsWorker
<1>3. NoStart
  <2>1. Worker(screen) \in Threads
    BY DEF OnceInv, Worker, Threads, Roles
  <2>2. \A g \in Threads : IsWorker(g) => g = Worker(screen)
    BY DEF IsWorker, Worker, Threads
  <2>. QED
    BY <2>1, <2>2 DEF NoStart, RequestCapture, Ready, Starting
<1>4. c.pc = "begin" /\ c.ret = "none" /\ c.tok = captures + 1 /\ Off.pc = "off"
  BY AtFields DEF Off
<1>. HIDE DEF h, c, Off
<1>5. \A t \in Tokens : Unrecorded(t)' => Unrecorded(t)
  <2>. SUFFICES ASSUME NEW t \in Tokens, Unrecorded(t)' PROVE Unrecorded(t)
    OBVIOUS
  <2>1. captures \in Nat /\ t \in Nat
    BY DEF Typed, Tokens
  <2>2. CASE t > captures'
    BY <1>1, <2>1, <2>2 DEF Unrecorded
  <2>3. ASSUME NEW g \in Threads, th'[g].pc \in {"begin", "name"}, th'[g].tok = t
        PROVE  Unrecorded(t)
    <3>1. CASE g = h
      <4>1. t = captures + 1
        BY <1>1, <1>2, <1>4, <2>3, <3>1 DEF Typed
      <4>. QED
        BY <2>1, <4>1 DEF Unrecorded
    <3>2. CASE g # h
      BY <1>1, <2>3, <3>2 DEF Unrecorded, Typed
    <3>. QED
      BY <3>1, <3>2
  <2>. QED
    BY <2>2, <2>3 DEF Unrecorded
<1>6. /\ WellPlaced(screen, h, c)
      /\ c.pc \notin Locked \cup Inserting \cup Marked \cup Reconciling
  BY <1>2, <1>4 DEF WellPlaced, Registers, Locked, Inserting, Marked, Reconciles, Reconciling
<1>7. /\ \A u \in RegisteringIn(rec') : u \in RegisteringIn(rec)
      /\ \A u \in Tokens : rec'[u].phase \in Open => rec[u].phase \in Open
      /\ \A u \in Tokens : Unrecorded(u)' => rec'[u].phase \in {"None", "Empty"}
  BY <1>1, <1>5 DEF OnceInv, Fresh
<1>8. th[h].pc \notin Marked
  BY <1>1, <1>4 DEF Marked
<1>. QED
  BY <1>1, <1>2, <1>3, <1>4, <1>5, <1>6, <1>7, <1>8, OnceFrame

LEMMA FinishOnce ==
    ASSUME Typed, OnceInv, FinishBatch
    PROVE  OnceInv'
<1>. DEFINE h == Finish(screen)
            c == At("list", "complete", 0)
<1>1. /\ th' = [th EXCEPT ![h] = c] /\ UNCHANGED <<rec, db, mutex, screen, captures>>
      /\ th[h].pc \in {"off", "closed"} /\ th[Worker(screen)] = Idle
  BY DEF FinishBatch, Becomes, Still, app, bounds, disk
<1>2. h[1] = screen /\ h[2] = "finish" /\ ~IsWorker(h)
  BY DEF Finish, IsWorker
<1>3. NoStart
  <2>1. \A g \in Threads : IsWorker(g) => th[g] = Idle
    BY <1>1 DEF IsWorker, Worker, Threads
  <2>2. ~Starting(Idle)
    BY AtFields DEF Idle, Starting
  <2>. QED
    BY <2>1, <2>2 DEF NoStart
<1>4. c.pc = "list" /\ c.ret = "complete"
  BY AtFields
<1>. HIDE DEF h, c
<1>5. /\ \A f \in Threads : f # h => th'[f] = th[f]
      /\ h \in Threads => th'[h] = c
  BY <1>1 DEF Typed
<1>6. WellPlaced(screen, h, c) /\ Calm(c.pc) /\ Calm(th[h].pc)
  BY <1>1, <1>2, <1>4 DEF Calm, Inserting, Locked, WellPlaced, Registers, Reconciles, Reconciling
<1>7. \A f \in Threads : th'[f].pc \in {"begin", "name"} => th'[f] = th[f]
  BY <1>4, <1>5
<1>8. \A t : Unrecorded(t)' => Unrecorded(t)
  BY <1>1, <1>7, SameCaptures
<1>9. \A f \in Threads :
            \/ th'[f] = th[f]
            \/ /\ Calm(th[f].pc) /\ Calm(th'[f].pc)
               /\ WellPlaced(screen, f, th'[f])
               /\ IsWorker(f) => ~Starting(th'[f])
  BY <1>2, <1>5, <1>6
<1>. QED
  BY <1>1, <1>3, <1>8, <1>9, CalmStep

LEMMA OnceStep ==
    IInv /\ OwnInv /\ OnceInv /\ Clean /\ Clean' /\ [Next]_vars => OnceInv'
<1>. SUFFICES ASSUME IInv, OwnInv, OnceInv, Clean, Clean', [Next]_vars PROVE OnceInv'
  OBVIOUS
<1>1. Typed
  BY DEF IInv
<1>2. CASE UNCHANGED vars
  <2>1. UNCHANGED <<rec, db, mutex, th, screen, captures>>
    BY <1>2 DEF vars, disk, app, bounds
  <2>2. \A t : Unrecorded(t)' => Unrecorded(t)
    BY <2>1 DEF Unrecorded
  <2>3. /\ \A h \in Threads : WellPlaced(screen', h, th'[h])
        /\ screen' \in 1..MaxScreens
    BY <2>1 DEF OnceInv
  <2>4. MutexHeld' /\ StartsAlone' /\ StartReadsAll' /\ Interrupted' /\ JudgedLookup'
    BY <2>1 DEF OnceInv, MutexHeld, StartsAlone, StartReadsAll, Interrupted, JudgedLookup, IsWorker,
       InHand, RegisteringIn, HasRow, First, Starting
  <2>5. JudgedReplace' /\ NoRowYet' /\ Fresh' /\ OpenHasNoRow' /\ RowsDiffer'
    BY <2>1, <2>2 DEF OnceInv, JudgedReplace, JudgedDraft, NoRowYet, Fresh, OpenHasNoRow, RowsDiffer,
       IsWorker, HasRow, First
  <2>. QED
    BY <2>3, <2>4, <2>5 DEF OnceInv
<1>3. ASSUME NEW h \in Threads,
             \/ Reconcile(h) \/ Process(h) \/ Register(h) \/ Account(h)
             \/ Prepare(h) \/ Shoot(h) \/ Discard(h) \/ Close(h)
      PROVE  OnceInv'
  BY <1>1, <1>3, ReconcileOnce, ProcessOnce, RegisterOnce, AccountOnce, PrepareOnce, ShootOnce,
     DiscardOnce, CloseOnce
<1>4. CASE RequestCapture \/ FinishBatch
  BY <1>1, <1>4, RequestOnce, FinishOnce
<1>5. ~Reopen
  BY DEF Clean, Reopen
<1>6. CASE ProcessDeath
  BY <1>1, <1>6, DiesOnce DEF ProcessDeath, disk, bounds, Clean
<1>. QED
  BY <1>2, <1>3, <1>4, <1>5, <1>6 DEF Next

\* Screens opened again and failed operations are never uncounted.
Counted == reopens \in Nat /\ faults \in Nat

LEMMA CountersGrow == Counted /\ [Next]_vars => Counted' /\ (Clean' => Clean)
<1>. SUFFICES ASSUME Counted, [Next]_vars
              PROVE  reopens' \in {reopens, reopens + 1} /\ faults' \in {faults, faults + 1}
  BY DEF Counted, Clean
<1>1. ASSUME NEW h, Throws(h) \/ Fault(h)
      PROVE  UNCHANGED reopens /\ faults' \in {faults, faults + 1}
  BY <1>1 DEF Throws, Fault, Raise, Dies, app, bounds
<1>2. ASSUME NEW h \in Threads,
             \/ Reconcile(h) \/ Process(h) \/ Register(h) \/ Account(h)
             \/ Prepare(h) \/ Shoot(h) \/ Discard(h) \/ Close(h)
      PROVE  UNCHANGED reopens /\ faults' \in {faults, faults + 1}
  <2>1. CASE Throws(h) \/ Fault(h)
    BY <1>1, <2>1
  <2>2. CASE ~Throws(h) /\ ~Fault(h)
    <3>1. CASE Reconcile(h) \/ Process(h)
      BY <2>2, <3>1 DEF Reconcile, ReconcileList, ReconcileRead, ReconcileLookup, ReconcileReplace,
         ReconcileSettle, Process, Fetch, PreviewRead, PreviewWrite, Authorize, Still, app, bounds
    <3>2. CASE Register(h)
      BY <2>2, <3>2, SMTT(30) DEF Register, Lock, Mark, CommitAssets, InsertScan, CommitRead, CommitWrite,
         Unstage, Still, app, bounds
    <3>3. CASE Account(h)
      BY <2>2, <3>3 DEF Account, SavedRead, SavedReview, SavedWrite, ReportRead, ReportReview,
         ReportWrite, ReadEntry, ReviewEntry, Still, app, bounds
    <3>4. CASE Prepare(h) \/ Shoot(h)
      BY <2>2, <3>4 DEF Prepare, Begin, Name, QueueRead, QueueWrite, Release, Shoot, TakePicture,
         PictureSaved, PictureLost, CaptureFails, Still, app, bounds
    <3>5. CASE Discard(h) \/ Close(h)
      BY <2>2, <3>5 DEF Discard, DiscardRead, DiscardImage, DiscardRecord, Discarded, Close,
         Complete, Acknowledge, Still, app, bounds
    <3>. QED
      BY <1>2, <3>1, <3>2, <3>3, <3>4, <3>5, SMTT(30)
  <2>. QED
    BY <2>1, <2>2
<1>3. CASE RequestCapture \/ FinishBatch
  BY <1>3 DEF RequestCapture, FinishBatch, Still, app, bounds
<1>4. CASE Reopen \/ ProcessDeath
  BY <1>4 DEF Reopen, ProcessDeath, Dies, bounds
<1>5. CASE UNCHANGED vars
  BY <1>5 DEF vars, app, bounds
<1>. QED
  BY <1>2, <1>3, <1>4, <1>5 DEF Next

LEMMA OnceInit == Init => OnceInv /\ Counted
<1>. SUFFICES ASSUME Init PROVE OnceInv /\ Counted
  OBVIOUS
<1>1. /\ rec = NoRecords /\ db = <<>> /\ screen = 1 /\ th = Opened(1) /\ Counted
  BY DEF Init, Counted
<1>2. 1 \in 1..MaxScreens
  BY BoundsAssumption DEF MaxScreens
<1>3. \A h \in Threads : \/ h = Worker(1) /\ th[h] = At("list", "start", 0)
                         \/ th[h] = Off
  BY <1>1 DEF Opened
<1>4. \A h \in Threads :
         /\ th[h].pc \in {"off", "list"}
         /\ th[h].pc = "off" \/ h = Worker(1)
         /\ WellPlaced(1, h, th[h])
  BY <1>3, AtFields DEF Off, WellPlaced, Worker, Registers, Locked, Reconciles, Reconciling
<1>5. \A t \in Tokens : rec[t].phase = "None" /\ ~HasRow(db, t)
  BY <1>1 DEF NoRecords, NoRecord, Record, HasRow
<1>6. \A h \in Threads : IsWorker(h) => h = Worker(1)
  BY <1>1 DEF IsWorker, Worker, Threads
<1>7. MutexHeld /\ NoRowYet /\ JudgedLookup /\ JudgedReplace
  BY <1>4 DEF MutexHeld, NoRowYet, JudgedLookup, JudgedReplace, Locked, Inserting, Marked
<1>8. StartsAlone
  BY <1>4, <1>6 DEF StartsAlone
<1>9. StartReadsAll
  BY <1>4 DEF StartReadsAll, Reconciling, Reconciles
<1>10. Interrupted /\ OpenHasNoRow
  BY <1>5 DEF Interrupted, OpenHasNoRow, RegisteringIn, Open
<1>11. Fresh
  BY <1>4, <1>5 DEF Fresh, Inserting, Locked
<1>12. RowsDiffer
  BY <1>1 DEF RowsDiffer
<1>. QED
  BY <1>1, <1>2, <1>4, <1>7, <1>8, <1>9, <1>10, <1>11, <1>12 DEF OnceInv

\* While one screen is open at a time and no I/O operation fails, a picture is
\* registered once, however often the process dies and whatever the coroutines
\* of the captures and of finishBatch do in between.
THEOREM OneScreenRegisters == Spec => []OneScreenRegistersOnce
<1>1. Init => Counted /\ (Clean => OnceInv)
  BY OnceInit
<1>2. IInv /\ OwnInv /\ Counted /\ (Clean => OnceInv) /\ [Next]_vars
         => Counted' /\ (Clean' => OnceInv')
  BY CountersGrow, OnceStep
<1>3. IInv /\ (Clean => OnceInv) => OneScreenRegistersOnce
  <2>. SUFFICES ASSUME IInv, OnceInv, NEW t \in Tokens PROVE Cardinality(RowsOf(t)) <= 1
    BY DEF OneScreenRegistersOnce, NoDuplicateRegistration, Clean
  <2>1. \A i, j \in RowsOf(t) : i = j
    BY DEF OnceInv, RowsDiffer, RowsOf
  <2>2. CASE RowsOf(t) = {}
    BY <2>2, FS_EmptySet
  <2>3. CASE RowsOf(t) # {}
    <3>1. PICK i : RowsOf(t) = {i}
      BY <2>1, <2>3
    <3>. QED
      BY <3>1, FS_Singleton
  <2>. QED
    BY <2>2, <2>3
<1>. QED
  BY <1>1, <1>2, <1>3, OwnHolds, PTL DEF Spec
=============================================================================
