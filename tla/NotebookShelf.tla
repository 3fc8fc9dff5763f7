--------------------------- MODULE NotebookShelf ---------------------------
(* The notebooks of a library, which of them receives scans, and how the code *)
(* of a page is resolved: the notebook screens, whose view models work on one *)
(* operation at a time each (the desk is the screen in front, the calls of    *)
(* those left behind are strays), and the scanner opened over them, which     *)
(* asks for the same calls. A call runs to its end though the coroutine that  *)
(* waits for it is cancelled. Rows are numbered in the order of their         *)
(* insertion, in which an UPDATE of all of them visits them. Names, colours   *)
(* and notes are left out.                                                    *)
(* Operators named Faulty... are plausible bugs.                              *)
EXTENDS Naturals, Sequences, FiniteSets

CONSTANTS Designs,                \* notebook designs of the registry
          SmartPages,             \* smart pages, of this library or of another
          PageCount,              \* logical_page_count of every design
          MaxNotebooks, MaxActs   \* bounds

VARIABLES shelf,    \* notebooks: design, archived, active
          printed,  \* smart pages generated here
          desk,     \* NotebookUiState, and the operation under way
          lens,     \* the scanner over the screens: its notebook and operation
          strays,   \* calls of operations that were cancelled
          mail,     \* registrations of scans under way
          received, \* scans registered
          unserved, \* notebooks that a request to make active was refused for
          acts      \* what the user did

shelfVars == <<shelf, printed, desk, lens, strays, mail, received, unserved, acts>>

Notebooks == DOMAIN shelf
Codes == [kind : {"page"}, design : Designs, page : 1..(PageCount + 1)]
             \cup [kind : {"smart"}, design : {"none"}, page : SmartPages]
             \cup [kind : {"setup"}, design : Designs, page : {0}]

Idle == [kind |-> "idle"]
NoAnswer == [kind |-> "none", notebook |-> 0]
NewDesk(open) == [open |-> open, op |-> Idle, at |-> "call", listed |-> {}, payload |-> "none",
                  design |-> "none", created |-> 0, answer |-> NoAnswer, error |-> FALSE]
NoLens == [open |-> FALSE, op |-> Idle, at |-> "call", listed |-> {}, notebook |-> 0]

ShelfInit ==
    /\ shelf = <<>> /\ printed = {}
    /\ desk = NewDesk(FALSE) /\ lens = NoLens
    /\ strays = {} /\ mail = {} /\ received = {} /\ unserved = {}
    /\ acts = 0

-----------------------------------------------------------------------------
(* Rows.                                                                      *)

Active == {n \in Notebooks : shelf[n].active}
Candidates(d) == {n \in Notebooks : shelf[n].design = d /\ ~shelf[n].archived}

\* The unique index on the flag looks at every row as the UPDATE comes to it, and
\* rows after the one to be active are still as they were.
Conflicts(s, n) == \E m \in DOMAIN s : m > n /\ s[m].active
Activated(s, n) == [m \in DOMAIN s |-> [s[m] EXCEPT !.active = m = n]]

\* Faulty: an archived notebook keeps the flag.
FaultyArchived(s, n) == [s EXCEPT ![n].archived = TRUE]

Archived(s, n) ==
    IF s[n].archived THEN s ELSE [s EXCEPT ![n].archived = TRUE, ![n].active = FALSE]

Created(s, d, make) ==
    LET t == Append(s, [design |-> d, archived |-> FALSE, active |-> FALSE])
    IN IF make THEN Activated(t, Len(t)) ELSE t

\* What resolve_page_code answers to a code, for a notebook that was confirmed or
\* for none.
Answer(kind, n) == [kind |-> kind, notebook |-> n]
Resolve(c, confirmed) ==
    LET chosen == IF confirmed # 0 THEN {confirmed} ELSE Active
        found  == Candidates(c.design)
        one(s) == CHOOSE n \in s : TRUE
    IN CASE c.kind = "setup" -> Answer("unsupported", 0)
         [] c.kind = "smart" -> Answer(IF c.page \in printed THEN "resolved" ELSE "imported", 0)
         [] c.kind = "page" /\ c.page > PageCount -> Answer("unsupported", 0)
         [] c.kind = "page" /\ c.page <= PageCount /\ chosen # {} ->
              LET n == one(chosen)
              IN IF shelf[n].design # c.design THEN Answer("conflicting", n)
                 ELSE IF shelf[n].archived THEN Answer("error", n) ELSE Answer("resolved", n)
         [] OTHER ->
              IF found = {} THEN Answer("registration", 0)
              ELSE IF Cardinality(found) = 1 THEN Answer("resolved", one(found))
              ELSE Answer("selection", 0)

-----------------------------------------------------------------------------
(* One call into Rust, which holds the storage's mutex: what it does to the   *)
(* rows and whether it fails.                                                 *)

Refused(op) ==
    /\ op.kind = "activate"
    /\ shelf[op.notebook].archived \/ Conflicts(shelf, op.notebook)

Rows(op) ==
    CASE op.kind = "activate" /\ ~Refused(op) -> Activated(shelf, op.notebook)
      [] op.kind = "clear"   -> Activated(shelf, 0)
      [] op.kind = "archive" -> Archived(shelf, op.notebook)
      [] op.kind = "create"  -> Created(shelf, op.design, op.make)
      [] OTHER -> shelf

Call(op) ==
    /\ shelf' = Rows(op)
    /\ unserved' = IF Refused(op) /\ ~shelf[op.notebook].archived
                   THEN unserved \cup {op.notebook} ELSE unserved

Act == acts < MaxActs /\ acts' = acts + 1

-----------------------------------------------------------------------------
(* The notebook screens.                                                      *)

OpenDesk ==
    /\ ~desk.open
    /\ desk' = [NewDesk(TRUE) EXCEPT !.op = [kind |-> "refresh"]]
    /\ UNCHANGED <<shelf, printed, lens, strays, mail, received, unserved, acts>>

\* The call that the operation waits for runs on, when it has begun.
LeaveDesk ==
    /\ desk.open /\ ~lens.open
    /\ desk' = NewDesk(FALSE)
    /\ strays' \in {strays} \cup (IF desk.op # Idle /\ desk.at = "call"
                                  THEN {strays \cup {desk.op}} ELSE {})
    /\ UNCHANGED <<shelf, printed, lens, mail, received, unserved, acts>>

StrayEnds(op) ==
    /\ Call(op)
    /\ strays' = strays \ {op}
    /\ UNCHANGED <<printed, desk, lens, mail, received, acts>>

\* A second operation is ignored while one is under way.
Run(op) ==
    /\ desk.open /\ ~lens.open /\ desk.op = Idle
    /\ Act
    /\ desk' = [desk EXCEPT !.op = op, !.at = "call", !.error = FALSE]
    /\ UNCHANGED <<shelf, printed, lens, strays, mail, received, unserved>>

MakeActive  == \E x \in desk.listed : ~x.active /\ Run([kind |-> "activate", notebook |-> x.id])
ClearActive == (\E x \in desk.listed : x.active) /\ Run([kind |-> "clear"])
ArchiveOne  == \E x \in desk.listed : Run([kind |-> "archive", notebook |-> x.id])
CreateOne   ==
    /\ desk.design # "none" /\ desk.payload # "none" /\ Len(shelf) < MaxNotebooks
    /\ \E make \in BOOLEAN : Run([kind |-> "create", design |-> desk.payload, make |-> make])
ResolveCode == \E c \in Codes, x \in desk.listed :
                   Run([kind |-> "resolve", code |-> c, notebook |-> x.id])

\* A button, or a code that the camera decoded: then another payload is set though
\* an operation is under way, and it is not looked at.
Recognize ==
    /\ desk.open /\ ~lens.open /\ desk.created = 0 /\ Act
    /\ \E d \in Designs :
         /\ desk' = IF desk.op = Idle
                    THEN [desk EXCEPT !.payload = d, !.op = [kind |-> "recognize", design |-> d],
                                      !.at = "call", !.error = FALSE]
                    ELSE [desk EXCEPT !.payload = d]
         /\ desk' # desk
    /\ UNCHANGED <<shelf, printed, lens, strays, mail, received, unserved>>

\* What is typed forgets what was recognized, but not what is being recognized.
TypePayload ==
    /\ desk.open /\ ~lens.open /\ Act
    /\ \E d \in Designs : desk' = [desk EXCEPT !.payload = d, !.design = "none", !.created = 0,
                                               !.answer = NoAnswer, !.error = FALSE]
    /\ UNCHANGED <<shelf, printed, lens, strays, mail, received, unserved>>

Listing == {[id |-> n, active |-> shelf[n].active] : n \in {m \in Notebooks : ~shelf[m].archived}}

\* Operations that change rows list them in a second call.
DeskCall ==
    LET op   == desk.op
        done == [desk EXCEPT !.op = Idle]
    IN /\ op # Idle /\ desk.at = "call"
       /\ Call(op)
       /\ desk' = CASE op.kind = "refresh" -> [done EXCEPT !.listed = Listing]
                    [] op.kind = "recognize" -> [done EXCEPT !.design = op.design, !.created = 0]
                    [] op.kind = "create" ->
                         [done EXCEPT !.created = Len(shelf'), !.design = "none"]
                    [] op.kind = "resolve" ->
                         LET a == Resolve(op.code, op.notebook)
                         IN IF a.kind = "error" THEN [done EXCEPT !.error = TRUE]
                            ELSE [done EXCEPT !.answer = a]
                    [] op.kind \in {"activate", "clear", "archive"} ->
                         IF Refused(op) THEN [done EXCEPT !.error = TRUE]
                         ELSE [desk EXCEPT !.at = "list"]
       /\ UNCHANGED <<printed, lens, strays, mail, received, acts>>

DeskList ==
    /\ desk.op # Idle /\ desk.at = "list"
    /\ desk' = [desk EXCEPT !.op = Idle, !.at = "call", !.listed = Listing]
    /\ UNCHANGED <<shelf, printed, lens, strays, mail, received, unserved, acts>>

\* generate_smart_pages registers new pages in one transaction.
Generate(p) ==
    /\ p \notin printed /\ Act
    /\ printed' = printed \cup {p}
    /\ UNCHANGED <<shelf, desk, lens, strays, mail, received, unserved>>

-----------------------------------------------------------------------------
(* The scanner. Its notebook is the one that the last list told was active.   *)

OpenLens ==
    /\ desk.open /\ ~lens.open
    /\ lens' = [NoLens EXCEPT !.open = TRUE, !.op = [kind |-> "refresh"], !.at = "list"]
    /\ UNCHANGED <<shelf, printed, desk, strays, mail, received, unserved, acts>>

LeaveLens ==
    /\ lens.open
    /\ lens' = NoLens
    /\ strays' \in {strays} \cup (IF lens.op # Idle /\ lens.at = "call"
                                  THEN {strays \cup {lens.op}} ELSE {})
    /\ UNCHANGED <<shelf, printed, desk, mail, received, unserved, acts>>

\* selectNotebook, and prepareRecoveredReview for the notebook of a record.
SelectNotebook(n) ==
    /\ lens.open /\ lens.op = Idle /\ n # lens.notebook
    /\ Act
    /\ lens' = [lens EXCEPT !.op = [kind |-> "activate", notebook |-> n], !.at = "call"]
    /\ UNCHANGED <<shelf, printed, desk, strays, mail, received, unserved>>

LensCall ==
    /\ lens.op # Idle /\ lens.at = "call"
    /\ Call(lens.op)
    /\ lens' = IF Refused(lens.op) THEN [lens EXCEPT !.op = Idle] ELSE [lens EXCEPT !.at = "list"]
    /\ UNCHANGED <<printed, desk, strays, mail, received, acts>>

LensList ==
    /\ lens.op # Idle /\ lens.at = "list"
    /\ lens' = [lens EXCEPT !.op = Idle, !.listed = Listing,
                            !.notebook = IF Active = {} THEN 0 ELSE CHOOSE n \in Active : TRUE]
    /\ UNCHANGED <<shelf, printed, desk, strays, mail, received, unserved, acts>>

\* A capture of a page that resolves to the scanner's notebook, approved.
Capture(c) ==
    /\ lens.open /\ lens.op = Idle /\ lens.notebook # 0 /\ c.kind = "page"
    /\ Resolve(c, lens.notebook) = Answer("resolved", lens.notebook)
    /\ Act
    /\ mail' = mail \cup {[notebook |-> lens.notebook, code |-> c, at |-> "resolve"]}
    /\ UNCHANGED <<shelf, printed, desk, lens, strays, received, unserved>>

\* register_scan resolves the code again, processes the picture, and inserts.
ResolveAgain(r) ==
    /\ r.at = "resolve"
    /\ mail' = (mail \ {r}) \cup (IF Resolve(r.code, r.notebook) = Answer("resolved", r.notebook)
                                  THEN {[r EXCEPT !.at = "insert"]} ELSE {})
    /\ UNCHANGED <<shelf, printed, desk, lens, strays, received, unserved, acts>>

InsertScan(r) ==
    /\ r.at = "insert"
    /\ mail' = mail \ {r}
    /\ received' = received \cup {[notebook |-> r.notebook, code |-> r.code]}
    /\ UNCHANGED <<shelf, printed, desk, lens, strays, unserved, acts>>

ShelfNext ==
    \/ OpenDesk \/ LeaveDesk \/ MakeActive \/ ClearActive \/ ArchiveOne \/ Recognize
    \/ CreateOne \/ ResolveCode \/ TypePayload \/ DeskCall \/ DeskList
    \/ OpenLens \/ LeaveLens \/ LensCall \/ LensList
    \/ \E n \in {x.id : x \in lens.listed} \cup {r.notebook : r \in mail} : SelectNotebook(n)
    \/ \E op \in strays : StrayEnds(op)
    \/ \E p \in SmartPages : Generate(p)
    \/ \E c \in Codes : Capture(c)
    \/ \E r \in mail : ResolveAgain(r) \/ InsertScan(r)

ShelfSpec == ShelfInit /\ [][ShelfNext]_shelfVars

-----------------------------------------------------------------------------
\* A finding of check_relational_invariants.
MultipleActive == Cardinality(Active) > 1

(* Scans go where the user was told: at most one notebook is active and it is *)
(* not archived, so that the next code resolves to it; every scan received is *)
(* of a page of the design of its notebook; and a code that was resolved for  *)
(* nobody's choice had one notebook to go to.                                 *)
DestinationIsClear ==
    /\ ~MultipleActive
    /\ \A n \in Active : ~shelf[n].archived
    /\ \A r \in received : shelf[r.notebook].design = r.code.design
    /\ \A c \in Codes : LET a == Resolve(c, 0) IN
         a.kind = "resolved" /\ c.kind = "page" =>
             a.notebook \in Candidates(c.design) /\ (Active = {a.notebook} \/
                                                     Candidates(c.design) = {a.notebook})

(* "Active Notebook selection" (docs/A2D_SMART_NOTEBOOK_V01_TODO.md:256): a   *)
(* notebook that is not archived can be made the active one.                  *)
AnyNotebookCanBeActive == unserved = {}
=============================================================================
