--------------------------- MODULE BatchSessions ----------------------------
(* The directory of batch sessions: a batch screen lists it, resumes the      *)
(* active session or begins one, updates and completes it, and removes it     *)
(* when the user has seen the summary. No lock is held between the reads and  *)
(* writes of a call, a call that a screen has begun ends after the screen was *)
(* left, and each call may fail or die at any step.                           *)
(*                                                                            *)
(* The entries of a session are the subject of BatchScan; here it is a file   *)
(* that is reserved, written, read, replaced and removed.                     *)
EXTENDS Integers, FiniteSets

CONSTANTS MaxSessions,  \* MAX_SESSIONS
          MaxBegun,     \* bounds: sessions begun,
          MaxScreens,   \* screens opened, one after the other,
          MaxClock      \* and readings of the wall clock

VARIABLES dir,       \* the file of each session
          io,        \* the IO block of each screen, or what the screen shows
          opened,    \* the screens opened so far; the last one is in front
          clock,
          troubles   \* history: what disturbed the sessions

sessionsVars == <<dir, io, opened, clock, troubles>>

-----------------------------------------------------------------------------
Sessions == 1..MaxBegun
Screens  == 1..MaxScreens

NoSession == 0
File(kind, started, completed) == [kind |-> kind, started |-> started, completed |-> completed]
NoFile      == File("none", 0, 0)
Reservation == File("reserved", 0, 0)

Block(pc, session, copy) == [pc |-> pc, session |-> session, copy |-> copy]
Off       == Block("off", NoSession, NoFile)
Start     == Block("list", NoSession, NoFile)

Files == {s \in Sessions : dir[s].kind # "none"}

\* parse_batch_scan_session refuses a completion before the start, as it does
\* whatever no session can have.
Parses(f) ==
    /\ f.started > 0
    /\ f.completed # 0 => f.completed >= f.started

\* read_batch_scan_session: a reservation is an empty file.
Readable(s) == dir[s].kind = "session" /\ Parses(dir[s])

\* list_batch_scan_sessions reads every file, the completed ones too.
Listable == Cardinality(Files) <= MaxSessions /\ \A s \in Files : Readable(s)
Listed   == {s \in Files : dir[s].completed = 0}

SessionsInit ==
    /\ dir = [s \in Sessions |-> NoFile]
    /\ io = [k \in Screens |-> IF k = 1 THEN Start ELSE Off]
    /\ opened = 1 /\ clock = 1
    /\ troubles = {}

-----------------------------------------------------------------------------
Becomes(k, b) == io' = [io EXCEPT ![k] = b] /\ UNCHANGED <<opened, clock>>
Goes(k, p) == Becomes(k, [io[k] EXCEPT !.pc = p])

\* A block ends: the screen shows its result, unless it was left meanwhile.
Ends(k, p) ==
    Becomes(k, IF k # opened THEN Off
               ELSE Block(p, IF p = "failed" THEN NoSession ELSE io[k].session, NoFile))

Undisturbed == UNCHANGED <<dir, troubles>>

\* startOrResume: more than one active session is an error, and so is a
\* missing, archived or no longer active notebook, which CallFails stands for.
ListActive(k) ==
    /\ io[k].pc = "list"
    /\ IF ~Listable \/ Cardinality(Listed) > 1 THEN Ends(k, "failed")
       ELSE IF Listed # {} THEN Becomes(k, [io[k] EXCEPT !.pc = "read", !.session = CHOOSE s \in Listed : TRUE])
       ELSE Goes(k, "begin")
    /\ Undisturbed

Fresh == Sessions \ (Files \cup {io[k].session : k \in Screens})

\* begin_batch_scan_session: no session is active, and the summaries that nobody
\* acknowledged leave room for another.
BeginSession(k) ==
    /\ io[k].pc = "begin"
    /\ IF Listable /\ Listed = {} /\ Cardinality(Files) < MaxSessions
       THEN \E s \in Fresh :
              /\ \A t \in Fresh : s <= t
              /\ Becomes(k, Block("reserve", s, File("session", clock, 0)))
       ELSE Ends(k, "failed")
    /\ Undisturbed

\* Faulty: the name is reserved before the temporary file is written, and a
\* write that fails leaves it.
FaultyReserve(k) ==
    /\ io[k].pc = "reserve"
    /\ dir' = [dir EXCEPT ![io[k].session] = Reservation]
    /\ Goes(k, "rename") \/ Ends(k, "failed")
    /\ UNCHANGED troubles

\* persist_batch_scan_session with create_new: the temporary file is complete,
\* then the name is reserved, then the file is renamed to it.
Reserve(k) ==
    /\ io[k].pc = "reserve"
    /\ dir' = [dir EXCEPT ![io[k].session] = Reservation]
    /\ Goes(k, "rename")
    /\ UNCHANGED troubles

Rename(k) ==
    /\ io[k].pc = "rename"
    /\ dir' = [dir EXCEPT ![io[k].session] = io[k].copy]
    /\ Goes(k, "open")
    /\ UNCHANGED troubles

-----------------------------------------------------------------------------
\* Every other write: the session is read, changed, and written back where its
\* file still is. Pc names what the block is for.
Reads == [read |-> "resume", finish |-> "complete", update |-> "change"]

ReadSession(k) ==
    /\ io[k].pc \in DOMAIN Reads
    /\ IF Readable(io[k].session)
       THEN Becomes(k, Block(Reads[io[k].pc], io[k].session, dir[io[k].session]))
       ELSE Ends(k, "failed")
    /\ Undisturbed

\* The reconciliation of a resumed session writes it when it settles an entry.
Resumed(k) == io[k].pc = "resume" /\ (Goes(k, "open") \/ Goes(k, "reopen")) /\ Undisturbed

\* complete_batch_scan_session, once no entry is queued.
Completed(k) ==
    /\ io[k].pc = "complete"
    /\ IF io[k].copy.completed # 0 THEN Ends(k, "summary")
       ELSE Becomes(k, Block("close", io[k].session, [io[k].copy EXCEPT !.completed = clock]))
    /\ Undisturbed

Present(k) == dir[io[k].session].kind # "none"
Writes == [reopen |-> "replaceReopen", close |-> "replaceClose", change |-> "replaceChange"]

\* persist_batch_scan_session: "disappeared before update".
CheckPresent(k) ==
    /\ io[k].pc \in DOMAIN Writes
    /\ IF Present(k) THEN Goes(k, Writes[io[k].pc]) ELSE Ends(k, "failed")
    /\ Undisturbed

Replace(k) ==
    /\ io[k].pc \in {Writes[p] : p \in DOMAIN Writes}
    /\ dir' = [dir EXCEPT ![io[k].session] = io[k].copy]
    /\ CASE io[k].pc = "replaceReopen" -> Goes(k, "open")
         [] io[k].pc = "replaceClose"  -> Ends(k, "summary")
         [] io[k].pc = "replaceChange" -> Ends(k, "shown")
    /\ UNCHANGED troubles

\* The end of startOrResume, which an archived notebook fails again.
OpenSession(k) == io[k].pc = "open" /\ Ends(k, "shown") /\ Undisturbed

\* What the user does on the screen in front, and the worker for a capture.
Front(p, q) == io[opened].pc = p /\ Goes(opened, q) /\ Undisturbed

UseScreen == Front("shown", "update") \/ Front("shown", "finish") \/ Front("summary", "acknowledge")

\* acknowledge_batch_scan_session reads the session and removes its file.
Acknowledge(k) ==
    /\ io[k].pc = "acknowledge"
    /\ IF Readable(io[k].session) /\ dir[io[k].session].completed # 0
       THEN Goes(k, "remove") ELSE Ends(k, "summary")
    /\ Undisturbed

Remove(k) ==
    /\ io[k].pc = "remove"
    /\ IF Present(k) THEN Becomes(k, Off) ELSE Ends(k, "summary")
    /\ dir' = [dir EXCEPT ![io[k].session] = NoFile]
    /\ UNCHANGED troubles

\* A call fails. The reservation stays when the rename after it does.
Waiting == {"off", "failed", "shown", "summary"}
Cut == {"cut" : k \in {j \in Screens : io[j].pc = "rename"}}

CallFails(k) ==
    /\ io[k].pc \notin Waiting
    /\ Ends(k, CASE io[k].pc \in {"acknowledge", "remove"} -> "summary"
                 [] io[k].pc \in {"finish", "complete", "close", "replaceClose",
                                  "update", "change", "replaceChange"} -> "shown"
                 [] OTHER -> "failed")
    /\ troubles' = troubles \cup (IF io[k].pc = "rename" THEN {"cut"} ELSE {})
    /\ UNCHANGED dir

-----------------------------------------------------------------------------
\* The screen is left and opened again; its block runs on.
Leave ==
    /\ opened < MaxScreens
    /\ opened' = opened + 1
    /\ io' = [k \in Screens |-> IF k = opened' THEN Start
                                ELSE IF io[k].pc \in Waiting THEN Off ELSE io[k]]
    /\ troubles' = troubles \cup (IF io[opened].pc \in Waiting THEN {} ELSE {"overlap"})
    /\ UNCHANGED <<dir, clock>>

ProcessDies ==
    /\ opened < MaxScreens
    /\ opened' = opened + 1
    /\ io' = [k \in Screens |-> IF k = opened' THEN Start ELSE Off]
    /\ troubles' = troubles \cup Cut
    /\ UNCHANGED <<dir, clock>>

\* The wall clock goes on, or is set back.
ClockMoves ==
    /\ clock' \in 1..MaxClock \ {clock}
    /\ troubles' = troubles \cup (IF clock' < clock THEN {"clock"} ELSE {})
    /\ UNCHANGED <<dir, io, opened>>

SessionsNext ==
    \/ \E k \in Screens :
         \/ ListActive(k) \/ BeginSession(k) \/ Reserve(k) \/ Rename(k)
         \/ ReadSession(k) \/ Resumed(k) \/ Completed(k) \/ CheckPresent(k) \/ Replace(k)
         \/ OpenSession(k) \/ Acknowledge(k) \/ Remove(k) \/ CallFails(k)
    \/ UseScreen \/ Leave \/ ProcessDies \/ ClockMoves

SessionsSpec == SessionsInit /\ [][SessionsNext]_sessionsVars

-----------------------------------------------------------------------------
(* "Rust rejects a second active batch session rather than silently"          *)
(* switching, and the screen "opens or resumes at most one active batch       *)
(* session": unless a screen was left while one of its calls was running, one *)
(* session at most is active, the directory keeps within its limit and the    *)
(* session on the screen is there, whatever failed, died or was archived. And *)
(* whichever calls overlap, a file that cannot be read, for which every later *)
(* listing fails, is a name whose owner will still fill it, or is left by     *)
(* a cut between the reservation and the rename or by a clock set back.       *)
SessionsStayUsable ==
    /\ "overlap" \notin troubles =>
         /\ Cardinality(Listed) <= 1
         /\ Cardinality(Files) <= MaxSessions
         /\ io[opened].pc \in {"shown", "summary"} => dir[io[opened].session].kind = "session"
    /\ troubles \cap {"cut", "clock"} = {} =>
         \A s \in Files : Readable(s) \/ \E k \in Screens : io[k].pc = "rename" /\ io[k].session = s
=============================================================================
