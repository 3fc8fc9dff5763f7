---------------------------- MODULE VersionHistory ----------------------------
(* The version-history screen: VersionHistoryViewModel with its one coroutine *)
(* at work, over the page of PageHistory, which another part of the app may   *)
(* scan again meanwhile. A call of the core runs on an I/O thread and its     *)
(* result is shown by the main thread later: two steps, between which the     *)
(* user may tap. Leaving the screen cancels the coroutine, never a call that  *)
(* an I/O thread has begun.                                                   *)
EXTENDS PageHistory, SequencesExt

CONSTANT PageSize      \* versions read at a time

ASSUME VersionAssumption == PageSize \in Nat \ {0}

VARIABLES captures,    \* the page's scans by captured_at_ms and id, latest first
          screen,      \* VersionHistoryUiState
          task,        \* the coroutine under runRead or runMutation
          late,        \* mutations of a screen that was left
          outrun       \* history: one of them took effect

screenVars == <<screen, task, late, outrun>>

-----------------------------------------------------------------------------
NoMore     == 0
NoTimeline == [items |-> <<>>, preferred |-> NoScan, next |-> NoMore, known |-> 0]
NoProposal == [baseline |-> NoScan, candidate |-> NoScan]
NewScreen  == [timeline |-> NoTimeline, selected |-> NoScan, comparison |-> NoProposal, proposal |-> NoProposal]

\* loading and mutating are the operation under way; a step of it is with an
\* I/O thread, or its result waits for the main thread.
Task(op, input) == [op |-> op, done |-> FALSE, input |-> input]
Result(output)  == [op |-> task.op, done |-> TRUE, input |-> output]
NoTask          == Task("none", NoScan)
Reading         == task.op \in {"load", "more", "details"}
Mutating        == task.op \in {"decide", "reload", "review"}
Idle            == ~Reading /\ ~Mutating

Version(s) == [scan |-> s, preferred |-> db.scans[s].preferred, decided |-> db.scans[s].decision # "none"]

\* Faulty: the rows that are read to learn that there are more count as read.
FaultyTimelinePage(offset) ==
    LET left == Len(captures) - offset IN
    [items     |-> [i \in 1 .. (IF left < PageSize THEN left ELSE PageSize) |-> Version(captures[offset + i])],
     preferred |-> db.pointer,
     next      |-> IF left > PageSize THEN offset + PageSize + 1 ELSE NoMore,
     known     |-> Len(db.scans)]

\* get_page_version_timeline: the rows after the offset, the latest capture
\* first. "known" is history: how many scans were registered when it was read.
TimelinePage(offset) ==
    LET left == Len(captures) - offset IN
    [items     |-> [i \in 1 .. (IF left < PageSize THEN left ELSE PageSize) |-> Version(captures[offset + i])],
     preferred |-> db.pointer,
     next      |-> IF left > PageSize THEN offset + PageSize ELSE NoMore,
     known     |-> Len(db.scans)]

Listed(list)     == {list[i].scan : i \in DOMAIN list}
Shown(timeline)  == Listed(timeline.items)
Find(timeline, s) == CHOOSE v \in {timeline.items[i] : i \in DOMAIN timeline.items} : v.scan = s

\* The selection stays if it is listed, else the first that is not preferred.
Selection(timeline, previous) ==
    LET others == {i \in DOMAIN timeline.items : ~timeline.items[i].preferred}
        first  == CHOOSE i \in others : \A j \in others : i <= j
    IN  CASE previous \in Shown(timeline) -> previous
          [] previous \notin Shown(timeline) /\ others # {} -> timeline.items[first].scan
          [] previous \notin Shown(timeline) /\ others = {} /\ timeline.items # <<>> -> Head(timeline.items).scan
          [] OTHER -> NoScan

\* refreshSelectionDetails, up to its first call.
Details(timeline, s) ==
    IF NoScan \in {timeline.preferred, s} \/ s = timeline.preferred THEN NoTask
    ELSE Task("details", [baseline |-> timeline.preferred, candidate |-> s, decided |-> Find(timeline, s).decided])

VersionInit ==
    /\ HistoryInit
    /\ captures = <<>>
    /\ screen = NewScreen /\ task = NoTask
    /\ late = {} /\ outrun = FALSE

-----------------------------------------------------------------------------
\* Another part of the app registers a scan. When its picture was taken is its
\* caller's word: it may be an older capture than any of the page.
RegisterCapture ==
    /\ RegisterScan
    /\ captures' \in IF db' = db THEN {captures}
                     ELSE {InsertAt(captures, k, Len(db'.scans)) : k \in 1 .. Len(captures) + 1}
    /\ UNCHANGED screenVars

\* What the user does.
Load ==
    /\ Idle
    /\ task' = Task("load", NoScan)
    /\ UNCHANGED <<historyVars, screen, late, outrun>>

LoadMore ==
    /\ Idle /\ screen.timeline.next # NoMore
    /\ task' = Task("more", screen.timeline)
    /\ UNCHANGED <<historyVars, screen, late, outrun>>

Select(s) == [screen EXCEPT !.selected = s, !.comparison = NoProposal, !.proposal = NoProposal]

\* selectVersion: the card can be tapped while a call is under way, and then
\* runRead returns at once.
SelectVersion(s) ==
    /\ s \in Shown(screen.timeline)
    /\ screen' = Select(s)
    /\ task' = IF Idle THEN Details(screen.timeline, s) ELSE task
    /\ UNCHANGED <<historyVars, late, outrun>>

Decisions == {"version", "preferred", "wrong"} \cup (IF smart THEN {"copy"} ELSE {})

ApplyDecision(decision) ==
    /\ Idle /\ screen.proposal # NoProposal
    /\ screen.selected # screen.timeline.preferred
    /\ task' = Task("decide", [proposal |-> screen.proposal, decision |-> decision])
    /\ UNCHANGED <<historyVars, screen, late, outrun>>

MoveSelectedToReview ==
    /\ Idle
    /\ screen.selected \in Shown(screen.timeline) \ {screen.timeline.preferred}
    /\ ~Find(screen.timeline, screen.selected).decided
    /\ task' = Task("review", screen.selected)
    /\ UNCHANGED <<historyVars, screen, late, outrun>>

\* The ViewModel is cleared. A mutation still with the I/O threads is cancelled
\* in time or not.
Leave ==
    /\ screen' = NewScreen /\ task' = NoTask
    /\ late' \in {late} \cup (IF Mutating /\ task.op # "reload" /\ ~task.done /\ late = {} THEN {{task}} ELSE {})
    /\ UNCHANGED <<historyVars, outrun>>

-----------------------------------------------------------------------------
\* What an I/O thread does.
ReadTimeline ==
    /\ task.op \in {"load", "reload"} /\ ~task.done
    /\ task' = Result(TimelinePage(0))
    /\ UNCHANGED <<historyVars, screen, late, outrun>>

ReadMore ==
    /\ task.op = "more" /\ ~task.done
    /\ task' = Result([timeline |-> task.input, next |-> TimelinePage(task.input.next)])
    /\ UNCHANGED <<historyVars, screen, late, outrun>>

\* comparePageVersions, then the proposal of a scan that is not decided; both
\* fail as get_scan_revision_proposal does.
ReadDetails ==
    LET d    == task.input
        pair == [baseline |-> d.baseline, candidate |-> d.candidate]
        compared == Comparable(db.scans[d.baseline]) /\ Comparable(db.scans[d.candidate])
    IN  /\ task.op = "details" /\ ~task.done
        /\ \/ /\ compared /\ d.decided
              /\ task' = Result([comparison |-> pair, proposal |-> NoProposal])
           \/ /\ compared /\ ~d.decided /\ Proposable(d.candidate)
              /\ task' = Result([comparison |-> pair, proposal |-> Proposal(d.candidate)])
           \/ /\ ~compared \/ (~d.decided /\ ~Proposable(d.candidate))
              /\ task' = NoTask
        /\ UNCHANGED <<historyVars, screen, late, outrun>>

\* resolve_scan_revision, whatever it answers.
Resolution(decision, p) ==
    \/ decision = "preferred" /\ ReplacePreferred(p)
    \/ decision = "version" /\ SaveAsNewVersion(p)
    \/ decision = "copy" /\ AnotherPhysicalCopy(p)
    \/ decision = "wrong" /\ WrongScan(p)

Effective(call) ==
    CASE call.op = "review" -> ~InReview(call.input)
      [] call.op = "decide" /\ call.input.decision = "preferred" -> Replaceable(call.input.proposal)
      [] OTHER -> Decidable(call.input.proposal)

Perform(call) ==
    /\ IF ~Effective(call) THEN UNCHANGED historyVars
       ELSE \/ call.op = "review" /\ MoveToReview(call.input)
            \/ call.op = "decide" /\ Resolution(call.input.decision, call.input.proposal)

\* What is decided already as asked is accepted, and changes nothing.
Repeated(decision, p) ==
    \/ decision = "preferred" /\ db.pointer = p.candidate
    \/ Current(p) /\ ~db.scans[p.candidate].preferred /\ db.scans[p.candidate].decision = decision

\* A decision that is refused ends with its error; any other reads the
\* timeline again.
AfterDecision(call) ==
    IF Effective(call) \/ Repeated(call.input.decision, call.input.proposal)
    THEN Task("reload", NoScan) ELSE NoTask

PerformDecision ==
    /\ task.op = "decide"
    /\ Perform(task)
    /\ task' = AfterDecision(task)
    /\ UNCHANGED <<screen, late, outrun>>

PerformReview ==
    /\ task.op = "review"
    /\ Perform(task)
    /\ task' = NoTask
    /\ UNCHANGED <<screen, late, outrun>>

PerformLate(call) ==
    /\ Perform(call)
    /\ late' = late \ {call} /\ outrun' = TRUE
    /\ UNCHANGED <<screen, task>>

-----------------------------------------------------------------------------
\* What the main thread does with a result.
ShowTimeline ==
    /\ task.op \in {"load", "reload"} /\ task.done
    /\ LET selected == Selection(task.input, screen.selected) IN
         /\ screen' = [NewScreen EXCEPT !.timeline = task.input, !.selected = selected]
         /\ task' = Details(task.input, selected)
    /\ UNCHANGED <<historyVars, late, outrun>>

\* The items of the next page are added one after the other, unless they are listed.
Appended(timeline, next) ==
    LET added[n \in 0 .. Len(next.items)] ==
            IF n = 0 THEN timeline.items
            ELSE IF next.items[n].scan \in Listed(added[n - 1]) THEN added[n - 1]
            ELSE Append(added[n - 1], next.items[n])
    IN  added[Len(next.items)]

ShowMore ==
    /\ task.op = "more" /\ task.done
    /\ screen' = [screen EXCEPT !.timeline =
                     [task.input.timeline EXCEPT !.items = Appended(task.input.timeline, task.input.next),
                                                 !.next = task.input.next.next]]
    /\ task' = NoTask
    /\ UNCHANGED <<historyVars, late, outrun>>

ShowDetails ==
    /\ task.op = "details" /\ task.done
    /\ screen' = [screen EXCEPT !.comparison = task.input.comparison, !.proposal = task.input.proposal]
    /\ task' = NoTask
    /\ UNCHANGED <<historyVars, late, outrun>>

VersionNext ==
    \/ RegisterCapture
    \/ /\ UNCHANGED captures
       /\ \/ Load \/ LoadMore \/ MoveSelectedToReview \/ Leave
          \/ \E s \in ScansOf(db) : SelectVersion(s)
          \/ \E decision \in Decisions : ApplyDecision(decision)
          \/ ReadTimeline \/ ReadMore \/ ReadDetails
          \/ PerformDecision \/ PerformReview
          \/ \E call \in late : PerformLate(call)
          \/ ShowTimeline \/ ShowMore \/ ShowDetails

versionVars == <<historyVars, captures, screenVars>>
VersionSpec == VersionInit /\ [][VersionNext]_versionVars

-----------------------------------------------------------------------------
\* The scan s is a later capture than t.
Above(s, t) == \E p, q \in DOMAIN captures : p < q /\ captures[p] = s /\ captures[q] = t

(* No version is listed twice, although scans registered between two pages    *)
(* move the offsets, wherever in the timeline their capture puts them. Of the *)
(* versions there were when the list was begun, it shows the latest captures, *)
(* in their order and without a gap, and all of them when it offers no more;  *)
(* only of versions registered since then may it leave some out, or show some *)
(* below older ones. What the screen says of a version is what the database   *)
(* says, but for the moment between a decision and the reload, and unless a   *)
(* mutation of a screen that was left overtook it.                            *)
ScreenTellsTruth ==
    LET timeline == screen.timeline
        listed   == timeline.items
        old      == 1 .. timeline.known
    IN
    /\ \A i, j \in DOMAIN listed : listed[i].scan = listed[j].scan => i = j
    /\ \A i, j \in DOMAIN listed :
          i < j /\ {listed[i].scan, listed[j].scan} \subseteq old => Above(listed[i].scan, listed[j].scan)
    /\ \A s \in old :
          timeline.next = NoMore \/ (\E t \in Shown(timeline) \cap old : Above(s, t)) => s \in Shown(timeline)
    /\ outrun \/ Mutating \/ \A i \in DOMAIN listed : listed[i] = Version(listed[i].scan)
=============================================================================
