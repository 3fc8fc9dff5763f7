---------------------------- MODULE OcrContract ----------------------------
(* The contract of the OCR providers: what may be asked of one, which of its  *)
(* answers is taken for a result, and the record an adapter keeps of a job. A *)
(* text is its number of bytes; of a tag or a code it also matters whether    *)
(* its characters are allowed. A coordinate or a confidence that is not a     *)
(* number is one that is out of bounds, and a confidence is in percent.       *)
EXTENDS Integers, Sequences, SequencesExt

CONSTANTS Requests, Outputs, Times,  \* what callers pass
          MaxAttempts,               \* COMPAT_OCR_MAX_AUTOMATIC_ATTEMPTS
          MaxErrorBytes,             \* max_last_error_bytes
          LabelBytes, TagBytes, CodeBytes,
          Absent                     \* None

VARIABLE record  \* OcrJobRecord, or Absent

ASSUME ContractAssumption ==
    /\ MaxAttempts \in Nat \ {0} /\ MaxErrorBytes \in Nat \ {0}
    /\ Times \subseteq Int /\ Absent \notin Int
    /\ \A r \in Requests, o \in Outputs : Absent # [key |-> r.source.key, body |-> o]
    /\ \A o \in Outputs : o.kind \in {"Recognized", "Unavailable"}
    /\ \A o \in Outputs : o.kind = "Unavailable" => o.message \in Nat /\ o.retryable \in BOOLEAN
    /\ \A r \in Requests : r.limits.warningText \in Nat

-----------------------------------------------------------------------------
\* A request.

IsLabel(bytes) == bytes \in 1..LabelBytes
IsTag(tag)     == tag.bytes \in 1..TagBytes /\ tag.allowed
IsCode(code)   == code.bytes \in 1..CodeBytes /\ code.allowed

\* That no warning may be given is no fault of the limits.
LimitsOk(l) ==
    0 \notin {l.dimension, l.pixels, l.text, l.regions, l.regionText, l.languages, l.warningText}

SourceOk(s, l) ==
    s.width \in 1..l.dimension /\ s.height \in 1..l.dimension /\ s.width * s.height <= l.pixels

RequestOk(r) ==
    /\ LimitsOk(r.limits) /\ SourceOk(r.source, r.limits)
    /\ r.hint # Absent => IsLabel(r.hint)
    /\ \A tag \in ToSet(r.languages) : IsTag(tag)

-----------------------------------------------------------------------------
\* What a provider answers.

ProviderOk(p) == IsLabel(p.name) /\ IsLabel(p.version) /\ (p.model # Absent => IsLabel(p.model))

WarningOk(w, l) == IsCode(w.code) /\ IsLabel(w.key) /\ w.message \in 1..l.warningText

WarningsOk(ws, l) == Len(ws) <= l.warnings /\ \A w \in ToSet(ws) : WarningOk(w, l)

RectOk(b, s) ==
    b.right \in 0..s.width /\ b.left \in 0..b.right /\ b.bottom \in 0..s.height /\ b.top \in 0..b.bottom

PolygonOk(points, s) ==
    Len(points) \in 3..8 /\ \A p \in ToSet(points) : p.x \in 0..s.width /\ p.y \in 0..s.height

ConfidenceOk(c) == IF c.available THEN c.percent \in 0..100 ELSE IsLabel(c.reason)

RegionOk(g, s, l) ==
    /\ g.text <= l.regionText /\ PolygonOk(g.polygon, s)
    /\ g.box # Absent => RectOk(g.box, s)
    /\ ConfidenceOk(g.confidence)
    /\ Len(g.languages) <= l.languages /\ \A tag \in ToSet(g.languages) : IsTag(tag)

\* Text was found exactly if there is some, in the whole or in a region.
HasText(t) == t.text > 0 \/ \E g \in ToSet(t.regions) : g.text > 0

RecognizedOk(t, s, l) ==
    /\ ProviderOk(t.provider) /\ t.text <= l.text /\ Len(t.regions) <= l.regions
    /\ WarningsOk(t.warnings, l)
    /\ \A tag \in ToSet(t.languages) : IsTag(tag)
    /\ \A g \in ToSet(t.regions) : RegionOk(g, s, l)
    /\ t.presence = "Detected" <=> HasText(t)

UnavailableOk(u, l) ==
    /\ u.provider # Absent => ProviderOk(u.provider)
    /\ u.message \in 1..l.warningText /\ WarningsOk(u.warnings, l)

OutputOk(o, s, l) ==
    IF o.kind = "Recognized" THEN RecognizedOk(o, s, l) ELSE UnavailableOk(o, l)

\* normalize_ocr_output accepts output o for request r, and makes a result of it.
Normalizes(r, o) == RequestOk(r) /\ OutputOk(o, r.source, r.limits)
ResultOf(r, o)   == [key |-> r.source.key, body |-> o]

-----------------------------------------------------------------------------
\* The record of a job. No operation ever sets the time of a next retry.

Terminal(x) == x.status \in {"Recognized", "Unavailable", "Cancelled"}

RetryOk(x) == x.attempts <= MaxAttempts /\ (x.error # Absent => x.error \in 1..MaxErrorBytes)

Carries(x, kind) == x.result # Absent /\ x.result.body.kind = kind /\ x.result.key = x.key

JobOk(x) ==
    /\ x.created >= 0 /\ x.updated >= x.created
    /\ x.started # Absent => x.started >= x.created
    /\ x.completed # Absent => x.completed >= x.created
    /\ RetryOk(x)
    /\ \/ x.status = "Queued" /\ x.started = Absent /\ x.completed = Absent /\ x.result = Absent
       \/ x.status = "Running" /\ x.started # Absent /\ x.completed = Absent /\ x.result = Absent
       \/ x.status \in {"Recognized", "Unavailable"} /\ Carries(x, x.status)
       \/ x.status = "Cancelled" /\ x.completed # Absent /\ x.result = Absent /\ ~x.retryable
    /\ Terminal(x) => x.completed # Absent

QueuedJob(r, now) ==
    [key |-> r.source.key, status |-> "Queued", created |-> now, updated |-> now,
     started |-> Absent, completed |-> Absent, attempts |-> 0, retryable |-> TRUE,
     error |-> Absent, result |-> Absent]

StartedJob(x, now) ==
    [x EXCEPT !.status = "Running", !.updated = now, !.started = now, !.attempts = @ + 1]

\* Faulty: after the last attempt a failure still counts as temporary.
FaultyMayRetry(x, body) == body.kind = "Unavailable" /\ body.retryable

MayRetry(x, body) == body.kind = "Unavailable" /\ body.retryable /\ x.attempts < MaxAttempts

\* An answer may come for a job that never started, and for one that is settled.
CompletedJob(x, result, now) ==
    [x EXCEPT !.status = result.body.kind, !.updated = now, !.completed = now,
              !.retryable = MayRetry(x, result.body), !.result = result,
              !.error = IF result.body.kind = "Unavailable" THEN result.body.message ELSE Absent]

CancelledJob(x, now) ==
    [x EXCEPT !.status = "Cancelled", !.updated = now, !.completed = now, !.retryable = FALSE,
              !.result = Absent]

-----------------------------------------------------------------------------
ContractInit == record = Absent

queued(r, now) ==
    /\ record = Absent /\ now >= 0 /\ RequestOk(r)
    /\ record' = QueuedJob(r, now)

\* The steps of a record check it, and check what they make of it.
Becomes(now, next) ==
    /\ now >= 0 /\ JobOk(record) /\ JobOk(next)
    /\ record' = next

mark_running(now) ==
    /\ record # Absent /\ ~Terminal(record) /\ now >= record.created
    /\ Becomes(now, StartedJob(record, now))

complete_with_result(result, now) ==
    /\ record # Absent /\ result.key = record.key /\ now >= record.created
    /\ Becomes(now, CompletedJob(record, result, now))

cancel(now) ==
    /\ record # Absent /\ ~Terminal(record)
    /\ Becomes(now, CancelledJob(record, now))

ContractNext ==
    \E now \in Times :
        \/ \E r \in Requests : queued(r, now)
        \/ mark_running(now)
        \/ \E r \in Requests, o \in Outputs :
              Normalizes(r, o) /\ complete_with_result(ResultOf(r, o), now)
        \/ cancel(now)

-----------------------------------------------------------------------------
(* "must not promise retry behavior beyond the canonical durable core policy":*)
(* of what is settled only a failure that its provider calls temporary, and   *)
(* before the last attempt, may be tried again; and a message of a failure is *)
(* there exactly if the job failed, the one of the answer it was settled by.  *)
RetryIsPromised ==
    record # Absent =>
        /\ record.attempts \in 0..MaxAttempts
        /\ Terminal(record) /\ record.retryable =>
              /\ record.status = "Unavailable" /\ record.result.body.retryable
              /\ record.attempts < MaxAttempts
        /\ record.error = IF record.status = "Unavailable" THEN record.result.body.message ELSE Absent

(* A result is of the job's scan, picture and kind, and was checked against   *)
(* the limits of a request for just these.                                    *)
ResultIsChecked ==
    record # Absent /\ record.result # Absent =>
        \E r \in Requests, o \in Outputs :
            Normalizes(r, o) /\ r.source.key = record.key /\ record.result = ResultOf(r, o)

(* The check of a record that ends each step refuses nothing that the step's  *)
(* own conditions let through, but a start after the last attempt and the     *)
(* answer of a failure whose message is longer than a record may hold.        *)
NothingElseRefuses ==
    record # Absent =>
        /\ JobOk(record)
        /\ \A now \in Times : now >= record.created =>
              /\ ~Terminal(record) => JobOk(CancelledJob(record, now))
              /\ ~Terminal(record) /\ record.attempts < MaxAttempts => JobOk(StartedJob(record, now))
              /\ \A r \in Requests, o \in Outputs :
                    /\ Normalizes(r, o) /\ r.source.key = record.key
                    /\ o.kind = "Unavailable" => o.message <= MaxErrorBytes
                    => JobOk(CompletedJob(record, ResultOf(r, o), now))

(* Whatever is asked and answered, in whatever order and however late: a      *)
(* record promises no more than it may, holds nothing unchecked, and is not   *)
(* made useless by its own checks.                                            *)
RecordIsSound == RetryIsPromised /\ ResultIsChecked /\ NothingElseRefuses
=============================================================================
