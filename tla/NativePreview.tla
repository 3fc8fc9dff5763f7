--------------------------- MODULE NativePreview ---------------------------
(* Calls from Kotlin through the C interface into Rust: the preview of a      *)
(* capture, which borrows a cancellation handle that other threads cancel and *)
(* close, the analysis of a live frame and the resolution of a stored policy. *)
(* Rust allocates the result or the error of a call; Kotlin decodes a copy    *)
(* and gives the memory back. The blocks under the handle's lock are single   *)
(* steps, the native functions called outside it are steps of their own.      *)
(* The operators named Faulty... are plausible bugs of what follows them.     *)
EXTENDS Naturals, FiniteSets

CONSTANT Callers  \* threads that make one call each

VARIABLES handle,  \* PolicyPagePreviewCancellation
          native,  \* the Rust allocation behind it
          call,    \* the call of each thread
          closer   \* the thread that closes the handle

nativeVars == <<handle, native, call, closer>>

Kinds == {"preview", "frame", "policy"}
NoBuffer == "null"

Idle == [at |-> "idle", kind |-> "preview", output |-> NoBuffer, error |-> NoBuffer,
         result |-> "none"]

NativeInit ==
    /\ handle = [pointer |-> TRUE, borrows |-> 0, closing |-> FALSE]
    /\ native = [live |-> TRUE, cancelled |-> FALSE, frees |-> 0]
    /\ call = [c \in Callers |-> Idle]
    /\ closer = "open"

Goes(c, p) == call' = [call EXCEPT ![c].at = p]

-----------------------------------------------------------------------------
\* withPointer: a closed handle is a failed check.
Begin(c) ==
    /\ call[c].at = "idle"
    /\ \/ /\ handle.closing
          /\ call' = [call EXCEPT ![c].at = "returned", ![c].result = "thrown"]
          /\ UNCHANGED handle
       \/ /\ ~handle.closing
          /\ handle' = [handle EXCEPT !.borrows = @ + 1]
          /\ Goes(c, "entered")
    /\ UNCHANGED <<native, closer>>

\* analyze and resolveStoredScanPolicy borrow nothing.
BeginOther(c) ==
    /\ call[c].at = "idle"
    /\ \E k \in Kinds \ {"preview"} :
         call' = [call EXCEPT ![c].at = "working", ![c].kind = k]
    /\ UNCHANGED <<handle, native, closer>>

Returns(c, result, output, error) ==
    call' = [call EXCEPT ![c].at = "decoding", ![c].result = result,
                         ![c].output = output, ![c].error = error]
Succeeds(c) == Returns(c, "result", "live", NoBuffer)

\* An error, or a panic that catch_unwind stops. The text of an error that
\* cannot be encoded is empty, and an empty text needs no memory.
Fails(c) ==
    \E e \in {"live", NoBuffer} : Returns(c, "thrown", NoBuffer, e)

\* process_preview looks at the cancellation at its start, after the detection
\* and inside the pipeline; each look reads the memory behind the handle.
ProcessPreview(c) ==
    /\ call[c].kind = "preview" /\ call[c].at \in {"entered", "detected", "derived"}
    /\ \/ native.cancelled /\ Returns(c, "cancelled", NoBuffer, NoBuffer)
       \/ ~native.cancelled /\ call[c].at = "entered" /\ (Goes(c, "detected") \/ Fails(c))
       \/ ~native.cancelled /\ call[c].at = "detected" /\ (Goes(c, "derived") \/ Fails(c))
       \/ ~native.cancelled /\ call[c].at = "derived" /\ (Succeeds(c) \/ Fails(c))
    /\ UNCHANGED <<handle, native, closer>>

AnalyzeFrame(c) ==
    /\ call[c].kind = "frame" /\ call[c].at = "working"
    /\ (Succeeds(c) \/ Fails(c))
    /\ UNCHANGED <<handle, native, closer>>

ResolvePolicy(c) ==
    /\ call[c].kind = "policy" /\ call[c].at = "working"
    /\ (Succeeds(c) \/ Fails(c))
    /\ UNCHANGED <<handle, native, closer>>

\* A result that Kotlin does not accept is an exception.
Decode(c) ==
    /\ call[c].at = "decoding"
    /\ \/ Goes(c, "freeing")
       \/ call[c].result = "result" /\ call' = [call EXCEPT ![c].at = "freeing", ![c].result = "thrown"]
    /\ UNCHANGED <<handle, native, closer>>

Freed(b) == IF b = "live" THEN "freed" ELSE b

\* The finally of the call.
FreeBuffers(c) ==
    /\ call[c].at = "freeing"
    /\ call' = [call EXCEPT ![c].at = IF call[c].kind = "preview" THEN "leaving" ELSE "returned",
                            ![c].output = Freed(@), ![c].error = Freed(@)]
    /\ UNCHANGED <<handle, native, closer>>

-----------------------------------------------------------------------------
\* The last borrow of a closing handle takes the pointer, and frees it.
Release(c) ==
    LET last == handle.closing /\ handle.borrows = 1 IN
    /\ call[c].at = "leaving"
    /\ handle' = [handle EXCEPT !.borrows = @ - 1, !.pointer = @ /\ ~last]
    /\ Goes(c, IF last THEN "releasing" ELSE "returned")
    /\ UNCHANGED <<native, closer>>

Free == native' = [native EXCEPT !.live = FALSE, !.frees = @ + 1]

FreeHandle(c) ==
    /\ call[c].at = "releasing"
    /\ Free /\ Goes(c, "returned")
    /\ UNCHANGED <<handle, closer>>

Cancel ==
    /\ handle.pointer
    /\ native' = [native EXCEPT !.cancelled = TRUE]
    /\ UNCHANGED <<handle, call, closer>>

\* Faulty: the pointer is taken although a call still borrows it.
FaultyClose ==
    /\ closer = "open"
    /\ handle' = [handle EXCEPT !.closing = TRUE, !.pointer = FALSE]
    /\ native' = [native EXCEPT !.cancelled = TRUE]
    /\ closer' = "freeing"
    /\ UNCHANGED call

\* close cancels, and takes the pointer when nobody borrows it.
Close ==
    LET unused == handle.borrows = 0 IN
    /\ closer = "open"
    /\ handle' = [handle EXCEPT !.closing = TRUE, !.pointer = ~unused]
    /\ native' = [native EXCEPT !.cancelled = TRUE]
    /\ closer' = IF unused THEN "freeing" ELSE "closed"
    /\ UNCHANGED call

CloseFrees ==
    /\ closer = "freeing"
    /\ Free /\ closer' = "closed"
    /\ UNCHANGED <<handle, call>>

NativeNext ==
    \/ \E c \in Callers :
         \/ Begin(c) \/ BeginOther(c) \/ ProcessPreview(c) \/ AnalyzeFrame(c) \/ ResolvePolicy(c)
         \/ Decode(c) \/ FreeBuffers(c) \/ Release(c) \/ FreeHandle(c)
    \/ Cancel \/ Close \/ CloseFrees

NativeSpec == NativeInit /\ [][NativeNext]_nativeVars

-----------------------------------------------------------------------------
InRust(c) == call[c].kind = "preview" /\ call[c].at \in {"entered", "detected", "derived"}
Over == closer = "closed" /\ \A c \in Callers : call[c].at = "returned"

(* The memory behind the handle is there while a call in Rust may look at it  *)
(* and while cancel may reach it, is never freed twice, and is freed, like    *)
(* every buffer of a call, once the handle is closed and the calls are over,  *)
(* however calls, cancel and close interleave and whichever of them throws.   *)
MemoryIsSafe ==
    /\ (handle.pointer \/ \E c \in Callers : InRust(c)) => native.live
    /\ native.frees <= 1
    /\ Over => /\ native.frees = 1
               /\ \A c \in Callers : "live" \notin {call[c].output, call[c].error}
=============================================================================
