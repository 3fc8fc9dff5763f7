---------------------------- MODULE ScannerProofs ----------------------------
(* Theorems about the models that MCScanner puts side by side, for any number *)
(* of callers, frames, cancellations, policies, notebooks, ticks and pictures. *)
(* A step of MCNext is a step of one model and leaves the others alone; so    *)
(* each theorem rests on an inductive invariant of its own model. The theorem *)
(* about the single-page screen is one of that module's own specification.    *)
EXTENDS MCScanner, FiniteSetTheorems, SequenceTheorems, NaturalsInduction,
        WellFoundedInduction, TLAPS

allVars == <<part, sessionVars, machineVars, schedulerVars, policyVars, nativeVars,
             pictureVars, qualityVars>>

-----------------------------------------------------------------------------
(* Native calls.                                                              *)

\* What the calls of a process can look like. A call holds buffers only while
\* Kotlin decodes and frees them, and only previews borrow the handle.
CallType ==
    [at : {"idle", "entered", "working", "detected", "derived", "decoding", "freeing", "leaving",
           "releasing", "returned"},
     kind : {"preview", "frame", "policy"},
     output : {"null", "live", "freed"}, error : {"null", "live", "freed"},
     result : {"none", "thrown", "result", "cancelled"}]

NativeTypeOK ==
    /\ handle \in [pointer : BOOLEAN, borrows : Nat, closing : BOOLEAN]
    /\ native \in [live : BOOLEAN, cancelled : BOOLEAN, frees : Nat]
    /\ call \in [Callers -> CallType]
    /\ closer \in {"open", "freeing", "closed"}

BuffersAreHeld ==
    \A c \in Callers :
        /\ call[c].at \notin {"decoding", "freeing"} => "live" \notin {call[c].output, call[c].error}
        /\ call[c].at \in {"idle", "entered", "detected", "derived", "leaving", "releasing"}
             => call[c].kind = "preview"

\* The calls that are counted in the handle's borrows.
Borrows(k) == k.kind = "preview" /\ k.at \in {"entered", "detected", "derived", "decoding", "freeing", "leaving"}
Borrowers  == {c \in Callers : Borrows(call[c])}

Releasing(c) == call[c].at = "releasing"

\* Whoever has the pointer, the handle or the one thread that took it from there,
\* is the one that will free the memory.
OneOwner ==
    /\ handle.borrows = Cardinality(Borrowers)
    /\ handle.closing <=> closer # "open"
    /\ handle.pointer =>
         /\ native.live /\ native.frees = 0
         /\ closer # "freeing" /\ \A c \in Callers : ~Releasing(c)
         /\ handle.closing => handle.borrows > 0
    /\ ~handle.pointer =>
         /\ handle.closing /\ handle.borrows = 0
         /\ native.live => native.frees = 0
         /\ ~native.live => native.frees = 1 /\ closer = "closed" /\ \A c \in Callers : ~Releasing(c)
         /\ closer = "freeing" => \A c \in Callers : ~Releasing(c)
         /\ \A c, d \in Callers : Releasing(c) /\ Releasing(d) => c = d
         /\ native.live /\ closer = "closed" => \E c \in Callers : Releasing(c)

NativeInv == NativeTypeOK /\ BuffersAreHeld /\ OneOwner

-----------------------------------------------------------------------------
\* A step of the whole is a step of the native model, or leaves it alone.
LEMMA NativeStep == [MCNext]_allVars => [Native!NativeNext]_nativeVars
BY DEF MCNext, allVars, nativeVars

\* What one thread's step does to the number of borrowers.
LEMMA BorrowersCount ==
  ASSUME call \in [Callers -> CallType], IsFiniteSet(Callers),
         NEW c \in Callers, NEW k \in CallType, call' = [call EXCEPT ![c] = k]
  PROVE  /\ Cardinality(Borrowers) \in Nat
         /\ Borrows(call[c]) => Cardinality(Borrowers) > 0
         /\ (Borrows(call[c]) <=> Borrows(k)) => Cardinality(Borrowers') = Cardinality(Borrowers)
         /\ Borrows(k) /\ ~Borrows(call[c]) => Cardinality(Borrowers') = Cardinality(Borrowers) + 1
         /\ Borrows(call[c]) /\ ~Borrows(k) => Cardinality(Borrowers') = Cardinality(Borrowers) - 1
<1>1. IsFiniteSet(Borrowers)
  BY FS_Subset DEF Borrowers
<1>2. Cardinality(Borrowers) \in Nat
  BY <1>1, FS_CardinalityType
<1>3. \A d \in Callers : call'[d] = IF d = c THEN k ELSE call[d]
  OBVIOUS
<1>4. ASSUME Borrows(call[c]) PROVE Cardinality(Borrowers) > 0
  <2>1. c \in Borrowers
    BY <1>4 DEF Borrowers
  <2>2. Cardinality(Borrowers) # 0
    BY <1>1, <2>1, FS_EmptySet
  <2> QED BY <1>2, <2>2
<1>5. ASSUME Borrows(call[c]) <=> Borrows(k) PROVE Cardinality(Borrowers') = Cardinality(Borrowers)
  <2>1. Borrowers' = Borrowers
    BY <1>3, <1>5 DEF Borrowers, Borrows
  <2> QED BY <2>1
<1>6. ASSUME Borrows(k), ~Borrows(call[c])
      PROVE  Cardinality(Borrowers') = Cardinality(Borrowers) + 1
  <2>1. Borrowers' = Borrowers \cup {c}
    BY <1>3, <1>6 DEF Borrowers, Borrows
  <2>2. c \notin Borrowers
    BY <1>6 DEF Borrowers
  <2> QED BY <1>1, <2>1, <2>2, FS_AddElement
<1>7. ASSUME Borrows(call[c]), ~Borrows(k)
      PROVE  Cardinality(Borrowers') = Cardinality(Borrowers) - 1
  <2>1. Borrowers' = Borrowers \ {c}
    BY <1>3, <1>7 DEF Borrowers, Borrows
  <2>2. c \in Borrowers
    BY <1>7 DEF Borrowers
  <2> QED BY <1>1, <2>1, <2>2, FS_RemoveElement
<1> QED BY <1>2, <1>4, <1>5, <1>6, <1>7

LEMMA NativeInitial == Native!NativeInit /\ IsFiniteSet(Callers) => NativeInv
<1> SUFFICES ASSUME Native!NativeInit, IsFiniteSet(Callers) PROVE NativeInv
  OBVIOUS
<1> USE DEF Native!NativeInit, Native!Idle, Native!NoBuffer
<1>1. NativeTypeOK
  BY DEF NativeTypeOK, CallType
<1>2. BuffersAreHeld
  BY DEF BuffersAreHeld
<1>3. Borrowers = {}
  BY DEF Borrowers, Borrows
<1>4. OneOwner
  BY <1>3, FS_EmptySet DEF OneOwner, Releasing
<1> QED BY <1>1, <1>2, <1>4 DEF NativeInv

\* A call whose step neither takes nor gives back the handle.
LEMMA QuietCall ==
  ASSUME NativeInv, IsFiniteSet(Callers),
         NEW c \in Callers, NEW k \in CallType,
         call' = [call EXCEPT ![c] = k],
         UNCHANGED <<handle, native, closer>>,
         Borrows(call[c]) <=> Borrows(k),
         ~Releasing(c), k.at # "releasing",
         k.at \notin {"decoding", "freeing"} => "live" \notin {k.output, k.error},
         k.at \in {"idle", "entered", "detected", "derived", "leaving", "releasing"} => k.kind = "preview"
  PROVE  NativeInv'
<1> USE DEF NativeInv
<1>1. \A d \in Callers : call'[d] = IF d = c THEN k ELSE call[d]
  BY DEF NativeTypeOK
<1>2. NativeTypeOK'
  BY DEF NativeTypeOK
<1>3. BuffersAreHeld'
  BY <1>1 DEF BuffersAreHeld
<1>4. Cardinality(Borrowers') = Cardinality(Borrowers)
  BY BorrowersCount DEF NativeTypeOK
<1>5. \A d \in Callers : Releasing(d)' <=> Releasing(d)
  BY <1>1 DEF Releasing
<1>6. OneOwner'
  BY <1>4, <1>5 DEF OneOwner
<1> QED BY <1>2, <1>3, <1>6

\* A native function returns: its result waits to be decoded.
LEMMA ReturnStep ==
  ASSUME NativeInv, IsFiniteSet(Callers), NEW c \in Callers,
         \/ call[c].at = "working" /\ call[c].kind # "preview"
         \/ call[c].at \in {"entered", "detected", "derived"} /\ call[c].kind = "preview",
         UNCHANGED <<handle, native, closer>>,
         \/ Native!Succeeds(c)
         \/ Native!Fails(c)
         \/ Native!Returns(c, "cancelled", Native!NoBuffer, Native!NoBuffer)
  PROVE  NativeInv'
<1>1. PICK r \in {"result", "thrown", "cancelled"}, o \in {"live", "null"}, e \in {"live", "null"} :
        Native!Returns(c, r, o, e)
  <2>1. CASE Native!Succeeds(c)
    BY <2>1 DEF Native!Succeeds, Native!NoBuffer
  <2>2. CASE Native!Fails(c)
    BY <2>2 DEF Native!Fails, Native!NoBuffer
  <2>3. CASE Native!Returns(c, "cancelled", Native!NoBuffer, Native!NoBuffer)
    BY <2>3 DEF Native!NoBuffer
  <2> QED BY <2>1, <2>2, <2>3
<1> DEFINE k == [call[c] EXCEPT !.at = "decoding", !.result = r, !.output = o, !.error = e]
<1>2. call[c] \in CallType
  BY DEF NativeInv, NativeTypeOK
<1>3. k \in CallType /\ k.at = "decoding" /\ k.kind = call[c].kind
  BY <1>2 DEF CallType
<1>4. call' = [call EXCEPT ![c] = k]
  BY <1>1, <1>2 DEF Native!Returns, CallType
<1>5. Borrows(call[c]) <=> Borrows(k)
  BY <1>3 DEF Borrows
<1> HIDE DEF k
<1> QED BY <1>3, <1>4, <1>5, QuietCall DEF Releasing

LEMMA NativeKept ==
  NativeInv /\ IsFiniteSet(Callers) /\ [Native!NativeNext]_nativeVars => NativeInv'
<1> SUFFICES ASSUME NativeInv, IsFiniteSet(Callers), [Native!NativeNext]_nativeVars PROVE NativeInv'
  OBVIOUS
<1> USE DEF NativeInv, Native!NoBuffer
<1>1. ASSUME NEW c \in Callers, Native!Begin(c) PROVE NativeInv'
  <2>1. CASE handle.closing
    <3> DEFINE k == [call[c] EXCEPT !.at = "returned", !.result = "thrown"]
    <3>1. k \in CallType /\ call' = [call EXCEPT ![c] = k]
      BY <1>1, <2>1, ZenonT(40) DEF Native!Begin, NativeTypeOK, CallType
    <3>2. ~Borrows(call[c]) /\ ~Borrows(k)
      BY <1>1, <2>1 DEF Native!Begin, NativeTypeOK, CallType, Borrows
    <3> QED BY <1>1, <2>1, <3>1, <3>2, QuietCall DEF Native!Begin, NativeTypeOK, CallType, BuffersAreHeld, Releasing
  <2>2. CASE ~handle.closing
    <3> DEFINE k == [call[c] EXCEPT !.at = "entered"]
    <3>1. k \in CallType /\ call' = [call EXCEPT ![c] = k]
      BY <1>1, <2>2 DEF Native!Begin, Native!Goes, NativeTypeOK, CallType
    <3>2. ~Borrows(call[c]) /\ Borrows(k)
      BY <1>1, <2>2 DEF Native!Begin, NativeTypeOK, CallType, Borrows, BuffersAreHeld
    <3>3. Cardinality(Borrowers') = Cardinality(Borrowers) + 1
      BY <3>1, <3>2, BorrowersCount DEF NativeTypeOK
    <3>4. handle' = [handle EXCEPT !.borrows = @ + 1] /\ UNCHANGED <<native, closer>>
      BY <1>1, <2>2 DEF Native!Begin
    <3>5. \A d \in Callers : call'[d] = IF d = c THEN k ELSE call[d]
      BY <3>1 DEF NativeTypeOK
    <3>6. NativeTypeOK'
      BY <3>1, <3>4 DEF NativeTypeOK
    <3>7. BuffersAreHeld'
      BY <1>1, <3>5 DEF BuffersAreHeld, Native!Begin, NativeTypeOK, CallType
    <3>8. \A d \in Callers : Releasing(d)' <=> Releasing(d)
      BY <1>1, <3>5 DEF Releasing, Native!Begin, NativeTypeOK, CallType
    <3>9. OneOwner'
      BY <2>2, <3>3, <3>4, <3>8 DEF OneOwner, NativeTypeOK
    <3> QED BY <3>6, <3>7, <3>9
  <2> QED BY <2>1, <2>2
<1>2. ASSUME NEW c \in Callers, Native!BeginOther(c) PROVE NativeInv'
  <2>1. PICK kind1 \in {"frame", "policy"} :
          call' = [call EXCEPT ![c] = [call[c] EXCEPT !.at = "working", !.kind = kind1]]
    BY <1>2 DEF Native!BeginOther, Native!Kinds, NativeTypeOK, CallType
  <2> DEFINE k == [call[c] EXCEPT !.at = "working", !.kind = kind1]
  <2>2. k \in CallType /\ ~Borrows(call[c]) /\ ~Borrows(k) /\ ~Releasing(c)
    BY <1>2, ZenonT(40) DEF Native!BeginOther, NativeTypeOK, CallType, Borrows, Releasing
  <2> QED BY <1>2, <2>1, <2>2, QuietCall DEF Native!BeginOther, NativeTypeOK, CallType, BuffersAreHeld
<1>3. ASSUME NEW c \in Callers, Native!ProcessPreview(c) PROVE NativeInv'
  <2>1. ASSUME NEW p \in {"detected", "derived"}, Native!Goes(c, p) PROVE NativeInv'
    <3> DEFINE k == [call[c] EXCEPT !.at = p]
    <3>1. k \in CallType /\ call' = [call EXCEPT ![c] = k]
      BY <2>1 DEF Native!Goes, NativeTypeOK, CallType
    <3>2. Borrows(call[c]) /\ Borrows(k) /\ ~Releasing(c) /\ k.at = p /\ k.kind = "preview"
          /\ "live" \notin {k.output, k.error}
      BY <1>3 DEF Native!ProcessPreview, NativeTypeOK, CallType, Borrows, Releasing, BuffersAreHeld
    <3> HIDE DEF k
    <3> QED BY <1>3, <3>1, <3>2, QuietCall DEF Native!ProcessPreview
  <2> QED BY <1>3, <2>1, ReturnStep DEF Native!ProcessPreview
<1>4. ASSUME NEW c \in Callers, Native!AnalyzeFrame(c) PROVE NativeInv'
  BY <1>4, ReturnStep DEF Native!AnalyzeFrame
<1>5. ASSUME NEW c \in Callers, Native!ResolvePolicy(c) PROVE NativeInv'
  BY <1>5, ReturnStep DEF Native!ResolvePolicy
<1>6. ASSUME NEW c \in Callers, Native!Decode(c) PROVE NativeInv'
  <2>1. PICK r \in {"none", "thrown", "result", "cancelled"} :
          call' = [call EXCEPT ![c] = [call[c] EXCEPT !.at = "freeing", !.result = r]]
    <3>1. CASE Native!Goes(c, "freeing")
      <4>1. /\ [call[c] EXCEPT !.at = "freeing"] = [call[c] EXCEPT !.at = "freeing", !.result = call[c].result]
            /\ call[c].result \in {"none", "thrown", "result", "cancelled"}
        BY DEF NativeTypeOK, CallType
      <4> QED BY <3>1, <4>1 DEF Native!Goes
    <3>2. CASE call' = [call EXCEPT ![c] = [call[c] EXCEPT !.at = "freeing", !.result = "thrown"]]
      BY <3>2
    <3> QED BY <1>6, <3>1, <3>2 DEF Native!Decode, NativeTypeOK, CallType
  <2> DEFINE k == [call[c] EXCEPT !.at = "freeing", !.result = r]
  <2>2. k \in CallType /\ k.at = "freeing" /\ k.kind = call[c].kind /\ ~Releasing(c)
    BY <1>6 DEF Native!Decode, NativeTypeOK, CallType, Releasing
  <2>3. Borrows(call[c]) <=> Borrows(k)
    BY <1>6, <2>2 DEF Native!Decode, Borrows
  <2> HIDE DEF k
  <2> QED BY <1>6, <2>1, <2>2, <2>3, QuietCall DEF Native!Decode, k
<1>7. ASSUME NEW c \in Callers, Native!FreeBuffers(c) PROVE NativeInv'
  <2> DEFINE k == [call[c] EXCEPT !.at = IF call[c].kind = "preview" THEN "leaving" ELSE "returned",
                                  !.output = Native!Freed(@), !.error = Native!Freed(@)]
  <2>1. call' = [call EXCEPT ![c] = k]
    BY <1>7 DEF Native!FreeBuffers, NativeTypeOK, CallType
  <2>2. k \in CallType /\ k.kind = call[c].kind /\ "live" \notin {k.output, k.error} /\ ~Releasing(c)
        /\ k.at = IF call[c].kind = "preview" THEN "leaving" ELSE "returned"
    BY <1>7, ZenonT(60) DEF Native!FreeBuffers, Native!Freed, NativeTypeOK, CallType, Releasing
  <2>3. Borrows(call[c]) <=> Borrows(k)
    BY <1>7, <2>2 DEF Native!FreeBuffers, Borrows
  <2> HIDE DEF k
  <2> QED BY <1>7, <2>1, <2>2, <2>3, QuietCall DEF Native!FreeBuffers
<1>8. ASSUME NEW c \in Callers, Native!Release(c) PROVE NativeInv'
  <2> DEFINE last == handle.closing /\ handle.borrows = 1
             k == [call[c] EXCEPT !.at = IF last THEN "releasing" ELSE "returned"]
  <2>1. k \in CallType /\ call' = [call EXCEPT ![c] = k]
        /\ handle' = [handle EXCEPT !.borrows = @ - 1, !.pointer = @ /\ ~last]
        /\ UNCHANGED <<native, closer>>
    BY <1>8 DEF Native!Release, Native!Goes, NativeTypeOK, CallType
  <2>2. Borrows(call[c]) /\ ~Borrows(k) /\ call[c].at = "leaving" /\ call[c].kind = "preview"
        /\ "live" \notin {call[c].output, call[c].error}
        /\ k.at = (IF last THEN "releasing" ELSE "returned") /\ k.kind = "preview"
        /\ k.output = call[c].output /\ k.error = call[c].error
    BY <1>8 DEF Native!Release, NativeTypeOK, CallType, BuffersAreHeld, Borrows
  <2> HIDE DEF k
  <2>3. Cardinality(Borrowers') = Cardinality(Borrowers) - 1 /\ Cardinality(Borrowers) > 0
    BY <2>1, <2>2, BorrowersCount DEF NativeTypeOK
  <2>4. \A d \in Callers : call'[d] = IF d = c THEN k ELSE call[d]
    BY <2>1 DEF NativeTypeOK
  <2>5. handle.borrows > 0 /\ handle.borrows \in Nat /\ handle.pointer
    BY <2>3 DEF OneOwner, NativeTypeOK
  <2>6. NativeTypeOK'
    <3>1. handle.borrows - 1 \in Nat
      BY <2>5
    <3>2. handle' \in [pointer : BOOLEAN, borrows : Nat, closing : BOOLEAN]
      BY <2>1, <3>1, Zenon DEF NativeTypeOK
    <3> QED BY <2>1, <3>2 DEF NativeTypeOK
  <2>7. BuffersAreHeld'
    BY <2>2, <2>4 DEF BuffersAreHeld
  <2>8. \A d \in Callers : Releasing(d)' <=> (d = c /\ last)
    BY <2>2, <2>4, <2>5 DEF Releasing, OneOwner
  <2>9. OneOwner'
    <3>1. handle'.borrows = Cardinality(Borrowers')
      BY <2>1, <2>3 DEF OneOwner, NativeTypeOK
    <3>2. CASE last
      <4>1. /\ ~handle'.pointer /\ handle'.closing /\ handle'.borrows = 0
            /\ native'.live /\ native'.frees = 0 /\ closer' = "closed"
        <5>1. ~handle'.pointer /\ handle'.closing
          BY <2>1, <3>2, Zenon DEF NativeTypeOK
        <5>2. handle'.borrows = 0
          BY <2>1, <3>2 DEF NativeTypeOK
        <5> QED BY <2>1, <2>5, <3>2, <5>1, <5>2 DEF OneOwner, NativeTypeOK
      <4>2. Releasing(c)'
        BY <2>8, <3>2
      <4> QED BY <2>8, <3>1, <4>1, <4>2 DEF OneOwner
    <3>3. CASE ~last
      BY <2>1, <2>5, <2>8, <3>1, <3>3 DEF OneOwner, NativeTypeOK
    <3> QED BY <3>2, <3>3
  <2> QED BY <2>6, <2>7, <2>9
<1>9. ASSUME NEW c \in Callers, Native!FreeHandle(c) PROVE NativeInv'
  <2> DEFINE k == [call[c] EXCEPT !.at = "returned"]
  <2>1. k \in CallType /\ call' = [call EXCEPT ![c] = k] /\ UNCHANGED <<handle, closer>>
        /\ native' = [native EXCEPT !.live = FALSE, !.frees = @ + 1]
    BY <1>9 DEF Native!FreeHandle, Native!Free, Native!Goes, NativeTypeOK, CallType
  <2>2. ~Borrows(call[c]) /\ ~Borrows(k) /\ Releasing(c) /\ k.at = "returned"
        /\ "live" \notin {k.output, k.error}
    BY <1>9 DEF Native!FreeHandle, NativeTypeOK, CallType, Borrows, BuffersAreHeld, Releasing
  <2> HIDE DEF k
  <2>3. Cardinality(Borrowers') = Cardinality(Borrowers)
    BY <2>1, <2>2, BorrowersCount DEF NativeTypeOK
  <2>4. \A d \in Callers : call'[d] = IF d = c THEN k ELSE call[d]
    BY <2>1 DEF NativeTypeOK
  <2>5. NativeTypeOK'
    <3>1. native.frees + 1 \in Nat
      BY DEF NativeTypeOK
    <3>2. native' \in [live : BOOLEAN, cancelled : BOOLEAN, frees : Nat]
      BY <2>1, <3>1, Zenon DEF NativeTypeOK
    <3> QED BY <2>1, <3>2 DEF NativeTypeOK
  <2>6. BuffersAreHeld'
    BY <2>2, <2>4 DEF BuffersAreHeld
  <2>7. ~handle.pointer /\ native.live /\ native.frees = 0 /\ closer = "closed"
    BY <2>2 DEF OneOwner, NativeTypeOK
  <2>8. \A d \in Callers : ~Releasing(d)'
    BY <2>2, <2>4, <2>7 DEF Releasing, OneOwner
  <2>9. OneOwner'
    BY <2>1, <2>3, <2>7, <2>8 DEF OneOwner, NativeTypeOK
  <2> QED BY <2>5, <2>6, <2>9
<1>10. ASSUME Native!Cancel \/ Native!Close \/ Native!CloseFrees PROVE NativeInv'
  <2>1. UNCHANGED call
    BY <1>10 DEF Native!Cancel, Native!Close, Native!CloseFrees
  <2>2. BuffersAreHeld' /\ Borrowers' = Borrowers /\ \A c \in Callers : Releasing(c)' <=> Releasing(c)
    BY <2>1 DEF BuffersAreHeld, Borrowers, Releasing
  <2>3. NativeTypeOK'
    <3>1. CASE Native!Cancel
      BY <3>1, Zenon DEF Native!Cancel, NativeTypeOK
    <3>2. CASE Native!Close
      <4>1. (~(handle.borrows = 0)) \in BOOLEAN
        OBVIOUS
      <4>2. /\ handle' \in [pointer : BOOLEAN, borrows : Nat, closing : BOOLEAN]
            /\ native' \in [live : BOOLEAN, cancelled : BOOLEAN, frees : Nat]
        BY <3>2, <4>1, Zenon DEF Native!Close, NativeTypeOK
      <4> QED BY <3>2, <4>2 DEF Native!Close, NativeTypeOK
    <3>3. CASE Native!CloseFrees
      <4>1. native.frees + 1 \in Nat
        BY DEF NativeTypeOK
      <4>2. native' \in [live : BOOLEAN, cancelled : BOOLEAN, frees : Nat]
        BY <3>3, <4>1, Zenon DEF Native!CloseFrees, Native!Free, NativeTypeOK
      <4> QED BY <3>3, <4>2 DEF Native!CloseFrees, NativeTypeOK
    <3> QED BY <1>10, <3>1, <3>2, <3>3
  <2>4. OneOwner'
    <3>1. CASE Native!Cancel
      BY <2>2, <3>1 DEF Native!Cancel, OneOwner, NativeTypeOK
    <3>2. CASE Native!Close
      BY <2>2, <3>2 DEF Native!Close, OneOwner, NativeTypeOK
    <3>3. CASE Native!CloseFrees
      BY <2>2, <3>3 DEF Native!CloseFrees, Native!Free, OneOwner, NativeTypeOK
    <3> QED BY <1>10, <3>1, <3>2, <3>3
  <2> QED BY <2>2, <2>3, <2>4
<1>11. ASSUME UNCHANGED nativeVars PROVE NativeInv'
  BY <1>11 DEF nativeVars, NativeTypeOK, BuffersAreHeld, OneOwner, Borrowers, Releasing
<1> QED
  BY <1>1, <1>2, <1>3, <1>4, <1>5, <1>6, <1>7, <1>8, <1>9, <1>10, <1>11 DEF Native!NativeNext

(* The memory behind a cancellation handle: it is there while a call in Rust  *)
(* or cancel may reach it, it is freed at most once, and once the handle is   *)
(* closed and every call has returned it, and every buffer, was freed.        *)
THEOREM NativeMemory == MCSpec => []MemoryIsSafe
<1>1. MCInit => NativeInv
  BY NativeInitial, CallersAssumption DEF MCInit
<1>2. NativeInv /\ [MCNext]_allVars => NativeInv'
  BY NativeStep, NativeKept, CallersAssumption
<1>3. NativeInv => MemoryIsSafe
  <2> SUFFICES ASSUME NativeInv PROVE MemoryIsSafe
    OBVIOUS
  <2>1. ASSUME NEW c \in Callers, Native!InRust(c) PROVE native.live
    <3>1. Borrows(call[c])
      BY <2>1 DEF Native!InRust, Borrows
    <3>2. handle.borrows # 0
      <4>1. IsFiniteSet(Borrowers) /\ c \in Borrowers
        BY <3>1, CallersAssumption, FS_Subset DEF Borrowers
      <4> QED BY <4>1, FS_EmptySet DEF NativeInv, OneOwner
    <3> QED BY <3>2 DEF NativeInv, OneOwner
  <2>2. ASSUME Native!Over PROVE native.frees = 1
    <3>1. Borrowers = {} /\ \A c \in Callers : ~Releasing(c)
      BY <2>2 DEF Native!Over, Borrowers, Borrows, Releasing
    <3>2. handle.borrows = 0
      BY <3>1, FS_EmptySet DEF NativeInv, OneOwner
    <3> QED BY <2>2, <3>1, <3>2 DEF Native!Over, NativeInv, NativeTypeOK, OneOwner
  <2>3. ASSUME Native!Over, NEW c \in Callers PROVE "live" \notin {call[c].output, call[c].error}
    BY <2>3 DEF Native!Over, NativeInv, BuffersAreHeld
  <2> QED BY <2>1, <2>2, <2>3 DEF MemoryIsSafe, Native!MemoryIsSafe, NativeInv, NativeTypeOK, OneOwner
<1> QED BY <1>1, <1>2, <1>3, PTL DEF MCSpec, allVars
-----------------------------------------------------------------------------
(* The frame scheduler.                                                       *)

FrameType == [sequence : Nat, generation : Nat]
Nobody    == Scheduler!NoFrameYet
Events    == {"Rejected", "Dropped", "Infrastructure", "Discarded", "Succeeded", "Failed"}

SchedulerTypeOK ==
    /\ sched \in [next : Nat, latest : Nat, generation : Nat, pending : FrameType,
                  scheduled : BOOLEAN, closed : BOOLEAN]
    /\ camera0 \in [at : {"idle", "report", "execute"}, frame : FrameType]
    /\ main0 \in [at : {"idle", "cancelled", "closing", "shutdown", "closed"}, frame : FrameType]
    /\ worker \in [at : {"idle", "queued", "next", "analysing", "Discarded", "Succeeded", "Failed"},
                   frame : FrameType]
    /\ outcomes \in [Scheduler!Numbers -> SUBSET Events]

\* Whose step it is, and what the others cannot be doing meanwhile.
TurnsAreTaken ==
    /\ main0.at \in {"idle", "shutdown", "closed"} => main0.frame = Nobody
    /\ worker.at \in {"idle", "queued", "next"} => worker.frame = Nobody
    /\ worker.at # "idle" => sched.scheduled /\ camera0.at # "execute"
    /\ camera0.at = "execute" => sched.scheduled /\ sched.pending \in {Nobody, camera0.frame}
    /\ sched.closed <=> main0.at \in {"closing", "shutdown", "closed"}
    /\ sched.pending # Nobody => sched.scheduled /\ ~sched.closed
    /\ sched.scheduled => worker.at # "idle" \/ camera0.at = "execute" \/ down
    /\ down => sched.closed

\* A frame has one keeper; the one the camera starts the worker for is not the
\* camera's own any more.
HasKeeper(n) ==
    \/ outcomes[n] # {}
    \/ n \in {sched.pending.sequence, main0.frame.sequence, worker.frame.sequence}
    \/ camera0.at = "report" /\ n = camera0.frame.sequence

FramesAreKept == \A n \in Scheduler!Numbers : n < sched.next => HasKeeper(n)

GenerationCountsCancels == cancels \in Nat /\ (~sched.closed => sched.generation = cancels)

SchedulerInv == SchedulerTypeOK /\ TurnsAreTaken /\ FramesAreKept /\ GenerationCountsCancels

LEMMA SchedulerStep == [MCNext]_allVars => [Scheduler!SchedulerNext]_schedulerVars
BY DEF MCNext, allVars, schedulerVars

LEMMA NobodyIsAFrame == Nobody \in FrameType /\ Nobody.sequence = 0 /\ \A n \in Scheduler!Numbers : n \in Nat /\ n > 0
BY DEF Nobody, Scheduler!NoFrameYet, FrameType, Scheduler!Numbers

LEMMA SchedulerInitial == Scheduler!SchedulerInit => SchedulerInv
<1> SUFFICES ASSUME Scheduler!SchedulerInit PROVE SchedulerInv
  OBVIOUS
<1> USE DEF Scheduler!SchedulerInit, Scheduler!Idling, Scheduler!At, Nobody
<1>1. SchedulerTypeOK
  <2>1. outcomes \in [Scheduler!Numbers -> SUBSET Events]
    OBVIOUS
  <2> QED BY <2>1, NobodyIsAFrame DEF SchedulerTypeOK
<1>2. TurnsAreTaken /\ GenerationCountsCancels
  BY DEF TurnsAreTaken, GenerationCountsCancels
<1>3. FramesAreKept
  BY NobodyIsAFrame DEF FramesAreKept
<1> QED BY <1>1, <1>2, <1>3 DEF SchedulerInv

\* What is published of a frame stays published.
LEMMA PublishKeeps ==
  ASSUME SchedulerTypeOK, NEW f \in FrameType, NEW e \in Events, Scheduler!Publish(f, e)
  PROVE  /\ outcomes' \in [Scheduler!Numbers -> SUBSET Events]
         /\ \A n \in Scheduler!Numbers :
              /\ outcomes[n] # {} => outcomes'[n] # {}
              /\ n = f.sequence => outcomes'[n] # {}
<1>1. outcomes' = [n \in Scheduler!Numbers |->
                     IF n = f.sequence THEN outcomes[n] \cup {e} ELSE outcomes[n]]
  BY DEF Scheduler!Publish, SchedulerTypeOK
<1>2. \A n \in Scheduler!Numbers : outcomes[n] \in SUBSET Events
  BY DEF SchedulerTypeOK
<1> QED BY <1>1, <1>2

LEMMA SchedulerKept == SchedulerInv /\ [Scheduler!SchedulerNext]_schedulerVars => SchedulerInv'
<1> SUFFICES ASSUME SchedulerInv, [Scheduler!SchedulerNext]_schedulerVars PROVE SchedulerInv'
  OBVIOUS
<1> USE NobodyIsAFrame DEF SchedulerInv
<1>1. CASE Scheduler!Submit
  <2> DEFINE f == [sequence |-> sched.next, generation |-> sched.generation]
  <2>1. f \in FrameType /\ f.sequence = sched.next /\ sched.next \in Nat /\ sched.next + 1 \in Nat
    BY DEF SchedulerTypeOK, FrameType
  <2>2. CASE sched.closed
    <3>1. /\ sched' = [sched EXCEPT !.next = @ + 1] /\ Scheduler!Publish(f, "Rejected")
          /\ UNCHANGED <<camera0, main0, worker, down, cancels>>
      BY <1>1, <2>2 DEF Scheduler!Submit
    <3> HIDE DEF f
    <3>2. /\ outcomes' \in [Scheduler!Numbers -> SUBSET Events]
          /\ \A n \in Scheduler!Numbers : /\ outcomes[n] # {} => outcomes'[n] # {}
                                          /\ n = f.sequence => outcomes'[n] # {}
      BY <2>1, <3>1, PublishKeeps DEF Events
    <3>3. /\ sched' \in [next : Nat, latest : Nat, generation : Nat, pending : FrameType,
                         scheduled : BOOLEAN, closed : BOOLEAN]
          /\ sched'.next = sched.next + 1 /\ sched'.pending = sched.pending
          /\ sched'.scheduled = sched.scheduled /\ sched'.closed = sched.closed
          /\ sched'.generation = sched.generation
      BY <2>1, <3>1 DEF SchedulerTypeOK
    <3>4. SchedulerTypeOK'
      BY <3>1, <3>2, <3>3 DEF SchedulerTypeOK
    <3>5. TurnsAreTaken' /\ GenerationCountsCancels'
      BY <3>1, <3>3 DEF TurnsAreTaken, GenerationCountsCancels
    <3>6. FramesAreKept'
      BY <2>1, <3>1, <3>2, <3>3 DEF FramesAreKept, HasKeeper
    <3> QED BY <3>4, <3>5, <3>6
  <2>3. CASE ~sched.closed
    <3> DEFINE c == [at |-> IF sched.scheduled THEN "report" ELSE "execute",
                     frame |-> IF sched.scheduled THEN sched.pending ELSE f]
    <3>1. /\ sched' = [sched EXCEPT !.next = @ + 1, !.latest = f.sequence, !.pending = f, !.scheduled = TRUE]
          /\ camera0' = c /\ camera0.at = "idle"
          /\ UNCHANGED <<main0, worker, down, cancels, outcomes>>
      BY <1>1, <2>3 DEF Scheduler!Submit
    <3> HIDE DEF f
    <3>2. /\ sched' \in [next : Nat, latest : Nat, generation : Nat, pending : FrameType,
                         scheduled : BOOLEAN, closed : BOOLEAN]
          /\ sched'.next = sched.next + 1 /\ sched'.pending = f
          /\ sched'.scheduled /\ sched'.closed = sched.closed
          /\ sched'.generation = sched.generation
      BY <2>1, <3>1 DEF SchedulerTypeOK
    <3>3. SchedulerTypeOK'
      BY <2>1, <3>1, <3>2 DEF SchedulerTypeOK
    <3>4. TurnsAreTaken' /\ GenerationCountsCancels'
      BY <2>3, <3>1, <3>2 DEF TurnsAreTaken, GenerationCountsCancels
    <3>5. \A n \in Scheduler!Numbers : n < sched'.next => n < sched.next \/ n = f.sequence
      BY <2>1, <3>2
    <3>6. \A n \in Scheduler!Numbers : HasKeeper(n) => HasKeeper(n)'
      BY <3>1, <3>2 DEF HasKeeper, TurnsAreTaken, c
    <3>7. \A n \in Scheduler!Numbers : n = f.sequence => HasKeeper(n)'
      BY <3>2 DEF HasKeeper
    <3>8. FramesAreKept'
      BY <3>5, <3>6, <3>7 DEF FramesAreKept
    <3> QED BY <3>3, <3>4, <3>8
  <2> QED BY <2>2, <2>3
<1>2. CASE Scheduler!ReportSuperseded
  <2>1. camera0.at = "report" /\ camera0' = [at |-> "idle", frame |-> Nobody]
        /\ UNCHANGED <<sched, main0, worker, down, cancels>>
    BY <1>2 DEF Scheduler!ReportSuperseded, Scheduler!Idling, Scheduler!At, Nobody
  <2>2. /\ outcomes' \in [Scheduler!Numbers -> SUBSET Events]
        /\ \A n \in Scheduler!Numbers : /\ outcomes[n] # {} => outcomes'[n] # {}
                                        /\ n = camera0.frame.sequence => outcomes'[n] # {}
    <3>1. CASE camera0.frame = Nobody
      BY <1>2, <3>1 DEF Scheduler!ReportSuperseded, SchedulerTypeOK, Nobody
    <3>2. CASE camera0.frame # Nobody
      <4>1. Scheduler!Publish(camera0.frame, "Dropped") /\ camera0.frame \in FrameType
        BY <1>2, <3>2 DEF Scheduler!ReportSuperseded, SchedulerTypeOK, Nobody
      <4> QED BY <4>1, PublishKeeps DEF Events
    <3> QED BY <3>1, <3>2
  <2>3. SchedulerTypeOK'
    BY <2>1, <2>2 DEF SchedulerTypeOK
  <2>4. TurnsAreTaken' /\ GenerationCountsCancels'
    BY <2>1 DEF TurnsAreTaken, GenerationCountsCancels
  <2>5. FramesAreKept'
    BY <2>1, <2>2 DEF FramesAreKept, HasKeeper
  <2> QED BY <2>3, <2>4, <2>5
<1>3. CASE Scheduler!StartWorker
  <2>1. camera0.at = "execute" /\ camera0' = [at |-> "idle", frame |-> Nobody]
        /\ UNCHANGED <<main0, down, cancels>> /\ worker.at = "idle" /\ worker.frame = Nobody
    BY <1>3 DEF Scheduler!StartWorker, Scheduler!Idling, Scheduler!At, Nobody, TurnsAreTaken
  <2>2. CASE down
    <3> DEFINE f == IF kind = "page" /\ sched.pending # Nobody THEN sched.pending ELSE camera0.frame
    <3>1. /\ sched' = [sched EXCEPT !.scheduled = FALSE, !.generation = @ + 1, !.pending = Nobody]
          /\ Scheduler!Publish(f, "Infrastructure") /\ UNCHANGED worker
      BY <1>3, <2>2 DEF Scheduler!StartWorker, Nobody
    <3>2. f \in FrameType /\ (sched.pending # Nobody => f = sched.pending)
      BY <2>1 DEF SchedulerTypeOK, TurnsAreTaken
    <3> HIDE DEF f
    <3>3. /\ outcomes' \in [Scheduler!Numbers -> SUBSET Events]
          /\ \A n \in Scheduler!Numbers : /\ outcomes[n] # {} => outcomes'[n] # {}
                                          /\ n = f.sequence => outcomes'[n] # {}
      BY <3>1, <3>2, PublishKeeps DEF Events
    <3>4. /\ sched' \in [next : Nat, latest : Nat, generation : Nat, pending : FrameType,
                         scheduled : BOOLEAN, closed : BOOLEAN]
          /\ sched'.next = sched.next /\ sched'.pending = Nobody
          /\ ~sched'.scheduled /\ sched'.closed = sched.closed
      <4>1. sched.generation + 1 \in Nat
        BY DEF SchedulerTypeOK
      <4>2. sched' \in [next : Nat, latest : Nat, generation : Nat, pending : FrameType,
                        scheduled : BOOLEAN, closed : BOOLEAN]
        BY <3>1, <4>1, Zenon DEF SchedulerTypeOK
      <4>3. sched'.next = sched.next /\ sched'.pending = Nobody
        BY <3>1 DEF SchedulerTypeOK
      <4>4. ~sched'.scheduled /\ sched'.closed = sched.closed
        BY <3>1, Zenon DEF SchedulerTypeOK
      <4> QED BY <4>2, <4>3, <4>4
    <3>5. SchedulerTypeOK'
      BY <2>1, <3>1, <3>3, <3>4 DEF SchedulerTypeOK
    <3>6. TurnsAreTaken' /\ GenerationCountsCancels'
      BY <2>1, <2>2, <3>1, <3>4 DEF TurnsAreTaken, GenerationCountsCancels
    <3>7. FramesAreKept'
      BY <2>1, <3>1, <3>2, <3>3, <3>4 DEF FramesAreKept, HasKeeper
    <3> QED BY <3>5, <3>6, <3>7
  <2>3. CASE ~down
    <3>1. worker' = [at |-> "queued", frame |-> Nobody] /\ UNCHANGED <<sched, outcomes>>
      BY <1>3, <2>3 DEF Scheduler!StartWorker, Scheduler!At, Nobody
    <3>2. SchedulerTypeOK'
      BY <2>1, <3>1 DEF SchedulerTypeOK
    <3>3. TurnsAreTaken' /\ GenerationCountsCancels'
      BY <2>1, <3>1 DEF TurnsAreTaken, GenerationCountsCancels
    <3>4. FramesAreKept'
      BY <2>1, <3>1 DEF FramesAreKept, HasKeeper
    <3> QED BY <3>2, <3>3, <3>4
  <2> QED BY <2>2, <2>3
<1>4. CASE Scheduler!Cancel \/ Scheduler!Close
  <2>1. PICK p \in {"cancelled", "closing"}, closed \in BOOLEAN :
          /\ sched' = [sched EXCEPT !.closed = closed, !.generation = @ + 1, !.pending = Nobody]
          /\ main0' = [at |-> p, frame |-> sched.pending]
          /\ closed <=> p = "closing"
          /\ ~closed => cancels' = cancels + 1
          /\ closed => UNCHANGED cancels
    <3>1. CASE Scheduler!Cancel
      <4>1. [sched EXCEPT !.generation = @ + 1, !.pending = Nobody]
              = [sched EXCEPT !.closed = FALSE, !.generation = @ + 1, !.pending = Nobody]
        BY <3>1 DEF Scheduler!Cancel, SchedulerTypeOK
      <4> QED BY <3>1, <4>1 DEF Scheduler!Cancel, Scheduler!At, Nobody
    <3>2. CASE Scheduler!Close
      BY <3>2 DEF Scheduler!Close, Scheduler!At, Nobody
    <3> QED BY <1>4, <3>1, <3>2
  <2>2. main0.at = "idle" /\ ~sched.closed /\ UNCHANGED <<camera0, worker, down, outcomes>>
    BY <1>4 DEF Scheduler!Cancel, Scheduler!Close
  <2>3. /\ sched' \in [next : Nat, latest : Nat, generation : Nat, pending : FrameType,
                       scheduled : BOOLEAN, closed : BOOLEAN]
        /\ sched'.next = sched.next /\ sched'.pending = Nobody
        /\ sched'.scheduled = sched.scheduled /\ sched'.closed = closed
        /\ sched'.generation = sched.generation + 1
    <3>1. sched.generation + 1 \in Nat
      BY DEF SchedulerTypeOK
    <3>2. sched' \in [next : Nat, latest : Nat, generation : Nat, pending : FrameType,
                      scheduled : BOOLEAN, closed : BOOLEAN]
      BY <2>1, <3>1, Zenon DEF SchedulerTypeOK
    <3>3. sched'.next = sched.next /\ sched'.pending = Nobody /\ sched'.generation = sched.generation + 1
      BY <2>1 DEF SchedulerTypeOK
    <3>4. sched'.scheduled = sched.scheduled /\ sched'.closed = closed
      BY <2>1, Zenon DEF SchedulerTypeOK
    <3> QED BY <3>2, <3>3, <3>4
  <2>4. SchedulerTypeOK'
    BY <2>1, <2>2, <2>3 DEF SchedulerTypeOK
  <2>5. TurnsAreTaken'
    BY <2>1, <2>2, <2>3 DEF TurnsAreTaken
  <2>6. GenerationCountsCancels'
    BY <2>1, <2>2, <2>3 DEF GenerationCountsCancels
  <2>7. FramesAreKept'
    BY <2>1, <2>2, <2>3 DEF FramesAreKept, HasKeeper, TurnsAreTaken
  <2> QED BY <2>4, <2>5, <2>6, <2>7
<1>5. CASE Scheduler!ReportDropped
  <2>1. /\ main0.at \in {"cancelled", "closing"} /\ UNCHANGED <<sched, camera0, worker, down, cancels>>
        /\ main0' = [at |-> IF main0.at = "closing" THEN "shutdown" ELSE "idle", frame |-> Nobody]
    BY <1>5 DEF Scheduler!ReportDropped, Scheduler!At, Nobody
  <2>2. /\ outcomes' \in [Scheduler!Numbers -> SUBSET Events]
        /\ \A n \in Scheduler!Numbers : /\ outcomes[n] # {} => outcomes'[n] # {}
                                        /\ n = main0.frame.sequence => outcomes'[n] # {}
    <3>1. CASE main0.frame = Nobody
      BY <1>5, <3>1 DEF Scheduler!ReportDropped, SchedulerTypeOK, Nobody
    <3>2. CASE main0.frame # Nobody
      <4>1. Scheduler!Publish(main0.frame, "Dropped") /\ main0.frame \in FrameType
        BY <1>5, <3>2 DEF Scheduler!ReportDropped, SchedulerTypeOK, Nobody
      <4> QED BY <4>1, PublishKeeps DEF Events
    <3> QED BY <3>1, <3>2
  <2>3. SchedulerTypeOK'
    BY <2>1, <2>2 DEF SchedulerTypeOK
  <2>4. TurnsAreTaken' /\ GenerationCountsCancels'
    BY <2>1 DEF TurnsAreTaken, GenerationCountsCancels
  <2>5. FramesAreKept'
    BY <2>1, <2>2 DEF FramesAreKept, HasKeeper
  <2> QED BY <2>3, <2>4, <2>5
<1>6. CASE Scheduler!ShutDown
  <2>1. /\ main0.at = "shutdown" /\ down' /\ main0' = [at |-> "closed", frame |-> Nobody]
        /\ worker' = IF worker.at = "queued" THEN [at |-> "idle", frame |-> Nobody] ELSE worker
        /\ UNCHANGED <<sched, camera0, outcomes, cancels>>
    BY <1>6 DEF Scheduler!ShutDown, Scheduler!Idling, Scheduler!At, Nobody
  <2>2. SchedulerTypeOK'
    BY <2>1 DEF SchedulerTypeOK
  <2>3. TurnsAreTaken' /\ GenerationCountsCancels'
    BY <2>1 DEF TurnsAreTaken, GenerationCountsCancels
  <2>4. FramesAreKept'
    BY <2>1 DEF FramesAreKept, HasKeeper, TurnsAreTaken
  <2> QED BY <2>2, <2>3, <2>4
<1>7. CASE Scheduler!Take
  <2>1. worker.at \in {"queued", "next"} /\ UNCHANGED <<camera0, main0, down, outcomes, cancels>>
    BY <1>7 DEF Scheduler!Take
  <2>2. CASE sched.pending = Nobody
    <3>1. sched' = [sched EXCEPT !.scheduled = FALSE] /\ worker' = [at |-> "idle", frame |-> Nobody]
      BY <1>7, <2>2 DEF Scheduler!Take, Scheduler!Idling, Scheduler!At, Nobody
    <3>2. SchedulerTypeOK'
      BY <2>1, <3>1 DEF SchedulerTypeOK
    <3>3. TurnsAreTaken' /\ GenerationCountsCancels'
      BY <2>1, <2>2, <3>1 DEF TurnsAreTaken, GenerationCountsCancels, SchedulerTypeOK
    <3>4. FramesAreKept'
      BY <2>1, <2>2, <3>1 DEF FramesAreKept, HasKeeper, TurnsAreTaken, SchedulerTypeOK
    <3> QED BY <3>2, <3>3, <3>4
  <2>3. CASE sched.pending # Nobody
    <3>1. sched' = [sched EXCEPT !.pending = Nobody] /\ worker' = [at |-> "analysing", frame |-> sched.pending]
      BY <1>7, <2>3 DEF Scheduler!Take, Scheduler!At, Nobody
    <3>2. SchedulerTypeOK'
      BY <2>1, <3>1 DEF SchedulerTypeOK
    <3>3. TurnsAreTaken' /\ GenerationCountsCancels'
      BY <2>1, <2>3, <3>1 DEF TurnsAreTaken, GenerationCountsCancels, SchedulerTypeOK
    <3>4. FramesAreKept'
      BY <2>1, <2>3, <3>1 DEF FramesAreKept, HasKeeper, TurnsAreTaken, SchedulerTypeOK
    <3> QED BY <3>2, <3>3, <3>4
  <2> QED BY <2>2, <2>3
<1>8. CASE Scheduler!Decide
  <2>1. PICK e \in {"Discarded", "Succeeded", "Failed"} : worker' = [at |-> e, frame |-> worker.frame]
    BY <1>8 DEF Scheduler!Decide, Scheduler!At
  <2>2. worker.at = "analysing" /\ UNCHANGED <<sched, camera0, main0, down, outcomes, cancels>>
    BY <1>8 DEF Scheduler!Decide
  <2>3. SchedulerTypeOK'
    BY <2>1, <2>2 DEF SchedulerTypeOK
  <2>4. TurnsAreTaken' /\ GenerationCountsCancels'
    BY <2>1, <2>2 DEF TurnsAreTaken, GenerationCountsCancels
  <2>5. FramesAreKept'
    BY <2>1, <2>2 DEF FramesAreKept, HasKeeper
  <2> QED BY <2>3, <2>4, <2>5
<1>9. CASE Scheduler!PublishResult
  <2>1. /\ worker.at \in {"Discarded", "Succeeded", "Failed"} /\ worker' = [at |-> "next", frame |-> Nobody]
        /\ Scheduler!Publish(worker.frame, worker.at) /\ worker.frame \in FrameType
        /\ UNCHANGED <<sched, camera0, main0, down, cancels>>
    BY <1>9 DEF Scheduler!PublishResult, Scheduler!At, Nobody, SchedulerTypeOK
  <2>2. /\ outcomes' \in [Scheduler!Numbers -> SUBSET Events]
        /\ \A n \in Scheduler!Numbers : /\ outcomes[n] # {} => outcomes'[n] # {}
                                        /\ n = worker.frame.sequence => outcomes'[n] # {}
    BY <2>1, PublishKeeps DEF Events
  <2>3. SchedulerTypeOK'
    BY <2>1, <2>2 DEF SchedulerTypeOK
  <2>4. TurnsAreTaken' /\ GenerationCountsCancels'
    BY <2>1 DEF TurnsAreTaken, GenerationCountsCancels
  <2>5. FramesAreKept'
    BY <2>1, <2>2 DEF FramesAreKept, HasKeeper
  <2> QED BY <2>3, <2>4, <2>5
<1>10. CASE UNCHANGED schedulerVars
  BY <1>10 DEF schedulerVars, SchedulerTypeOK, TurnsAreTaken, FramesAreKept, HasKeeper, GenerationCountsCancels
<1> QED
  BY <1>1, <1>2, <1>3, <1>4, <1>5, <1>6, <1>7, <1>8, <1>9, <1>10 DEF Scheduler!SchedulerNext

LEMMA SchedulerAlways == MCSpec => []SchedulerInv
<1>1. MCInit => SchedulerInv
  BY SchedulerInitial DEF MCInit
<1>2. SchedulerInv /\ [MCNext]_allVars => SchedulerInv'
  BY SchedulerStep, SchedulerKept
<1> QED BY <1>1, <1>2, PTL DEF MCSpec, allVars

(* No frame of the camera is lost without a word, and none waits for a worker *)
(* that nobody has started.                                                   *)
THEOREM FramesReported == MCSpec => []NoFrameForgotten
<1>1. SchedulerInv => NoFrameForgotten
  BY DEF SchedulerInv, TurnsAreTaken, FramesAreKept, HasKeeper, NoFrameForgotten, Scheduler!NoFrameForgotten, Nobody
<1> QED BY <1>1, SchedulerAlways, PTL

(* What is published as a result was of the newest frame, and not cancelled   *)
(* when its analysis ended.                                                   *)
THEOREM ResultsAreCurrent == MCSpec => CancelledIsDiscarded
<1>1. SchedulerInv /\ [MCNext]_allVars =>
        [worker.at = "analysing" /\ worker'.at \in {"Succeeded", "Failed"} =>
           ~sched.closed /\ worker.frame.sequence = sched.latest
             /\ worker.frame.generation = cancels]_Scheduler!schedulerVars
  <2> SUFFICES ASSUME SchedulerInv, [Scheduler!SchedulerNext]_schedulerVars,
                      worker.at = "analysing", worker'.at \in {"Succeeded", "Failed"}
               PROVE  ~sched.closed /\ worker.frame.sequence = sched.latest
                        /\ worker.frame.generation = cancels
    BY SchedulerStep DEF Scheduler!schedulerVars, schedulerVars
  <2>1. Scheduler!Decide
    BY DEF Scheduler!SchedulerNext, schedulerVars, Scheduler!Submit, Scheduler!ReportSuperseded,
           Scheduler!StartWorker, Scheduler!Cancel, Scheduler!Close, Scheduler!ReportDropped,
           Scheduler!ShutDown, Scheduler!Take, Scheduler!PublishResult, Scheduler!At, Scheduler!Idling
  <2>2. ~Scheduler!StaleFrame(worker.frame)
    BY <2>1 DEF Scheduler!Decide, Scheduler!At
  <2> QED BY <2>2 DEF Scheduler!StaleFrame, SchedulerInv, GenerationCountsCancels
<1> QED BY <1>1, SchedulerAlways, PTL DEF MCSpec, allVars, CancelledIsDiscarded, Scheduler!CancelledIsDiscarded
-----------------------------------------------------------------------------
(* The scan policy session.                                                   *)

ViewType == [screen : {"camera", "recovery", "batch", "none"},
             notebook : Notebooks \cup {NoNotebook}, generation : Nat]
PolicyOrNone == Policies \cup {NoPolicy}
WorkType == [at : {"reading", "native", "checking", "marking", "completed", "failed"},
             policy : PolicyOrNone, recovered : BOOLEAN, generation : Nat, left : BOOLEAN]

PolicyTypeOK ==
    /\ view \in ViewType /\ shown \in ViewType
    /\ works \subseteq WorkType
    /\ session.current \in PolicyOrNone

\* A composition that the view has left behind cannot become the view again: the
\* generation only grows until the screen is left, and a left screen is opened
\* again only after its composition is gone.
LeftBehind == view.screen = "none" \/ view.generation > shown.generation

\* A left screen has no review, and its processings know that they were left.
NothingInView == review = NoPolicy /\ \A w \in works : w.left

PolicyInv ==
    /\ PolicyTypeOK
    /\ view.screen = "none" => NothingInView
    /\ shown.screen = "camera" /\ ~LeftBehind =>
         shown = view /\ (session.current # NoPolicy => origin = shown)

LEMMA PolicyStep == [MCNext]_allVars => [Policy!PolicyNext]_policyVars
BY DEF MCNext, allVars, policyVars

LEMMA PolicyInitial == Policy!PolicyInit => PolicyInv
BY DEF Policy!PolicyInit, Policy!NoComposition, PolicyInv, PolicyTypeOK, NothingInView, Policy!NoReview,
   ViewType, PolicyOrNone

\* The view and the composition stay: what a step does to the session counts.
LEMMA SessionStep ==
  ASSUME PolicyInv, UNCHANGED <<view, shown>>, works' \subseteq WorkType,
         view.screen = "none" => NothingInView',
         \/ UNCHANGED <<session, origin>>
         \/ session'.current = NoPolicy
         \/ session'.current \in Policies /\ (shown.screen = "camera" => origin' = shown)
         \/ session'.current = session.current /\ UNCHANGED origin
  PROVE  PolicyInv'
BY DEF PolicyInv, PolicyTypeOK, LeftBehind, PolicyOrNone

\* The view moves on, away from what is composed, or there was no camera.
LEMMA ViewStep ==
  ASSUME PolicyInv, view' \in ViewType, UNCHANGED shown, works' \subseteq WorkType,
         session'.current \in PolicyOrNone,
         view'.screen = "none" => NothingInView',
         \/ view'.screen = "none"
         \/ view'.generation > view.generation /\ view.screen # "none"
         \/ shown.screen # "camera"
  PROVE  PolicyInv'
<1>1. PolicyTypeOK' /\ (view'.screen = "none" => NothingInView')
  BY DEF PolicyInv, PolicyTypeOK
<1>2. ASSUME shown.screen = "camera", view'.screen # "none" PROVE view'.generation > shown.generation
  <2>1. view'.generation > view.generation /\ view.screen # "none"
    BY <1>2
  <2>2. view.generation >= shown.generation
    BY <1>2, <2>1 DEF PolicyInv, PolicyTypeOK, LeftBehind, ViewType
  <2> QED BY <2>1, <2>2 DEF PolicyInv, PolicyTypeOK, ViewType
<1> QED BY <1>1, <1>2 DEF PolicyInv, LeftBehind

LEMMA PolicyKept == PolicyInv /\ [Policy!PolicyNext]_policyVars => PolicyInv'
<1> SUFFICES ASSUME PolicyInv, [Policy!PolicyNext]_policyVars PROVE PolicyInv'
  OBVIOUS
<1>0. /\ view \in ViewType /\ shown \in ViewType /\ works \subseteq WorkType
      /\ session.current \in PolicyOrNone
      /\ view.screen = "none" => NothingInView
  BY DEF PolicyInv, PolicyTypeOK
<1>a. Policy!Advance(view) \in ViewType /\ Policy!Advance(view).generation = view.generation + 1
      /\ Policy!Advance(view).screen = view.screen /\ view.generation \in Nat
  BY <1>0 DEF ViewType, Policy!Advance
<1>1. CASE Policy!Recompose
  <2>1. shown' = view /\ UNCHANGED <<view, works, review>>
    BY <1>1 DEF Policy!Recompose
  <2>2. view.screen = "camera" => session'.current = NoPolicy
    BY <1>1 DEF Policy!Recompose, Policy!Clear
  <2>3. session'.current \in PolicyOrNone
    BY <1>0, <1>1 DEF Policy!Recompose, Policy!Clear, Policy!KeepSession, PolicyOrNone
  <2> QED BY <1>0, <2>1, <2>2, <2>3 DEF PolicyInv, PolicyTypeOK, LeftBehind, NothingInView
<1>2. CASE Policy!BatchResolves
  BY <1>0, <1>2, SessionStep DEF NothingInView, Policy!BatchResolves, Policy!Update
<1>3. CASE Policy!CodeFound
  BY <1>0, <1>3, SessionStep DEF NothingInView, Policy!CodeFound, Policy!Clear, Policy!KeepSession
<1>4. CASE Policy!CodeFailed
  BY <1>0, <1>4, SessionStep DEF NothingInView, Policy!CodeFailed, Policy!Clear
<1>5. ASSUME NEW q \in asked.open, Policy!Resolved(q) PROVE PolicyInv'
  <2>1. UNCHANGED <<view, shown, works, review>>
    BY <1>5 DEF Policy!Resolved
  <2>2. \/ UNCHANGED <<session, origin>>
        \/ session'.current = NoPolicy
        \/ session'.current \in Policies /\ origin' = shown
    BY <1>5 DEF Policy!Resolved, Policy!Outdated, Policy!Update, Policy!Clear, Policy!KeepSession
  <2> QED BY <1>0, <2>1, <2>2, SessionStep DEF NothingInView
<1>6. CASE Policy!Open
  <2>1. PICK s \in {"camera", "batch"} : view' = [screen |-> s, notebook |-> NoNotebook, generation |-> 0]
    BY <1>6 DEF Policy!Open
  <2>2. view' \in ViewType /\ view'.screen = s
    BY <2>1 DEF ViewType
  <2>3. shown.screen # "camera" /\ UNCHANGED <<session, shown, works>>
    BY <1>6 DEF Policy!Open
  <2> QED BY <1>0, <2>2, <2>3, ViewStep
<1>7. CASE Policy!SelectNotebook
  <2>1. PICK n \in Notebooks : view' = [Policy!Advance(view) EXCEPT !.notebook = n]
    BY <1>7 DEF Policy!SelectNotebook
  <2>2. view' \in ViewType /\ view'.generation = view.generation + 1 /\ view'.screen = view.screen
    BY <1>a, <2>1 DEF ViewType
  <2>3. view.screen = "camera" /\ UNCHANGED <<session, shown, works>>
    BY <1>7 DEF Policy!SelectNotebook
  <2>4. view'.generation > view.generation
    BY <1>0, <2>2 DEF ViewType
  <2> QED BY <1>0, <2>2, <2>3, <2>4, ViewStep
<1>8. CASE Policy!Captured
  <2>1. works' = works \cup {Policy!Work(NoPolicy, FALSE)} /\ UNCHANGED <<view, shown, session, origin>>
        /\ view.screen = "camera" /\ UNCHANGED review
    BY <1>8 DEF Policy!Captured
  <2>2. Policy!Work(NoPolicy, FALSE) \in WorkType
    BY <1>0, <2>1 DEF Policy!Work, WorkType, ViewType, PolicyOrNone
  <2> QED BY <1>0, <2>1, <2>2, SessionStep
<1>9. CASE Policy!BeginRecoveredReview
  <2>1. PICK p \in Policies, n \in Notebooks :
          /\ view' = [screen |-> "recovery", notebook |-> n, generation |-> view.generation + 1]
          /\ Policy!Update(p, view')
    BY <1>9 DEF Policy!BeginRecoveredReview
  <2>2. /\ works' = works \cup {Policy!Work(NoPolicy, TRUE)} /\ UNCHANGED shown
        /\ view.screen # "none"
    BY <1>9 DEF Policy!BeginRecoveredReview
  <2>3. view' \in ViewType /\ view'.generation > view.generation /\ view'.screen = "recovery"
    BY <1>0, <2>1 DEF ViewType
  <2>4. Policy!Work(NoPolicy, TRUE) \in WorkType /\ session'.current \in PolicyOrNone
    BY <2>1, <2>3 DEF Policy!Work, WorkType, ViewType, PolicyOrNone, Policy!Update
  <2> QED BY <1>0, <2>2, <2>3, <2>4, ViewStep
<1>10. CASE Policy!Retake \/ Policy!Approve
  <2>1. /\ view' = [Policy!Advance(view) EXCEPT !.screen = "camera"]
        /\ UNCHANGED <<session, shown, works>>
    BY <1>10 DEF Policy!Retake, Policy!Approve
  <2>2. view' \in ViewType /\ view'.generation = view.generation + 1 /\ view'.screen = "camera"
    BY <1>a, <2>1 DEF ViewType
  <2>3. view.screen # "none" /\ view'.generation > view.generation
    BY <1>0, <1>a, <1>10, <2>2 DEF Policy!Retake, Policy!Approve, Policy!NoReview, NothingInView
  <2> QED BY <1>0, <2>1, <2>2, <2>3, ViewStep
<1>11. CASE Policy!Leave
  <2>1. /\ view' = [screen |-> "none", notebook |-> NoNotebook, generation |-> 0]
        /\ review' = NoPolicy /\ works' = {[w EXCEPT !.left = TRUE] : w \in works}
        /\ UNCHANGED <<session, shown>>
    BY <1>11 DEF Policy!Leave, Policy!NoComposition, Policy!NoReview
  <2>2. \A w \in works : [w EXCEPT !.left = TRUE] \in WorkType /\ [w EXCEPT !.left = TRUE].left
    BY <1>0 DEF WorkType
  <2>3. works' \subseteq WorkType /\ NothingInView'
    BY <2>1, <2>2 DEF NothingInView
  <2>4. view' \in ViewType /\ view'.screen = "none"
    BY <2>1 DEF ViewType
  <2> QED BY <1>0, <2>1, <2>3, <2>4, ViewStep
<1>12. ASSUME NEW w \in works, NEW v \in WorkType, v.left = w.left, Policy!Becomes(w, v),
              UNCHANGED session \/ session'.current = session.current,
              UNCHANGED <<origin, view, shown, review>>
       PROVE  PolicyInv'
  <2>1. works' = (works \ {w}) \cup {v}
    BY <1>12 DEF Policy!Becomes
  <2>2. works' \subseteq WorkType /\ (view.screen = "none" => NothingInView')
    BY <1>0, <1>12, <2>1 DEF NothingInView
  <2> QED BY <1>12, <2>2, SessionStep
<1>13. ASSUME NEW w \in works, Policy!ReadPolicy(w) PROVE PolicyInv'
  <2>1. w \in WorkType
    BY <1>0
  <2>2. [w EXCEPT !.at = "failed"] \in WorkType /\ [w EXCEPT !.at = "failed"].left = w.left
    BY <2>1 DEF WorkType
  <2>3. /\ [w EXCEPT !.at = "native", !.policy = session.current] \in WorkType
        /\ [w EXCEPT !.at = "native", !.policy = session.current].left = w.left
    BY <1>0, <2>1 DEF WorkType
  <2> QED BY <1>12, <1>13, <2>2, <2>3 DEF Policy!ReadPolicy, Policy!OnIo
<1>14. ASSUME NEW w \in works, NEW p \in {"checking", "failed", "marking", "completed"},
              Policy!Becomes(w, [w EXCEPT !.at = p]),
              UNCHANGED session \/ session'.current = session.current,
              UNCHANGED <<origin, view, shown, review>>
       PROVE  PolicyInv'
  <2>1. [w EXCEPT !.at = p] \in WorkType /\ [w EXCEPT !.at = p].left = w.left
    BY <1>0 DEF WorkType
  <2> QED BY <1>12, <1>14, <2>1
<1>15. ASSUME NEW w \in works, Policy!Process(w) \/ Policy!CheckCurrent(w) PROVE PolicyInv'
  BY <1>14, <1>15 DEF Policy!Process, Policy!CheckCurrent, Policy!OnIo
<1>16. ASSUME NEW w \in works, Policy!MarkReviewed(w) PROVE PolicyInv'
  <2>1. [session EXCEPT !.reviewed = w.policy].current = session.current
    BY <1>0 DEF PolicyInv, PolicyTypeOK
  <2> QED BY <1>14, <1>16, <2>1 DEF Policy!MarkReviewed, Policy!OnIo
<1>17. ASSUME NEW w \in works, Policy!Finish(w) PROVE PolicyInv'
  <2>1. works' = works \ {w} /\ UNCHANGED <<session, origin, shown>>
    BY <1>17 DEF Policy!Finish
  <2>2. CASE UNCHANGED <<view, review>>
    BY <1>0, <2>1, <2>2, SessionStep DEF NothingInView
  <2>3. CASE ~w.left /\ UNCHANGED view
    BY <1>0, <2>1, <2>3, SessionStep DEF NothingInView
  <2>4. CASE ~w.left /\ UNCHANGED review /\ view' = [view EXCEPT !.screen = "camera"]
    <3>1. view' \in ViewType /\ view'.screen = "camera" /\ view'.generation = view.generation
          /\ view.screen # "none" /\ (view.screen = "camera" => view' = view)
      BY <1>0, <2>4 DEF ViewType, NothingInView
    <3> QED BY <1>0, <2>1, <3>1 DEF PolicyInv, PolicyTypeOK, LeftBehind
  <2>5. CASE ~w.left /\ UNCHANGED review /\ view' = Policy!Advance(view)
    <3>1. view' \in ViewType /\ view'.generation > view.generation /\ view.screen # "none"
          /\ view'.screen = view.screen
      BY <1>0, <1>a, <2>5 DEF NothingInView
    <3> QED BY <1>0, <2>1, <3>1, ViewStep
  <2> QED BY <1>17, <2>2, <2>3, <2>4, <2>5 DEF Policy!Finish
<1>18. CASE UNCHANGED policyVars
  BY <1>0, <1>18, SessionStep DEF policyVars, NothingInView
<1> QED
  BY <1>1, <1>2, <1>3, <1>4, <1>5, <1>6, <1>7, <1>8, <1>9, <1>10, <1>11, <1>13, <1>15, <1>16, <1>17, <1>18
  DEF Policy!PolicyNext

(* The policy in force on the camera screen was resolved for the notebook and *)
(* the generation that it shows.                                              *)
THEOREM PolicyOfView == MCSpec => []PolicyIsOfThisView
<1>1. MCInit => PolicyInv
  BY PolicyInitial DEF MCInit
<1>2. PolicyInv /\ [MCNext]_allVars => PolicyInv'
  BY PolicyStep, PolicyKept
<1>3. PolicyInv => PolicyIsOfThisView
  <2> SUFFICES ASSUME PolicyInv, shown.screen = "camera", shown = view, session.current # NoPolicy
               PROVE  origin = shown
    BY DEF PolicyIsOfThisView, Policy!PolicyIsOfThisView
  <2>1. ~LeftBehind
    BY DEF PolicyInv, PolicyTypeOK, ViewType, LeftBehind
  <2> QED BY <2>1 DEF PolicyInv
<1> QED BY <1>1, <1>2, <1>3, PTL DEF MCSpec, allVars

-----------------------------------------------------------------------------
(* The auto-capture machine.                                                  *)

PageOrNone == ViewedPages \cup {NoPage}
Views      == [page : PageOrNone, since : Int, last : Int]
Requests   == [generation : Nat, sequence : Nat, page : PageOrNone,
               trigger : {"NONE", "AUTO", "MANUAL"}, at : Int]
SeenFrames == [at : Int, page : PageOrNone, identity : BOOLEAN, accepted : BOOLEAN]
Warnings   == [generation : Nat, sequence : Nat, page : PageOrNone,
               codes : SUBSET {"BYPASSES_STABILITY_CHECK", "CAPTURE_POLICY_NOT_ACCEPTED",
                               "REPEATS_RECENT_PAGE"}]
Debounces  == [page : PageOrNone, until : Int]
Effects    == {"none", "CaptureRequested", "CaptureDebounced", "ManualCaptureDenied",
               "ManualCaptureWarningRequired", "StaleCallbackIgnored", "CancelActiveWork"}

Machines ==
    [phase : Machine!Phases, running : BOOLEAN, generation : Nat, requests : Nat, warnings : Nat,
     candidate : Views, request : Requests, latest : SeenFrames, seen : Int,
     warning : Warnings, debounce : Debounces, effect : Effects]

AutoTypeOK ==
    /\ auto \in Machines /\ ticks \in Nat
    /\ viewed \in Views /\ viewed.since <= ticks
    /\ shot \in [page : PageOrNone, at : Int]
    /\ auto.phase = "Capturing" => auto.request.sequence # 0

\* The stable candidate is what the frames have shown, but a debounce that ran
\* out may have made it younger.
CandidateIsViewed ==
    auto.phase = "CandidateStable" =>
        /\ viewed.page = auto.candidate.page /\ viewed.last = auto.candidate.last
        /\ viewed.since <= auto.candidate.since

\* The page photographed last is debounced, or the time is over.
ShotIsGuarded ==
    shot.page # NoPage =>
        \/ auto.debounce.page = shot.page /\ auto.debounce.until = shot.at + 3
        \/ ticks >= shot.at + 3

AutoInv == AutoTypeOK /\ CandidateIsViewed /\ ShotIsGuarded

\* How a request may go on: begun, forgotten, or carried forward.
Forward == {<<"Capturing", "Processing">>, <<"Processing", "Accepted">>,
            <<"Processing", "NeedsReview">>, <<"Processing", "Rejected">>,
            <<"NeedsReview", "Accepted">>}

Begins(m, n) ==
    /\ n.effect = "CaptureRequested" /\ n.phase = "Capturing"
    /\ n.requests = m.requests + 1 /\ n.request.sequence = m.requests + 1
Continues(m, n) ==
    /\ n.requests = m.requests /\ n.effect # "CaptureRequested"
    /\ \/ n.request = Machine!NoRequest /\ n.phase # "Capturing"
       \/ n.request = m.request /\ (n.phase = m.phase \/ (<<m.phase, n.phase>> \in Forward))

\* What a transition does to the candidate and to the debounce.
Forgets(m, n) == n.phase # "CandidateStable" \/ (m.phase = "CandidateStable" /\ n.candidate = m.candidate)
Guards(m, n, now) == \/ n.debounce = m.debounce
                     \/ n.debounce = Machine!NoDebounce /\ now >= m.debounce.until

-----------------------------------------------------------------------------
(* Transitions.                                                               *)

LEMMA Nones ==
    /\ Machine!NoCandidate \in Views /\ Machine!NoRequest \in Requests
    /\ Machine!NoFrame \in SeenFrames /\ Machine!NoWarning \in Warnings
    /\ Machine!NoDebounce \in Debounces /\ Machine!Never \in Int
    /\ Machine!NoDebounce.page = NoPage
<1>1. Machine!Never \in Int /\ NoPage \in PageOrNone
  BY DEF Machine!Never, PageOrNone
<1>2. Machine!NoFrame \in SeenFrames
  BY <1>1 DEF Machine!NoFrame, Machine!Frame, SeenFrames
<1>. QED
  BY <1>1, <1>2 DEF Machine!NoCandidate, Machine!NoRequest, Machine!NoWarning, Machine!NoDebounce,
     Views, Requests, Warnings, Debounces

LEMMA IntoResult ==
    ASSUME NEW m \in Machines, NEW p \in Machine!Phases
    PROVE  LET n == Machine!Into(m, p) IN
           /\ n \in Machines /\ n.phase = p /\ n.effect = "none" /\ n.candidate = Machine!NoCandidate
           /\ n.request = (IF p \in Machine!ActivePhases \cup Machine!TerminalPhases
                           THEN m.request ELSE Machine!NoRequest)
           /\ n.requests = m.requests /\ n.debounce = m.debounce /\ n.generation = m.generation
<1>. DEFINE r == IF p \in Machine!ActivePhases \cup Machine!TerminalPhases
                 THEN m.request ELSE Machine!NoRequest
            n == [m EXCEPT !.phase = p, !.effect = "none", !.candidate = Machine!NoCandidate, !.request = r]
<1>1. r \in Requests /\ "none" \in Effects /\ Machine!NoCandidate \in Views
  BY Nones DEF Machines, Effects
<1>2. Machine!Into(m, p) = n
  BY DEF Machine!Into
<1>. HIDE DEF r
<1>3. n \in Machines
  BY <1>1 DEF Machines
<1>4. /\ n.phase = p /\ n.effect = "none" /\ n.candidate = Machine!NoCandidate /\ n.request = r
      /\ n.requests = m.requests /\ n.debounce = m.debounce /\ n.generation = m.generation
  BY DEF Machines
<1>. HIDE DEF n
<1>. QED
  BY <1>2, <1>3, <1>4 DEF r

LEMMA UnmovedResult ==
    ASSUME NEW m \in Machines, NEW e \in Effects \ {"CaptureRequested"}
    PROVE  LET n == Machine!Unmoved(m, e) IN
           n \in Machines /\ Continues(m, n) /\ Forgets(m, n) /\ n.phase = m.phase /\ n.debounce = m.debounce
<1>. DEFINE n == [m EXCEPT !.effect = e]
<1>1. n \in Machines
  BY DEF Machines
<1>2. /\ n.effect = e /\ n.phase = m.phase /\ n.debounce = m.debounce /\ n.request = m.request
      /\ n.requests = m.requests /\ n.candidate = m.candidate
  BY DEF Machines
<1>3. Machine!Unmoved(m, e) = n
  BY DEF Machine!Unmoved
<1>. HIDE DEF n
<1>. QED
  BY <1>1, <1>2, <1>3 DEF Continues, Forgets

LEMMA BeginCaptureResult ==
    ASSUME NEW m \in Machines, NEW p \in PageOrNone, NEW trigger \in {"AUTO", "MANUAL"}, NEW now \in Int
    PROVE  LET n == Machine!BeginCapture(m, p, trigger, now) IN
           /\ n \in Machines /\ Begins(m, n) /\ n.debounce = m.debounce
           /\ n.request.page = p /\ n.request.trigger = trigger /\ n.request.at = now
<1>. DEFINE i == Machine!Into(m, "Capturing")
            r == [generation |-> m.generation, sequence |-> m.requests + 1,
                  page |-> p, trigger |-> trigger, at |-> now]
            c == i.requests + 1
            n == [i EXCEPT !.requests = c, !.request = r,
                           !.warning = Machine!NoWarning, !.effect = "CaptureRequested"]
<1>1. "Capturing" \in Machine!Phases
  BY DEF Machine!Phases, Machine!ActivePhases
<1>2. i \in Machines /\ i.phase = "Capturing" /\ i.requests = m.requests /\ i.debounce = m.debounce
  BY <1>1, IntoResult
<1>3. r \in Requests
  BY DEF Machines, Requests
<1>4. r.page = p /\ r.trigger = trigger /\ r.at = now /\ r.sequence = m.requests + 1
  OBVIOUS
<1>5. c \in Nat /\ c = m.requests + 1 /\ "CaptureRequested" \in Effects /\ Machine!NoWarning \in Warnings
  BY <1>2, Nones DEF Machines, Effects
<1>6. Machine!BeginCapture(m, p, trigger, now) = n
  BY DEF Machine!BeginCapture
<1>. HIDE DEF i, r, c
<1>7. n \in Machines
  BY <1>2, <1>3, <1>5 DEF Machines
<1>8. n.requests = c /\ n.request = r /\ n.effect = "CaptureRequested" /\ n.phase = i.phase /\ n.debounce = i.debounce
  BY <1>2 DEF Machines
<1>. HIDE DEF n
<1>. QED
  BY <1>2, <1>4, <1>5, <1>6, <1>7, <1>8 DEF Begins

\* Started and stopped.
LEMMA AfreshResult ==
    /\ Machine!IdleMachine \in Machines /\ Machine!IdleMachine.phase = "Idle"
    /\ Machine!IdleMachine.request = Machine!NoRequest /\ Machine!IdleMachine.effect = "none"
<1>1. Machine!IdleMachine \in Machines
  BY Nones DEF Machine!IdleMachine, Machines, Machine!Phases, Effects
<1>. QED
  BY <1>1 DEF Machine!IdleMachine

Flags == BOOLEAN

RunningAs(i, b, m) ==
    [i EXCEPT !.phase = "Searching", !.running = b, !.generation = m.generation + 1,
              !.requests = m.requests, !.warnings = m.warnings]

LEMMA RunningResult ==
    ASSUME NEW i \in Machines, NEW b \in Flags, NEW m \in Machines
    PROVE  LET n == RunningAs(i, b, m) IN
           /\ n \in Machines /\ n.phase = "Searching" /\ n.request = i.request /\ n.effect = i.effect
           /\ n.requests = m.requests
<1>. DEFINE j == [i EXCEPT !.running = b]
            g == m.generation + 1
            n == [j EXCEPT !.phase = "Searching", !.generation = g, !.requests = m.requests,
                           !.warnings = m.warnings]
<1>0. g \in Nat /\ m.requests \in Nat /\ m.warnings \in Nat
  BY DEF Machines
<1>1. j \in Machines
  BY Zenon DEF Machines, Flags
<1>2. j.request = i.request /\ j.effect = i.effect
  BY DEF Machines
<1>3. RunningAs(i, b, m) = n
  BY DEF Machines, RunningAs
<1>. HIDE DEF j, g
<1>4. n \in Machines
  BY <1>0, <1>1 DEF Machines, Machine!Phases, Machine!ViewingPhases
<1>5. /\ n.phase = "Searching" /\ n.request = j.request /\ n.effect = j.effect /\ n.requests = m.requests
  BY <1>1 DEF Machines
<1>. HIDE DEF n
<1>. QED
  BY <1>2, <1>3, <1>4, <1>5

LEMMA StartResult ==
    ASSUME NEW m \in Machines
    PROVE  LET n == Machine!Start(m) IN n \in Machines /\ Continues(m, n) /\ n.phase = "Searching"
<1>. DEFINE i == Machine!IdleMachine
            n == RunningAs(i, TRUE, m)
            Fits(k) == /\ k \in Machines /\ k.phase = "Searching" /\ k.request = i.request
                       /\ k.effect = i.effect /\ k.requests = m.requests
<1>1. Machine!Start(m) = n
  BY Zenon DEF Machine!Start, RunningAs
<1>2. i \in Machines /\ i.request = Machine!NoRequest /\ i.effect = "none"
  BY AfreshResult
<1>. HIDE DEF i, n
<1>3. \A b \in Flags : Fits(RunningAs(i, b, m))
  BY <1>2, RunningResult
<1>4. Fits(n)
  <2>. HIDE DEF Fits
  <2>. QED
    BY <1>3, Zenon DEF Flags, n
<1>. QED
  BY <1>1, <1>2, <1>4 DEF Continues

LEMMA StopResult ==
    ASSUME NEW m \in Machines
    PROVE  LET n == Machine!Stop(m) IN n \in Machines /\ Continues(m, n) /\ n.phase = "Idle"
<1>. DEFINE i == Machine!IdleMachine
            e == Machine!Cancelled(m)
            g == m.generation + 1
            n == [i EXCEPT !.generation = g, !.requests = m.requests, !.warnings = m.warnings, !.effect = e]
<1>0. g \in Nat /\ m.requests \in Nat /\ m.warnings \in Nat
  BY DEF Machines
<1>1. Machine!Stop(m) = n
  BY DEF Machine!Stop
<1>2. i \in Machines /\ i.phase = "Idle" /\ i.request = Machine!NoRequest
  BY AfreshResult
<1>3. e \in Effects /\ e # "CaptureRequested"
  BY DEF Machine!Cancelled, Effects
<1>. HIDE DEF i, e, g
<1>4. n \in Machines
  BY <1>0, <1>2, <1>3 DEF Machines
<1>5. n.phase = i.phase /\ n.request = i.request /\ n.requests = m.requests /\ n.effect = e
  BY <1>2 DEF Machines
<1>. HIDE DEF n
<1>. QED
  BY <1>1, <1>2, <1>3, <1>4, <1>5 DEF Continues

\* A phase without a request.
LEMMA Without ==
    ASSUME NEW m \in Machines, NEW p \in {"Searching", "AwaitingConfirmation", "Navigation", "Idle"}
    PROVE  LET n == Machine!Into(m, p) IN
           /\ n \in Machines /\ n.phase = p /\ n.effect = "none" /\ n.request = Machine!NoRequest
           /\ n.requests = m.requests /\ n.debounce = m.debounce /\ n.generation = m.generation
<1>1. p \in Machine!Phases /\ p \notin Machine!ActivePhases \cup Machine!TerminalPhases
  BY DEF Machine!Phases, Machine!ViewingPhases, Machine!ActivePhases, Machine!TerminalPhases
<1>. QED
  BY <1>1, IntoResult

\* What every transition but an observed frame does.
Steps(m, n) == n \in Machines /\ Continues(m, n) /\ Forgets(m, n)

LEMMA DebounceAtResult ==
    ASSUME NEW m \in Machines, NEW now \in Int
    PROVE  LET d == Machine!DebounceAt(m, now) IN
           /\ d \in Debounces
           /\ d = m.debounce \/ (d = Machine!NoDebounce /\ now >= m.debounce.until)
BY Nones DEF Machine!DebounceAt, Machines

LEMMA PauseResult ==
    ASSUME NEW m \in Machines
    PROVE  LET n == Machine!PauseForNavigation(m) IN Steps(m, n) /\ n.debounce = m.debounce
<1>. DEFINE p == IF m.running THEN "Navigation" ELSE "Idle"
            i == Machine!Into(m, p)
            g == i.generation + 1
            e == Machine!Cancelled(m)
            n == [i EXCEPT !.generation = g, !.latest = Machine!NoFrame, !.warning = Machine!NoWarning, !.effect = e]
<1>1. p \in {"Navigation", "Idle"}
  BY Zenon
<1>2. /\ i \in Machines /\ i.phase = p /\ i.request = Machine!NoRequest /\ i.requests = m.requests
      /\ i.debounce = m.debounce
  <2>. HIDE DEF p
  <2>. QED
    BY <1>1, Without
<1>3. g \in Nat
  BY <1>2 DEF Machines
<1>4. e \in Effects /\ e # "CaptureRequested"
  BY DEF Machine!Cancelled, Effects
<1>5. Machine!PauseForNavigation(m) = n
  BY DEF Machine!PauseForNavigation
<1>. HIDE DEF p, i, g, e
<1>6. n \in Machines
  BY <1>2, <1>3, <1>4, Nones DEF Machines
<1>7. /\ n.phase = i.phase /\ n.request = i.request /\ n.requests = i.requests /\ n.effect = e
      /\ n.debounce = i.debounce
  BY <1>2 DEF Machines
<1>. HIDE DEF n
<1>. QED
  BY <1>1, <1>2, <1>4, <1>5, <1>6, <1>7 DEF Steps, Continues, Forgets

LEMMA ResumeResult ==
    ASSUME NEW m \in Machines
    PROVE  LET n == Machine!ResumeAfterNavigation(m) IN Steps(m, n) /\ n.debounce = m.debounce
<1>1. CASE m.phase = "Navigation"
  <2>. DEFINE i == Machine!Into(m, "Searching")
              n == [i EXCEPT !.latest = Machine!NoFrame, !.seen = Machine!Never]
  <2>1. /\ i \in Machines /\ i.phase = "Searching" /\ i.effect = "none"
        /\ i.request = Machine!NoRequest /\ i.requests = m.requests /\ i.debounce = m.debounce
    BY Without
  <2>2. Machine!ResumeAfterNavigation(m) = n
    BY <1>1 DEF Machine!ResumeAfterNavigation
  <2>. HIDE DEF i
  <2>3. n \in Machines
    BY <2>1, Nones DEF Machines
  <2>4. /\ n.phase = i.phase /\ n.request = i.request /\ n.requests = i.requests /\ n.effect = i.effect
        /\ n.debounce = i.debounce
    BY <2>1 DEF Machines
  <2>. HIDE DEF n
  <2>. QED
    BY <2>1, <2>2, <2>3, <2>4 DEF Steps, Continues, Forgets
<1>2. CASE m.phase # "Navigation"
  BY <1>2, UnmovedResult DEF Machine!ResumeAfterNavigation, Steps, Effects
<1>. QED
  BY <1>1, <1>2

LEMMA ManualResult ==
    ASSUME NEW m \in Machines, NEW now \in Int
    PROVE  LET n == Machine!RequestManualCapture(m, now) IN Steps(m, n) /\ Guards(m, n, now)
<1>1. CASE Machine!ManualDenied(m)
  BY <1>1, UnmovedResult DEF Machine!RequestManualCapture, Steps, Effects, Guards
<1>2. CASE ~Machine!ManualDenied(m)
  <2>. DEFINE d  == Machine!DebounceAt(m, now)
              md == [m EXCEPT !.debounce = d]
              i  == Machine!Into(md, "AwaitingConfirmation")
              ws == i.warnings + 1
              codes == {"BYPASSES_STABILITY_CHECK"}
                         \cup (IF m.latest.accepted THEN {} ELSE {"CAPTURE_POLICY_NOT_ACCEPTED"})
                         \cup (IF md.debounce.page = m.latest.page THEN {"REPEATS_RECENT_PAGE"} ELSE {})
              w  == [generation |-> m.generation, sequence |-> m.warnings + 1,
                     page |-> m.latest.page, codes |-> codes]
              n  == [i EXCEPT !.warnings = ws, !.warning = w, !.effect = "ManualCaptureWarningRequired"]
  <2>1. d \in Debounces /\ (d = m.debounce \/ (d = Machine!NoDebounce /\ now >= m.debounce.until))
    BY DebounceAtResult
  <2>2. codes \in SUBSET {"BYPASSES_STABILITY_CHECK", "CAPTURE_POLICY_NOT_ACCEPTED", "REPEATS_RECENT_PAGE"}
    OBVIOUS
  <2>3. Machine!RequestManualCapture(m, now) = n
    BY <1>2 DEF Machine!RequestManualCapture
  <2>. HIDE DEF d, codes
  <2>4. w \in Warnings
    BY <2>2 DEF Warnings, Machines, SeenFrames
  <2>5. md \in Machines /\ md.requests = m.requests /\ md.debounce = d
    BY <2>1 DEF Machines
  <2>. HIDE DEF w, md
  <2>6. /\ i \in Machines /\ i.phase = "AwaitingConfirmation" /\ i.request = Machine!NoRequest
        /\ i.requests = md.requests /\ i.debounce = md.debounce
    BY <2>5, Without
  <2>. HIDE DEF i
  <2>7. ws \in Nat /\ "ManualCaptureWarningRequired" \in Effects
    BY <2>6 DEF Machines, Effects
  <2>. HIDE DEF ws
  <2>8. n \in Machines
    BY <2>4, <2>6, <2>7 DEF Machines
  <2>9. /\ n.phase = i.phase /\ n.request = i.request /\ n.requests = i.requests
        /\ n.effect = "ManualCaptureWarningRequired" /\ n.debounce = i.debounce
    BY <2>6 DEF Machines
  <2>. HIDE DEF n
  <2>. QED
    BY <2>1, <2>3, <2>5, <2>6, <2>8, <2>9 DEF Steps, Continues, Forgets, Guards
<1>. QED
  BY <1>1, <1>2

\* Into a phase without a request, and the warning or the latest frame forgotten.
Searching(m, w, d, f) ==
    [Machine!Into(m, "Searching") EXCEPT !.warning = w, !.debounce = d, !.latest = f]

LEMMA SearchingResult ==
    ASSUME NEW m \in Machines, NEW w \in Warnings, NEW d \in Debounces, NEW f \in SeenFrames
    PROVE  LET n == Searching(m, w, d, f) IN
           Steps(m, n) /\ n.debounce = d /\ n.phase = "Searching" /\ n.effect = "none"
<1>. DEFINE i == Machine!Into(m, "Searching")
            n == [i EXCEPT !.warning = w, !.debounce = d, !.latest = f]
<1>1. /\ i \in Machines /\ i.phase = "Searching" /\ i.effect = "none"
      /\ i.request = Machine!NoRequest /\ i.requests = m.requests
  BY Without
<1>. HIDE DEF i
<1>2. n \in Machines
  BY <1>1 DEF Machines
<1>3. /\ n.phase = i.phase /\ n.request = i.request /\ n.requests = i.requests /\ n.effect = i.effect
      /\ n.debounce = d
  BY <1>1 DEF Machines
<1>. HIDE DEF n
<1>4. Steps(m, n) /\ n.debounce = d /\ n.phase = "Searching" /\ n.effect = "none"
  BY <1>1, <1>2, <1>3 DEF Steps, Continues, Forgets
<1>. QED
  BY <1>4 DEF n, i, Searching

LEMMA ConfirmResult ==
    ASSUME NEW m \in Machines, NEW token, NEW now \in Int
    PROVE  LET n == Machine!ConfirmManualCapture(m, token, now) IN
           /\ n.debounce = m.debounce
           /\ \/ Steps(m, n)
              \/ n \in Machines /\ Begins(m, n) /\ n.request.trigger = "MANUAL"
<1>1. CASE Machine!Answers(m, token)
  <2>1. m.warning.page \in PageOrNone
    BY DEF Machines, Warnings
  <2>. QED
    BY <1>1, <2>1, BeginCaptureResult DEF Machine!ConfirmManualCapture
<1>2. CASE ~Machine!Answers(m, token)
  BY <1>2, UnmovedResult DEF Machine!ConfirmManualCapture, Steps, Effects
<1>. QED
  BY <1>1, <1>2

LEMMA DismissResult ==
    ASSUME NEW m \in Machines, NEW token
    PROVE  LET n == Machine!DismissManualCapture(m, token) IN Steps(m, n) /\ n.debounce = m.debounce
<1>1. CASE Machine!Answers(m, token)
  <2>. DEFINE i == Machine!Into(m, "Searching")
              n == [i EXCEPT !.warning = Machine!NoWarning]
              k == Searching(m, Machine!NoWarning, m.debounce, i.latest)
  <2>1. i \in Machines /\ i.debounce = m.debounce
    BY Without
  <2>2. i.latest \in SeenFrames /\ m.debounce \in Debounces
    BY <2>1 DEF Machines
  <2>3. Steps(m, k) /\ k.debounce = m.debounce
    BY <2>2, SearchingResult, Nones
  <2>4. Machine!DismissManualCapture(m, token) = n
    BY <1>1 DEF Machine!DismissManualCapture
  <2>5. n = k
    <3>1. k = [i EXCEPT !.warning = Machine!NoWarning, !.debounce = m.debounce, !.latest = i.latest]
      BY DEF Searching
    <3>. HIDE DEF i, k
    <3>. QED
      BY <2>1, <3>1 DEF Machines
  <2>. QED
    BY <2>3, <2>4, <2>5
<1>2. CASE ~Machine!Answers(m, token)
  BY <1>2, UnmovedResult DEF Machine!DismissManualCapture, Steps, Effects
<1>. QED
  BY <1>1, <1>2

\* A callback moves the request forward, or ends it.
LEMMA SucceededResult ==
    ASSUME NEW m \in Machines, NEW token
    PROVE  LET n == Machine!CaptureSucceeded(m, token) IN
           /\ Steps(m, n)
           /\ \/ ~Machine!Concerns(m, "Capturing", token) /\ n.phase = m.phase /\ n.debounce = m.debounce
              \/ /\ m.phase = "Capturing" /\ n.phase = "Processing"
                 /\ n.debounce = [page |-> m.request.page, until |-> m.request.at + 3]
<1>1. CASE Machine!Concerns(m, "Capturing", token)
  <2>. DEFINE i == Machine!Into(m, "Processing")
              d == [page |-> m.request.page, until |-> m.request.at + 3]
              n == [i EXCEPT !.debounce = d, !.latest = Machine!NoFrame]
  <2>1. m.phase = "Capturing"
    BY <1>1 DEF Machine!Concerns
  <2>2. "Processing" \in Machine!Phases /\ "Processing" \in Machine!ActivePhases
    BY DEF Machine!Phases, Machine!ActivePhases
  <2>3. /\ i \in Machines /\ i.phase = "Processing" /\ i.effect = "none"
        /\ i.request = m.request /\ i.requests = m.requests
    BY <2>2, IntoResult
  <2>4. d \in Debounces
    BY DEF Machines, Requests, Debounces
  <2>5. Machine!CaptureSucceeded(m, token) = n
    BY <1>1 DEF Machine!CaptureSucceeded
  <2>. HIDE DEF i, d
  <2>6. n \in Machines
    BY <2>3, <2>4, Nones DEF Machines
  <2>7. /\ n.phase = i.phase /\ n.request = i.request /\ n.requests = i.requests /\ n.effect = i.effect
        /\ n.debounce = d
    BY <2>3 DEF Machines
  <2>. HIDE DEF n
  <2>8. Steps(m, n)
    BY <2>1, <2>3, <2>6, <2>7 DEF Steps, Continues, Forgets, Forward
  <2>. QED
    BY <2>1, <2>3, <2>5, <2>7, <2>8 DEF d
<1>2. CASE ~Machine!Concerns(m, "Capturing", token)
  BY <1>2, UnmovedResult DEF Machine!CaptureSucceeded, Steps, Effects
<1>. QED
  BY <1>1, <1>2

LEMMA FailedResult ==
    ASSUME NEW m \in Machines, NEW token
    PROVE  LET n == Machine!CaptureFailed(m, token) IN Steps(m, n) /\ n.debounce = m.debounce
<1>1. CASE Machine!Concerns(m, "Capturing", token)
  <2>. DEFINE i == Machine!Into(m, "Searching")
              n == [i EXCEPT !.latest = Machine!NoFrame]
              k == Searching(m, i.warning, m.debounce, Machine!NoFrame)
  <2>1. i \in Machines /\ i.debounce = m.debounce
    BY Without
  <2>2. i.warning \in Warnings /\ m.debounce \in Debounces
    BY <2>1 DEF Machines
  <2>3. Steps(m, k) /\ k.debounce = m.debounce
    BY <2>2, SearchingResult, Nones
  <2>4. Machine!CaptureFailed(m, token) = n
    BY <1>1 DEF Machine!CaptureFailed
  <2>5. n = k
    <3>1. k = [i EXCEPT !.warning = i.warning, !.debounce = m.debounce, !.latest = Machine!NoFrame]
      BY DEF Searching
    <3>. HIDE DEF i, k
    <3>. QED
      BY <2>1, <3>1 DEF Machines
  <2>. QED
    BY <2>3, <2>4, <2>5
<1>2. CASE ~Machine!Concerns(m, "Capturing", token)
  BY <1>2, UnmovedResult DEF Machine!CaptureFailed, Steps, Effects
<1>. QED
  BY <1>1, <1>2

LEMMA ForwardResult ==
    ASSUME NEW m \in Machines, NEW p \in Machine!TerminalPhases, <<m.phase, p>> \in Forward
    PROVE  LET n == Machine!Into(m, p) IN Steps(m, n) /\ n.debounce = m.debounce
<1>. DEFINE n == Machine!Into(m, p)
<1>1. p \in Machine!Phases /\ p \in Machine!TerminalPhases /\ p # "CandidateStable"
  BY DEF Machine!Phases, Machine!TerminalPhases
<1>2. /\ n \in Machines /\ n.phase = p /\ n.effect = "none" /\ n.request = m.request
      /\ n.requests = m.requests /\ n.debounce = m.debounce
  BY <1>1, IntoResult
<1>. HIDE DEF n
<1>3. Steps(m, n) /\ n.debounce = m.debounce
  BY <1>1, <1>2 DEF Steps, Continues, Forgets
<1>. QED
  BY <1>3 DEF n

LEMMA CompletedResult ==
    ASSUME NEW m \in Machines, NEW token, NEW o \in Machine!TerminalPhases
    PROVE  LET n == Machine!ProcessingCompleted(m, token, o) IN Steps(m, n) /\ n.debounce = m.debounce
<1>1. CASE Machine!Concerns(m, "Processing", token)
  <2>1. <<m.phase, o>> \in Forward
    BY <1>1 DEF Machine!Concerns, Machine!TerminalPhases, Forward
  <2>. QED
    BY <1>1, <2>1, ForwardResult DEF Machine!ProcessingCompleted
<1>2. CASE ~Machine!Concerns(m, "Processing", token)
  BY <1>2, UnmovedResult DEF Machine!ProcessingCompleted, Steps, Effects
<1>. QED
  BY <1>1, <1>2

LEMMA ReviewedResult ==
    ASSUME NEW m \in Machines, NEW token
    PROVE  LET n == Machine!ReviewRegistrationCompleted(m, token) IN Steps(m, n) /\ n.debounce = m.debounce
<1>1. CASE Machine!Concerns(m, "NeedsReview", token)
  <2>1. <<m.phase, "Accepted">> \in Forward /\ "Accepted" \in Machine!TerminalPhases
    BY <1>1 DEF Machine!Concerns, Machine!TerminalPhases, Forward
  <2>. QED
    BY <1>1, <2>1, ForwardResult DEF Machine!ReviewRegistrationCompleted
<1>2. CASE ~Machine!Concerns(m, "NeedsReview", token)
  BY <1>2, UnmovedResult DEF Machine!ReviewRegistrationCompleted, Steps, Effects
<1>. QED
  BY <1>1, <1>2

LEMMA ContinueResult ==
    ASSUME NEW m \in Machines, NEW now \in Int, NEW retake \in BOOLEAN
    PROVE  LET n == Machine!ContinueScanning(m, now, retake) IN
           /\ Steps(m, n)
           /\ \/ Guards(m, n, now)
              \/ retake /\ m.phase \in Machine!TerminalPhases /\ m.debounce.page = m.request.page
<1>1. CASE m.phase \in Machine!TerminalPhases
  <2>. DEFINE i == Machine!Into(m, "Searching")
              lifted == retake /\ m.debounce.page = m.request.page
              d == IF lifted THEN Machine!NoDebounce ELSE Machine!DebounceAt(m, now)
              n == [i EXCEPT !.debounce = d, !.latest = Machine!NoFrame]
              k == Searching(m, i.warning, d, Machine!NoFrame)
  <2>1. i \in Machines /\ i.debounce = m.debounce
    BY Without
  <2>2. i.warning \in Warnings
    BY <2>1 DEF Machines
  <2>3. /\ d \in Debounces
        /\ \/ d = m.debounce
           \/ d = Machine!NoDebounce /\ now >= m.debounce.until
           \/ lifted
    BY DebounceAtResult, Nones
  <2>4. Machine!ContinueScanning(m, now, retake) = n
    <3>1. [i EXCEPT !.debounce = IF retake /\ @.page = m.request.page
                                 THEN Machine!NoDebounce ELSE Machine!DebounceAt(m, now),
                    !.latest = Machine!NoFrame]
             = [i EXCEPT !.debounce = IF retake /\ i.debounce.page = m.request.page
                                 THEN Machine!NoDebounce ELSE Machine!DebounceAt(m, now),
                         !.latest = Machine!NoFrame]
      BY <2>1 DEF Machines
    <3>. QED
      BY <1>1, <2>1, <3>1 DEF Machine!ContinueScanning
  <2>5. Steps(m, k) /\ k.debounce = d
    <3>. HIDE DEF d
    <3>. QED
      BY <2>2, <2>3, SearchingResult, Nones
  <2>6. n = k
    <3>1. k = [i EXCEPT !.warning = i.warning, !.debounce = d, !.latest = Machine!NoFrame]
      BY DEF Searching
    <3>. HIDE DEF i, d, k
    <3>. QED
      BY <2>1, <3>1 DEF Machines
  <2>. HIDE DEF n, k, i, d
  <2>. QED
    BY <1>1, <2>3, <2>4, <2>5, <2>6 DEF Guards
<1>2. CASE m.phase \notin Machine!TerminalPhases
  BY <1>2, UnmovedResult DEF Machine!ContinueScanning, Steps, Effects, Guards
<1>. QED
  BY <1>1, <1>2

\* An observed frame: the page becomes or stays the candidate, or its capture
\* begins once it has been the candidate for long enough.
CandidateOf(m, f, n) ==
    /\ n.phase = "CandidateStable" /\ n.candidate.page = f.page /\ n.candidate.last = f.at
    /\ \/ n.candidate.since = f.at
       \/ m.phase = "CandidateStable" /\ m.candidate.page = f.page /\ f.at - m.candidate.last <= 1
          /\ n.candidate.since = m.candidate.since
EarnedBy(m, f, n) ==
    /\ Begins(m, n) /\ n.request.page = f.page
    /\ m.phase = "CandidateStable" /\ m.candidate.page = f.page /\ f.at - m.candidate.last <= 1
    /\ f.at - m.candidate.since >= 2

LEMMA CandidateFromResult ==
    ASSUME NEW m \in Machines, NEW f \in SeenFrames
    PROVE  LET n == Machine!CandidateFrom(m, f) IN
           /\ n \in Machines /\ Continues(m, n) /\ n.debounce = m.debounce /\ CandidateOf(m, f, n)
<1>. DEFINE i == Machine!Into(m, "CandidateStable")
            c == [page |-> f.page, since |-> f.at, last |-> f.at]
            n == [i EXCEPT !.candidate = c]
<1>1. /\ "CandidateStable" \in Machine!Phases
      /\ "CandidateStable" \notin Machine!ActivePhases \cup Machine!TerminalPhases
  BY DEF Machine!Phases, Machine!ViewingPhases, Machine!ActivePhases, Machine!TerminalPhases
<1>2. /\ i \in Machines /\ i.phase = "CandidateStable" /\ i.effect = "none"
      /\ i.request = Machine!NoRequest /\ i.requests = m.requests /\ i.debounce = m.debounce
  BY <1>1, IntoResult
<1>3. c \in Views /\ c.page = f.page /\ c.since = f.at /\ c.last = f.at
  BY DEF Views, SeenFrames
<1>4. Machine!CandidateFrom(m, f) = n
  BY DEF Machine!CandidateFrom
<1>. HIDE DEF i, c
<1>5. n \in Machines
  BY <1>2, <1>3 DEF Machines
<1>6. /\ n.phase = i.phase /\ n.request = i.request /\ n.requests = i.requests /\ n.effect = i.effect
      /\ n.debounce = i.debounce /\ n.candidate = c
  BY <1>2 DEF Machines
<1>. HIDE DEF n
<1>. QED
  BY <1>2, <1>3, <1>4, <1>5, <1>6 DEF Continues, CandidateOf

LEMMA ObserveCandidateResult ==
    ASSUME NEW m \in Machines, NEW f \in SeenFrames
    PROVE  LET n == Machine!ObserveCandidate(m, f) IN
           /\ n \in Machines /\ n.debounce = m.debounce
           /\ \/ Continues(m, n) /\ CandidateOf(m, f, n)
              \/ EarnedBy(m, f, n)
<1>. DEFINE c == m.candidate
            restarts == \/ m.phase # "CandidateStable" \/ c.page # f.page \/ f.at - c.last > 1
<1>0. c \in Views /\ f.at \in Int /\ f.page \in PageOrNone /\ c.last \in Int /\ c.since \in Int
  BY DEF Machines, SeenFrames, Views
<1>1. CASE restarts
  <2>1. Machine!ObserveCandidate(m, f) = Machine!CandidateFrom(m, f)
    BY <1>1 DEF Machine!ObserveCandidate
  <2>. HIDE DEF restarts, c
  <2>. QED
    BY <2>1, CandidateFromResult
<1>2. CASE ~restarts /\ f.at - c.since >= 2
  <2>1. Machine!ObserveCandidate(m, f) = Machine!BeginCapture(m, f.page, "AUTO", f.at)
    BY <1>2 DEF Machine!ObserveCandidate
  <2>2. m.phase = "CandidateStable" /\ c.page = f.page /\ f.at - c.last <= 1 /\ f.at - c.since >= 2
    BY <1>0, <1>2
  <2>. DEFINE n == Machine!BeginCapture(m, f.page, "AUTO", f.at)
  <2>3. n \in Machines /\ Begins(m, n) /\ n.debounce = m.debounce /\ n.request.page = f.page
    BY <1>0, BeginCaptureResult, SMTT(30)
  <2>. HIDE DEF n
  <2>4. EarnedBy(m, f, n)
    BY <2>2, <2>3 DEF EarnedBy
  <2>. QED
    BY <2>1, <2>3, <2>4 DEF n
<1>3. CASE ~restarts /\ ~(f.at - c.since >= 2)
  <2>. DEFINE k == [c EXCEPT !.last = f.at]
              n == [m EXCEPT !.candidate = k, !.effect = "none"]
  <2>1. m.phase = "CandidateStable" /\ c.page = f.page /\ f.at - c.last <= 1
    BY <1>0, <1>3
  <2>2. Machine!ObserveCandidate(m, f) = n
    <3>1. [m EXCEPT !.candidate.last = f.at, !.effect = "none"] = n
      BY DEF Machines
    <3>. QED
      BY <1>3, <3>1 DEF Machine!ObserveCandidate
  <2>3. k \in Views /\ k.page = c.page /\ k.since = c.since /\ k.last = f.at
    BY <1>0 DEF Views
  <2>. HIDE DEF k
  <2>4. n \in Machines
    BY <2>3 DEF Machines, Effects
  <2>5. /\ n.phase = m.phase /\ n.request = m.request /\ n.requests = m.requests /\ n.effect = "none"
        /\ n.debounce = m.debounce /\ n.candidate = k
    BY DEF Machines
  <2>. HIDE DEF n
  <2>6. Continues(m, n)
    BY <2>5 DEF Continues
  <2>7. CandidateOf(m, f, n)
    BY <2>1, <2>3, <2>5 DEF CandidateOf
  <2>. QED
    BY <2>2, <2>4, <2>5, <2>6, <2>7
<1>. QED
  BY <1>1, <1>2, <1>3

\* What a viewing machine has noted when it judges a frame.
Noted(m, f, d) == [m EXCEPT !.seen = f.at, !.latest = f, !.debounce = d]

LEMMA NotedResult ==
    ASSUME NEW m \in Machines, NEW f \in SeenFrames, NEW d \in Debounces
    PROVE  LET n == Noted(m, f, d) IN
           /\ n \in Machines /\ n.debounce = d /\ n.phase = m.phase /\ n.candidate = m.candidate
           /\ n.requests = m.requests /\ n.request = m.request
<1>1. f.at \in Int
  BY DEF SeenFrames
<1>. QED
  BY <1>1 DEF Machines, Noted

LEMMA ObserveFrameResult ==
    ASSUME NEW m \in Machines, NEW f \in SeenFrames
    PROVE  LET n == Machine!ObserveFrame(m, f) IN
           /\ n \in Machines /\ Guards(m, n, f.at)
           /\ \/ Continues(m, n) /\ n.phase # "CandidateStable"
              \/ /\ Machine!Eligible(f) /\ n.debounce.page # f.page
                 /\ \/ Continues(m, n) /\ CandidateOf(m, f, n)
                    \/ EarnedBy(m, f, n)
<1>. DEFINE d == Machine!DebounceAt(m, f.at)
            looked == [m EXCEPT !.seen = f.at, !.latest = f]
            debounced == Noted(m, f, d)
<1>0. f.at \in Int /\ m.debounce \in Debounces
  BY DEF SeenFrames, Machines
<1>1. d \in Debounces /\ (d = m.debounce \/ (d = Machine!NoDebounce /\ f.at >= m.debounce.until))
  BY <1>0, DebounceAtResult
<1>2. [looked EXCEPT !.debounce = d] = debounced
  BY DEF Machines, Noted
<1>3. /\ debounced \in Machines /\ debounced.debounce = d /\ debounced.phase = m.phase
      /\ debounced.candidate = m.candidate /\ debounced.requests = m.requests
      /\ debounced.request = m.request
  <2>. HIDE DEF d
  <2>. QED
    BY <1>1, NotedResult
<1>4. /\ looked \in Machines /\ looked.debounce = m.debounce /\ looked.requests = m.requests
  BY <1>0 DEF Machines
<1>5. Machine!ObserveFrame(m, f) =
        IF m.phase \notin Machine!ViewingPhases THEN Machine!Unmoved(m, "none")
        ELSE IF ~Machine!Eligible(f) THEN Machine!Into(looked, "Searching")
        ELSE IF debounced.debounce.page = f.page
             THEN Machine!Unmoved(Machine!Into(debounced, "Searching"), "CaptureDebounced")
        ELSE Machine!ObserveCandidate(debounced, f)
  BY <1>2 DEF Machine!ObserveFrame
<1>. HIDE DEF d, looked, debounced
<1>6. CASE m.phase \notin Machine!ViewingPhases
  <2>1. m.phase # "CandidateStable"
    BY <1>6 DEF Machine!ViewingPhases
  <2>. QED
    BY <1>5, <1>6, <2>1, UnmovedResult DEF Effects, Guards
<1>7. CASE m.phase \in Machine!ViewingPhases /\ ~Machine!Eligible(f)
  <2>. DEFINE n == Machine!Into(looked, "Searching")
  <2>1. /\ n \in Machines /\ n.phase = "Searching" /\ n.effect = "none" /\ n.request = Machine!NoRequest
        /\ n.requests = m.requests /\ n.debounce = m.debounce
    BY <1>4, Without
  <2>. QED
    BY <1>5, <1>7, <2>1 DEF Continues, Guards
<1>8. CASE m.phase \in Machine!ViewingPhases /\ Machine!Eligible(f) /\ debounced.debounce.page = f.page
  <2>. DEFINE i == Machine!Into(debounced, "Searching")
              n == Machine!Unmoved(i, "CaptureDebounced")
  <2>1. /\ i \in Machines /\ i.phase = "Searching" /\ i.request = Machine!NoRequest
        /\ i.requests = m.requests /\ i.debounce = d
    BY <1>3, Without
  <2>2. n = [i EXCEPT !.effect = "CaptureDebounced"]
    BY DEF Machine!Unmoved
  <2>. HIDE DEF i, n
  <2>3. /\ n \in Machines /\ n.phase = i.phase /\ n.request = i.request /\ n.requests = i.requests
        /\ n.debounce = i.debounce /\ n.effect = "CaptureDebounced"
    BY <2>1, <2>2 DEF Machines, Effects
  <2>4. Machine!ObserveFrame(m, f) = n
    BY <1>5, <1>8 DEF n, i
  <2>. QED
    BY <1>1, <2>1, <2>3, <2>4 DEF Continues, Guards
<1>9. CASE m.phase \in Machine!ViewingPhases /\ Machine!Eligible(f) /\ debounced.debounce.page # f.page
  <2>. DEFINE n == Machine!ObserveCandidate(debounced, f)
  <2>1. Machine!ObserveFrame(m, f) = n
    BY <1>5, <1>9
  <2>2. /\ n \in Machines /\ n.debounce = d
        /\ \/ Continues(debounced, n) /\ CandidateOf(debounced, f, n)
           \/ EarnedBy(debounced, f, n)
    BY <1>3, ObserveCandidateResult
  <2>. HIDE DEF n
  <2>3. Continues(debounced, n) => Continues(m, n)
    BY <1>3 DEF Continues
  <2>4. CandidateOf(debounced, f, n) => CandidateOf(m, f, n)
    BY <1>3 DEF CandidateOf
  <2>5. EarnedBy(debounced, f, n) => EarnedBy(m, f, n)
    BY <1>3 DEF EarnedBy, Begins
  <2>. QED
    BY <1>1, <1>3, <1>9, <2>1, <2>2, <2>3, <2>4, <2>5 DEF Guards
<1>. QED
  BY <1>6, <1>7, <1>8, <1>9

-----------------------------------------------------------------------------
(* Steps of the machine's model.                                              *)

LEMMA AutoStep == [MCNext]_allVars => [Machine!AutoNext]_machineVars
BY DEF MCNext, allVars, machineVars

LEMMA AutoInitial == Machine!AutoInit => AutoInv
<1>. SUFFICES ASSUME Machine!AutoInit PROVE AutoInv
  OBVIOUS
<1>1. Machine!IdleMachine \in Machines /\ Machine!IdleMachine.phase = "Idle"
  BY AfreshResult
<1>2. auto = Machine!IdleMachine /\ ticks = 0 /\ viewed = Machine!NoCandidate
  BY DEF Machine!AutoInit, Machine!NoView
<1>3. shot \in [page : PageOrNone, at : Int] /\ shot.page = NoPage
  BY DEF Machine!AutoInit, Machine!NoShot, PageOrNone, Machine!Never
<1>4. viewed \in Views /\ viewed.since = -1
  BY <1>2, Nones DEF Machine!NoCandidate, Machine!Never
<1>. QED
  BY <1>1, <1>2, <1>3, <1>4 DEF AutoInv, AutoTypeOK, CandidateIsViewed, ShotIsGuarded

\* A capture in progress has a number.
LEMMA RequestIsNumbered ==
    ASSUME NEW m \in Machines, NEW n \in Machines, Begins(m, n) \/ Continues(m, n),
           m.phase = "Capturing" => m.request.sequence # 0
    PROVE  n.phase = "Capturing" => n.request.sequence # 0
<1>1. ASSUME Begins(m, n) PROVE n.request.sequence # 0
  BY <1>1 DEF Begins, Machines
<1>2. ASSUME Continues(m, n), n.phase = "Capturing" PROVE n.request.sequence # 0
  BY <1>2 DEF Continues, Forward
<1>. QED
  BY <1>1, <1>2

\* A transition that leaves the clock and the histories alone.
LEMMA QuietAuto ==
    ASSUME AutoInv, UNCHANGED <<ticks, viewed, shot>>, auto' \in Machines, Guards(auto, auto', ticks),
           \/ Steps(auto, auto')
           \/ Begins(auto, auto')
    PROVE  AutoInv'
<1>. USE DEF AutoInv
<1>1. AutoTypeOK'
  BY RequestIsNumbered DEF AutoTypeOK, Steps
<1>2. CandidateIsViewed'
  BY DEF CandidateIsViewed, Steps, Forgets, Begins
<1>3. ShotIsGuarded'
  <2>. SUFFICES ASSUME shot.page # NoPage, auto'.debounce # auto.debounce, ~(ticks >= shot.at + 3)
                PROVE  FALSE
    BY DEF ShotIsGuarded
  <2>1. ticks >= auto.debounce.until
    BY DEF Guards
  <2>2. auto.debounce.until = shot.at + 3
    BY DEF ShotIsGuarded
  <2>. QED
    BY <2>1, <2>2
<1>. QED
  BY <1>1, <1>2, <1>3

\* A session begun or ended.
LEMMA AfreshAuto ==
    ASSUME AutoInv, UNCHANGED ticks, viewed' = Machine!NoView, shot' = Machine!NoShot,
           auto' \in Machines, Continues(auto, auto'), auto'.phase # "CandidateStable"
    PROVE  AutoInv'
<1>. USE DEF AutoInv
<1>1. viewed' \in Views /\ viewed'.since = -1
  BY Nones DEF Machine!NoView, Machine!NoCandidate, Machine!Never
<1>2. shot' \in [page : PageOrNone, at : Int] /\ shot'.page = NoPage
  BY DEF Machine!NoShot, Machine!Never, PageOrNone
<1>3. AutoTypeOK'
  BY <1>1, <1>2, RequestIsNumbered DEF AutoTypeOK
<1>4. CandidateIsViewed' /\ ShotIsGuarded'
  BY <1>2 DEF CandidateIsViewed, ShotIsGuarded
<1>. QED
  BY <1>3, <1>4

\* What a step asks for, and what the frames say of it.
Earned ==
    auto'.request.trigger = "AUTO" =>
         /\ viewed'.page = auto'.request.page
         /\ ticks - viewed'.since >= 2
         /\ shot.page = auto'.request.page => ticks >= shot.at + 3

\* A step keeps the invariant, begins or continues a request, and has earned it.
AutoKept(m, n) ==
    /\ AutoInv'
    /\ \/ Continues(m, n)
       \/ Begins(m, n) /\ Earned

LEMMA FrameKeeps == AutoInv /\ Machine!FrameArrives => AutoKept(auto, auto')
<1>. SUFFICES ASSUME AutoInv, Machine!FrameArrives PROVE AutoKept(auto, auto')
  OBVIOUS
<1>. USE DEF AutoInv
<1>1. PICK p \in PageOrNone, identity \in BOOLEAN, accepted \in BOOLEAN :
        LET f == Machine!Frame(ticks, p, identity, accepted) IN
        /\ auto' = Machine!ObserveFrame(auto, f)
        /\ viewed' = IF ~Machine!Eligible(f) THEN Machine!NoView
                     ELSE IF viewed.page = p /\ ticks - viewed.last <= 1
                          THEN [viewed EXCEPT !.last = ticks]
                     ELSE [page |-> p, since |-> ticks, last |-> ticks]
        /\ UNCHANGED <<ticks, shot>>
  BY DEF Machine!FrameArrives, Machine!Moves, PageOrNone
<1>. DEFINE f == Machine!Frame(ticks, p, identity, accepted)
<1>2. f \in SeenFrames /\ f.at = ticks /\ f.page = p
  BY DEF AutoTypeOK, Machine!Frame, SeenFrames
<1>3. /\ auto' = Machine!ObserveFrame(auto, f)
      /\ viewed' = IF ~Machine!Eligible(f) THEN Machine!NoView
                   ELSE IF viewed.page = p /\ ticks - viewed.last <= 1
                        THEN [viewed EXCEPT !.last = ticks]
                   ELSE [page |-> p, since |-> ticks, last |-> ticks]
      /\ ticks' = ticks /\ shot' = shot
  BY <1>1
<1>. HIDE DEF f
<1>4. /\ auto' \in Machines /\ Guards(auto, auto', ticks)
      /\ \/ Continues(auto, auto') /\ auto'.phase # "CandidateStable"
         \/ /\ Machine!Eligible(f) /\ auto'.debounce.page # p
            /\ \/ Continues(auto, auto') /\ CandidateOf(auto, f, auto')
               \/ EarnedBy(auto, f, auto')
  BY <1>2, <1>3, ObserveFrameResult DEF AutoTypeOK
<1>5. viewed' \in Views /\ viewed'.since <= ticks
  BY <1>3, Nones DEF AutoTypeOK, Views, Machine!NoView, Machine!NoCandidate, Machine!Never
<1>6. AutoTypeOK'
  <2>1. Begins(auto, auto') \/ Continues(auto, auto')
    BY <1>4 DEF EarnedBy
  <2>2. auto'.phase = "Capturing" => auto'.request.sequence # 0
    BY <1>4, <2>1, RequestIsNumbered DEF AutoTypeOK
  <2>. QED
    BY <1>3, <1>4, <1>5, <2>2 DEF AutoTypeOK
<1>7. ShotIsGuarded'
  <2>. SUFFICES ASSUME shot.page # NoPage, auto'.debounce # auto.debounce, ~(ticks >= shot.at + 3)
                PROVE  FALSE
    BY <1>3 DEF ShotIsGuarded
  <2>1. ticks >= auto.debounce.until
    BY <1>4 DEF Guards
  <2>2. auto.debounce.until = shot.at + 3
    BY DEF ShotIsGuarded
  <2>. QED
    BY <2>1, <2>2
\* The candidate the machine had is what the frames have shown so far.
<1>8. ASSUME Machine!Eligible(f), auto.phase = "CandidateStable", auto.candidate.page = p, ticks - auto.candidate.last <= 1
      PROVE  viewed'.page = p /\ viewed'.last = ticks /\ viewed'.since <= auto.candidate.since
  <2>1. viewed.page = p /\ ticks - viewed.last <= 1 /\ viewed.since <= auto.candidate.since
    BY <1>8 DEF CandidateIsViewed
  <2>2. viewed' = [viewed EXCEPT !.last = ticks]
    BY <1>3, <1>8, <2>1
  <2>. QED
    BY <2>1, <2>2 DEF AutoTypeOK, Views
<1>9. CASE Continues(auto, auto') /\ auto'.phase # "CandidateStable"
  BY <1>6, <1>7, <1>9 DEF AutoKept, CandidateIsViewed
<1>10. CASE Machine!Eligible(f) /\ Continues(auto, auto') /\ CandidateOf(auto, f, auto')
  <2>1. viewed'.page = p /\ viewed'.last = ticks /\ viewed'.since <= ticks
    BY <1>3, <1>5, <1>10 DEF AutoTypeOK, Views
  <2>2. viewed'.since <= auto'.candidate.since
    BY <1>2, <1>8, <1>10, <2>1 DEF CandidateOf
  <2>3. CandidateIsViewed'
    BY <1>2, <1>10, <2>1, <2>2 DEF CandidateIsViewed, CandidateOf
  <2>. QED
    BY <1>6, <1>7, <1>10, <2>3 DEF AutoKept
<1>11. CASE Machine!Eligible(f) /\ auto'.debounce.page # p /\ EarnedBy(auto, f, auto')
  <2>1. /\ Begins(auto, auto') /\ auto'.request.page = p /\ auto.phase = "CandidateStable"
        /\ auto.candidate.page = p /\ ticks - auto.candidate.last <= 1 /\ ticks - auto.candidate.since >= 2
    BY <1>2, <1>11 DEF EarnedBy
  <2>2. viewed'.page = p /\ viewed'.since <= auto.candidate.since
    BY <1>8, <1>11, <2>1
  <2>3. ticks - viewed'.since >= 2
    <3>1. auto.candidate.since \in Int /\ viewed'.since \in Int /\ ticks \in Int
      BY <1>5 DEF AutoTypeOK, Machines, Views
    <3>. QED
      BY <2>1, <2>2, <3>1
  <2>4. ASSUME shot.page = p PROVE ticks >= shot.at + 3
    <3>1. p # NoPage
      BY <1>2, <1>11 DEF Machine!Eligible
    <3>2. \/ auto'.debounce.page = p
          \/ ticks >= shot.at + 3
      BY <1>3, <1>7, <2>4, <3>1 DEF ShotIsGuarded
    <3>. QED
      BY <1>11, <3>2
  <2>5. CandidateIsViewed'
    BY <2>1 DEF CandidateIsViewed, Begins
  <2>. QED
    BY <1>6, <1>7, <2>1, <2>2, <2>3, <2>4, <2>5 DEF AutoKept, Earned
<1>. QED
  BY <1>4, <1>9, <1>10, <1>11

\* The shot becomes the request's when its picture has been taken.
LEMMA CallbackKeeps == AutoInv /\ Machine!Callback => AutoKept(auto, auto')
<1>. SUFFICES ASSUME AutoInv, Machine!Callback PROVE AutoKept(auto, auto')
  OBVIOUS
<1>. USE DEF AutoInv
<1>. DEFINE token == Machine!TokenOf(auto.request)
<1>0. auto \in Machines /\ ticks' = ticks /\ viewed' = viewed
  BY DEF AutoTypeOK, Machine!Callback
<1>1. ASSUME Steps(auto, auto'), auto'.debounce = auto.debounce, shot' = shot PROVE AutoKept(auto, auto')
  <2>1. auto' \in Machines /\ Guards(auto, auto', ticks)
    BY <1>1 DEF Steps, Guards
  <2>. QED
    BY <1>0, <1>1, <2>1, QuietAuto DEF AutoKept, Steps
<1>2. ASSUME auto' = Machine!CaptureSucceeded(auto, token),
             shot' = IF auto'.phase # auto.phase
                     THEN [page |-> auto.request.page, at |-> auto.request.at]
                     ELSE shot
      PROVE  AutoKept(auto, auto')
  <2>1. /\ Steps(auto, auto')
        /\ \/ auto'.phase = auto.phase /\ auto'.debounce = auto.debounce
           \/ /\ auto.phase = "Capturing" /\ auto'.phase = "Processing"
              /\ auto'.debounce = [page |-> auto.request.page, until |-> auto.request.at + 3]
    BY <1>0, <1>2, SucceededResult
  <2>2. CASE auto'.phase = auto.phase /\ auto'.debounce = auto.debounce
    BY <1>1, <1>2, <2>1, <2>2
  <2>3. CASE /\ auto.phase = "Capturing" /\ auto'.phase = "Processing"
             /\ auto'.debounce = [page |-> auto.request.page, until |-> auto.request.at + 3]
    <3>1. shot' = [page |-> auto.request.page, at |-> auto.request.at] /\ auto.request \in Requests
      BY <1>0, <1>2, <2>3 DEF Machines
    <3>2. shot' \in [page : PageOrNone, at : Int]
      BY <3>1 DEF Requests
    <3>3. AutoTypeOK'
      BY <1>0, <2>1, <2>3, <3>2 DEF AutoTypeOK, Steps
    <3>4. CandidateIsViewed' /\ ShotIsGuarded'
      BY <2>3, <3>1 DEF CandidateIsViewed, ShotIsGuarded
    <3>. QED
      BY <2>1, <3>3, <3>4 DEF AutoKept, Steps
  <2>. QED
    BY <2>1, <2>2, <2>3
<1>3. ASSUME auto' = Machine!CaptureSucceeded(auto, Machine!Earlier), shot' = shot PROVE AutoKept(auto, auto')
  <2>1. ~Machine!Concerns(auto, "Capturing", Machine!Earlier)
    BY DEF Machine!Concerns, Machine!Earlier, Machine!TokenOf, AutoTypeOK
  <2>2. Steps(auto, auto') /\ auto'.debounce = auto.debounce
    BY <1>0, <1>3, <2>1, UnmovedResult DEF Machine!CaptureSucceeded, Steps, Effects
  <2>. QED
    BY <1>1, <1>3, <2>2
<1>4. ASSUME shot' = shot,
             \/ auto' = Machine!CaptureFailed(auto, token)
             \/ \E o \in Machine!TerminalPhases : auto' = Machine!ProcessingCompleted(auto, token, o)
             \/ auto' = Machine!ReviewRegistrationCompleted(auto, token)
      PROVE  AutoKept(auto, auto')
  <2>1. Steps(auto, auto') /\ auto'.debounce = auto.debounce
    BY <1>0, <1>4, FailedResult, CompletedResult, ReviewedResult
  <2>. QED
    BY <1>1, <1>4, <2>1
<1>. QED
  BY <1>2, <1>3, <1>4 DEF Machine!Callback, Machine!Moves

LEMMA ContinueKeeps == AutoInv /\ Machine!Continue => AutoKept(auto, auto')
<1>. SUFFICES ASSUME AutoInv, Machine!Continue PROVE AutoKept(auto, auto')
  OBVIOUS
<1>. USE DEF AutoInv
<1>1. PICK retake \in BOOLEAN :
        /\ auto' = Machine!ContinueScanning(auto, ticks, retake)
        /\ shot' = IF retake /\ auto.phase \in Machine!TerminalPhases
                      /\ shot.page = auto.request.page THEN Machine!NoShot ELSE shot
        /\ UNCHANGED <<ticks, viewed>>
  BY DEF Machine!Continue, Machine!Moves
<1>2. /\ Steps(auto, auto')
      /\ \/ Guards(auto, auto', ticks)
         \/ retake /\ auto.phase \in Machine!TerminalPhases /\ auto.debounce.page = auto.request.page
  BY <1>1, ContinueResult DEF AutoTypeOK
<1>3. shot' \in [page : PageOrNone, at : Int] /\ (shot' = shot \/ shot'.page = NoPage)
  BY <1>1 DEF AutoTypeOK, Machine!NoShot, Machine!Never, PageOrNone
<1>4. AutoTypeOK'
  <2>1. auto' \in Machines /\ (auto'.phase = "Capturing" => auto'.request.sequence # 0)
    BY <1>2, RequestIsNumbered DEF AutoTypeOK, Steps
  <2>. QED
    BY <1>1, <1>3, <2>1 DEF AutoTypeOK
<1>5. CandidateIsViewed'
  BY <1>1, <1>2 DEF CandidateIsViewed, Steps, Forgets
<1>6. ShotIsGuarded'
  <2>. SUFFICES ASSUME shot.page # NoPage, shot' = shot, auto'.debounce # auto.debounce, ~(ticks >= shot.at + 3)
                PROVE  FALSE
    BY <1>1, <1>3 DEF ShotIsGuarded
  <2>1. auto.debounce.page = shot.page /\ auto.debounce.until = shot.at + 3
    BY DEF ShotIsGuarded
  <2>2. CASE Guards(auto, auto', ticks)
    BY <2>1, <2>2 DEF Guards
  <2>3. CASE retake /\ auto.phase \in Machine!TerminalPhases /\ auto.debounce.page = auto.request.page
    BY <1>1, <2>1, <2>3 DEF Machine!NoShot
  <2>. QED
    BY <1>2, <2>2, <2>3
<1>. QED
  BY <1>2, <1>4, <1>5, <1>6 DEF AutoKept, Steps

LEMMA AutoKeeps == AutoInv /\ [Machine!AutoNext]_machineVars => AutoInv' /\ (auto' = auto \/ AutoKept(auto, auto'))
<1>. SUFFICES ASSUME AutoInv, [Machine!AutoNext]_machineVars
              PROVE  AutoInv' /\ (auto' = auto \/ AutoKept(auto, auto'))
  OBVIOUS
<1>0. auto \in Machines /\ ticks \in Nat
  BY DEF AutoInv, AutoTypeOK
\* The transitions that say nothing of frames.
<1>1. ASSUME Steps(auto, auto'), Guards(auto, auto', ticks), UNCHANGED <<ticks, viewed, shot>>
      PROVE  AutoKept(auto, auto')
  BY <1>1, QuietAuto DEF AutoKept, Steps
<1>2. CASE Machine!StartScanning
  <2>. DEFINE n == Machine!Start(auto)
  <2>1. n \in Machines /\ Continues(auto, n) /\ n.phase = "Searching"
    BY <1>0, StartResult
  <2>2. auto' = n /\ UNCHANGED ticks /\ viewed' = Machine!NoView /\ shot' = Machine!NoShot
    BY <1>2 DEF Machine!StartScanning, Machine!Moves
  <2>. HIDE DEF n
  <2>. QED
    BY <2>1, <2>2, AfreshAuto DEF AutoKept
<1>3. CASE Machine!StopScanning
  <2>. DEFINE n == Machine!Stop(auto)
  <2>2. n \in Machines /\ Continues(auto, n) /\ n.phase = "Idle"
    BY <1>0, StopResult
  <2>3. auto' = n /\ UNCHANGED ticks /\ viewed' = Machine!NoView /\ shot' = Machine!NoShot
    BY <1>3 DEF Machine!StopScanning, Machine!Moves
  <2>. HIDE DEF n
  <2>. QED
    BY <2>2, <2>3, AfreshAuto DEF AutoKept
<1>4. CASE Machine!Pause
  <2>1. auto' = Machine!PauseForNavigation(auto) /\ UNCHANGED <<ticks, viewed, shot>>
    BY <1>4 DEF Machine!Pause, Machine!Moves
  <2>. QED
    BY <1>0, <1>1, <2>1, PauseResult DEF Guards, AutoKept
<1>5. CASE Machine!Resume
  <2>1. auto' = Machine!ResumeAfterNavigation(auto) /\ UNCHANGED <<ticks, viewed, shot>>
    BY <1>5 DEF Machine!Resume, Machine!Moves
  <2>. QED
    BY <1>0, <1>1, <2>1, ResumeResult DEF Guards, AutoKept
<1>6. CASE Machine!FrameArrives
  BY <1>6, FrameKeeps DEF AutoKept
<1>7. CASE Machine!ManualCapture
  <2>1. auto' = Machine!RequestManualCapture(auto, ticks) /\ UNCHANGED <<ticks, viewed, shot>>
    BY <1>7 DEF Machine!ManualCapture, Machine!Moves
  <2>. QED
    BY <1>0, <1>1, <2>1, ManualResult DEF AutoKept
<1>8. CASE Machine!AnswerWarning
  <2>. DEFINE token == Machine!TokenOf(auto.warning)
  <2>1. UNCHANGED <<ticks, viewed, shot>>
    BY <1>8 DEF Machine!AnswerWarning
  <2>2. CASE auto' = Machine!DismissManualCapture(auto, token)
    BY <1>0, <1>1, <2>1, <2>2, DismissResult DEF Guards, AutoKept
  <2>3. CASE auto' = Machine!ConfirmManualCapture(auto, token, ticks)
    <3>1. /\ auto'.debounce = auto.debounce
          /\ \/ Steps(auto, auto')
             \/ auto' \in Machines /\ Begins(auto, auto') /\ auto'.request.trigger = "MANUAL"
      BY <1>0, <2>3, ConfirmResult
    <3>2. CASE Steps(auto, auto')
      BY <1>1, <2>1, <3>1, <3>2 DEF Guards, AutoKept
    <3>3. CASE auto' \in Machines /\ Begins(auto, auto') /\ auto'.request.trigger = "MANUAL"
      BY <2>1, <3>1, <3>3, QuietAuto DEF Guards, AutoKept, Earned
    <3>. QED
      BY <3>1, <3>2, <3>3
  <2>. QED
    BY <1>8, <2>2, <2>3 DEF Machine!AnswerWarning, Machine!Moves
<1>9. CASE Machine!Callback
  BY <1>9, CallbackKeeps DEF AutoKept
<1>10. CASE Machine!Continue
  BY <1>10, ContinueKeeps DEF AutoKept
<1>11. CASE Machine!Tick
  <2>1. auto' = auto /\ viewed' = viewed /\ shot' = shot /\ ticks' = ticks + 1
    BY <1>11 DEF Machine!Tick
  <2>. QED
    BY <1>0, <2>1 DEF AutoInv, AutoTypeOK, CandidateIsViewed, ShotIsGuarded, Views
<1>12. CASE UNCHANGED machineVars
  BY <1>12 DEF machineVars, AutoInv, AutoTypeOK, CandidateIsViewed, ShotIsGuarded
<1>. QED
  BY <1>2, <1>3, <1>4, <1>5, <1>6, <1>7, <1>8, <1>9, <1>10, <1>11, <1>12 DEF Machine!AutoNext

LEMMA AutoAlways == MCSpec => []AutoInv
<1>1. MCInit => AutoInv
  BY AutoInitial DEF MCInit
<1>2. AutoInv /\ [MCNext]_allVars => AutoInv'
  BY AutoStep, AutoKeeps
<1>. QED
  BY <1>1, <1>2, PTL DEF MCSpec, allVars

\* A later phase is a greater progress.
LEMMA ForwardProgress ==
    ASSUME NEW m \in Machines, NEW n \in Machines,
           m.request # Machine!NoRequest, n.request = m.request, <<m.phase, n.phase>> \in Forward
    PROVE  Machine!Progress(n) > Machine!Progress(m)
<1>. DEFINE C == <<{"Capturing"}, {"Processing"}, {"NeedsReview"}, {"Accepted", "Rejected"}>>
<1>1. Machine!Course = C /\ DOMAIN C = 1 .. 4
  BY DEF Machine!Course
<1>2. /\ \A i \in 1 .. 4 : "Capturing" \in C[i] <=> i = 1
      /\ \A i \in 1 .. 4 : "Processing" \in C[i] <=> i = 2
      /\ \A i \in 1 .. 4 : "NeedsReview" \in C[i] <=> i = 3
      /\ \A i \in 1 .. 4 : "Accepted" \in C[i] <=> i = 4
      /\ \A i \in 1 .. 4 : "Rejected" \in C[i] <=> i = 4
  OBVIOUS
<1>. HIDE DEF C
<1>3. ASSUME NEW p, NEW k \in 1 .. 4, \A i \in 1 .. 4 : p \in C[i] <=> i = k
      PROVE  (CHOOSE i \in 1 .. 4 : p \in C[i]) = k
  BY <1>3
<1>4. /\ Machine!Progress(m) = CHOOSE i \in 1 .. 4 : m.phase \in C[i]
      /\ Machine!Progress(n) = CHOOSE i \in 1 .. 4 : n.phase \in C[i]
  BY <1>1 DEF Machine!Progress
<1>5. /\ m.phase = "Capturing" => Machine!Progress(m) = 1
      /\ m.phase = "Processing" => Machine!Progress(m) = 2
      /\ m.phase = "NeedsReview" => Machine!Progress(m) = 3
      /\ n.phase = "Processing" => Machine!Progress(n) = 2
      /\ n.phase = "NeedsReview" => Machine!Progress(n) = 3
      /\ n.phase \in {"Accepted", "Rejected"} => Machine!Progress(n) = 4
  BY <1>2, <1>3, <1>4
<1>. QED
  BY <1>5 DEF Forward

-----------------------------------------------------------------------------
(* A request goes through its phases once and forward. A request is begun     *)
(* with a number that no request had, and every other transition forgets it   *)
(* or leaves it as it is, in its phase or in a later one: no late or repeated *)
(* callback moves it back, replaces its outcome or revives it.                *)
THEOREM RequestsGoForward == MCSpec => OneOutcomePerRequest
<1>. DEFINE Ahead == LET r == auto'.request IN
                     r # Machine!NoRequest =>
                       \/ Machine!CaptureAsked /\ r.sequence > auto.requests
                       \/ /\ r = auto.request
                          /\ auto'.phase = auto.phase \/ Machine!Progress(auto') > Machine!Progress(auto)
<1>1. AutoInv /\ [MCNext]_allVars => [Ahead]_Machine!autoVars
  <2>. SUFFICES ASSUME AutoInv, [MCNext]_allVars, auto'.request # Machine!NoRequest
                PROVE  \/ Machine!CaptureAsked /\ auto'.request.sequence > auto.requests
                       \/ /\ auto'.request = auto.request
                          /\ auto'.phase = auto.phase \/ Machine!Progress(auto') > Machine!Progress(auto)
    OBVIOUS
  <2>1. auto \in Machines /\ auto' \in Machines /\ (auto' = auto \/ AutoKept(auto, auto'))
    BY AutoStep, AutoKeeps DEF AutoInv, AutoTypeOK
  <2>2. ASSUME Continues(auto, auto')
        PROVE  /\ auto'.request = auto.request
               /\ auto'.phase = auto.phase \/ Machine!Progress(auto') > Machine!Progress(auto)
    BY <2>1, <2>2, ForwardProgress DEF Continues
  <2>3. ASSUME Begins(auto, auto')
        PROVE  Machine!CaptureAsked /\ auto'.request.sequence > auto.requests
    <3>1. auto.requests \in Nat
      BY <2>1 DEF Machines
    <3>2. auto'.requests # auto.requests /\ auto'.request.sequence > auto.requests
      BY <2>3, <3>1 DEF Begins
    <3>. QED
      BY <2>3, <3>2 DEF Begins, Machine!CaptureAsked
  <2>. QED
    BY <2>1, <2>2, <2>3 DEF AutoKept
<1>. QED
  BY <1>1, AutoAlways, PTL DEF MCSpec, allVars, OneOutcomePerRequest, Machine!OneOutcomePerRequest

(* A capture that nobody asked for is one of a page that every frame of the   *)
(* last interval has shown, and not of the page photographed last, within the *)
(* debounce. The stable candidate is no older than what the frames have       *)
(* shown, since the machine restarts its interval whenever they do; and the   *)
(* debounce is the one of the last shot until its time is over.               *)
THEOREM AutoCaptures == MCSpec => AutoCaptureIsEarned
<1>. DEFINE Deserved == Machine!CaptureAsked /\ auto'.request.trigger = "AUTO" =>
                          /\ viewed'.page = auto'.request.page
                          /\ ticks - viewed'.since >= 2
                          /\ shot.page = auto'.request.page => ticks >= shot.at + 3
<1>1. AutoInv /\ [MCNext]_allVars => [Deserved]_Machine!autoVars
  <2>. SUFFICES ASSUME AutoInv, [MCNext]_allVars, Machine!CaptureAsked, auto'.request.trigger = "AUTO"
                PROVE  /\ viewed'.page = auto'.request.page
                       /\ ticks - viewed'.since >= 2
                       /\ shot.page = auto'.request.page => ticks >= shot.at + 3
    OBVIOUS
  <2>1. AutoKept(auto, auto') /\ ~Continues(auto, auto')
    BY AutoStep, AutoKeeps DEF Machine!CaptureAsked, Continues
  <2>. QED
    BY <2>1 DEF AutoKept, Earned
<1>. QED
  BY <1>1, AutoAlways, PTL DEF MCSpec, allVars, AutoCaptureIsEarned, Machine!AutoCaptureIsEarned

-----------------------------------------------------------------------------
(* Coroutines *)

(* A coroutine is a record of the fields that Job gives it. *)
IsJob(j) ==
  j = [screen |-> j.screen, kind |-> j.kind, at |-> j.at, tok |-> j.tok,
       request |-> j.request, out |-> j.out, list |-> j.list,
       generation |-> j.generation, recovered |-> j.recovered, mark |-> j.mark,
       current |-> j.current, stop |-> j.stop, cancelled |-> j.cancelled,
       id |-> j.id, fresh |-> j.fresh]

(* What the invariant says of k it says of j, except that k is not fresh.  *)
Same(k, j) == k.kind = j.kind /\ k.tok = j.tok /\ k.at = j.at /\ k.out = j.out /\ (k.fresh => j.fresh)

LEMMA JobResult ==
  ASSUME NEW s, NEW k, NEW t, NEW r
  PROVE  LET j == Job(s, k, t, r)
         IN  IsJob(j) /\ j.kind = k /\ j.tok = t /\ j.at = "io" /\ ~j.fresh
BY DEF Job, IsJob

(* One field of a coroutine changes. *)

LEMMA Set_recovered ==
  ASSUME NEW j, IsJob(j), NEW v
  PROVE  IsJob([j EXCEPT !.recovered = v]) /\ Same([j EXCEPT !.recovered = v], j)
BY DEF IsJob, Same

LEMMA Set_mark ==
  ASSUME NEW j, IsJob(j), NEW v
  PROVE  IsJob([j EXCEPT !.mark = v]) /\ Same([j EXCEPT !.mark = v], j)
BY DEF IsJob, Same

LEMMA Set_generation ==
  ASSUME NEW j, IsJob(j), NEW v
  PROVE  IsJob([j EXCEPT !.generation = v]) /\ Same([j EXCEPT !.generation = v], j)
BY DEF IsJob, Same

LEMMA Set_current ==
  ASSUME NEW j, IsJob(j), NEW v
  PROVE  IsJob([j EXCEPT !.current = v]) /\ Same([j EXCEPT !.current = v], j)
BY DEF IsJob, Same

LEMMA Set_stop ==
  ASSUME NEW j, IsJob(j), NEW v
  PROVE  IsJob([j EXCEPT !.stop = v]) /\ Same([j EXCEPT !.stop = v], j)
BY DEF IsJob, Same

LEMMA Set_cancelled ==
  ASSUME NEW j, IsJob(j), NEW v
  PROVE  IsJob([j EXCEPT !.cancelled = v]) /\ Same([j EXCEPT !.cancelled = v], j)
BY DEF IsJob, Same

LEMMA Set_id ==
  ASSUME NEW j, IsJob(j), NEW v
  PROVE  IsJob([j EXCEPT !.id = v]) /\ Same([j EXCEPT !.id = v], j)
BY DEF IsJob, Same

LEMMA Set_list ==
  ASSUME NEW j, IsJob(j), NEW v
  PROVE  IsJob([j EXCEPT !.list = v]) /\ Same([j EXCEPT !.list = v], j)
BY DEF IsJob, Same

LEMMA Set_fresh ==
  ASSUME NEW j, IsJob(j), NEW v
  PROVE  /\ IsJob([j EXCEPT !.fresh = v]) /\ [j EXCEPT !.fresh = v].fresh = v
         /\ [j EXCEPT !.fresh = v].kind = j.kind /\ [j EXCEPT !.fresh = v].tok = j.tok
         /\ [j EXCEPT !.fresh = v].at = j.at /\ [j EXCEPT !.fresh = v].out = j.out
BY DEF IsJob

LEMMA Set_unfresh ==
  ASSUME NEW j, IsJob(j)
  PROVE  LET k == [j EXCEPT !.fresh = FALSE] IN IsJob(k) /\ Same(k, j) /\ ~k.fresh
BY Set_fresh, Zenon DEF Same

-----------------------------------------------------------------------------
(* The inductive invariant *)

(* The coroutines that have not reserved their picture yet. *)
Preparing(j) == j.kind = "prepare" /\ j.at = "io"

(* The places at which a coroutine has read a record that it may write, and *)
(* those at which the record may not have changed in between.               *)
Working == {"lookup", "replace", "marking", "row", "commit", "committing"}
Reading == {"lookup", "replace", "marking"}

(* A registration that holds the mutex, and a coroutine about to make its  *)
(* record a reviewable one.                                                *)
Critical(j) == j.kind = "register" /\ j.at \in {"marking", "row"}
Reviving(j) == \/ j.at = "replace" /\ j.out = "PreviewReady"
               \/ j.kind = "process" /\ j.at = "marking"

Files == {"none", "reserved", "image"}
Recorded == {"None", "Captured", "PreviewReady", "Registering", "Committed"}
IsDisk(d) ==
  /\ d = [file |-> d.file, rec |-> d.rec, scans |-> d.scans, late |-> d.late]
  /\ d.file \in [Tokens -> Files] /\ d.rec \in [Tokens -> Recorded]
  /\ d.scans \in [Tokens -> Nat]
Spent == [captures : Nat, presses : Nat, dialogs : Nat, troubles : Nat]

(* Of a coroutine that writes a record it has looked up, what it writes.   *)
IsWriter(j) ==
  /\ j.fresh => j.at \in Reading /\ ~Critical(j)
  /\ j.at = "replace" => j.out \in {"PreviewReady", "Committed"}

SessionTypeOK ==
  /\ IsDisk(disk)
  /\ used \in Spent /\ used.captures <= MaxCaptures
  /\ \A j \in jobs : IsJob(j) /\ IsWriter(j)

Untouched(t) == disk.rec[t] = "None" /\ disk.scans[t] = 0

(* A capture has no record and no row before it is asked for, nor while    *)
(* the one coroutine that will reserve it has not done so; and nobody has  *)
(* read its record.                                                        *)
CapturesBeginUntouched ==
  /\ \A t \in Tokens : t > used.captures => Untouched(t)
  /\ \A j \in jobs : Preparing(j) => /\ j.tok \in 1..used.captures
                                     /\ Untouched(j.tok)
  /\ \A j, k \in jobs : Preparing(j) /\ Preparing(k) /\ j.tok = k.tok => j = k
  /\ \A j \in jobs : j.at \in Working => /\ j.tok \in Tokens => j.tok <= used.captures
                                         /\ \A k \in jobs : Preparing(k) => k.tok # j.tok

(* The mutex. *)
OneRegistration == \A j, k \in jobs : Critical(j) /\ Critical(k) => j = k

(* What holds of a record that was not written late: whoever has read it   *)
(* and may still write it has not missed that it became PreviewReady. So   *)
(* nobody makes a record reviewable beside the registration that has it,   *)
(* nor once the picture has its row.                                       *)
OnTime(t) ==
  /\ disk.scans[t] <= 1
  /\ disk.scans[t] > 0 => disk.rec[t] \notin Reviewable
  /\ \A j \in jobs : j.tok = t /\ j.fresh => disk.rec[t] # "PreviewReady"
  /\ \A j \in jobs : j.tok = t /\ j.fresh /\ Reviving(j) =>
       /\ disk.scans[t] = 0
       /\ \A k \in jobs : k.tok = t => ~Critical(k)
  /\ \A j \in jobs : j.tok = t /\ Critical(j) =>
       /\ disk.scans[t] = 0
       /\ IF j.at = "marking" THEN disk.rec[t] # "Captured" ELSE disk.rec[t] \notin Reviewable

SessionInv ==
  /\ SessionTypeOK /\ CapturesBeginUntouched /\ OneRegistration
  /\ \A t \in Tokens \ disk.late : OnTime(t)

-----------------------------------------------------------------------------
(* What a step may do to the coroutines. *)

(* A coroutine of which the invariant says nothing. *)
Other(k) == IsJob(k) /\ ~Preparing(k) /\ k.at \notin Working /\ ~k.fresh

Marked(k, i) == IsJob(k) /\ Same(k, i)

(* Coroutines change in what the invariant does not speak of. *)
JobsStep ==
  \E F : /\ \A i \in jobs : Marked(F[i], i)
         /\ \A k \in jobs' : Other(k) \/ \E i \in jobs : k = F[i]

UsedStep == used' \in Spent /\ used'.captures = used.captures

(* The records and the rows stay as they are. *)
DiskStep == /\ IsDisk(disk)'
            /\ disk'.rec = disk.rec /\ disk'.scans = disk.scans /\ disk'.late = disk.late

QuietStep == JobsStep /\ DiskStep /\ UsedStep

LEMMA OtherIsWriter == ASSUME NEW k, Other(k) PROVE IsWriter(k) /\ ~Critical(k) /\ ~Reviving(k)
BY DEF Other, IsWriter, Critical, Reviving, Working

(* What is said of a coroutine, is said of what it becomes. *)
LEMMA MarkedIs ==
  ASSUME NEW k, NEW i, Marked(k, i)
  PROVE  /\ k.tok = i.tok /\ k.at = i.at /\ (k.fresh => i.fresh)
         /\ Preparing(k) = Preparing(i) /\ Critical(k) = Critical(i) /\ Reviving(k) = Reviving(i)
         /\ IsWriter(i) => IsWriter(k)
BY DEF Marked, Same, Preparing, Critical, Reviving, IsWriter

(* Coroutines are changed so, others are added, and at most one begins to   *)
(* prepare the next capture.                                               *)
LEMMA MarkedJobsKeepInv ==
  ASSUME SessionInv, DiskStep,
         NEW F, \A i \in jobs : Marked(F[i], i),
         NEW n, IsJob(n), Preparing(n), ~n.fresh, n.tok = used.captures + 1,
         used' \in Spent, used'.captures <= MaxCaptures,
         used'.captures \in {used.captures, used.captures + 1},
         \A k \in jobs' : \/ Other(k)
                          \/ \E i \in jobs : k = F[i]
                          \/ k = n /\ used'.captures = used.captures + 1
  PROVE  SessionInv'
<1>1. used.captures \in Nat /\ used.captures <= MaxCaptures
  BY DEF SessionInv, SessionTypeOK, Spent
<1>0. n.at \notin Working /\ ~Critical(n) /\ ~Reviving(n) /\ IsWriter(n)
  BY DEF Preparing, Working, Critical, Reviving, IsWriter
<1>2. SessionTypeOK'
  <2>1. ASSUME NEW k \in jobs' PROVE IsJob(k) /\ IsWriter(k)
    <3>1. CASE Other(k)
      BY <3>1, OtherIsWriter DEF Other
    <3>2. ASSUME NEW i \in jobs, k = F[i] PROVE IsJob(k) /\ IsWriter(k)
      BY <3>2, MarkedIs DEF SessionInv, SessionTypeOK, Marked
    <3> QED BY <1>0, <3>1, <3>2
  <2> QED BY <2>1 DEF SessionTypeOK, DiskStep, IsWriter, IsJob
<1>3. \A t : Untouched(t)' = Untouched(t)
  BY DEF Untouched, DiskStep
<1>4. ASSUME NEW k \in jobs'
      PROVE  \/ Other(k)
             \/ \E i \in jobs : k = F[i] /\ i.tok = k.tok /\ i.at = k.at /\ (k.fresh => i.fresh)
                                /\ Preparing(k) = Preparing(i) /\ Critical(k) = Critical(i)
                                /\ Reviving(k) = Reviving(i)
             \/ k = n /\ used'.captures = used.captures + 1
  BY <1>4, MarkedIs
<1>5. ASSUME NEW i \in jobs, Preparing(i)
      PROVE  i.tok \in 1..used.captures /\ Untouched(i.tok)
  BY <1>5 DEF SessionInv, CapturesBeginUntouched
<1>6. \A t \in Tokens : t > used.captures => Untouched(t)
  BY DEF SessionInv, CapturesBeginUntouched
<1>7. CapturesBeginUntouched'
  <2>1. \A t \in Tokens : t > used'.captures => Untouched(t)'
    BY <1>1, <1>3, <1>6 DEF Tokens
  <2>2. ASSUME NEW k \in jobs', Preparing(k)
        PROVE  k.tok \in 1..used'.captures /\ Untouched(k.tok)'
    <3>1. CASE \E i \in jobs : Preparing(i) /\ i.tok = k.tok
      BY <1>1, <1>3, <1>5, <3>1
    <3>2. CASE k = n /\ used'.captures = used.captures + 1
      <4>1. n.tok \in Tokens /\ n.tok > used.captures /\ n.tok \in 1..used'.captures
        BY <1>1, <3>2, BoundsAssumption DEF Tokens
      <4>2. Untouched(n.tok)
        BY <1>6, <4>1
      <4> QED BY <1>3, <3>2, <4>1, <4>2
    <3> QED BY <1>4, <2>2, <3>1, <3>2 DEF Other
  <2>3. ASSUME NEW k \in jobs', NEW m \in jobs', Preparing(k), Preparing(m), k.tok = m.tok
        PROVE  k = m
    <3>1. ASSUME NEW i \in jobs, NEW h \in jobs, k = F[i], m = F[h], Preparing(i),
                 Preparing(h), i.tok = k.tok, h.tok = m.tok
          PROVE  k = m
      BY <2>3, <3>1 DEF SessionInv, CapturesBeginUntouched
    <3>2. ASSUME NEW i \in jobs, Preparing(i)
          PROVE  i.tok # n.tok
      BY <1>1, <1>5, <3>2
    <3> QED BY <1>4, <2>3, <3>1, <3>2 DEF Other
  <2>4. ASSUME NEW k \in jobs', k.at \in Working
        PROVE  /\ k.tok \in Tokens => k.tok <= used'.captures
               /\ \A m \in jobs' : Preparing(m) => m.tok # k.tok
    <3>1. PICK i \in jobs : k = F[i] /\ i.tok = k.tok /\ i.at = k.at
      BY <1>0, <1>4, <2>4 DEF Other
    <3>2. /\ i.tok \in Tokens => i.tok <= used.captures
          /\ \A m \in jobs : Preparing(m) => m.tok # i.tok
      BY <2>4, <3>1 DEF SessionInv, CapturesBeginUntouched
    <3>3. n.tok \in Tokens => i.tok # n.tok
      BY <1>1, <3>2
    <3>4. used'.captures = used.captures + 1 => n.tok \in Tokens
      BY <1>1, BoundsAssumption DEF Tokens
    <3>5. \A m \in jobs' : Preparing(m) => m.tok # k.tok
      BY <1>4, <3>1, <3>2, <3>3, <3>4 DEF Other
    <3>6. k.tok \in Tokens => k.tok <= used'.captures
      BY <1>1, <3>1, <3>2, BoundsAssumption DEF Tokens
    <3> QED BY <3>5, <3>6
  <2> QED BY <2>1, <2>2, <2>3, <2>4 DEF CapturesBeginUntouched, Preparing
<1>8. OneRegistration'
  <2>1. ASSUME NEW k \in jobs', NEW m \in jobs', Critical(k), Critical(m) PROVE k = m
    BY <1>0, <1>4, <2>1, OtherIsWriter DEF SessionInv, OneRegistration
  <2> QED BY <2>1 DEF OneRegistration, Critical
<1>9. ASSUME NEW t \in Tokens, t \notin disk'.late PROVE OnTime(t)'
  <2>1. OnTime(t)
    BY <1>9 DEF SessionInv, DiskStep
  <2>2. disk'.rec[t] = disk.rec[t] /\ disk'.scans[t] = disk.scans[t]
    BY DEF DiskStep
  <2>3. ASSUME NEW k \in jobs', k.fresh \/ Critical(k)
        PROVE  \E i \in jobs : i.tok = k.tok /\ i.at = k.at /\ (k.fresh => i.fresh)
                               /\ Critical(k) = Critical(i) /\ Reviving(k) = Reviving(i)
    BY <1>0, <1>4, <2>3, OtherIsWriter DEF Other
  <2>4. \A j \in jobs' : j.tok = t /\ j.fresh => disk'.rec[t] # "PreviewReady"
    BY <2>1, <2>2, <2>3 DEF OnTime
  <2>5. ASSUME NEW j \in jobs', j.tok = t, j.fresh, Reviving(j)
        PROVE  disk'.scans[t] = 0 /\ \A k \in jobs' : k.tok = t => ~Critical(k)
    BY <2>1, <2>2, <2>3, <2>5 DEF OnTime
  <2>6. ASSUME NEW j \in jobs', j.tok = t, Critical(j)
        PROVE  /\ disk'.scans[t] = 0
               /\ IF j.at = "marking" THEN disk'.rec[t] # "Captured" ELSE disk'.rec[t] \notin Reviewable
    BY <2>1, <2>2, <2>3, <2>6 DEF OnTime
  <2>7. disk'.scans[t] <= 1 /\ (disk'.scans[t] > 0 => disk'.rec[t] \notin Reviewable)
    BY <2>1, <2>2 DEF OnTime
  <2> QED BY <2>4, <2>5, <2>6, <2>7 DEF OnTime, Critical, Reviving
<1> QED BY <1>2, <1>7, <1>8, <1>9 DEF SessionInv

LEMMA QuietStepKeepsInv == SessionInv /\ QuietStep => SessionInv'
<1> SUFFICES ASSUME SessionInv, QuietStep PROVE SessionInv'
  OBVIOUS
<1> DEFINE n == Job(screen, "prepare", used.captures + 1, NoRequest)
<1>1. IsJob(n) /\ Preparing(n) /\ ~n.fresh /\ n.tok = used.captures + 1
  BY JobResult DEF Preparing
<1>2. PICK F : /\ \A i \in jobs : Marked(F[i], i)
               /\ \A k \in jobs' : Other(k) \/ \E i \in jobs : k = F[i]
  BY DEF QuietStep, JobsStep
<1> HIDE DEF n
<1>3. /\ used' \in Spent /\ used'.captures = used.captures
      /\ used'.captures <= MaxCaptures
  BY DEF QuietStep, UsedStep, SessionInv, SessionTypeOK
<1> QED BY <1>1, <1>2, <1>3, MarkedJobsKeepInv DEF QuietStep

LEMMA SpendResult ==
  ASSUME SessionTypeOK, NEW b \in {"presses", "dialogs", "troubles"}, Spend(b)
  PROVE  UsedStep
BY DEF SessionTypeOK, Spent, Spend, UsedStep

LEMMA FailsSpends == ASSUME SessionTypeOK, Fails PROVE UsedStep
BY SpendResult DEF Fails, Trouble

LEMMA UnchangedUsed == ASSUME SessionTypeOK, used' = used PROVE UsedStep
BY DEF SessionTypeOK, UsedStep

LEMMA UnchangedDisk == ASSUME SessionTypeOK, disk' = disk PROVE DiskStep
BY DEF SessionTypeOK, DiskStep

-----------------------------------------------------------------------------
(* What the operators on coroutines do to the set of them. *)

LEMMA NewJobIsOther ==
  ASSUME NEW s, NEW k, k # "prepare", NEW t, NEW r
  PROVE  Other(Job(s, k, t, r))
BY JobResult DEF Other, Preparing, Working

LEMMA NewScreenJobs ==
  ASSUME NEW k, k # "prepare", NEW t
  PROVE  Other(NewJob(k, t))
BY NewJobIsOther DEF NewJob

LEMMA SameIsOther ==
  ASSUME NEW k, NEW i, IsJob(k), Same(k, i), Other(i)
  PROVE  Other(k)
BY DEF Other, Same, Preparing

LEMMA RefreshIsOther == Other(Refresh)
<1> DEFINE n == NewJob("refresh", None)
           v == CHOOSE h \in 0..MaxJobs :
                   \A j \in jobs : j.kind = "refresh" /\ j.screen = screen => j.id # h
<1>1. Other(n)
  BY NewScreenJobs
<1>2. Refresh = [n EXCEPT !.id = v]
  BY DEF Refresh
<1> HIDE DEF n, v
<1>3. IsJob([n EXCEPT !.id = v]) /\ Same([n EXCEPT !.id = v], n)
  BY <1>1, Set_id, Zenon DEF Other
<1> QED BY <1>1, <1>2, <1>3, SameIsOther, Zenon

LEMMA ProcessJobIsOther ==
  ASSUME NEW t, NEW r, NEW recovered, NEW mark, NEW g
  PROVE  Other(ProcessJob(t, r, recovered, mark, g))
<1> DEFINE a == Job(screen, "process", t, r)
           b == [a EXCEPT !.recovered = recovered]
           c == [b EXCEPT !.mark = mark]
           d == [c EXCEPT !.generation = g]
           e == [d EXCEPT !.current = TRUE]
<1>1. Other(a)
  BY NewJobIsOther
<1>2. ProcessJob(t, r, recovered, mark, g) = e
  BY DEF ProcessJob
<1> HIDE DEF a
<1>3. Other(b)
  <2>1. IsJob(b) /\ Same(b, a)
    BY <1>1, Set_recovered, Zenon DEF Other
  <2> QED BY <1>1, <2>1, SameIsOther, Zenon
<1> HIDE DEF b
<1>4. Other(c)
  <2>1. IsJob(c) /\ Same(c, b)
    BY <1>3, Set_mark, Zenon DEF Other
  <2> QED BY <1>3, <2>1, SameIsOther, Zenon
<1> HIDE DEF c
<1>5. Other(d)
  <2>1. IsJob(d) /\ Same(d, c)
    BY <1>4, Set_generation, Zenon DEF Other
  <2> QED BY <1>4, <2>1, SameIsOther, Zenon
<1> HIDE DEF d
<1>6. Other(e)
  <2>1. IsJob(e) /\ Same(e, d)
    BY <1>5, Set_current, Zenon DEF Other
  <2> QED BY <1>5, <2>1, SameIsOther, Zenon
<1> QED BY <1>2, <1>6

(* A coroutine that is at none of these places has read no record. *)
LEMMA NotReading ==
  ASSUME SessionTypeOK, NEW j \in jobs, j.at \notin Reading
  PROVE  IsJob(j) /\ ~j.fresh
BY DEF SessionTypeOK, IsWriter

LEMMA MovedJob ==
  ASSUME NEW j, IsJob(j), ~j.fresh, NEW p, p # "io", p \notin Working, NEW o
  PROVE  Other([j EXCEPT !.at = p, !.out = o]) /\ Other([j EXCEPT !.at = p])
<1> DEFINE k == [j EXCEPT !.at = p]
           m == [k EXCEPT !.out = o]
<1>1. IsJob(k) /\ k.at = p /\ k.fresh = j.fresh
  BY DEF IsJob
<1>2. [j EXCEPT !.at = p, !.out = o] = m
  OBVIOUS
<1> HIDE DEF k
<1>3. IsJob(m) /\ m.at = p /\ m.fresh = k.fresh
  BY <1>1 DEF IsJob
<1> HIDE DEF m
<1>4. Other(k) /\ Other(m)
  BY <1>1, <1>3 DEF Other, Preparing
<1> QED BY <1>2, <1>4 DEF k

LEMMA KeptResult == \A k, m : m \in Kept(k) => m = k
BY DEF Kept

(* Coroutines stay, end, or are added. *)
LEMMA JobsStay ==
  ASSUME SessionTypeOK, \A k \in jobs' : Other(k) \/ k \in jobs
  PROVE  JobsStep
<1> DEFINE F == [i \in jobs |-> i]
<1>1. \A i \in jobs : Marked(F[i], i)
  BY DEF SessionTypeOK, Marked, Same
<1>2. \A k \in jobs' : Other(k) \/ \E i \in jobs : k = F[i]
  OBVIOUS
<1> HIDE DEF F
<1> QED BY <1>1, <1>2 DEF JobsStep

LEMMA UnchangedJobs == ASSUME SessionTypeOK, jobs' = jobs PROVE JobsStep
BY JobsStay

LEMMA DoneResult ==
  ASSUME SessionTypeOK, NEW j, Done(j)
  PROVE  JobsStep
BY JobsStay DEF Done

LEMMA DoneAndResult ==
  ASSUME SessionTypeOK, NEW j, NEW k, Other(k), DoneAnd(j, k)
  PROVE  JobsStep
BY JobsStay, KeptResult DEF DoneAnd

LEMMA AddedResult ==
  ASSUME SessionTypeOK, NEW k, Other(k), jobs' = jobs \cup {k}
  PROVE  JobsStep
BY JobsStay

LEMMA EndsResult ==
  ASSUME SessionTypeOK, NEW j \in jobs, ~j.fresh, NEW p, p # "io", p \notin Working,
         NEW o, Ends(j, p, o)
  PROVE  JobsStep
<1>1. Other([j EXCEPT !.at = p, !.out = o])
  BY MovedJob DEF SessionTypeOK
<1> QED BY <1>1, DoneAndResult DEF Ends

LEMMA JobFailedResult ==
  ASSUME SessionTypeOK, NEW j \in jobs, Failed(j)
  PROVE  JobsStep
<1> DEFINE p == IF j.kind = "register" THEN "acked" ELSE "main"
           a == [j EXCEPT !.fresh = FALSE]
           k == [a EXCEPT !.at = p, !.out = "error"]
<1>1. IsJob(a) /\ ~a.fresh
  BY Set_unfresh, Zenon DEF SessionTypeOK
<1>2. p # "io" /\ p \notin Working
  BY DEF Working
<1>3. [j EXCEPT !.at = p, !.out = "error", !.fresh = FALSE] = k
  BY DEF SessionTypeOK, IsJob
<1> HIDE DEF a, p
<1>4. Other(k)
  BY <1>1, <1>2, MovedJob
<1>5. DoneAnd(j, k)
  BY <1>3, Zenon DEF Failed, p
<1> QED BY <1>4, <1>5, DoneAndResult

(* The finally block and the reset of the session change processing jobs.  *)
LEMMA FinallyResult ==
  ASSUME SessionTypeOK, NEW j, NEW new, \A k \in new : Other(k), Finally(j, new)
  PROVE  JobsStep
<1> DEFINE F == [i \in jobs |-> IF i.kind = "process" /\ i.screen = j.screen
                                THEN [i EXCEPT !.current = FALSE] ELSE i]
<1>1. ASSUME NEW i \in jobs PROVE Marked(F[i], i)
  <2>1. IsJob(i)
    BY DEF SessionTypeOK
  <2>2. Marked(i, i) /\ Marked([i EXCEPT !.current = FALSE], i)
    BY <2>1, Set_current, Zenon DEF Marked, Same
  <2> QED BY <2>2
<1>2. \A k \in jobs' : Other(k) \/ \E i \in jobs : k = F[i]
  BY DEF Finally
<1> HIDE DEF F
<1> QED BY <1>1, <1>2 DEF JobsStep

LEMMA WithoutWorkResult ==
  ASSUME SessionTypeOK, NEW j, jobs' = WithoutWork \ {j}
  PROVE  JobsStep
<1> DEFINE Halted(i) == [i EXCEPT !.cancelled = TRUE, !.current = FALSE, !.stop = TRUE]
           F == [i \in jobs |-> IF Processing(i) THEN Halted(i) ELSE i]
<1>1. ASSUME NEW i \in jobs PROVE Marked(F[i], i)
  <2> DEFINE a == [i EXCEPT !.cancelled = TRUE]
             b == [a EXCEPT !.current = FALSE]
             c == [b EXCEPT !.stop = TRUE]
  <2>0. IsJob(i)
    BY DEF SessionTypeOK
  <2>1. IsJob(a) /\ Same(a, i)
    BY <2>0, Set_cancelled, Zenon
  <2>2. Halted(i) = c
    OBVIOUS
  <2> HIDE DEF a
  <2>3. IsJob(b) /\ Same(b, a)
    BY <2>1, Set_current, Zenon
  <2> HIDE DEF b
  <2>4. IsJob(c) /\ Same(c, b)
    BY <2>3, Set_stop, Zenon
  <2> HIDE DEF c
  <2>5. Marked(c, i) /\ Marked(i, i)
    BY <2>0, <2>1, <2>3, <2>4 DEF Marked, Same
  <2> QED BY <2>2, <2>5
<1>2. \A k \in jobs' : Other(k) \/ \E i \in jobs : k = F[i]
  BY DEF WithoutWork
<1> HIDE DEF F
<1> QED BY <1>1, <1>2 DEF JobsStep

LEMMA DiesResult ==
  ASSUME SessionTypeOK, Dies
  PROVE  QuietStep
<1>1. UsedStep
  BY SpendResult DEF Dies, Trouble
<1>2. DiskStep
  BY UnchangedDisk DEF Dies
<1>3. JobsStep
  <2>1. /\ Other(Job(screen + 1, "notebooks", None, NoRequest))
        /\ Other(Job(screen + 1, "refresh", None, NoRequest))
    BY NewJobIsOther
  <2> QED BY <2>1, JobsStay DEF Dies
<1> QED BY <1>1, <1>2, <1>3 DEF QuietStep

-----------------------------------------------------------------------------
(* A step that reads or writes a record. *)

(* The other coroutines that come to the picture t of j. *)
NotRegistering(j, t) == \A i \in jobs \ {j} : i.tok = t => ~Critical(i)
Alone(j, t) == NotRegistering(j, t) /\ \A i \in jobs \ {j} : i.tok = t /\ i.fresh => ~Reviving(i)

(* Coroutine j goes on as n, which works on the record of j. *)
WorksOn(n, j) ==
  /\ IsJob(n) /\ IsWriter(n) /\ n.at \in Working /\ n.tok = j.tok /\ n.kind = j.kind
  /\ Critical(n) => Critical(j) \/ MutexFree

(* The others change in what the invariant does not speak of. *)
GoesOn(n, j, F) ==
  /\ \A i \in jobs : Marked(F[i], i)
  /\ \A k \in jobs' : Other(k) \/ k = n \/ \E i \in jobs \ {j} : k = F[i]

(* Only the record and the row of j change. *)
RecordChange(j) ==
  /\ IsDisk(disk)'
  /\ j.at \in Working \/ (j.tok \in Tokens => disk.rec[j.tok] # "None")
  /\ disk.late \subseteq disk'.late /\ disk'.late \subseteq disk.late \cup {j.tok}
  /\ \A u \in Tokens : u # j.tok => disk'.rec[u] = disk.rec[u] /\ disk'.scans[u] = disk.scans[u]
  /\ j.tok \in Tokens => \/ j.at \in Working
                         \/ /\ disk'.rec[j.tok] \in {disk.rec[j.tok], "None"}
                            /\ disk'.scans[j.tok] = disk.scans[j.tok]

(* What a record may become, a row, and what n may be.  *)
TimelyRecord(j, n, t, F) ==
  \/ disk'.rec[t] = disk.rec[t]
  \/ disk'.rec[t] \in {"None", "Registering", "Committed"}
  \/ /\ disk'.rec[t] = "PreviewReady" /\ disk.scans[t] = 0 /\ disk'.scans[t] = 0
     /\ NotRegistering(j, t) /\ \A i \in jobs \ {j} : i.tok = t => ~F[i].fresh

TimelyRow(j, n, t) ==
  \/ disk'.scans[t] = disk.scans[t]
  \/ /\ disk.scans[t] = 0 /\ disk'.scans[t] = 1
     /\ disk'.rec[t] = disk.rec[t] /\ disk.rec[t] \notin Reviewable
     /\ Alone(j, t) /\ ~Critical(n) /\ ~n.fresh

TimelyWriter(j, n, t) ==
  /\ n.fresh => disk'.rec[t] # "PreviewReady"
  /\ n.fresh /\ Reviving(n) => disk'.scans[t] = 0 /\ NotRegistering(j, t) /\ ~Critical(n)
  /\ Critical(n) => /\ disk'.scans[t] = 0 /\ Alone(j, t) /\ ~n.fresh
                    /\ IF n.at = "marking" THEN disk'.rec[t] # "Captured"
                       ELSE disk'.rec[t] \notin Reviewable

LEMMA OnTimeKept ==
  ASSUME NEW j \in jobs, NEW n, NEW F, GoesOn(n, j, F), NEW t, OnTime(t),
         TimelyRecord(j, n, t, F), TimelyRow(j, n, t), TimelyWriter(j, n, t)
  PROVE  OnTime(t)'
<1>1. ASSUME NEW k \in jobs', k.tok = t, k.fresh \/ Critical(k)
      PROVE  \/ k = n
             \/ \E i \in jobs \ {j} : /\ k = F[i] /\ i.tok = t /\ i.at = k.at /\ (k.fresh => i.fresh)
                                      /\ Critical(k) = Critical(i) /\ Reviving(k) = Reviving(i)
  BY <1>1, MarkedIs, OtherIsWriter DEF GoesOn, Other
<1>2. disk'.scans[t] <= 1 /\ (disk'.scans[t] > 0 => disk'.rec[t] \notin Reviewable)
  BY DEF OnTime, TimelyRecord, TimelyRow, Reviewable
<1>3. ASSUME NEW k \in jobs', k.tok = t, k.fresh PROVE disk'.rec[t] # "PreviewReady"
  BY <1>1, <1>3 DEF OnTime, TimelyRecord, TimelyWriter
<1>4. ASSUME NEW k \in jobs', k.tok = t, k.fresh, Reviving(k)
      PROVE  disk'.scans[t] = 0 /\ \A m \in jobs' : m.tok = t => ~Critical(m)
  <2>1. CASE k = n
    <3>1. disk'.scans[t] = 0 /\ NotRegistering(j, t) /\ ~Critical(n)
      BY <1>4, <2>1 DEF TimelyWriter
    <3> QED BY <1>1, <3>1 DEF NotRegistering
  <2>2. ASSUME NEW i \in jobs, i # j, k = F[i], i.tok = t, i.fresh, Reviving(i)
        PROVE  disk'.scans[t] = 0 /\ \A m \in jobs' : m.tok = t => ~Critical(m)
    <3>1. ~Alone(j, t)
      BY <2>2 DEF Alone
    <3>2. disk'.scans[t] = 0
      BY <2>2, <3>1 DEF OnTime, TimelyRow
    <3>3. \A m \in jobs : m.tok = t => ~Critical(m)
      BY <2>2 DEF OnTime
    <3>4. ~Critical(n)
      BY <3>1 DEF TimelyWriter
    <3> QED BY <1>1, <3>2, <3>3, <3>4
  <2> QED BY <1>1, <1>4, <2>1, <2>2
<1>5. ASSUME NEW k \in jobs', k.tok = t, Critical(k)
      PROVE  /\ disk'.scans[t] = 0
             /\ IF k.at = "marking" THEN disk'.rec[t] # "Captured" ELSE disk'.rec[t] \notin Reviewable
  <2>1. CASE k = n
    BY <1>5, <2>1 DEF TimelyWriter
  <2>2. ASSUME NEW i \in jobs, i # j, k = F[i], i.tok = t, i.at = k.at, Critical(i)
        PROVE  /\ disk'.scans[t] = 0
               /\ IF k.at = "marking" THEN disk'.rec[t] # "Captured" ELSE disk'.rec[t] \notin Reviewable
    <3>1. ~NotRegistering(j, t) /\ ~Alone(j, t)
      BY <2>2 DEF Alone, NotRegistering
    <3> QED BY <2>2, <3>1 DEF OnTime, TimelyRecord, TimelyRow, Reviewable
  <2> QED BY <1>1, <1>5, <2>1, <2>2
<1> QED BY <1>2, <1>3, <1>4, <1>5 DEF OnTime, Critical, Reviving

LEMMA RecordStepKeepsInv ==
  ASSUME SessionInv, UsedStep, NEW j \in jobs, RecordChange(j),
         NEW n, Other(n) \/ WorksOn(n, j), NEW F, GoesOn(n, j, F),
         j.tok \in Tokens \ disk'.late => OnTime(j.tok)'
  PROVE  SessionInv'
<1>1. used.captures \in Nat /\ used.captures <= MaxCaptures /\ used'.captures = used.captures
  BY DEF SessionInv, SessionTypeOK, Spent, UsedStep
<1>2. SessionTypeOK'
  <2>1. ASSUME NEW k \in jobs' PROVE IsJob(k) /\ IsWriter(k)
    <3>1. CASE Other(k)
      BY <3>1, OtherIsWriter DEF Other
    <3>2. ASSUME NEW i \in jobs, k = F[i] PROVE IsJob(k) /\ IsWriter(k)
      BY <3>2, MarkedIs DEF SessionInv, SessionTypeOK, Marked, GoesOn
    <3> QED BY <3>1, <3>2 DEF GoesOn, WorksOn, Other
  <2> QED BY <1>1, <2>1 DEF SessionTypeOK, RecordChange, UsedStep, IsWriter, IsJob
<1>3. ASSUME NEW k \in jobs'
      PROVE  \/ Other(k)
             \/ k = n
             \/ \E i \in jobs \ {j} : k = F[i] /\ i.tok = k.tok /\ i.at = k.at /\ (k.fresh => i.fresh)
                                /\ Preparing(k) = Preparing(i) /\ Critical(k) = Critical(i)
                                /\ Reviving(k) = Reviving(i)
  BY <1>3, MarkedIs DEF GoesOn
<1>4. ~Preparing(n)
  BY DEF Other, WorksOn, Preparing, Working
<1>5. ASSUME NEW i \in jobs, Preparing(i)
      PROVE  i.tok \in 1..used.captures /\ i.tok \in Tokens /\ Untouched(i.tok)
  BY <1>1, <1>5, BoundsAssumption DEF SessionInv, CapturesBeginUntouched, Tokens
<1>6. \A t \in Tokens : t > used.captures => Untouched(t)
  BY DEF SessionInv, CapturesBeginUntouched
<1>7. /\ j.tok \in Tokens => j.tok <= used.captures
      /\ \A i \in jobs : Preparing(i) => i.tok # j.tok
  <2>1. CASE j.at \in Working
    BY <2>1 DEF SessionInv, CapturesBeginUntouched
  <2>2. CASE j.tok \in Tokens => disk.rec[j.tok] # "None"
    <3>1. j.tok \in Tokens => j.tok <= used.captures
      BY <1>1, <1>6, <2>2 DEF Untouched, Tokens
    <3>2. \A i \in jobs : Preparing(i) => i.tok # j.tok
      BY <1>5, <2>2 DEF Untouched
    <3> QED BY <3>1, <3>2
  <2> QED BY <2>1, <2>2 DEF RecordChange
<1>8. \A t \in Tokens : t # j.tok => Untouched(t)' = Untouched(t)
  BY DEF Untouched, RecordChange
<1>9. CapturesBeginUntouched'
  <2>1. \A t \in Tokens : t > used'.captures => Untouched(t)'
    BY <1>1, <1>6, <1>7, <1>8 DEF Tokens
  <2>2. ASSUME NEW k \in jobs', Preparing(k)
        PROVE  k.tok \in 1..used'.captures /\ Untouched(k.tok)'
    BY <1>1, <1>3, <1>4, <1>5, <1>7, <1>8, <2>2 DEF Other
  <2>3. ASSUME NEW k \in jobs', NEW m \in jobs', Preparing(k), Preparing(m), k.tok = m.tok
        PROVE  k = m
    BY <1>3, <1>4, <2>3 DEF Other, SessionInv, CapturesBeginUntouched
  <2>4. ASSUME NEW k \in jobs', k.at \in Working
        PROVE  /\ k.tok \in Tokens => k.tok <= used'.captures
               /\ \A m \in jobs' : Preparing(m) => m.tok # k.tok
    <3>1. \E i \in jobs : /\ i.tok = k.tok
                          /\ i.tok \in Tokens => i.tok <= used.captures
                          /\ \A m \in jobs : Preparing(m) => m.tok # i.tok
      <4>1. CASE k = n
        BY <1>7, <2>4, <4>1 DEF WorksOn, Other
      <4>2. ASSUME NEW i \in jobs, i.tok = k.tok, i.at = k.at
            PROVE  /\ i.tok \in Tokens => i.tok <= used.captures
                   /\ \A m \in jobs : Preparing(m) => m.tok # i.tok
        BY <2>4, <4>2 DEF SessionInv, CapturesBeginUntouched
      <4> QED BY <1>3, <2>4, <4>1, <4>2 DEF Other
    <3> QED BY <1>1, <1>3, <1>4, <3>1 DEF Other
  <2> QED BY <2>1, <2>2, <2>3, <2>4 DEF CapturesBeginUntouched, Preparing
<1>10. OneRegistration'
  <2>1. Critical(n) => \A i \in jobs \ {j} : ~Critical(i)
    BY OtherIsWriter DEF WorksOn, MutexFree, SessionInv, OneRegistration, Critical
  <2>2. ASSUME NEW k \in jobs', NEW m \in jobs', Critical(k), Critical(m) PROVE k = m
    BY <1>3, <2>1, <2>2, OtherIsWriter DEF SessionInv, OneRegistration
  <2> QED BY <2>2 DEF OneRegistration, Critical
<1>11. ASSUME NEW t \in Tokens, t \notin disk'.late, t # j.tok PROVE OnTime(t)'
  <2>1. OnTime(t)
    BY <1>11 DEF SessionInv, RecordChange
  <2>2. disk'.rec[t] = disk.rec[t] /\ disk'.scans[t] = disk.scans[t]
    BY <1>11 DEF RecordChange
  <2>3. ASSUME NEW k \in jobs', k.tok = t, k.fresh \/ Critical(k)
        PROVE  \E i \in jobs : i.tok = t /\ i.at = k.at /\ (k.fresh => i.fresh)
                               /\ Critical(k) = Critical(i) /\ Reviving(k) = Reviving(i)
    BY <1>3, <1>11, <2>3, OtherIsWriter DEF Other, WorksOn
  <2>4. \A k \in jobs' : k.tok = t /\ k.fresh => disk'.rec[t] # "PreviewReady"
    BY <2>1, <2>2, <2>3 DEF OnTime
  <2>5. ASSUME NEW k \in jobs', k.tok = t, k.fresh, Reviving(k)
        PROVE  disk'.scans[t] = 0 /\ \A m \in jobs' : m.tok = t => ~Critical(m)
    BY <2>1, <2>2, <2>3, <2>5 DEF OnTime
  <2>6. ASSUME NEW k \in jobs', k.tok = t, Critical(k)
        PROVE  /\ disk'.scans[t] = 0
               /\ IF k.at = "marking" THEN disk'.rec[t] # "Captured" ELSE disk'.rec[t] \notin Reviewable
    BY <2>1, <2>2, <2>3, <2>6 DEF OnTime
  <2>7. disk'.scans[t] <= 1 /\ (disk'.scans[t] > 0 => disk'.rec[t] \notin Reviewable)
    BY <2>1, <2>2 DEF OnTime
  <2> QED BY <2>4, <2>5, <2>6, <2>7 DEF OnTime, Critical, Reviving
<1> QED BY <1>2, <1>9, <1>10, <1>11 DEF SessionInv, RecordChange

LEMMA TimelyStepKeepsInv ==
  ASSUME SessionInv, UsedStep, NEW j \in jobs, RecordChange(j),
         NEW n, Other(n) \/ WorksOn(n, j), NEW F, GoesOn(n, j, F),
         j.tok \in Tokens \ disk'.late /\ OnTime(j.tok) =>
           TimelyRecord(j, n, j.tok, F) /\ TimelyRow(j, n, j.tok) /\ TimelyWriter(j, n, j.tok)
  PROVE  SessionInv'
<1>1. ASSUME j.tok \in Tokens \ disk'.late PROVE OnTime(j.tok)'
  <2>1. OnTime(j.tok)
    BY <1>1 DEF SessionInv, RecordChange
  <2> QED BY <1>1, <2>1, OnTimeKept
<1> QED BY <1>1, RecordStepKeepsInv

-----------------------------------------------------------------------------
(* How a coroutine goes on after it, and what becomes of the record. *)

IsEnded(k, j, p, o) == k = [j EXCEPT !.at = p, !.out = o]
IsRead(k, j, p)     == k = [j EXCEPT !.at = p, !.fresh = TRUE]

LEMMA EndedJob ==
  ASSUME NEW j, IsJob(j), NEW p, NEW o, NEW k, IsEnded(k, j, p, o)
  PROVE  /\ IsJob(k) /\ k.at = p /\ k.out = o
         /\ k.tok = j.tok /\ k.kind = j.kind /\ k.fresh = j.fresh
<1> DEFINE a == [j EXCEPT !.at = p]
           m == [a EXCEPT !.out = o]
<1>1. IsJob(a) /\ a.at = p /\ a.tok = j.tok /\ a.kind = j.kind /\ a.fresh = j.fresh
  BY DEF IsJob
<1>2. k = m
  BY DEF IsEnded
<1> HIDE DEF a
<1>3. /\ IsJob(m) /\ m.out = o /\ m.at = a.at
      /\ m.kind = a.kind /\ m.tok = a.tok /\ m.fresh = a.fresh
  BY <1>1 DEF IsJob
<1> HIDE DEF m
<1> QED BY <1>1, <1>2, <1>3

LEMMA ReadJob ==
  ASSUME NEW j, IsJob(j), NEW p, NEW k, IsRead(k, j, p)
  PROVE  /\ IsJob(k) /\ k.at = p /\ k.out = j.out
         /\ k.tok = j.tok /\ k.kind = j.kind
<1> DEFINE a == [j EXCEPT !.at = p]
           m == [a EXCEPT !.fresh = TRUE]
<1>1. IsJob(a) /\ a.at = p /\ a.out = j.out /\ a.tok = j.tok /\ a.kind = j.kind
  BY DEF IsJob
<1>2. k = m
  BY DEF IsRead
<1> HIDE DEF a
<1>3. /\ IsJob(m)
      /\ m.kind = a.kind /\ m.tok = a.tok /\ m.at = a.at /\ m.out = a.out
  <2>1. IsJob(a)
    BY <1>1
  <2> QED BY <2>1, Set_fresh
<1> HIDE DEF m
<1> QED BY <1>1, <1>2, <1>3

LEMMA GoesOnResult ==
  ASSUME SessionTypeOK, NEW j \in jobs, NEW k, DoneAnd(j, k)
  PROVE  GoesOn(k, j, [i \in jobs |-> i])
BY KeptResult DEF DoneAnd, GoesOn, SessionTypeOK, Marked, Same

LEMMA OvertakesResult ==
  ASSUME SessionTypeOK, NEW j \in jobs, NEW k, Overtakes(j, k)
  PROVE  \E F : /\ GoesOn(k, j, F)
                /\ \A i \in jobs : i.tok = j.tok => ~F[i].fresh
<1> DEFINE Old(i) == IF i.tok = j.tok THEN [i EXCEPT !.fresh = FALSE] ELSE i
           F == [i \in jobs |-> Old(i)]
<1>1. ASSUME NEW i \in jobs PROVE Marked(Old(i), i) /\ (i.tok = j.tok => ~Old(i).fresh)
  <2>1. IsJob(i)
    BY DEF SessionTypeOK
  <2>2. Marked([i EXCEPT !.fresh = FALSE], i) /\ ~[i EXCEPT !.fresh = FALSE].fresh /\ Marked(i, i)
    BY <2>1, Set_unfresh, Zenon DEF Marked, Same
  <2> QED BY <2>2
<1>2. jobs' = {Old(i) : i \in jobs \ {j}} \cup Kept(k)
  BY DEF Overtakes
<1>3. \A i \in jobs : F[i] = Old(i)
  OBVIOUS
<1> HIDE DEF Old, F
<1>4. GoesOn(k, j, F)
  BY <1>1, <1>2, <1>3, KeptResult DEF GoesOn
<1> QED BY <1>1, <1>3, <1>4

LEMMA SameRecord ==
  ASSUME SessionTypeOK, disk' = disk, NEW j,
         j.at \in Working \/ (j.tok \in Tokens => disk.rec[j.tok] # "None")
  PROVE  RecordChange(j)
BY DEF SessionTypeOK, RecordChange

IsReplaced(t, p, l) == disk' = [disk EXCEPT !.rec[t] = p, !.late = l]

LEMMA ReplacesResult ==
  ASSUME SessionTypeOK, NEW t, NEW p \in Recorded, NEW l, IsReplaced(t, p, l)
  PROVE  /\ IsDisk(disk)' /\ disk'.scans = disk.scans
         /\ t \in Tokens => disk'.rec[t] = p
         /\ \A u \in Tokens : u # t => disk'.rec[u] = disk.rec[u]
         /\ disk'.late = l
<1>1. /\ disk.file \in [Tokens -> Files] /\ disk.rec \in [Tokens -> Recorded]
      /\ disk.scans \in [Tokens -> Nat]
      /\ disk = [file |-> disk.file, rec |-> disk.rec, scans |-> disk.scans, late |-> disk.late]
  BY DEF SessionTypeOK, IsDisk
<1>2. /\ disk'.file = disk.file /\ disk'.scans = disk.scans
      /\ disk'.rec = [disk.rec EXCEPT ![t] = p]
      /\ disk'.late = l
      /\ disk' = [file |-> disk'.file, rec |-> disk'.rec, scans |-> disk'.scans, late |-> disk'.late]
  BY <1>1 DEF IsReplaced
<1>3. disk'.rec \in [Tokens -> Recorded]
  BY <1>1, <1>2
<1>4. IsDisk(disk)'
  BY <1>1, <1>2, <1>3 DEF IsDisk
<1> QED BY <1>1, <1>2, <1>4

LEMMA ReplacedRecord ==
  ASSUME SessionTypeOK, NEW j, j.at \in Working, NEW p \in Recorded,
         NEW l, l \in {disk.late, disk.late \cup {j.tok}}, IsReplaced(j.tok, p, l)
  PROVE  RecordChange(j)
<1>1. /\ IsDisk(disk)' /\ disk'.scans = disk.scans /\ disk'.late = l
      /\ \A u \in Tokens : u # j.tok => disk'.rec[u] = disk.rec[u]
  BY ReplacesResult
<1> QED BY <1>1 DEF RecordChange

-----------------------------------------------------------------------------
(* Those who recover a record. *)

LEMMA NextJob ==
  ASSUME NEW j, IsJob(j), ~j.fresh, NEW p, p # "io", p \notin Working, NEW o, NEW t
  PROVE  Other([j EXCEPT !.at = p, !.out = o, !.tok = t])
<1> DEFINE k == [j EXCEPT !.at = p, !.out = o]
           m == [k EXCEPT !.tok = t]
<1>1. Other(k)
  BY MovedJob
<1>2. [j EXCEPT !.at = p, !.out = o, !.tok = t] = m
  OBVIOUS
<1> HIDE DEF k
<1>3. IsJob(m) /\ m.at = k.at /\ m.fresh = k.fresh /\ m.kind = k.kind
  BY <1>1 DEF Other, IsJob
<1> HIDE DEF m
<1> QED BY <1>1, <1>2, <1>3 DEF Other, Preparing

LEMMA NextIsOther == ASSUME NEW j, IsJob(j), ~j.fresh PROVE Other(NextOf(j))
<1>1. "main" \notin Working /\ "reconcile" \notin Working
  BY DEF Working
<1>2. CASE Interrupted(j.list) = {}
  <2>1. Other([j EXCEPT !.at = "main", !.out = "ok", !.tok = None])
    BY <1>1, NextJob
  <2> QED BY <1>2, <2>1 DEF NextOf
<1>3. CASE Interrupted(j.list) # {}
  <2> DEFINE t == CHOOSE t \in Interrupted(j.list) : Interrupted(j.list) \cap 1..(t - 1) = {}
  <2>1. NextOf(j) = [j EXCEPT !.at = "reconcile", !.out = "none", !.tok = t]
    BY <1>3, Zenon DEF NextOf
  <2> HIDE DEF t
  <2>2. Other([j EXCEPT !.at = "reconcile", !.out = "none", !.tok = t])
    BY <1>1, NextJob
  <2> QED BY <2>1, <2>2
<1> QED BY <1>2, <1>3

LEMMA ReconciledIsOther ==
  ASSUME NEW j, IsJob(j), NEW p
  PROVE  Other(Reconciled(j, p))
<1> DEFINE k == [j EXCEPT !.fresh = FALSE]
           l == [k EXCEPT !.list[j.tok] = p]
           R(h, m) == CASE j.kind = "refresh"   -> NextOf(m)
                        [] j.kind = "reconcile" -> [h EXCEPT !.at = "main", !.out = p]
                        [] p = "Committed"      -> [h EXCEPT !.at = "acknowledge", !.out = "none"]
                        [] j.kind = "register"  -> [h EXCEPT !.at = "acked", !.out = "error"]
                        [] OTHER                -> [h EXCEPT !.at = "main", !.out = "error"]
<1>1. IsJob(k) /\ ~k.fresh /\ k.kind = j.kind
  BY Set_unfresh, Zenon DEF Same
<1>2. "main" \notin Working /\ "acknowledge" \notin Working /\ "acked" \notin Working
  BY DEF Working
<1>3. Reconciled(j, p) = R(k, l)
  BY DEF Reconciled
<1>4. l = [k EXCEPT !.list = [k.list EXCEPT ![j.tok] = p]]
  OBVIOUS
<1> HIDE DEF k
<1>5. IsJob(l) /\ Same(l, k)
  BY <1>1, <1>4, Set_list
<1> HIDE DEF l
<1>6. Other(NextOf(l))
  BY <1>1, <1>5, NextIsOther DEF Same
<1>7. Other([k EXCEPT !.at = "main", !.out = p]) /\ Other([k EXCEPT !.at = "main", !.out = "error"])
  BY <1>1, <1>2, MovedJob
<1>8. Other([k EXCEPT !.at = "acknowledge", !.out = "none"])
  BY <1>1, <1>2, MovedJob
<1>9. Other([k EXCEPT !.at = "acked", !.out = "error"])
  BY <1>1, <1>2, MovedJob
<1>10. Other(R(k, l))
  BY <1>6, <1>7, <1>8, <1>9
<1> QED BY <1>3, <1>10

LEMMA ReconcileReadKeepsInv ==
  ASSUME SessionInv, NEW j \in jobs, ReconcileRead(j)
  PROVE  SessionInv'
<1>0. SessionTypeOK /\ IsJob(j)
  BY DEF SessionInv, SessionTypeOK
<1>1. UsedStep /\ DiskStep /\ disk' = disk
  BY <1>0, UnchangedUsed, UnchangedDisk DEF ReconcileRead
<1>2. CASE Failed(j)
  BY <1>0, <1>1, <1>2, JobFailedResult, QuietStepKeepsInv DEF QuietStep
<1>3. CASE DoneAnd(j, Reconciled(j, disk.rec[j.tok]))
  BY <1>0, <1>1, <1>3, ReconciledIsOther, DoneAndResult, QuietStepKeepsInv DEF QuietStep
<1>4. CASE disk.rec[j.tok] = "Registering" /\ DoneAnd(j, [j EXCEPT !.at = "lookup", !.fresh = TRUE])
  <2> DEFINE n == [j EXCEPT !.at = "lookup", !.fresh = TRUE]
             F == [i \in jobs |-> i]
  <2>2. GoesOn(n, j, F)
    BY <1>0, <1>4, GoesOnResult
  <2>0. IsRead(n, j, "lookup")
    BY DEF IsRead
  <2> HIDE DEF n, F
  <2>1. IsJob(n) /\ n.at = "lookup" /\ n.tok = j.tok /\ n.kind = j.kind
    BY <1>0, <2>0, ReadJob
  <2>3. IsWriter(n) /\ ~Critical(n) /\ ~Reviving(n) /\ n.at \in Working
    BY <2>1 DEF IsWriter, Critical, Reviving, Reading, Working
  <2>4. RecordChange(j)
    BY <1>0, <1>1, <1>4, SameRecord
  <2>5. WorksOn(n, j)
    BY <2>1, <2>3 DEF WorksOn
  <2>6. TimelyRecord(j, n, j.tok, F) /\ TimelyRow(j, n, j.tok) /\ TimelyWriter(j, n, j.tok)
    BY <1>1, <1>4, <2>3 DEF TimelyRecord, TimelyRow, TimelyWriter
  <2> QED BY <1>1, <2>2, <2>4, <2>5, <2>6, TimelyStepKeepsInv
<1> QED BY <1>2, <1>3, <1>4 DEF ReconcileRead

(* Under the mutex nobody is between the mark of a registration and its row. *)
LEMMA ReconcileLookupKeepsInv ==
  ASSUME SessionInv, NEW j \in jobs, ReconcileLookup(j)
  PROVE  SessionInv'
<1>0. SessionTypeOK /\ IsJob(j) /\ j.at = "lookup"
  BY DEF SessionInv, SessionTypeOK, ReconcileLookup
<1>1. UsedStep /\ DiskStep /\ disk' = disk
  BY <1>0, UnchangedUsed, UnchangedDisk DEF ReconcileLookup
<1>2. CASE Failed(j)
  BY <1>0, <1>1, <1>2, JobFailedResult, QuietStepKeepsInv DEF QuietStep
<1>3. ASSUME NEW o \in {"PreviewReady", "Committed"}, Ends(j, "replace", o),
             o = "PreviewReady" => disk.scans[j.tok] = 0
      PROVE  SessionInv'
  <2> DEFINE n == [j EXCEPT !.at = "replace", !.out = o]
             F == [i \in jobs |-> i]
  <2>2. GoesOn(n, j, F)
    BY <1>0, <1>3, GoesOnResult DEF Ends
  <2>0. IsEnded(n, j, "replace", o)
    BY DEF IsEnded
  <2> HIDE DEF n, F
  <2>1. IsJob(n) /\ n.at = "replace" /\ n.out = o /\ n.tok = j.tok /\ n.kind = j.kind
        /\ n.fresh = j.fresh
    BY <1>0, <2>0, EndedJob
  <2>3. IsWriter(n) /\ ~Critical(n) /\ n.at \in Working /\ (Reviving(n) => o = "PreviewReady")
    BY <2>1 DEF IsWriter, Critical, Reviving, Reading, Working
  <2>4. RecordChange(j)
    BY <1>0, <1>1, SameRecord DEF Working
  <2>5. WorksOn(n, j)
    BY <2>1, <2>3 DEF WorksOn
  <2>6. NotRegistering(j, j.tok)
    BY DEF ReconcileLookup, MutexFree, NotRegistering, Critical
  <2>7. ASSUME OnTime(j.tok) PROVE TimelyWriter(j, n, j.tok)
    BY <1>0, <1>1, <1>3, <2>1, <2>3, <2>6, <2>7 DEF TimelyWriter, OnTime
  <2>8. TimelyRecord(j, n, j.tok, F) /\ TimelyRow(j, n, j.tok)
    BY <1>1 DEF TimelyRecord, TimelyRow
  <2> QED BY <1>1, <2>2, <2>4, <2>5, <2>7, <2>8, TimelyStepKeepsInv
<1> QED BY <1>2, <1>3 DEF ReconcileLookup

(* The record becomes what j found, late or not. *)
LEMMA WrittenRecord ==
  ASSUME SessionInv, UsedStep, NEW j \in jobs, j.at \in {"replace", "marking"},
         NEW p \in {"PreviewReady", "Committed"}, p = "PreviewReady" => Reviving(j),
         Replaces(j.tok, p, ~j.fresh),
         NEW n, Other(n), Overtakes(j, n)
  PROVE  SessionInv'
<1>0. SessionTypeOK /\ j.at \in Working /\ p \in Recorded
  BY DEF SessionInv, Working, Recorded
<1> DEFINE l == IF ~j.fresh THEN disk.late \cup {j.tok} ELSE disk.late
<1>1. IsReplaced(j.tok, p, l)
  BY DEF Replaces, IsReplaced
<1>2. l \in {disk.late, disk.late \cup {j.tok}} /\ (~j.fresh => j.tok \in l)
  OBVIOUS
<1> HIDE DEF l
<1>3. RecordChange(j)
  BY <1>0, <1>1, <1>2, ReplacedRecord
<1>4. disk'.late = l
  BY <1>0, <1>1, ReplacesResult
<1>5. disk'.scans = disk.scans /\ (j.tok \in Tokens => disk'.rec[j.tok] = p)
  BY <1>0, <1>1, ReplacesResult
<1>6. PICK F : GoesOn(n, j, F) /\ \A i \in jobs : i.tok = j.tok => ~F[i].fresh
  BY <1>0, OvertakesResult
<1>7. ASSUME j.tok \in Tokens \ disk'.late, OnTime(j.tok)
      PROVE  TimelyRecord(j, n, j.tok, F) /\ TimelyRow(j, n, j.tok) /\ TimelyWriter(j, n, j.tok)
  <2>1. j.fresh /\ disk'.rec[j.tok] = p
    BY <1>2, <1>4, <1>5, <1>7
  <2>2. ~n.fresh /\ ~Critical(n) /\ ~Reviving(n)
    BY OtherIsWriter DEF Other
  <2>3. p = "PreviewReady" => disk.scans[j.tok] = 0 /\ NotRegistering(j, j.tok)
    BY <1>7, <2>1 DEF OnTime, NotRegistering
  <2>4. TimelyRecord(j, n, j.tok, F)
    BY <1>5, <1>6, <2>1, <2>3 DEF TimelyRecord
  <2> QED BY <1>5, <2>2, <2>4 DEF TimelyRow, TimelyWriter
<1> QED BY <1>3, <1>6, <1>7, TimelyStepKeepsInv

LEMMA ReconcileReplaceKeepsInv ==
  ASSUME SessionInv, NEW j \in jobs, ReconcileReplace(j)
  PROVE  SessionInv'
<1>0. SessionTypeOK /\ IsJob(j) /\ IsWriter(j) /\ j.at = "replace"
  BY DEF SessionInv, SessionTypeOK, ReconcileReplace
<1>1. CASE /\ Replaces(j.tok, j.out, ~j.fresh)
           /\ Overtakes(j, Reconciled(j, j.out)) /\ used' = used
  <2>1. UsedStep /\ Other(Reconciled(j, j.out))
    BY <1>0, <1>1, UnchangedUsed, ReconciledIsOther
  <2>2. j.out \in {"PreviewReady", "Committed"} /\ (j.out = "PreviewReady" => Reviving(j))
    BY <1>0 DEF IsWriter, Reviving
  <2> DEFINE p == j.out
             n == Reconciled(j, p)
  <2>3. /\ p \in {"PreviewReady", "Committed"} /\ (p = "PreviewReady" => Reviving(j))
        /\ Replaces(j.tok, p, ~j.fresh) /\ Other(n) /\ Overtakes(j, n)
    BY <1>1, <2>1, <2>2
  <2> HIDE DEF n, p
  <2> QED BY <1>0, <2>1, <2>3, WrittenRecord DEF Replaces
<1>2. CASE Failed(j) /\ NotReplaced(j.tok) /\ disk' = disk
  <2>1. UsedStep /\ DiskStep
    BY <1>0, <1>2, UnchangedUsed, FailsSpends, UnchangedDisk DEF NotReplaced
  <2> QED BY <1>0, <1>2, <2>1, JobFailedResult, QuietStepKeepsInv DEF QuietStep
<1> QED BY <1>1, <1>2 DEF ReconcileReplace

-----------------------------------------------------------------------------
(* Those who mark a record and add its row. *)

LEMMA MarkIoKeepsInv ==
  ASSUME SessionInv, NEW j \in jobs, MarkIo(j)
  PROVE  SessionInv'
<1>0. SessionTypeOK /\ IsJob(j) /\ j.kind = "process" /\ j.at = "markIo"
  BY DEF SessionInv, SessionTypeOK, MarkIo
<1>1. UsedStep /\ DiskStep /\ disk' = disk
  BY <1>0, UnchangedUsed, UnchangedDisk DEF MarkIo
<1>2. CASE Ends(j, "marked", "error")
  <2>1. JobsStep
    BY <1>0, <1>2, NotReading, EndsResult DEF Reading, Working
  <2> QED BY <1>1, <2>1, QuietStepKeepsInv DEF QuietStep
<1>3. CASE disk.rec[j.tok] = "Captured" /\ DoneAnd(j, [j EXCEPT !.at = "marking", !.fresh = TRUE])
  <2> DEFINE n == [j EXCEPT !.at = "marking", !.fresh = TRUE]
             F == [i \in jobs |-> i]
  <2>1. GoesOn(n, j, F)
    BY <1>0, <1>3, GoesOnResult
  <2>2. IsRead(n, j, "marking")
    BY DEF IsRead
  <2> HIDE DEF n, F
  <2>3. IsJob(n) /\ n.at = "marking" /\ n.tok = j.tok /\ n.kind = "process"
    BY <1>0, <2>2, ReadJob
  <2>4. WorksOn(n, j)
    BY <1>0, <2>3 DEF WorksOn, IsWriter, Critical, Reading, Working
  <2>5. RecordChange(j)
    BY <1>0, <1>1, <1>3, SameRecord
  <2>6. ASSUME j.tok \in Tokens, OnTime(j.tok) PROVE TimelyWriter(j, n, j.tok)
    <3>1. disk.scans[j.tok] \in Nat
      BY <1>0, <2>6 DEF SessionTypeOK, IsDisk
    <3>2. ~(disk.scans[j.tok] > 0)
      BY <1>3, <2>6 DEF OnTime, Reviewable
    <3>3. NotRegistering(j, j.tok)
      BY <1>3, <2>6 DEF OnTime, NotRegistering, Reviewable
    <3> QED BY <1>1, <1>3, <2>3, <3>1, <3>2, <3>3 DEF TimelyWriter, Critical
  <2>7. TimelyRecord(j, n, j.tok, F) /\ TimelyRow(j, n, j.tok)
    BY <1>1 DEF TimelyRecord, TimelyRow
  <2> QED BY <1>1, <2>1, <2>4, <2>5, <2>6, <2>7, TimelyStepKeepsInv
<1> QED BY <1>2, <1>3 DEF MarkIo

LEMMA MarkWriteKeepsInv ==
  ASSUME SessionInv, NEW j \in jobs, MarkWrite(j)
  PROVE  SessionInv'
<1>0. SessionTypeOK /\ IsJob(j) /\ j.kind = "process" /\ j.at = "marking"
  BY DEF SessionInv, SessionTypeOK, MarkWrite
<1> DEFINE h == [j EXCEPT !.fresh = FALSE]
           Next(o) == [h EXCEPT !.at = "marked", !.out = o]
           After(o) == [[j EXCEPT !.at = "marked", !.fresh = FALSE] EXCEPT !.out = o]
<1>1. IsJob(h) /\ ~h.fresh
  BY <1>0, Set_unfresh, Zenon
<1>2. \A o : After(o) = Next(o)
  BY <1>0 DEF IsJob
<1>3. \A o : Other(Next(o))
  <2> HIDE DEF h
  <2> QED BY <1>1, MovedJob DEF Working
<1>4. \A o : Other(After(o))
  BY <1>2, <1>3, Zenon
<1>5. \/ /\ Replaces(j.tok, "PreviewReady", ~j.fresh)
         /\ Overtakes(j, After("ok")) /\ used' = used
      \/ /\ DoneAnd(j, After("error"))
         /\ NotReplaced(j.tok) /\ disk' = disk
  BY Zenon DEF MarkWrite
<1> HIDE DEF After, Next, h
<1>6. CASE Replaces(j.tok, "PreviewReady", ~j.fresh) /\ Overtakes(j, After("ok")) /\ used' = used
  <2>1. UsedStep /\ Reviving(j)
    BY <1>0, <1>6, UnchangedUsed DEF Reviving
  <2> DEFINE p == "PreviewReady"
             n == After("ok")
  <2>2. /\ p \in {"PreviewReady", "Committed"} /\ (p = "PreviewReady" => Reviving(j))
        /\ Replaces(j.tok, p, ~j.fresh) /\ Other(n) /\ Overtakes(j, n)
    BY <1>4, <1>6, <2>1
  <2> HIDE DEF n, p
  <2> QED BY <1>0, <2>1, <2>2, WrittenRecord DEF Replaces
<1>7. CASE DoneAnd(j, After("error")) /\ NotReplaced(j.tok) /\ disk' = disk
  <2>1. UsedStep /\ DiskStep
    BY <1>0, <1>7, UnchangedUsed, FailsSpends, UnchangedDisk DEF NotReplaced
  <2>2. JobsStep
    BY <1>0, <1>4, <1>7, DoneAndResult
  <2> QED BY <2>1, <2>2, QuietStepKeepsInv DEF QuietStep
<1> QED BY <1>5, <1>6, <1>7

(* The mutex is taken; the record is one to be registered. *)
LEMMA RegisterIoKeepsInv ==
  ASSUME SessionInv, NEW j \in jobs, RegisterIo(j)
  PROVE  SessionInv'
<1>0. SessionTypeOK /\ IsJob(j) /\ j.kind = "register" /\ j.at = "io"
  BY DEF SessionInv, SessionTypeOK, RegisterIo
<1>1. UsedStep /\ DiskStep /\ disk' = disk
  BY <1>0, UnchangedUsed, FailsSpends, UnchangedDisk DEF RegisterIo
<1>2. CASE Ends(j, "main", "error")
  <2>1. JobsStep
    BY <1>0, <1>2, NotReading, EndsResult DEF Reading, Working
  <2> QED BY <1>1, <2>1, QuietStepKeepsInv DEF QuietStep
<1>3. CASE disk.rec[j.tok] = "PreviewReady" /\ Ends(j, "marking", "none")
  <2> DEFINE n == [j EXCEPT !.at = "marking", !.out = "none"]
             F == [i \in jobs |-> i]
  <2>1. GoesOn(n, j, F)
    BY <1>0, <1>3, GoesOnResult DEF Ends
  <2>2. IsEnded(n, j, "marking", "none")
    BY DEF IsEnded
  <2> HIDE DEF n, F
  <2>3. IsJob(n) /\ n.at = "marking" /\ n.tok = j.tok /\ n.kind = "register" /\ ~n.fresh
    <3>1. ~j.fresh
      BY <1>0, NotReading DEF Reading
    <3> QED BY <1>0, <2>2, <3>1, EndedJob
  <2>4. WorksOn(n, j)
    BY <1>0, <2>3 DEF WorksOn, IsWriter, Working, RegisterIo
  <2>5. RecordChange(j)
    BY <1>0, <1>1, <1>3, SameRecord
  <2>6. ASSUME j.tok \in Tokens, OnTime(j.tok) PROVE TimelyWriter(j, n, j.tok)
    <3>1. disk.scans[j.tok] \in Nat
      BY <1>0, <2>6 DEF SessionTypeOK, IsDisk
    <3>2. ~(disk.scans[j.tok] > 0)
      BY <1>3, <2>6 DEF OnTime, Reviewable
    <3>3. Alone(j, j.tok)
      BY <1>3, <2>6 DEF OnTime, Alone, NotRegistering, RegisterIo, MutexFree, Critical
    <3> QED BY <1>1, <1>3, <2>3, <3>1, <3>2, <3>3 DEF TimelyWriter
  <2>7. TimelyRecord(j, n, j.tok, F) /\ TimelyRow(j, n, j.tok)
    BY <1>1 DEF TimelyRecord, TimelyRow
  <2> QED BY <1>1, <2>1, <2>4, <2>5, <2>6, <2>7, TimelyStepKeepsInv
<1> QED BY <1>2, <1>3 DEF RegisterIo

LEMMA CriticalIsAlone ==
  ASSUME SessionInv, NEW j \in jobs, Critical(j), OnTime(j.tok)
  PROVE  Alone(j, j.tok) /\ disk.scans[j.tok] = 0
BY DEF SessionInv, OneRegistration, OnTime, Alone, NotRegistering

LEMMA RegisterMarkKeepsInv ==
  ASSUME SessionInv, NEW j \in jobs, RegisterMark(j)
  PROVE  SessionInv'
<1>0. /\ SessionTypeOK /\ IsJob(j) /\ IsWriter(j) /\ j.kind = "register" /\ j.at = "marking"
      /\ Critical(j)
  BY DEF SessionInv, SessionTypeOK, RegisterMark, Critical
<1>1. CASE /\ Replaces(j.tok, "Registering", FALSE)
           /\ Ends(j, "row", "none") /\ used' = used
  <2> DEFINE n == [j EXCEPT !.at = "row", !.out = "none"]
             F == [i \in jobs |-> i]
             p == "Registering"
             l == disk.late
  <2>1. GoesOn(n, j, F)
    BY <1>0, <1>1, GoesOnResult DEF Ends
  <2>2. IsEnded(n, j, "row", "none")
    BY DEF IsEnded
  <2>3. IsReplaced(j.tok, p, l)
    BY <1>1 DEF Replaces, IsReplaced
  <2>4. p \in Recorded /\ l \in {disk.late, disk.late \cup {j.tok}}
    BY DEF Recorded
  <2>5. j.at \in Working
    BY <1>0 DEF Working
  <2> HIDE DEF n, F, p, l
  <2>6. RecordChange(j)
    BY <1>0, <2>3, <2>4, <2>5, ReplacedRecord
  <2>7. disk'.scans = disk.scans /\ (j.tok \in Tokens => disk'.rec[j.tok] = "Registering")
    <3>1. disk'.scans = disk.scans /\ (j.tok \in Tokens => disk'.rec[j.tok] = p)
      BY <1>0, <2>3, <2>4, ReplacesResult
    <3> QED BY <3>1 DEF p
  <2>8. IsJob(n) /\ n.at = "row" /\ n.tok = j.tok /\ n.kind = "register" /\ ~n.fresh
    <3>1. ~j.fresh
      BY <1>0 DEF IsWriter
    <3> QED BY <1>0, <2>2, <3>1, EndedJob
  <2>9. WorksOn(n, j)
    BY <1>0, <2>8 DEF WorksOn, IsWriter, Working
  <2>10. ASSUME j.tok \in Tokens, OnTime(j.tok) PROVE TimelyWriter(j, n, j.tok)
    BY <1>0, <2>7, <2>8, <2>10, CriticalIsAlone DEF TimelyWriter, Reviewable
  <2>11. j.tok \in Tokens => TimelyRecord(j, n, j.tok, F) /\ TimelyRow(j, n, j.tok)
    BY <2>7 DEF TimelyRecord, TimelyRow
  <2>12. UsedStep
    BY <1>0, <1>1, UnchangedUsed
  <2> QED BY <2>1, <2>6, <2>9, <2>10, <2>11, <2>12, TimelyStepKeepsInv
<1>2. CASE Ends(j, "main", "error") /\ NotReplaced(j.tok) /\ disk' = disk
  <2>1. JobsStep
    BY <1>0, <1>2, EndsResult DEF IsWriter, Working
  <2>2. UsedStep /\ DiskStep
    BY <1>0, <1>2, UnchangedUsed, FailsSpends, UnchangedDisk DEF NotReplaced
  <2> QED BY <2>1, <2>2, QuietStepKeepsInv DEF QuietStep
<1> QED BY <1>1, <1>2 DEF RegisterMark

(* Only a registration that holds the mutex adds a row. *)
LEMMA RegisterRowKeepsInv ==
  ASSUME SessionInv, NEW j \in jobs, RegisterRow(j)
  PROVE  SessionInv'
<1>0. /\ SessionTypeOK /\ IsJob(j) /\ IsWriter(j) /\ j.kind = "register" /\ j.at = "row"
      /\ Critical(j) /\ ~j.fresh
  BY DEF SessionInv, SessionTypeOK, RegisterRow, Critical, IsWriter
<1>1. CASE /\ disk' = [disk EXCEPT !.scans[j.tok] = @ + 1]
           /\ Ends(j, "commit", "none") /\ used' = used
  <2> DEFINE n == [j EXCEPT !.at = "commit", !.out = "none"]
             F == [i \in jobs |-> i]
  <2>1. GoesOn(n, j, F)
    BY <1>0, <1>1, GoesOnResult DEF Ends
  <2>2. IsEnded(n, j, "commit", "none")
    BY DEF IsEnded
  <2> HIDE DEF n, F
  <2>3. IsJob(n) /\ n.at = "commit" /\ n.tok = j.tok /\ n.kind = "register" /\ ~n.fresh
    BY <1>0, <2>2, EndedJob
  <2>4. /\ disk.file \in [Tokens -> Files] /\ disk.rec \in [Tokens -> Recorded]
        /\ disk.scans \in [Tokens -> Nat]
        /\ disk = [file |-> disk.file, rec |-> disk.rec, scans |-> disk.scans, late |-> disk.late]
    BY <1>0 DEF SessionTypeOK, IsDisk
  <2>5. /\ disk'.file = disk.file /\ disk'.rec = disk.rec
        /\ disk'.scans = [disk.scans EXCEPT ![j.tok] = disk.scans[j.tok] + 1]
        /\ disk'.late = disk.late
        /\ disk' = [file |-> disk'.file, rec |-> disk'.rec, scans |-> disk'.scans, late |-> disk'.late]
    BY <1>1, <2>4
  <2>6. IsDisk(disk)'
    <3>1. j.tok \in Tokens => disk.scans[j.tok] + 1 \in Nat
      BY <2>4
    <3> DEFINE g == disk.scans
               m == disk.scans[j.tok] + 1
    <3>2. g \in [Tokens -> Nat] /\ (j.tok \in Tokens => m \in Nat)
      BY <2>4, <3>1
    <3>3. disk'.scans = [g EXCEPT ![j.tok] = m]
      BY <2>5
    <3> HIDE DEF g, m
    <3>4. disk'.scans \in [Tokens -> Nat]
      BY <3>2, <3>3
    <3> QED BY <2>4, <2>5, <3>4 DEF IsDisk
  <2>7. RecordChange(j)
    BY <1>0, <2>4, <2>5, <2>6 DEF RecordChange, Working
  <2>8. WorksOn(n, j)
    BY <1>0, <2>3 DEF WorksOn, IsWriter, Critical, Working
  <2>9. ASSUME j.tok \in Tokens, OnTime(j.tok)
        PROVE  TimelyRecord(j, n, j.tok, F) /\ TimelyRow(j, n, j.tok) /\ TimelyWriter(j, n, j.tok)
    <3>1. Alone(j, j.tok) /\ disk.scans[j.tok] = 0 /\ disk.rec[j.tok] \notin Reviewable
      BY <1>0, <2>9, CriticalIsAlone DEF OnTime
    <3>2. disk'.scans[j.tok] = 1
      BY <2>4, <2>5, <2>9, <3>1
    <3>3. ~Critical(n)
      BY <2>3 DEF Critical
    <3> QED BY <2>3, <2>5, <3>1, <3>2, <3>3 DEF TimelyRecord, TimelyRow, TimelyWriter
  <2>10. UsedStep
    BY <1>0, <1>1, UnchangedUsed
  <2> QED BY <2>1, <2>7, <2>8, <2>9, <2>10, TimelyStepKeepsInv
<1>2. CASE Ends(j, "main", "error") /\ Fails /\ disk' = disk
  <2>1. JobsStep
    BY <1>0, <1>2, EndsResult DEF Working
  <2>2. UsedStep /\ DiskStep
    BY <1>0, <1>2, FailsSpends, UnchangedDisk
  <2> QED BY <2>1, <2>2, QuietStepKeepsInv DEF QuietStep
<1> QED BY <1>1, <1>2 DEF RegisterRow

LEMMA RegisterCommitKeepsInv ==
  ASSUME SessionInv, NEW j \in jobs, RegisterCommit(j)
  PROVE  SessionInv'
<1>0. /\ SessionTypeOK /\ IsJob(j) /\ j.kind = "register" /\ j.at = "commit" /\ ~j.fresh
  BY NotReading DEF SessionInv, SessionTypeOK, RegisterCommit, Reading
<1>1. UsedStep /\ DiskStep /\ disk' = disk
  BY <1>0, UnchangedUsed, UnchangedDisk DEF RegisterCommit
<1>2. CASE Ends(j, "unstage", "none")
  <2>1. JobsStep
    BY <1>0, <1>2, EndsResult DEF Working
  <2> QED BY <1>1, <2>1, QuietStepKeepsInv DEF QuietStep
<1>3. CASE Ends(j, "committing", "none")
  <2> DEFINE n == [j EXCEPT !.at = "committing", !.out = "none"]
             F == [i \in jobs |-> i]
  <2>1. GoesOn(n, j, F)
    BY <1>0, <1>3, GoesOnResult DEF Ends
  <2>2. IsEnded(n, j, "committing", "none")
    BY DEF IsEnded
  <2> HIDE DEF n, F
  <2>3. IsJob(n) /\ n.at = "committing" /\ n.tok = j.tok /\ n.kind = "register" /\ ~n.fresh
    BY <1>0, <2>2, EndedJob
  <2>4. WorksOn(n, j)
    BY <1>0, <2>3 DEF WorksOn, IsWriter, Critical, Working
  <2>5. RecordChange(j)
    BY <1>0, <1>1, SameRecord DEF Working
  <2>6. TimelyRecord(j, n, j.tok, F) /\ TimelyRow(j, n, j.tok) /\ TimelyWriter(j, n, j.tok)
    BY <1>1, <2>3 DEF TimelyRecord, TimelyRow, TimelyWriter, Critical
  <2> QED BY <1>1, <2>1, <2>4, <2>5, <2>6, TimelyStepKeepsInv
<1> QED BY <1>2, <1>3 DEF RegisterCommit

(* A record that is replaced by one beyond review, or removed, by a         *)
(* coroutine that is done with it.                                          *)
LEMMA ClosedRecord ==
  ASSUME SessionInv, UsedStep, NEW j \in jobs, ~j.fresh,
         \/ j.at \in Working
         \/ disk.rec[j.tok] # "None",
         NEW q \in {"None", "Committed"},
         disk' = [disk EXCEPT !.rec[j.tok] = q],
         q = "None" \/ j.at \in Working,
         NEW p, p # "io", p \notin Working, NEW o, Ends(j, p, o)
  PROVE  SessionInv'
<1>0. SessionTypeOK /\ IsJob(j) /\ q \in Recorded
  BY DEF SessionInv, SessionTypeOK, Recorded
<1> DEFINE n == [j EXCEPT !.at = p, !.out = o]
           F == [i \in jobs |-> i]
           l == disk.late
<1>1. GoesOn(n, j, F)
  BY <1>0, GoesOnResult DEF Ends
<1>2. Other(n)
  BY <1>0, MovedJob
<1>3. IsReplaced(j.tok, q, l)
  BY <1>0 DEF SessionTypeOK, IsDisk, IsReplaced
<1> HIDE DEF n, F
<1>4. disk'.late = disk.late
  BY <1>0, <1>3, ReplacesResult
<1> HIDE DEF l
<1>5. /\ IsDisk(disk)' /\ disk'.scans = disk.scans
      /\ j.tok \in Tokens => disk'.rec[j.tok] = q
      /\ \A u \in Tokens : u # j.tok => disk'.rec[u] = disk.rec[u]
  BY <1>0, <1>3, ReplacesResult
<1>6. RecordChange(j)
  BY <1>4, <1>5 DEF RecordChange
<1>7. j.tok \in Tokens => TimelyRecord(j, n, j.tok, F) /\ TimelyRow(j, n, j.tok)
  BY <1>5 DEF TimelyRecord, TimelyRow
<1>8. TimelyWriter(j, n, j.tok)
  BY <1>2, OtherIsWriter DEF TimelyWriter, Other
<1> QED BY <1>1, <1>2, <1>6, <1>7, <1>8, TimelyStepKeepsInv

LEMMA RegisterCommittedKeepsInv ==
  ASSUME SessionInv, NEW j \in jobs, RegisterCommitted(j)
  PROVE  SessionInv'
<1>0. SessionTypeOK /\ IsJob(j) /\ j.at = "committing" /\ ~j.fresh
  BY NotReading DEF SessionInv, SessionTypeOK, RegisterCommitted, Reading
<1>1. Ends(j, "unstage", "none") /\ "unstage" \notin Working /\ j.at \in Working
  BY <1>0 DEF RegisterCommitted, Working
<1>2. CASE Replaces(j.tok, "Committed", FALSE) /\ used' = used
  <2>1. disk' = [disk EXCEPT !.rec[j.tok] = "Committed"]
    BY <1>0, <1>2 DEF Replaces, SessionTypeOK, IsDisk
  <2>2. UsedStep
    BY <1>0, <1>2, UnchangedUsed
  <2> QED BY <1>0, <1>1, <2>1, <2>2, ClosedRecord
<1>3. CASE NotReplaced(j.tok) /\ disk' = disk
  <2>1. JobsStep
    BY <1>0, <1>1, EndsResult
  <2>2. UsedStep /\ DiskStep
    BY <1>0, <1>3, UnchangedUsed, FailsSpends, UnchangedDisk DEF NotReplaced
  <2> QED BY <2>1, <2>2, QuietStepKeepsInv DEF QuietStep
<1> QED BY <1>2, <1>3 DEF RegisterCommitted

LEMMA RemoveRecordKeepsInv ==
  ASSUME SessionInv, NEW j \in jobs, RemoveRecord(j)
  PROVE  SessionInv'
<1>0. SessionTypeOK /\ IsJob(j) /\ ~j.fresh
  BY NotReading DEF SessionInv, SessionTypeOK, RemoveRecord, Reading
<1>1. CASE /\ disk.rec[j.tok] # "None"
           /\ disk' = [disk EXCEPT !.rec[j.tok] = "None"]
           /\ Ends(j, IF j.kind = "register" THEN "acked" ELSE "main", "ok") /\ used' = used
  <2>1. UsedStep
    BY <1>0, <1>1, UnchangedUsed
  <2> DEFINE p == IF j.kind = "register" THEN "acked" ELSE "main"
  <2>2. p # "io" /\ p \notin Working
    BY DEF Working
  <2> HIDE DEF p
  <2>3. Ends(j, p, "ok")
    BY <1>1, Zenon DEF p
  <2> QED BY <1>0, <1>1, <2>1, <2>2, <2>3, ClosedRecord
<1>2. CASE Failed(j) /\ NotReplaced(j.tok) /\ disk' = disk
  <2>1. UsedStep /\ DiskStep
    BY <1>0, <1>2, UnchangedUsed, FailsSpends, UnchangedDisk DEF NotReplaced
  <2> QED BY <1>0, <1>2, <2>1, JobFailedResult, QuietStepKeepsInv DEF QuietStep
<1> QED BY <1>1, <1>2 DEF RemoveRecord

-----------------------------------------------------------------------------
(* The IO blocks that change no record. *)

LEMMA ExceptType ==
  ASSUME NEW S, NEW T, NEW f \in [S -> T], NEW x, NEW v, x \in S => v \in T
  PROVE  [f EXCEPT ![x] = v] \in [S -> T]
OBVIOUS

LEMMA FileResult ==
  ASSUME SessionTypeOK, NEW t, NEW f \in Files, disk' = [disk EXCEPT !.file[t] = f]
  PROVE  DiskStep
<1>1. /\ disk.file \in [Tokens -> Files] /\ disk.rec \in [Tokens -> Recorded]
      /\ disk.scans \in [Tokens -> Nat]
      /\ disk = [file |-> disk.file, rec |-> disk.rec, scans |-> disk.scans, late |-> disk.late]
  BY DEF SessionTypeOK, IsDisk
<1>2. /\ disk'.file = [disk.file EXCEPT ![t] = f] /\ disk'.rec = disk.rec
      /\ disk'.scans = disk.scans /\ disk'.late = disk.late
      /\ disk' = [file |-> disk'.file, rec |-> disk'.rec, scans |-> disk'.scans, late |-> disk'.late]
  BY <1>1
<1>3. disk'.file \in [Tokens -> Files]
  BY <1>1, <1>2
<1>4. IsDisk(disk)'
  BY <1>1, <1>2, <1>3 DEF IsDisk
<1> QED BY <1>2, <1>4 DEF DiskStep

LEMMA DiscardIsQuiet ==
  ASSUME SessionTypeOK, NEW j \in jobs, DiscardRead(j) \/ DiscardFile(j) \/ Acknowledge(j)
  PROVE  QuietStep
<1>0. IsJob(j) /\ ~j.fresh /\ "unstage" \notin Working /\ "unlink" \notin Working
  BY NotReading DEF DiscardRead, DiscardFile, Acknowledge, Reading, Working
<1>1. JobsStep
  BY <1>0, EndsResult, JobFailedResult DEF DiscardRead, DiscardFile, Acknowledge
<1>2. UsedStep
  BY UnchangedUsed, FailsSpends DEF DiscardRead, DiscardFile, Acknowledge
<1>3. DiskStep
  <2>1. "none" \in Files
    BY DEF Files
  <2> QED BY <2>1, UnchangedDisk, FileResult DEF DiscardRead, DiscardFile, Acknowledge
<1> QED BY <1>1, <1>2, <1>3 DEF QuietStep

LEMMA RegisterUnstageIsQuiet ==
  ASSUME SessionTypeOK, NEW j \in jobs, RegisterUnstage(j)
  PROVE  QuietStep
<1>0. IsJob(j) /\ ~j.fresh /\ "main" \notin Working /\ "none" \in Files
  BY NotReading DEF RegisterUnstage, Reading, Working, Files
<1>1. JobsStep
  BY <1>0, EndsResult DEF RegisterUnstage
<1>2. UsedStep
  BY UnchangedUsed, FailsSpends DEF RegisterUnstage
<1>3. DiskStep
  BY <1>0, UnchangedDisk, FileResult DEF RegisterUnstage
<1> QED BY <1>1, <1>2, <1>3 DEF QuietStep

LEMMA ProcessIoIsQuiet ==
  ASSUME SessionTypeOK, NEW j \in jobs, ProcessIo(j)
  PROVE  QuietStep
<1>0. IsJob(j) /\ ~j.fresh /\ "main" \notin Working
  BY NotReading DEF ProcessIo, Reading, Working
<1>1. JobsStep
  BY <1>0, EndsResult DEF ProcessIo
<1>2. UsedStep /\ DiskStep
  BY UnchangedUsed, FailsSpends, UnchangedDisk DEF ProcessIo
<1> QED BY <1>1, <1>2 DEF QuietStep

LEMMA RefreshIoIsQuiet ==
  ASSUME SessionTypeOK, NEW j \in jobs, RefreshIo(j)
  PROVE  QuietStep
<1>0. IsJob(j) /\ ~j.fresh /\ "main" \notin Working
  BY NotReading DEF RefreshIo, Reading, Working
<1>1. JobsStep
  <2> DEFINE k == [j EXCEPT !.list = disk.rec]
  <2>1. \/ Ends(j, "main", "error")
        \/ DoneAnd(j, NextOf(k))
    BY DEF RefreshIo
  <2>2. IsJob(k) /\ ~k.fresh
    <3>1. IsJob(k) /\ Same(k, j)
      BY <1>0, Set_list
    <3> HIDE DEF k
    <3> QED BY <1>0, <3>1 DEF Same
  <2> HIDE DEF k
  <2>3. Other(NextOf(k))
    BY <2>2, NextIsOther
  <2> QED BY <1>0, <2>1, <2>3, EndsResult, DoneAndResult
<1>2. UsedStep /\ DiskStep
  BY UnchangedUsed, UnchangedDisk DEF RefreshIo
<1> QED BY <1>1, <1>2 DEF QuietStep

LEMMA RecordStepsKeepInv ==
  ASSUME SessionInv, NEW j \in jobs, RecordStep(j)
  PROVE  SessionInv'
<1>0. SessionTypeOK
  BY DEF SessionInv
<1>1. CASE ReconcileRead(j) \/ ReconcileLookup(j) \/ ReconcileReplace(j) \/ RemoveRecord(j)
  BY <1>1, ReconcileReadKeepsInv, ReconcileLookupKeepsInv, ReconcileReplaceKeepsInv,
     RemoveRecordKeepsInv
<1>2. CASE MarkIo(j) \/ MarkWrite(j) \/ RegisterIo(j) \/ RegisterMark(j) \/ RegisterRow(j)
           \/ RegisterCommit(j) \/ RegisterCommitted(j)
  BY <1>2, MarkIoKeepsInv, MarkWriteKeepsInv, RegisterIoKeepsInv, RegisterMarkKeepsInv,
     RegisterRowKeepsInv, RegisterCommitKeepsInv, RegisterCommittedKeepsInv
<1>3. CASE Acknowledge(j) \/ DiscardRead(j) \/ DiscardFile(j) \/ RegisterUnstage(j)
  BY <1>0, <1>3, DiscardIsQuiet, RegisterUnstageIsQuiet, QuietStepKeepsInv
<1> QED BY <1>1, <1>2, <1>3 DEF RecordStep

-----------------------------------------------------------------------------
(* The continuations on the main thread, the user and the camera. *)

LEMMA OnMainIsQuiet ==
  ASSUME SessionTypeOK, OnMain, JobsStep, UsedStep
  PROVE  QuietStep
BY UnchangedDisk DEF OnMain, QuietStep

LEMMA RetainedResult ==
  ASSUME SessionTypeOK, NEW j \in jobs, Retained(j)
  PROVE  JobsStep
<1>1. \A k \in (IF ui.list[j.tok] = "None" THEN {Refresh} ELSE {}) : Other(k)
  BY RefreshIsOther
<1> QED BY <1>1, FinallyResult DEF Retained

LEMMA OutdatedResult ==
  ASSUME SessionTypeOK, NEW j \in jobs, Outdated(j)
  PROVE  JobsStep
<1>1. \A k \in {Refresh} : Other(k)
  BY RefreshIsOther
<1> QED BY <1>1, FinallyResult DEF Outdated

LEMMA ProcessingIsQuiet ==
  ASSUME SessionTypeOK, NEW j \in jobs,
         \/ ProcessCancelled(j) \/ ProcessMain(j) \/ MarkMain(j) \/ FinishReview(j)
  PROVE  QuietStep
<1>0. IsJob(j) /\ ~j.fresh
  BY NotReading DEF ProcessCancelled, ProcessMain, MarkMain, FinishReview, Reading
<1>a. UsedStep
  BY UnchangedUsed DEF ProcessCancelled, ProcessMain, MarkMain, FinishReview
<1>1. CASE ProcessCancelled(j)
  <2>1. JobsStep
    BY <1>1, FinallyResult DEF ProcessCancelled
  <2> QED BY <1>a, <1>1, <2>1, UnchangedDisk DEF ProcessCancelled, QuietStep
<1>2. CASE ProcessMain(j)
  <2>1. CASE Retained(j) \/ Outdated(j)
    BY <1>a, <1>2, <2>1, RetainedResult, OutdatedResult, OnMainIsQuiet DEF ProcessMain
  <2>2. CASE \E p \in {"markIo", "codeIo"} : DoneAnd(j, [j EXCEPT !.at = p])
    <3>1. JobsStep
      BY <1>0, <2>2, MovedJob, DoneAndResult DEF Working
    <3> QED BY <1>a, <1>2, <3>1, OnMainIsQuiet DEF ProcessMain
  <2> QED BY <1>2, <2>1, <2>2 DEF ProcessMain
<1>3. CASE MarkMain(j)
  <2>1. CASE Retained(j)
    BY <1>a, <1>3, <2>1, RetainedResult, OnMainIsQuiet DEF MarkMain
  <2>2. CASE DoneAnd(j, [j EXCEPT !.at = "codeIo"])
    <3>1. JobsStep
      BY <1>0, <2>2, MovedJob, DoneAndResult DEF Working
    <3> QED BY <1>a, <1>3, <3>1, OnMainIsQuiet DEF MarkMain
  <2> QED BY <1>3, <2>1, <2>2 DEF MarkMain
<1>4. CASE FinishReview(j)
  <2>1. CASE Retained(j)
    BY <1>a, <1>4, <2>1, RetainedResult, OnMainIsQuiet DEF FinishReview
  <2>2. CASE Finally(j, {})
    <3>1. JobsStep
      BY <2>2, FinallyResult
    <3> QED BY <1>a, <1>4, <3>1, OnMainIsQuiet DEF FinishReview
  <2> QED BY <1>4, <2>1, <2>2 DEF FinishReview
<1> QED BY <1>1, <1>2, <1>3, <1>4

LEMMA ContinuationIsQuiet ==
  ASSUME SessionTypeOK, NEW j \in jobs,
         \/ NotebooksListed(j) \/ RefreshMain(j) \/ NotebookSelected(j) \/ RegisterMain(j)
         \/ AckMain(j) \/ RetakeMain(j) \/ ReviewMain(j) \/ DialogMain(j)
         \/ AbandonMain(j)
  PROVE  QuietStep
<1>a. UsedStep
  BY UnchangedUsed, FailsSpends
     DEF NotebooksListed, RefreshMain, NotebookSelected, RegisterMain, AckMain, RetakeMain,
         ReviewMain, DialogMain, AbandonMain
<1>1. CASE NotebooksListed(j) \/ RefreshMain(j) \/ RetakeMain(j)
  <2>1. JobsStep
    BY <1>1, DoneResult DEF NotebooksListed, RefreshMain, RetakeMain
  <2> QED BY <1>a, <1>1, <2>1, OnMainIsQuiet DEF NotebooksListed, RefreshMain, RetakeMain
<1>2. CASE NotebookSelected(j)
  <2>1. JobsStep
    BY <1>2, DoneResult, WithoutWorkResult DEF NotebookSelected
  <2> QED BY <1>a, <1>2, <2>1, OnMainIsQuiet DEF NotebookSelected
<1>3. CASE RegisterMain(j)
  <2>0. IsJob(j) /\ ~j.fresh /\ "reconcile" \notin Working
    BY <1>3, NotReading DEF RegisterMain, Reading, Working
  <2>1. Other([j EXCEPT !.at = "reconcile"])
    BY <2>0, MovedJob
  <2>2. JobsStep
    BY <1>3, <2>1, RefreshIsOther, DoneAndResult DEF RegisterMain
  <2> QED BY <1>a, <1>3, <2>2, OnMainIsQuiet DEF RegisterMain
<1>4. CASE AckMain(j) \/ DialogMain(j) \/ AbandonMain(j)
  <2>1. JobsStep
    BY <1>4, RefreshIsOther, DoneResult, DoneAndResult DEF AckMain, DialogMain, AbandonMain
  <2> QED BY <1>a, <1>4, <2>1, OnMainIsQuiet DEF AckMain, DialogMain, AbandonMain
<1>5. CASE ReviewMain(j)
  <2>1. DoneAnd(j, Refresh) \/ \E t, r, mark, g : DoneAnd(j, ProcessJob(t, r, TRUE, mark, g))
    BY <1>5, Zenon DEF ReviewMain
  <2>2. JobsStep
    BY <2>1, RefreshIsOther, ProcessJobIsOther, DoneAndResult
  <2> QED BY <1>a, <1>5, <2>2, OnMainIsQuiet DEF ReviewMain
<1> QED BY <1>1, <1>2, <1>3, <1>4, <1>5

LEMMA UserIsQuiet ==
  ASSUME SessionTypeOK, User, ~Leave
  PROVE  QuietStep
<1>1. CASE SelectNotebook
  <2>1. JobsStep
    BY <1>1, NewScreenJobs, AddedResult DEF SelectNotebook
  <2> QED BY <1>1, <2>1, UnchangedDisk, SpendResult DEF SelectNotebook, Trouble, QuietStep
<1>2. CASE RequestCapture
  BY <1>2, UnchangedDisk, UnchangedJobs, SpendResult DEF RequestCapture, QuietStep
<1>3. CASE AnswerCaptureWarning
  BY <1>3, UnchangedDisk, UnchangedJobs, UnchangedUsed DEF AnswerCaptureWarning, QuietStep
<1>4. CASE CancelProcessing
  <2>1. PICK j \in jobs : Processing(j) /\ DoneAnd(j, [j EXCEPT !.stop = TRUE])
    BY <1>4 DEF CancelProcessing
  <2> DEFINE n == [j EXCEPT !.stop = TRUE]
             F == [i \in jobs |-> IF i = j THEN n ELSE i]
  <2>2. IsJob(j)
    BY DEF SessionTypeOK
  <2>3. IsJob(n) /\ Same(n, j)
    BY <2>2, Set_stop, Zenon
  <2>4. DoneAnd(j, n)
    BY <2>1
  <2> HIDE DEF n
  <2>5. \A i \in jobs : Marked(F[i], i)
    BY <2>2, <2>3 DEF Marked, Same, SessionTypeOK
  <2>6. \A k \in jobs' : \E i \in jobs : k = F[i]
    BY <2>4, KeptResult DEF DoneAnd
  <2> HIDE DEF F
  <2>7. JobsStep
    BY <2>5, <2>6 DEF JobsStep
  <2> QED BY <1>4, <2>7, UnchangedDisk, UnchangedUsed DEF CancelProcessing, QuietStep
<1>5. CASE Approve
  <2>1. CASE Dies
    BY <2>1, DiesResult
  <2>2. CASE ~Dies
    <3>1. JobsStep
      BY <1>5, <2>2, NewJobIsOther, AddedResult DEF Approve
    <3> QED BY <1>5, <2>2, <3>1, UnchangedDisk, UnchangedUsed DEF Approve, QuietStep
  <2> QED BY <2>1, <2>2
<1>6. CASE Retake
  <2>1. JobsStep
    BY <1>6, NewScreenJobs, RefreshIsOther, AddedResult, UnchangedJobs DEF Retake
  <2> QED BY <1>6, <2>1, UnchangedDisk, UnchangedUsed DEF Retake, QuietStep
<1>7. CASE DialogAction
  <2>1. PICK k \in {"review", "discard", "reconcile", "acknowledge"}, p \in {"io", "reconcile"} :
          \E m : jobs' = jobs \cup {[NewJob(k, Shown) EXCEPT !.mark = m, !.at = p]}
    BY <1>7 DEF DialogAction
  <2>a. PICK m : jobs' = jobs \cup {[NewJob(k, Shown) EXCEPT !.mark = m, !.at = p]}
    BY <2>1
  <2> DEFINE n == NewJob(k, Shown)
             h == [n EXCEPT !.mark = m]
             o == [h EXCEPT !.at = p]
  <2>2. IsJob(n) /\ n.kind # "prepare" /\ ~n.fresh
    BY JobResult DEF NewJob
  <2>b. jobs' = jobs \cup {o}
    BY <2>a
  <2> HIDE DEF n
  <2>3. IsJob(h) /\ Same(h, n)
    BY <2>2, Set_mark, Zenon
  <2>c. h.kind # "prepare" /\ ~h.fresh
    BY <2>2, <2>3 DEF Same
  <2> HIDE DEF h
  <2>d. IsJob(o) /\ o.at = p /\ o.kind = h.kind /\ o.fresh = h.fresh
    BY <2>3 DEF IsJob
  <2> HIDE DEF o
  <2>e. Other(o)
    BY <2>c, <2>d DEF Other, Preparing, Working
  <2>4. JobsStep
    BY <2>b, <2>e, AddedResult
  <2> QED BY <1>7, <2>4, UnchangedDisk, SpendResult DEF DialogAction, QuietStep
<1> QED BY <1>1, <1>2, <1>3, <1>4, <1>5, <1>6, <1>7 DEF User

LEMMA CameraIsQuiet ==
  ASSUME SessionTypeOK, CameraStep
  PROVE  QuietStep
<1>0. "none" \in Files /\ "image" \in Files
  BY DEF Files
<1>1. ASSUME NEW c \in camera, CameraTakes(c) \/ CameraWrites(c) \/ CameraDropped(c)
      PROVE  QuietStep
  <2>1. JobsStep
    BY <1>1, UnchangedJobs DEF CameraTakes, CameraWrites, CameraDropped
  <2>2. UsedStep
    BY <1>1, UnchangedUsed, FailsSpends DEF CameraTakes, CameraWrites, CameraDropped
  <2>3. DiskStep
    BY <1>0, <1>1, UnchangedDisk, FileResult DEF CameraTakes, CameraWrites, CameraDropped
  <2> QED BY <2>1, <2>2, <2>3 DEF QuietStep
<1>2. ASSUME NEW c \in camera, Refused(c)
      PROVE  QuietStep
  <2>1. jobs' = jobs \/ \E t : jobs' = jobs \cup {NewJob("abandon", t)}
    BY <1>2 DEF Refused, CaptureLost
  <2>2. JobsStep
    BY <2>1, UnchangedJobs, NewScreenJobs, AddedResult
  <2> QED BY <1>2, <2>2, UnchangedDisk, UnchangedUsed DEF Refused, CaptureLost, QuietStep
<1>3. ASSUME NEW c \in camera, Stale(c)
      PROVE  QuietStep
  <2>1. JobsStep
    BY <1>3, RefreshIsOther, AddedResult DEF Stale
  <2>2. DiskStep
    BY <1>0, <1>3, UnchangedDisk, FileResult DEF Stale
  <2> QED BY <1>3, <2>1, <2>2, UnchangedUsed DEF Stale, QuietStep
<1>4. ASSUME NEW c \in camera, CaptureSaved(c)
      PROVE  QuietStep
  <2>1. CASE Dies
    BY <2>1, DiesResult
  <2>2. CASE ~Dies
    <3>1. JobsStep
      BY <1>4, <2>2, ProcessJobIsOther, AddedResult DEF CaptureSaved
    <3> QED BY <1>4, <2>2, <3>1, UnchangedDisk, UnchangedUsed DEF CaptureSaved, QuietStep
  <2> QED BY <2>1, <2>2
<1>5. ASSUME NEW c \in camera, Captured(c)
      PROVE  QuietStep
  BY <1>3, <1>4, <1>5, UnchangedDisk, UnchangedUsed, UnchangedJobs DEF Captured, QuietStep
<1> QED BY <1>1, <1>2, <1>5 DEF CameraStep

-----------------------------------------------------------------------------
(* The effect that prepares a capture. *)

LEMMA PreparedIsQuiet ==
  ASSUME SessionTypeOK, NEW j \in jobs, PrepareCancelled(j) \/ PrepareMain(j)
  PROVE  QuietStep
<1>1. JobsStep
  BY DoneResult DEF PrepareCancelled, PrepareMain
<1>2. "none" \in Files
  BY DEF Files
<1>3. DiskStep
  BY <1>2, UnchangedDisk, FileResult DEF PrepareCancelled, PrepareMain
<1> QED BY <1>1, <1>3, UnchangedUsed DEF PrepareCancelled, PrepareMain, QuietStep

(* The record of a capture is begun by the one coroutine that prepares it, *)
(* and nobody else has come to it.                                         *)
LEMMA PrepareIoKeepsInv ==
  ASSUME SessionInv, NEW j \in jobs, PrepareIo(j)
  PROVE  SessionInv'
<1>0. SessionTypeOK /\ Preparing(j) /\ IsJob(j) /\ ~j.fresh /\ "main" \notin Working
  BY NotReading DEF SessionInv, PrepareIo, Preparing, Reading, Working
<1>1. JobsStep
  BY <1>0, EndsResult DEF PrepareIo
<1>2. UsedStep
  BY <1>0, UnchangedUsed, FailsSpends DEF PrepareIo
<1>3. CASE disk' = [disk EXCEPT !.file[j.tok] = "reserved"]
  <2>1. "reserved" \in Files
    BY DEF Files
  <2>2. DiskStep
    BY <1>0, <1>3, <2>1, FileResult
  <2> QED BY <1>1, <1>2, <2>2, QuietStepKeepsInv DEF QuietStep
<1>4. CASE /\ disk' = [disk EXCEPT !.file[j.tok] = "reserved", !.rec[j.tok] = "Captured"]
           /\ Ends(j, "main", "ok")
  <2>1. j.tok \in Tokens /\ Untouched(j.tok) /\ j.tok \in 1..used.captures
    BY <1>0, BoundsAssumption
       DEF SessionInv, SessionTypeOK, CapturesBeginUntouched, Spent, Tokens
  <2>2. /\ disk.file \in [Tokens -> Files] /\ disk.rec \in [Tokens -> Recorded]
        /\ disk.scans \in [Tokens -> Nat]
        /\ disk = [file |-> disk.file, rec |-> disk.rec, scans |-> disk.scans, late |-> disk.late]
    BY <1>0 DEF SessionTypeOK, IsDisk
  <2>3. /\ disk'.file = [disk.file EXCEPT ![j.tok] = "reserved"]
        /\ disk'.rec = [disk.rec EXCEPT ![j.tok] = "Captured"]
        /\ disk'.scans = disk.scans /\ disk'.late = disk.late
        /\ disk' = [file |-> disk'.file, rec |-> disk'.rec, scans |-> disk'.scans, late |-> disk'.late]
    BY <1>4, <2>2
  <2>4. IsDisk(disk)'
    <3>1. "reserved" \in Files /\ "Captured" \in Recorded
      BY DEF Files, Recorded
    <3>2. [disk.file EXCEPT ![j.tok] = "reserved"] \in [Tokens -> Files]
      BY <2>2, <3>1, ExceptType, Zenon
    <3>3. [disk.rec EXCEPT ![j.tok] = "Captured"] \in [Tokens -> Recorded]
      BY <2>2, <3>1, ExceptType, Zenon
    <3> QED BY <2>2, <2>3, <3>2, <3>3 DEF IsDisk
  <2>5. \A t \in Tokens : t # j.tok => (Untouched(t) => Untouched(t)')
    BY <2>2, <2>3 DEF Untouched
  <2>6. \A k \in jobs' : Other(k) \/ (k \in jobs /\ k # j)
    <3>1. Other([j EXCEPT !.at = "main", !.out = "ok"])
      BY <1>0, MovedJob
    <3> QED BY <1>4, <3>1, KeptResult DEF Ends, DoneAnd
  <2>7. SessionTypeOK'
    <3>1. \A k \in jobs' : IsJob(k) /\ IsWriter(k)
      BY <1>0, <2>6, OtherIsWriter DEF SessionTypeOK, Other
    <3> QED BY <1>0, <1>2, <2>4, <3>1 DEF SessionTypeOK, UsedStep, IsJob, IsWriter
  <2>8. \A k \in jobs' : k.tok = j.tok => ~Preparing(k) /\ k.at \notin Working
    BY <1>0, <2>6 DEF SessionInv, CapturesBeginUntouched, Other
  <2>9. CapturesBeginUntouched'
    <3>0. used'.captures = used.captures /\ used.captures \in Nat
      BY <1>0, <1>2 DEF UsedStep, SessionTypeOK, Spent
    <3>1. \A t \in Tokens : t > used'.captures => Untouched(t)'
      <4> SUFFICES ASSUME NEW t \in Tokens, t > used.captures PROVE Untouched(t)'
        BY <3>0
      <4>1. t # j.tok
        BY <2>1, <3>0 DEF Tokens
      <4>2. Untouched(t)
        BY DEF SessionInv, CapturesBeginUntouched
      <4> QED BY <2>5, <4>1, <4>2
    <3>2. ASSUME NEW k \in jobs', Preparing(k)
          PROVE  k.tok \in 1..used'.captures /\ Untouched(k.tok)'
      <4>1. k \in jobs
        BY <2>6, <3>2 DEF Other
      <4>2. k.tok \in 1..used.captures /\ Untouched(k.tok)
        BY <3>2, <4>1 DEF SessionInv, CapturesBeginUntouched
      <4>3. k.tok \in Tokens
        BY <1>0, <4>2, BoundsAssumption DEF SessionTypeOK, Spent, Tokens
      <4>4. k.tok # j.tok
        BY <2>8, <3>2
      <4> QED BY <2>5, <3>0, <4>2, <4>3, <4>4
    <3>3. \A k, m \in jobs' : Preparing(k) /\ Preparing(m) /\ k.tok = m.tok => k = m
      BY <2>6 DEF Other, SessionInv, CapturesBeginUntouched
    <3>4. ASSUME NEW k \in jobs', k.at \in Working
          PROVE  /\ k.tok \in Tokens => k.tok <= used'.captures
                 /\ \A m \in jobs' : Preparing(m) => m.tok # k.tok
      BY <2>6, <3>0, <3>4 DEF Other, SessionInv, CapturesBeginUntouched
    <3> QED BY <3>1, <3>2, <3>3, <3>4 DEF CapturesBeginUntouched, Preparing
  <2>10. OneRegistration'
    <3>1. ASSUME NEW k \in jobs', NEW m \in jobs', Critical(k), Critical(m) PROVE k = m
      BY <2>6, <3>1, OtherIsWriter DEF SessionInv, OneRegistration
    <3> QED BY <3>1 DEF OneRegistration, Critical
  <2>11. ASSUME NEW t \in Tokens, t \notin disk'.late PROVE OnTime(t)'
    <3>1. CASE t = j.tok
      <4>1. disk'.scans[t] = 0
        BY <2>1, <2>3, <3>1 DEF Untouched
      <4>2. \A k \in jobs' : k.tok = t => ~k.fresh /\ ~Critical(k)
        BY <2>7, <2>8, <3>1 DEF SessionTypeOK, IsWriter, Critical, Reading, Working
      <4> QED BY <4>1, <4>2 DEF OnTime, Critical, Reviving
    <3>2. CASE t # j.tok
      <4>1. OnTime(t)
        BY <2>3, <2>11 DEF SessionInv
      <4>2. disk'.rec[t] = disk.rec[t] /\ disk'.scans[t] = disk.scans[t]
        BY <2>2, <2>3, <3>2
      <4>3. \A k \in jobs' : k.fresh \/ Critical(k) => k \in jobs
        BY <2>6, OtherIsWriter DEF Other
      <4> QED BY <4>1, <4>2, <4>3 DEF OnTime, Critical, Reviving
    <3> QED BY <3>1, <3>2
  <2> QED BY <2>7, <2>9, <2>10, <2>11 DEF SessionInv
<1> QED BY <1>3, <1>4 DEF PrepareIo

(* Cancelling coroutines keeps what they do. *)
LEMMA CancelledJob ==
  ASSUME NEW j, IsJob(j), NEW v, NEW w
  PROVE  /\ Marked([j EXCEPT !.cancelled = v], j)
         /\ Marked([j EXCEPT !.cancelled = v, !.current = w], j)
<1> DEFINE k == [j EXCEPT !.cancelled = v]
           m == [k EXCEPT !.current = w]
<1>1. IsJob(k) /\ Same(k, j)
  BY Set_cancelled
<1>2. [j EXCEPT !.cancelled = v, !.current = w] = m
  OBVIOUS
<1> HIDE DEF k
<1>3. IsJob(m) /\ Same(m, k)
  BY <1>1, Set_current
<1> HIDE DEF m
<1> QED BY <1>1, <1>2, <1>3 DEF k, Marked, Same

LEMMA RecomposeKeepsInv == SessionInv /\ Recompose => SessionInv'
<1> SUFFICES ASSUME SessionInv, Recompose PROVE SessionInv'
  OBVIOUS
<1> DEFINE r == Wanted.request
           Mark(i) == IF i.kind = "prepare" /\ i.screen = screen
                      THEN [i EXCEPT !.cancelled = TRUE] ELSE i
           F == [i \in jobs |-> Mark(i)]
           rest == {Mark(i) : i \in jobs}
           n == Job(screen, "prepare", used.captures + 1, r)
<1>1. \A i \in jobs : IsJob(i)
  BY DEF SessionInv, SessionTypeOK
<1>2. ASSUME NEW i \in jobs PROVE Marked(F[i], i)
  <2>1. Marked([i EXCEPT !.cancelled = TRUE], i)
    BY <1>1, CancelledJob, Zenon
  <2>2. Marked(i, i)
    BY <1>1 DEF Marked, Same
  <2> QED BY <2>1, <2>2
<1>3. IsJob(n) /\ Preparing(n) /\ ~n.fresh /\ n.tok = used.captures + 1
  BY JobResult DEF Preparing
<1>4. /\ disk' = disk
      /\ \/ jobs' = rest /\ used' = used
         \/ /\ Left("captures", MaxCaptures) /\ Spend("captures")
            /\ jobs' = rest \cup {n}
  BY DEF Recompose
<1>5. \A k \in rest : \E i \in jobs : k = F[i]
  OBVIOUS
<1> HIDE DEF F, n, rest
<1>6. used \in Spent /\ used.captures \in Nat /\ used.captures <= MaxCaptures
  BY DEF SessionInv, SessionTypeOK, Spent
<1>a. DiskStep
  BY <1>4, UnchangedDisk DEF SessionInv
<1>7. CASE jobs' = rest /\ used' = used
  <2>1. \A k \in jobs' : \/ Other(k)
                         \/ \E i \in jobs : k = F[i]
                         \/ k = n /\ used'.captures = used.captures + 1
    BY <1>5, <1>7
  <2> QED BY <1>2, <1>3, <1>a, <1>6, <1>7, <2>1, MarkedJobsKeepInv
<1>8. CASE /\ Left("captures", MaxCaptures) /\ Spend("captures")
           /\ jobs' = rest \cup {n}
  <2>1. used' \in Spent /\ used'.captures = used.captures + 1
    BY <1>6, <1>8 DEF Spend, Spent
  <2>2. used'.captures <= MaxCaptures
    BY <1>6, <1>8, <2>1, BoundsAssumption DEF Left
  <2>3. \A k \in jobs' : \/ Other(k)
                         \/ \E i \in jobs : k = F[i]
                         \/ k = n /\ used'.captures = used.captures + 1
    BY <1>5, <1>8, <2>1
  <2> QED BY <1>2, <1>3, <1>a, <2>1, <2>2, <2>3, MarkedJobsKeepInv
<1> QED BY <1>4, <1>7, <1>8

LEMMA LeaveKeepsInv == SessionInv /\ Leave => SessionInv'
<1> SUFFICES ASSUME SessionInv, Leave PROVE SessionInv'
  OBVIOUS
<1> DEFINE F == [i \in jobs |-> [i EXCEPT !.cancelled = TRUE, !.current = FALSE]]
           kept == {k \in jobs : Writes(k)}
           rest == {[i EXCEPT !.cancelled = TRUE, !.current = FALSE] : i \in kept}
           n == Job(screen, "prepare", used.captures + 1, NoRequest)
           new == {Job(screen + 1, "notebooks", None, NoRequest),
                   Job(screen + 1, "refresh", None, NoRequest)}
<1>1. \A i \in jobs : IsJob(i)
  BY DEF SessionInv, SessionTypeOK
<1>2. ASSUME NEW i \in jobs PROVE Marked(F[i], i)
  BY <1>1, CancelledJob, Zenon
<1>3. IsJob(n) /\ Preparing(n) /\ ~n.fresh /\ n.tok = used.captures + 1
  BY JobResult DEF Preparing
<1>4. disk' = disk /\ jobs' = rest \cup new
  BY Zenon DEF Leave
<1>5. \A k \in rest : \E i \in jobs : k = F[i]
  <2> SUFFICES ASSUME NEW k \in rest PROVE \E i \in jobs : k = F[i]
    BY Zenon
  <2>1. PICK i \in kept : k = [i EXCEPT !.cancelled = TRUE, !.current = FALSE]
    BY Zenon
  <2>2. i \in jobs
    BY Zenon
  <2>3. k = F[i]
    BY <2>1, <2>2, Zenon
  <2> QED BY <2>2, <2>3, Zenon
<1>6. \A k \in new : Other(k)
  BY NewJobIsOther
<1> HIDE DEF F, n, kept, rest, new
<1>7. UsedStep /\ DiskStep
  <2>1. Trouble
    BY Zenon DEF Leave
  <2> QED BY <1>4, <2>1, SpendResult, UnchangedDisk DEF SessionInv, Trouble
<1>8. /\ used' \in Spent /\ used'.captures = used.captures
      /\ used'.captures <= MaxCaptures
  BY <1>7 DEF UsedStep, SessionInv, SessionTypeOK
<1> QED BY <1>2, <1>3, <1>4, <1>5, <1>6, <1>7, <1>8, MarkedJobsKeepInv

-----------------------------------------------------------------------------
(* Theorems *)

LEMMA SessionInvInit == SessionInit => SessionInv
<1> SUFFICES ASSUME SessionInit PROVE SessionInv
  OBVIOUS
<1>1. disk = [file |-> [t \in Tokens |-> "none"], rec |-> NoList, scans |-> [t \in Tokens |-> 0],
              late |-> {}]
  BY DEF SessionInit
<1>2. \A t \in Tokens : Untouched(t)
  BY <1>1 DEF Untouched, NoList
<1>3. IsDisk(disk)
  BY <1>1 DEF IsDisk, NoList, Recorded, Files
<1>4. used \in Spent /\ used.captures <= MaxCaptures
  BY BoundsAssumption DEF SessionInit, Spent
<1>5. \A j \in jobs : Other(j)
  BY NewJobIsOther DEF SessionInit
<1>6. SessionTypeOK /\ OneRegistration
  BY <1>3, <1>4, <1>5, OtherIsWriter DEF SessionTypeOK, OneRegistration, Other
<1>7. CapturesBeginUntouched
  BY <1>2, <1>5 DEF CapturesBeginUntouched, Other
<1>8. \A t \in Tokens : OnTime(t)
  BY <1>2, <1>5, OtherIsWriter DEF OnTime, Untouched, Other
<1> QED BY <1>6, <1>7, <1>8 DEF SessionInv

LEMMA SessionInvStep == SessionInv /\ [SessionNext]_sessionVars => SessionInv'
<1> SUFFICES ASSUME SessionInv, [SessionNext]_sessionVars PROVE SessionInv'
  OBVIOUS
<1>0. SessionTypeOK
  BY DEF SessionInv
<1>1. CASE UNCHANGED sessionVars
  <2>1. QuietStep
    BY <1>0, <1>1, UnchangedDisk, UnchangedJobs, UnchangedUsed DEF sessionVars, QuietStep
  <2> QED BY <2>1, QuietStepKeepsInv
<1>2. CASE User
  <2>1. CASE Leave
    BY <2>1, LeaveKeepsInv
  <2>2. CASE ~Leave
    BY <1>0, <1>2, <2>2, UserIsQuiet, QuietStepKeepsInv
  <2> QED BY <2>1, <2>2
<1>3. CASE Recompose
  BY <1>3, RecomposeKeepsInv
<1>4. CASE CameraStep
  BY <1>0, <1>4, CameraIsQuiet, QuietStepKeepsInv
<1>5. ASSUME NEW j \in jobs, JobStep(j) PROVE SessionInv'
  <2>1. CASE PrepareIo(j)
    BY <2>1, PrepareIoKeepsInv
  <2>2. CASE RecordStep(j)
    BY <2>2, RecordStepsKeepInv
  <2>3. CASE ~PrepareIo(j) /\ ~RecordStep(j)
    <3>1. QuietStep
      BY <1>0, <1>5, <2>3, RefreshIoIsQuiet, ProcessIoIsQuiet, ProcessingIsQuiet,
         ContinuationIsQuiet, PreparedIsQuiet
      DEF JobStep
    <3> QED BY <3>1, QuietStepKeepsInv
  <2> QED BY <2>1, <2>2, <2>3
<1>6. CASE Killed
  BY <1>0, <1>6, DiesResult, QuietStepKeepsInv DEF Killed
<1>7. CASE Passes
  <2>1. QuietStep
    BY <1>0, <1>7, UnchangedDisk, UnchangedJobs, SpendResult DEF Passes, Trouble, QuietStep
  <2> QED BY <2>1, QuietStepKeepsInv
<1> QED BY <1>1, <1>2, <1>3, <1>4, <1>5, <1>6, <1>7 DEF SessionNext

(* A picture is registered at most once, and a registered one is never     *)
(* offered for review again, unless its record was recovered or marked     *)
(* late: approvals, retakes, recoveries, reconciliation and new screens    *)
(* may come to it in any order, and between any reading of the record and  *)
(* the write that rests on it.                                             *)
THEOREM PictureRegisteredOnce == SessionSpec => []RegisteredOnce
<1>1. SessionInv => RegisteredOnce
  BY DEF SessionInv, RegisteredOnce, OnTime
<1> QED BY <1>1, SessionInvInit, SessionInvStep, PTL DEF SessionSpec

-----------------------------------------------------------------------------
(* The correction of perspective.                                             *)

\* What a transform does to a pixel, before the sign of the weight is made positive.
Raw(m, x, y, k) == m[1][k] * (x - Inset) + m[2][k] * (y - Inset) + m[3][k] * (Out - 1 - 2 * Inset)

Column == Int \X Int \X Int
Spot   == Int \X Int \X Int

\* The determinant of which Cross is the sign.
Det(a, b, c) ==
      a[1] * (b[2] * c[3] - b[3] * c[2])
    - a[2] * (b[1] * c[3] - b[3] * c[1])
    + a[3] * (b[1] * c[2] - b[2] * c[1])

LEMMA CrossIsSign == \A a, b, c : Picture!Cross(a, b, c) = Picture!Sign(Det(a, b, c))
BY DEF Picture!Cross, Det

\* The images of the page's corners are the corners of a parallelogram before
\* they are scaled: all four triples of neighbours span the same volume.
LEMMA SameVolume ==
  ASSUME NEW a \in Column, NEW b \in Column, NEW c \in Column, NEW d \in Column,
         \A k \in 1 .. 3 : d[k] = a[k] + c[k] - b[k]
  PROVE  /\ Det(a, b, c) \in Int
         /\ Det(b, c, d) = Det(a, b, c)
         /\ Det(c, d, a) = Det(a, b, c)
         /\ Det(d, a, b) = Det(a, b, c)
<1>0. \A e \in Column : \E e1, e2, e3 \in Int : e = <<e1, e2, e3>>
  BY DEF Column
<1>1. /\ \E a1, a2, a3 \in Int : a = <<a1, a2, a3>>
      /\ \E b1, b2, b3 \in Int : b = <<b1, b2, b3>>
      /\ \E c1, c2, c3 \in Int : c = <<c1, c2, c3>>
  BY <1>0
<1>1a. PICK a1, a2, a3 \in Int : a = <<a1, a2, a3>>
  BY <1>1
<1>1b. PICK b1, b2, b3 \in Int : b = <<b1, b2, b3>>
  BY <1>1
<1>1c. PICK c1, c2, c3 \in Int : c = <<c1, c2, c3>>
  BY <1>1
<1>2. \A k \in {1, 2, 3} : d[k] = a[k] + c[k] - b[k]
  OBVIOUS
<1>3. d[1] = a1 + c1 - b1 /\ d[2] = a2 + c2 - b2 /\ d[3] = a3 + c3 - b3
  BY <1>1a, <1>1b, <1>1c, <1>2
<1> DEFINE d1 == a1 + c1 - b1
           d2 == a2 + c2 - b2
           d3 == a3 + c3 - b3
           v  == a1 * (b2 * c3 - b3 * c2) - a2 * (b1 * c3 - b3 * c1) + a3 * (b1 * c2 - b2 * c1)
<1>4. v \in Int
  OBVIOUS
<1>5. b1 * (c2 * d3 - c3 * d2) - b2 * (c1 * d3 - c3 * d1) + b3 * (c1 * d2 - c2 * d1) = v
  OBVIOUS
<1>6. c1 * (d2 * a3 - d3 * a2) - c2 * (d1 * a3 - d3 * a1) + c3 * (d1 * a2 - d2 * a1) = v
  OBVIOUS
<1>7. d1 * (a2 * b3 - a3 * b2) - d2 * (a1 * b3 - a3 * b1) + d3 * (a1 * b2 - a2 * b1) = v
  OBVIOUS
<1>8. Det(a, b, c) = v
  BY <1>1a, <1>1b, <1>1c DEF Det
<1> HIDE DEF v, d1, d2, d3
<1>9. d[1] = d1 /\ d[2] = d2 /\ d[3] = d3
  BY <1>3 DEF d1, d2, d3
<1>10. /\ Det(b, c, d) = b1 * (c2 * d3 - c3 * d2) - b2 * (c1 * d3 - c3 * d1) + b3 * (c1 * d2 - c2 * d1)
       /\ Det(c, d, a) = c1 * (d2 * a3 - d3 * a2) - c2 * (d1 * a3 - d3 * a1) + c3 * (d1 * a2 - d2 * a1)
       /\ Det(d, a, b) = d1 * (a2 * b3 - a3 * b2) - d2 * (a1 * b3 - a3 * b1) + d3 * (a1 * b2 - a2 * b1)
  BY <1>1a, <1>1b, <1>1c, <1>9 DEF Det
<1> QED BY <1>4, <1>5, <1>6, <1>7, <1>8, <1>10

Scaled(s, a) == <<s * a[1], s * a[2], s * a[3]>>

\* Columns that are scaled by signs span a volume whose sign is their product.
LEMMA ScaledVolume ==
  ASSUME NEW a \in Column, NEW b \in Column, NEW c \in Column,
         NEW s \in {-1, 1}, NEW t \in {-1, 1}, NEW u \in {-1, 1}
  PROVE  Det(Scaled(s, a), Scaled(t, b), Scaled(u, c)) = s * t * u * Det(a, b, c)
<1>0. \A e \in Column : \E e1, e2, e3 \in Int : e = <<e1, e2, e3>>
  BY DEF Column
<1>1. /\ \E a1, a2, a3 \in Int : a = <<a1, a2, a3>>
      /\ \E b1, b2, b3 \in Int : b = <<b1, b2, b3>>
      /\ \E c1, c2, c3 \in Int : c = <<c1, c2, c3>>
  BY <1>0
<1>1a. PICK a1, a2, a3 \in Int : a = <<a1, a2, a3>>
  BY <1>1
<1>1b. PICK b1, b2, b3 \in Int : b = <<b1, b2, b3>>
  BY <1>1
<1>1c. PICK c1, c2, c3 \in Int : c = <<c1, c2, c3>>
  BY <1>1
<1>2. /\ Scaled(s, a) = <<s * a1, s * a2, s * a3>>
      /\ Scaled(t, b) = <<t * b1, t * b2, t * b3>>
      /\ Scaled(u, c) = <<u * c1, u * c2, u * c3>>
  BY <1>1a, <1>1b, <1>1c DEF Scaled
<1> QED BY <1>1a, <1>1b, <1>1c, <1>2 DEF Det

\* Turns that are all alike come from signs that are all alike.
LEMMA SameSigns ==
  ASSUME NEW v \in Int, NEW s \in {-1, 1}, NEW t \in {-1, 1}, NEW u \in {-1, 1}, NEW w \in {-1, 1},
         NEW turns \in {-1, 1},
         Picture!Sign(s * t * u * v) = turns, Picture!Sign(t * u * w * v) = turns,
         Picture!Sign(u * w * s * v) = turns, Picture!Sign(w * s * t * v) = turns
  PROVE  s = t /\ t = u /\ u = w
<1>1. \A k \in {-1, 1} : Picture!Sign(k * v) = turns => (v > 0 /\ k = turns) \/ (v < 0 /\ k = -turns)
  BY DEF Picture!Sign
<1>2. /\ s * t * u \in {-1, 1} /\ t * u * w \in {-1, 1}
      /\ u * w * s \in {-1, 1} /\ w * s * t \in {-1, 1}
  OBVIOUS
<1>3. s * t * u = t * u * w /\ t * u * w = u * w * s /\ u * w * s = w * s * t
  BY <1>1, <1>2
<1> QED BY <1>3

\* A linear measure that is at least zero at four corners of a square is so inside.
LEMMA InsideSquare ==
  ASSUME NEW k \in Int, NEW a \in Int, NEW b \in Int, NEW n \in Nat,
         NEW x \in 0 .. n, NEW y \in 0 .. n,
         NEW low \in Int,
         k >= low, k + n * a >= low, k + n * b >= low, k + n * a + n * b >= low
  PROVE  k + x * a + y * b >= low
<1>1. a >= 0 => x * a >= 0
  OBVIOUS
<1>2. a < 0 => x * a >= n * a
  OBVIOUS
<1>3. b >= 0 => y * b >= 0
  OBVIOUS
<1>4. b < 0 => y * b >= n * b
  OBVIOUS
<1>5. x * a \in Int /\ y * b \in Int /\ n * a \in Int /\ n * b \in Int
  OBVIOUS
<1> QED BY <1>1, <1>2, <1>3, <1>4, <1>5

-----------------------------------------------------------------------------

LEMMA MatrixType ==
  ASSUME NEW quad, \A r \in 1 .. 4 : quad[r] \in Spot
  PROVE  LET m == Picture!FromQuad(quad) IN \A i \in 1 .. 3, k \in 1 .. 3 : m[i][k] \in Int
<1> DEFINE X(i) == quad[i][1]
           Y(i) == quad[i][2]
<1>1. \A i \in {1, 2, 3, 4} : X(i) \in Int /\ Y(i) \in Int
  BY DEF Spot
<1> HIDE DEF X, Y
<1> DEFINE dx1 == X(2) - X(3)
           dx2 == X(4) - X(3)
           sx  == X(1) - X(2) + X(3) - X(4)
           dy1 == Y(2) - Y(3)
           dy2 == Y(4) - Y(3)
           sy  == Y(1) - Y(2) + Y(3) - Y(4)
           det == dx1 * dy2 - dx2 * dy1
           g   == sx * dy2 - sy * dx2
           h   == dx1 * sy - dy1 * sx
<1>2. det \in Int /\ g \in Int /\ h \in Int
  BY <1>1
<1>3. Picture!FromQuad(quad) =
        <<<<(X(2) - X(1)) * det + g * X(2), (Y(2) - Y(1)) * det + g * Y(2), g>>,
          <<(X(4) - X(1)) * det + h * X(4), (Y(4) - Y(1)) * det + h * Y(4), h>>,
          <<X(1) * det, Y(1) * det, det>>>>
  BY DEF Picture!FromQuad, X, Y
<1> HIDE DEF det, g, h
<1>4. \A i \in {1, 2, 3}, k \in {1, 2, 3} : Picture!FromQuad(quad)[i][k] \in Int
  <2>1. /\ (X(2) - X(1)) * det + g * X(2) \in Int /\ (Y(2) - Y(1)) * det + g * Y(2) \in Int
        /\ (X(4) - X(1)) * det + h * X(4) \in Int /\ (Y(4) - Y(1)) * det + h * Y(4) \in Int
        /\ X(1) * det \in Int /\ Y(1) * det \in Int
    BY <1>1, <1>2
  <2> QED BY <1>2, <1>3, <2>1
<1>5. 1 .. 3 = {1, 2, 3}
  OBVIOUS
<1> QED BY <1>4, <1>5

Flip(w) == IF w < 0 THEN -1 ELSE 1

Column3(m, x, y) == <<Raw(m, x, y, 1), Raw(m, x, y, 2), Raw(m, x, y, 3)>>

LEMMA SourceOf ==
  \A m, pixel :
     LET q == Column3(m, pixel[1], pixel[2])
     IN  Picture!ToSource(m, pixel) = Scaled(Flip(q[3]), q)
BY DEF Picture!ToSource, Raw, Flip, Column3, Scaled

\* What a transform does to a pixel is linear in where the pixel is.
LEMMA RawIsLinear ==
  ASSUME NEW m, \A i \in 1 .. 3, k \in 1 .. 3 : m[i][k] \in Int, Inset \in Int, Out \in Int,
         NEW k \in 1 .. 3
  PROVE  /\ m[1][k] \in Int /\ m[2][k] \in Int
         /\ \A x, y \in Int :
               Raw(m, x, y, k) \in Int /\ Raw(m, x, y, k) = Raw(m, 0, 0, k) + x * m[1][k] + y * m[2][k]
<1>1. m[1][k] \in Int /\ m[2][k] \in Int /\ m[3][k] \in Int
  OBVIOUS
<1> DEFINE a == m[1][k]
           b == m[2][k]
           c == m[3][k]
<1>2. \A x, y : Raw(m, x, y, k) = a * (x - Inset) + b * (y - Inset) + c * (Out - 1 - 2 * Inset)
  BY DEF Raw
<1> HIDE DEF a, b, c
<1>3. a \in Int /\ b \in Int /\ c \in Int
  BY <1>1 DEF a, b, c
<1>4. ASSUME NEW x \in Int, NEW y \in Int
      PROVE  Raw(m, x, y, k) \in Int /\ Raw(m, x, y, k) = Raw(m, 0, 0, k) + x * a + y * b
  BY <1>2, <1>3
<1> QED BY <1>1, <1>4 DEF a, b

\* The corners of the page, when they make a page in the picture, were all scaled
\* by the same sign.
LEMMA CornersAgree ==
  ASSUME NEW m, \A i \in 1 .. 3, k \in 1 .. 3 : m[i][k] \in Int,
         Inset \in Int, Out \in Nat, Out > 0,
         NEW corners, corners = [i \in 1 .. 4 |-> Picture!ToSource(m, Picture!PageCorners[i])],
         Picture!WithinImage(corners)
  PROVE  LET n == Out - 1
             A == Column3(m, 0, 0)
             B == Column3(m, n, 0)
             C == Column3(m, n, n)
             D == Column3(m, 0, n)
             s == Flip(A[3])
         IN  /\ A \in Column /\ B \in Column /\ C \in Column /\ D \in Column
             /\ corners[1] = Scaled(s, A) /\ corners[2] = Scaled(s, B)
             /\ corners[3] = Scaled(s, C) /\ corners[4] = Scaled(s, D)
<1> DEFINE n == Out - 1
           A == Column3(m, 0, 0)
           B == Column3(m, n, 0)
           C == Column3(m, n, n)
           D == Column3(m, 0, n)
           s == Flip(A[3])
           t == Flip(B[3])
           u == Flip(C[3])
           w == Flip(D[3])
<1>1. n \in Int /\ 0 \in Int
  OBVIOUS
<1>2. /\ A \in Column /\ B \in Column /\ C \in Column /\ D \in Column
      /\ \A k \in 1 .. 3 : D[k] = A[k] + C[k] - B[k]
  <2>1. \A x, y \in Int : Column3(m, x, y) \in Column
    BY RawIsLinear DEF Column3, Column
  <2>2. ASSUME NEW k \in 1 .. 3 PROVE D[k] = A[k] + C[k] - B[k]
    <3>1. /\ m[1][k] \in Int /\ m[2][k] \in Int
          /\ A[k] = Raw(m, 0, 0, k) /\ B[k] = Raw(m, n, 0, k)
          /\ C[k] = Raw(m, n, n, k) /\ D[k] = Raw(m, 0, n, k)
      BY RawIsLinear DEF Column3
    <3>2. /\ A[k] \in Int
          /\ B[k] = A[k] + n * m[1][k] + 0 * m[2][k]
          /\ C[k] = A[k] + n * m[1][k] + n * m[2][k]
          /\ D[k] = A[k] + 0 * m[1][k] + n * m[2][k]
      BY <1>1, <3>1, RawIsLinear
    <3> HIDE DEF A, B, C, D, n
    <3>3. n * m[1][k] \in Int /\ n * m[2][k] \in Int
      BY <1>1, <3>1
    <3>4. 0 * m[1][k] = 0 /\ 0 * m[2][k] = 0
      BY <3>1
    <3> QED BY <3>2, <3>3, <3>4
  <2> QED BY <1>1, <2>1, <2>2
<1>3. s \in {-1, 1} /\ t \in {-1, 1} /\ u \in {-1, 1} /\ w \in {-1, 1}
  BY DEF Flip
<1>4. /\ corners[1] = Scaled(s, A) /\ corners[2] = Scaled(t, B)
      /\ corners[3] = Scaled(u, C) /\ corners[4] = Scaled(w, D)
  <2>1. \A i \in {1, 2, 3, 4} : corners[i] = Picture!ToSource(m, Picture!PageCorners[i])
    OBVIOUS
  <2>2. /\ Picture!PageCorners[1][1] = 0 /\ Picture!PageCorners[1][2] = 0
        /\ Picture!PageCorners[2][1] = n /\ Picture!PageCorners[2][2] = 0
        /\ Picture!PageCorners[3][1] = n /\ Picture!PageCorners[3][2] = n
        /\ Picture!PageCorners[4][1] = 0 /\ Picture!PageCorners[4][2] = n
    BY DEF Picture!PageCorners, Picture!Point
  <2> HIDE DEF n
  <2> QED BY <2>1, <2>2, SourceOf, Zenon
<1> HIDE DEF A, B, C, D, s, t, u, w, n
<1> DEFINE v == Det(A, B, C)
<1>5. PICK turns \in {-1, 1} :
        /\ Picture!Cross(corners[1], corners[2], corners[3]) = turns
        /\ Picture!Cross(corners[2], corners[3], corners[4]) = turns
        /\ Picture!Cross(corners[3], corners[4], corners[1]) = turns
        /\ Picture!Cross(corners[4], corners[1], corners[2]) = turns
  <2>1. PICK turns \in {-1, 1} : \A i \in 0 .. 3 :
           Picture!Cross(corners[(i % 4) + 1], corners[((i + 1) % 4) + 1], corners[((i + 2) % 4) + 1]) = turns
    BY DEF Picture!WithinImage, Picture!Valid
  <2>2. /\ 0 % 4 = 0 /\ 1 % 4 = 1 /\ 2 % 4 = 2 /\ 3 % 4 = 3 /\ 4 % 4 = 0 /\ 5 % 4 = 1
    OBVIOUS
  <2> QED BY <2>1, <2>2
<1>6. v \in Int /\ Det(B, C, D) = v /\ Det(C, D, A) = v /\ Det(D, A, B) = v
  BY <1>2, SameVolume
<1>7. /\ Det(corners[1], corners[2], corners[3]) = s * t * u * v
      /\ Det(corners[2], corners[3], corners[4]) = t * u * w * v
      /\ Det(corners[3], corners[4], corners[1]) = u * w * s * v
      /\ Det(corners[4], corners[1], corners[2]) = w * s * t * v
  BY <1>2, <1>3, <1>4, <1>6, ScaledVolume
<1>8. s = t /\ t = u /\ u = w
  <2>1. /\ Picture!Sign(s * t * u * v) = turns /\ Picture!Sign(t * u * w * v) = turns
        /\ Picture!Sign(u * w * s * v) = turns /\ Picture!Sign(w * s * t * v) = turns
    BY <1>5, <1>7, CrossIsSign
  <2> QED BY <1>3, <1>6, <2>1, SameSigns
<1> QED BY <1>2, <1>4, <1>8 DEF s, t, u, w, A, B, C, D, n

\* A linear measure of a column, and a column that is the sum of multiples of others.
Measure(e1, e2, e3, v) == e1 * v[1] + e2 * v[2] + e3 * v[3]

Combines(q, a, x, p, y, r) ==
    /\ q[1] = a[1] + x * p[1] + y * r[1]
    /\ q[2] = a[2] + x * p[2] + y * r[2]
    /\ q[3] = a[3] + x * p[3] + y * r[3]

LEMMA MeasureOfSum ==
  ASSUME NEW e1 \in Int, NEW e2 \in Int, NEW e3 \in Int,
         NEW a \in Column, NEW p \in Column, NEW r \in Column, NEW x \in Int, NEW y \in Int,
         NEW q, Combines(q, a, x, p, y, r)
  PROVE  Measure(e1, e2, e3, q)
           = Measure(e1, e2, e3, a) + x * Measure(e1, e2, e3, p) + y * Measure(e1, e2, e3, r)
<1>0. \A e \in Column : \E f1, f2, f3 \in Int : e = <<f1, f2, f3>>
  BY DEF Column
<1>1. PICK a1, a2, a3 \in Int : a = <<a1, a2, a3>>
  BY <1>0, Zenon
<1>2. PICK p1, p2, p3 \in Int : p = <<p1, p2, p3>>
  BY <1>0, Zenon
<1>3. PICK r1, r2, r3 \in Int : r = <<r1, r2, r3>>
  BY <1>0, Zenon
<1>4. q[1] = a1 + x * p1 + y * r1 /\ q[2] = a2 + x * p2 + y * r2 /\ q[3] = a3 + x * p3 + y * r3
  BY <1>1, <1>2, <1>3 DEF Combines
<1>5. e1 * (a1 + x * p1 + y * r1) + e2 * (a2 + x * p2 + y * r2) + e3 * (a3 + x * p3 + y * r3)
        = (e1 * a1 + e2 * a2 + e3 * a3) + x * (e1 * p1 + e2 * p2 + e3 * p3)
            + y * (e1 * r1 + e2 * r2 + e3 * r3)
  OBVIOUS
<1> QED BY <1>1, <1>2, <1>3, <1>4, <1>5 DEF Measure

\* A pixel between corners that are in the picture is in the picture.
LEMMA PageInside ==
  ASSUME NEW quad, \A r \in 1 .. 4 : quad[r] \in Spot, Out > 0,
         Picture!WithinImage(Picture!SourceCorners(quad))
  PROVE  \A pixel \in Picture!Pixels : Picture!Samples(quad, pixel)
<1> SUFFICES ASSUME NEW x \in 0 .. Out - 1, NEW y \in 0 .. Out - 1
             PROVE  Picture!Samples(quad, Picture!Point(x, y))
  BY DEF Picture!Pixels
<1> DEFINE m == Picture!FromQuad(quad)
           n == Out - 1
           A == Column3(m, 0, 0)
           B == Column3(m, n, 0)
           C == Column3(m, n, n)
           D == Column3(m, 0, n)
           Q == Column3(m, x, y)
           s == Flip(A[3])
           corners == Picture!SourceCorners(quad)
<1>0. Out \in Nat /\ Inset \in Int /\ Side \in Nat
  BY GeometryAssumption
<1>1. \A i \in 1 .. 3, k \in 1 .. 3 : m[i][k] \in Int
  BY MatrixType
<1>2. /\ A \in Column /\ B \in Column /\ C \in Column /\ D \in Column
      /\ corners[1] = Scaled(s, A) /\ corners[2] = Scaled(s, B)
      /\ corners[3] = Scaled(s, C) /\ corners[4] = Scaled(s, D)
  <2>1. corners = [i \in 1 .. 4 |-> Picture!ToSource(m, Picture!PageCorners[i])]
    BY DEF Picture!SourceCorners
  <2>2. Picture!WithinImage(corners)
    OBVIOUS
  <2> HIDE DEF m, corners
  <2> QED BY <1>0, <1>1, <2>1, <2>2, CornersAgree
<1>3. ASSUME NEW k \in 1 .. 3
      PROVE  /\ m[1][k] \in Int /\ m[2][k] \in Int /\ A[k] \in Int /\ Q[k] \in Int
             /\ Q[k] = A[k] + x * m[1][k] + y * m[2][k]
             /\ B[k] = A[k] + n * m[1][k]
             /\ C[k] = A[k] + n * m[1][k] + n * m[2][k]
             /\ D[k] = A[k] + n * m[2][k]
  <2>1. n \in Int /\ 0 \in Int /\ x \in Int /\ y \in Int
    BY <1>0
  <2>2. /\ A[k] = Raw(m, 0, 0, k) /\ B[k] = Raw(m, n, 0, k) /\ Q[k] = Raw(m, x, y, k)
        /\ C[k] = Raw(m, n, n, k) /\ D[k] = Raw(m, 0, n, k)
    BY DEF Column3
  <2> HIDE DEF m, n, A, B, C, D, Q
  <2>3. /\ m[1][k] \in Int /\ m[2][k] \in Int /\ A[k] \in Int /\ Q[k] \in Int
        /\ Q[k] = A[k] + x * m[1][k] + y * m[2][k]
        /\ B[k] = A[k] + n * m[1][k] + 0 * m[2][k]
        /\ C[k] = A[k] + n * m[1][k] + n * m[2][k]
        /\ D[k] = A[k] + 0 * m[1][k] + n * m[2][k]
    BY <1>0, <1>1, <2>1, <2>2, RawIsLinear
  <2>4. 0 * m[1][k] = 0 /\ 0 * m[2][k] = 0 /\ n * m[1][k] \in Int /\ n * m[2][k] \in Int
    BY <2>1, <2>3
  <2> QED BY <2>3, <2>4
<1>4. s \in {-1, 1}
  BY DEF Flip
<1>5. /\ \A i \in 1 .. 4 : corners[i][3] > 0 /\ Picture!Inside(corners[i])
  BY DEF Picture!WithinImage
<1>6. Picture!ToSource(m, Picture!Point(x, y)) = Scaled(Flip(Q[3]), Q)
  BY SourceOf DEF Picture!Point
<1>7. n \in Nat /\ x \in 0 .. n /\ y \in 0 .. n
  BY <1>0
<1>15. m[1] \in Column /\ m[2] \in Column
  BY <1>1 DEF Picture!FromQuad, Column
<1> HIDE DEF A, B, C, D, Q, s, m, n, corners
\* A linear measure that is not below a bound at the corners is not below it here.
<1>8. ASSUME NEW e1 \in Int, NEW e2 \in Int, NEW e3 \in Int, NEW low \in Int,
             \A V \in {A, B, C, D} : e1 * V[1] + e2 * V[2] + e3 * V[3] >= low
      PROVE  e1 * Q[1] + e2 * Q[2] + e3 * Q[3] >= low
  <2> DEFINE M(V) == Measure(e1, e2, e3, V)
             a == M(m[1])
             b == M(m[2])
             c == M(A)
  <2>1. A \in Column /\ m[1] \in Column /\ m[2] \in Column /\ n \in Int /\ x \in Int /\ y \in Int /\ 0 \in Int
    BY <1>2, <1>7, <1>15
  <2>2. a \in Int /\ b \in Int /\ c \in Int
    BY <2>1 DEF Column, Measure
  <2>3. 1 \in 1 .. 3 /\ 2 \in 1 .. 3 /\ 3 \in 1 .. 3
    OBVIOUS
  <2>4. ASSUME NEW k \in 1 .. 3
        PROVE  /\ B[k] = A[k] + n * m[1][k] + 0 * m[2][k]
               /\ D[k] = A[k] + 0 * m[1][k] + n * m[2][k]
    <3>1. /\ B[k] = A[k] + n * m[1][k] /\ D[k] = A[k] + n * m[2][k]
          /\ A[k] \in Int /\ m[1][k] \in Int /\ m[2][k] \in Int
      BY <1>3
    <3>2. /\ 0 * m[1][k] = 0 /\ 0 * m[2][k] = 0
          /\ n * m[1][k] \in Int /\ n * m[2][k] \in Int
      BY <2>1, <3>1
    <3> QED BY <3>1, <3>2
  <2>5. /\ Combines(Q, A, x, m[1], y, m[2])
        /\ Combines(B, A, n, m[1], 0, m[2])
        /\ Combines(C, A, n, m[1], n, m[2])
        /\ Combines(D, A, 0, m[1], n, m[2])
    BY <1>3, <2>3, <2>4, Zenon DEF Combines
  <2>6. /\ M(Q) = c + x * a + y * b
        /\ M(B) = c + n * a + 0 * b
        /\ M(C) = c + n * a + n * b
        /\ M(D) = c + 0 * a + n * b
    BY <2>1, <2>5, MeasureOfSum
  <2>7. M(A) >= low /\ M(B) >= low /\ M(C) >= low /\ M(D) >= low
    BY <1>8 DEF Measure
  <2> HIDE DEF a, b, M
  <2>8. c \in Int /\ c = M(A)
    BY <2>2
  <2> HIDE DEF c
  <2>9. n * a \in Int /\ n * b \in Int /\ 0 * a = 0 /\ 0 * b = 0
    BY <2>1, <2>2
  <2>10. c >= low /\ c + n * a >= low /\ c + n * b >= low /\ c + n * a + n * b >= low
    BY <2>2, <2>6, <2>7, <2>8, <2>9
  <2>11. c + x * a + y * b >= low
    BY <1>7, <2>2, <2>10, InsideSquare
  <2>12. M(Q) >= low
    BY <2>6, <2>11
  <2> QED BY <2>12 DEF M, Measure
<1>9. ASSUME NEW V \in {A, B, C, D}
      PROVE  /\ V[1] \in Int /\ V[2] \in Int /\ V[3] \in Int
             /\ s * V[3] > 0
             /\ s * V[1] >= 0 /\ s * V[1] <= (Side - 1) * (s * V[3])
             /\ s * V[2] >= 0 /\ s * V[2] <= (Side - 1) * (s * V[3])
  <2>1. PICK i \in 1 .. 4 : corners[i] = Scaled(s, V)
    BY <1>2
  <2>2. /\ corners[i][1] = s * V[1] /\ corners[i][2] = s * V[2] /\ corners[i][3] = s * V[3]
    BY <2>1 DEF Scaled
  <2>3. V \in Column
    BY <1>2
  <2> QED BY <1>0, <1>4, <1>5, <2>2, <2>3 DEF Picture!Inside, Column
<1>10. Q[1] \in Int /\ Q[2] \in Int /\ Q[3] \in Int
  BY <1>3
<1>11. s * Q[3] > 0
  <2>1. \A V \in {A, B, C, D} : 0 * V[1] + 0 * V[2] + s * V[3] >= 1
    BY <1>4, <1>9
  <2>2. 0 * Q[1] + 0 * Q[2] + s * Q[3] >= 1
    BY <1>4, <1>8, <2>1
  <2> QED BY <1>4, <1>10, <2>2
<1>12. Flip(Q[3]) = s
  BY <1>4, <1>10, <1>11 DEF Flip
<1>13. s * Q[1] >= 0 /\ s * Q[2] >= 0
  <2>1. \A V \in {A, B, C, D} : s * V[1] + 0 * V[2] + 0 * V[3] >= 0
    BY <1>4, <1>9
  <2>2. \A V \in {A, B, C, D} : 0 * V[1] + s * V[2] + 0 * V[3] >= 0
    BY <1>4, <1>9
  <2>3. s * Q[1] + 0 * Q[2] + 0 * Q[3] >= 0 /\ 0 * Q[1] + s * Q[2] + 0 * Q[3] >= 0
    BY <1>4, <1>8, <2>1, <2>2
  <2> QED BY <1>4, <1>10, <2>3
<1>14. s * Q[1] <= (Side - 1) * (s * Q[3]) /\ s * Q[2] <= (Side - 1) * (s * Q[3])
  <2> DEFINE e == (Side - 1) * s
  <2>0. e \in Int /\ -s \in Int
    BY <1>0, <1>4
  <2>a. \A z \in Int : /\ e * z = (Side - 1) * (s * z) /\ e * z \in Int
                      /\ (-s) * z = -(s * z) /\ s * z \in Int /\ 0 * z = 0
    BY <1>0, <1>4
  <2> HIDE DEF e
  <2>b. ASSUME NEW z1 \in Int, NEW z2 \in Int, NEW z3 \in Int
        PROVE  /\ (-s) * z1 + 0 * z2 + e * z3 = (Side - 1) * (s * z3) - s * z1
               /\ 0 * z1 + (-s) * z2 + e * z3 = (Side - 1) * (s * z3) - s * z2
               /\ (Side - 1) * (s * z3) \in Int /\ s * z1 \in Int /\ s * z2 \in Int
    <3> DEFINE f == (Side - 1) * (s * z3)
               g1 == s * z1
               g2 == s * z2
    <3>1. /\ e * z3 = f /\ f \in Int /\ g1 \in Int /\ g2 \in Int /\ 0 * z2 = 0 /\ 0 * z1 = 0
          /\ (-s) * z1 = -g1 /\ (-s) * z2 = -g2
      BY <2>a
    <3> HIDE DEF f, g1, g2
    <3>2. /\ (-s) * z1 + 0 * z2 + e * z3 = f - g1
          /\ 0 * z1 + (-s) * z2 + e * z3 = f - g2
      BY <3>1
    <3> QED BY <3>1, <3>2 DEF f, g1, g2
  <2>c. ASSUME NEW V \in {A, B, C, D}
        PROVE  /\ (-s) * V[1] + 0 * V[2] + e * V[3] >= 0
               /\ 0 * V[1] + (-s) * V[2] + e * V[3] >= 0
    <3>0. V[1] \in Int /\ V[2] \in Int /\ V[3] \in Int
      BY <1>9, Zenon
    <3>1. /\ (-s) * V[1] + 0 * V[2] + e * V[3] = (Side - 1) * (s * V[3]) - s * V[1]
          /\ 0 * V[1] + (-s) * V[2] + e * V[3] = (Side - 1) * (s * V[3]) - s * V[2]
          /\ (Side - 1) * (s * V[3]) \in Int /\ s * V[1] \in Int /\ s * V[2] \in Int
      BY <2>b, <3>0, ZenonT(40)
    <3>2. s * V[1] <= (Side - 1) * (s * V[3]) /\ s * V[2] <= (Side - 1) * (s * V[3])
      BY <1>9, Zenon
    <3> QED BY <3>1, <3>2
  <2>1. \A V \in {A, B, C, D} : (-s) * V[1] + 0 * V[2] + e * V[3] >= 0
    BY <2>c, Zenon
  <2>2. \A V \in {A, B, C, D} : 0 * V[1] + (-s) * V[2] + e * V[3] >= 0
    BY <2>c, Zenon
  <2>3. (-s) * Q[1] + 0 * Q[2] + e * Q[3] >= 0 /\ 0 * Q[1] + (-s) * Q[2] + e * Q[3] >= 0
    BY <1>8, <2>0, <2>1, <2>2
  <2> QED BY <1>10, <2>b, <2>3
<1>16. Picture!ToSource(m, Picture!Point(x, y)) = <<s * Q[1], s * Q[2], s * Q[3]>>
  BY <1>6, <1>12 DEF Scaled
<1> QED BY <1>0, <1>10, <1>11, <1>13, <1>14, <1>16 DEF Picture!Samples, Picture!Inside, m

\* The places of the markers are pixels of the page.
LEMMA PlacesArePixels == \A r \in 1 .. 4 : Picture!MarkerPlaces[r] \in Picture!Pixels
<1>1. Inset \in 0 .. Out - 1 /\ Out - 1 - Inset \in 0 .. Out - 1
  BY GeometryAssumption
<1>2. \A r \in {1, 2, 3, 4} : Picture!MarkerPlaces[r] \in Picture!Pixels
  BY <1>1 DEF Picture!MarkerPlaces, Picture!Pixels
<1> QED BY <1>2

\* The transform sends the places of the markers to where the markers are.
LEMMA MarkersShown ==
  ASSUME NEW quad, \A r \in 1 .. 4 : quad[r] \in Spot,
         \A pixel \in Picture!Pixels : Picture!Samples(quad, pixel)
  PROVE  \A r \in 1 .. 4 : Picture!Shows(quad, Picture!MarkerPlaces[r], quad[r])
<1> DEFINE m == Picture!FromQuad(quad)
           X(i) == quad[i][1]
           Y(i) == quad[i][2]
           dx1 == X(2) - X(3)
           dx2 == X(4) - X(3)
           sx  == X(1) - X(2) + X(3) - X(4)
           dy1 == Y(2) - Y(3)
           dy2 == Y(4) - Y(3)
           sy  == Y(1) - Y(2) + Y(3) - Y(4)
           det == dx1 * dy2 - dx2 * dy1
           g   == sx * dy2 - sy * dx2
           h   == dx1 * sy - dy1 * sx
           unit == Out - 1 - 2 * Inset
<1>1. /\ X(1) \in Int /\ X(2) \in Int /\ X(3) \in Int /\ X(4) \in Int
      /\ Y(1) \in Int /\ Y(2) \in Int /\ Y(3) \in Int /\ Y(4) \in Int
  BY DEF Spot
<1>2. /\ m[1] = <<(X(2) - X(1)) * det + g * X(2), (Y(2) - Y(1)) * det + g * Y(2), g>>
      /\ m[2] = <<(X(4) - X(1)) * det + h * X(4), (Y(4) - Y(1)) * det + h * Y(4), h>>
      /\ m[3] = <<X(1) * det, Y(1) * det, det>>
  BY DEF Picture!FromQuad
<1>3. unit \in Int /\ Inset \in Int
  BY GeometryAssumption
<1>4. det \in Int /\ g \in Int /\ h \in Int
  <2> HIDE DEF X, Y
  <2> QED BY <1>1
\* What goes through the third marker: the projective transform is the one that fits it.
<1>5. /\ (X(2) - X(1)) * det + g * X(2) + (X(4) - X(1)) * det + h * X(4) + X(1) * det = X(3) * (g + h + det)
      /\ (Y(2) - Y(1)) * det + g * Y(2) + (Y(4) - Y(1)) * det + h * Y(4) + Y(1) * det = Y(3) * (g + h + det)
  <2> HIDE DEF X, Y
  <2>1. PICK x1, x2, x3, x4 \in Int : x1 = X(1) /\ x2 = X(2) /\ x3 = X(3) /\ x4 = X(4)
    BY <1>1
  <2>2. PICK y1, y2, y3, y4 \in Int : y1 = Y(1) /\ y2 = Y(2) /\ y3 = Y(3) /\ y4 = Y(4)
    BY <1>1
  <2> QED BY <2>1, <2>2
<1> HIDE DEF det, g, h, unit, m, X, Y
\* Each marker's image, as a multiple of the marker's place.
<1>6. ASSUME NEW q, NEW x \in Int, NEW y \in Int, NEW w \in Int,
             q = <<x * w, y * w, w>>, NEW s \in {-1, 1}
      PROVE  /\ Scaled(s, q)[1] = x * Scaled(s, q)[3]
             /\ Scaled(s, q)[2] = y * Scaled(s, q)[3]
  <2>1. Scaled(s, q) = <<s * (x * w), s * (y * w), s * w>>
    BY <1>6 DEF Scaled
  <2>2. s * (x * w) = x * (s * w) /\ s * (y * w) = y * (s * w)
    OBVIOUS
  <2> QED BY <2>1, <2>2
<1>7. ASSUME NEW r \in {1, 2, 3, 4}
      PROVE  \E w \in Int : Column3(m, Picture!MarkerPlaces[r][1], Picture!MarkerPlaces[r][2])
                               = <<X(r) * w, Y(r) * w, w>>
  <2> DEFINE near == Inset
             far  == Out - 1 - Inset
  <2>1. /\ near - Inset = 0 /\ far - Inset = unit
    BY <1>3, GeometryAssumption DEF unit
  <2>2. /\ Picture!MarkerPlaces[1][1] = near /\ Picture!MarkerPlaces[1][2] = near
        /\ Picture!MarkerPlaces[2][1] = far /\ Picture!MarkerPlaces[2][2] = near
        /\ Picture!MarkerPlaces[3][1] = far /\ Picture!MarkerPlaces[3][2] = far
        /\ Picture!MarkerPlaces[4][1] = near /\ Picture!MarkerPlaces[4][2] = far
    BY DEF Picture!MarkerPlaces, Picture!Point
  <2> HIDE DEF near, far
  <2>3. \A x, y : Column3(m, x, y) =
           <<m[1][1] * (x - Inset) + m[2][1] * (y - Inset) + m[3][1] * unit,
             m[1][2] * (x - Inset) + m[2][2] * (y - Inset) + m[3][2] * unit,
             m[1][3] * (x - Inset) + m[2][3] * (y - Inset) + m[3][3] * unit>>
    BY DEF Column3, Raw, unit
  <2>4. /\ m[1][1] = (X(2) - X(1)) * det + g * X(2) /\ m[1][2] = (Y(2) - Y(1)) * det + g * Y(2) /\ m[1][3] = g
        /\ m[2][1] = (X(4) - X(1)) * det + h * X(4) /\ m[2][2] = (Y(4) - Y(1)) * det + h * Y(4) /\ m[2][3] = h
        /\ m[3][1] = X(1) * det /\ m[3][2] = Y(1) * det /\ m[3][3] = det
    BY <1>2
  <2>5. /\ m[1][1] \in Int /\ m[1][2] \in Int /\ m[2][1] \in Int /\ m[2][2] \in Int
        /\ m[3][1] \in Int /\ m[3][2] \in Int
    BY <1>1, <1>4, <2>4
  <2>6. CASE r = 1
    <3>1. Column3(m, near, near) = <<m[3][1] * unit, m[3][2] * unit, det * unit>>
      BY <1>3, <1>4, <2>1, <2>3, <2>4, <2>5
    <3>2. m[3][1] * unit = X(1) * (det * unit) /\ m[3][2] * unit = Y(1) * (det * unit)
      BY <1>1, <1>3, <1>4, <2>4
    <3>3. det * unit \in Int
      BY <1>3, <1>4
    <3> QED BY <2>2, <2>6, <3>1, <3>2, <3>3
  <2>7. CASE r = 2
    <3>1. Column3(m, far, near) = <<(m[1][1] + m[3][1]) * unit, (m[1][2] + m[3][2]) * unit, (g + det) * unit>>
      BY <1>3, <1>4, <2>1, <2>3, <2>4, <2>5
    <3>2. /\ (m[1][1] + m[3][1]) * unit = X(2) * ((g + det) * unit)
          /\ (m[1][2] + m[3][2]) * unit = Y(2) * ((g + det) * unit)
      BY <1>1, <1>3, <1>4, <2>4
    <3>3. (g + det) * unit \in Int
      BY <1>3, <1>4
    <3> QED BY <2>2, <2>7, <3>1, <3>2, <3>3
  <2>8. CASE r = 3
    <3>1. Column3(m, far, far) = <<(m[1][1] + m[2][1] + m[3][1]) * unit,
                                   (m[1][2] + m[2][2] + m[3][2]) * unit, (g + h + det) * unit>>
      BY <1>3, <1>4, <2>1, <2>3, <2>4, <2>5
    <3>2. /\ m[1][1] + m[2][1] + m[3][1] = X(3) * (g + h + det)
          /\ m[1][2] + m[2][2] + m[3][2] = Y(3) * (g + h + det)
      BY <1>1, <1>4, <1>5, <2>4
    <3>3. \A z \in Int : (z * (g + h + det)) * unit = z * ((g + h + det) * unit)
      BY <1>3, <1>4
    <3>4. (g + h + det) * unit \in Int
      BY <1>3, <1>4
    <3> QED BY <1>1, <2>2, <2>8, <3>1, <3>2, <3>3, <3>4
  <2>9. CASE r = 4
    <3>1. Column3(m, near, far) = <<(m[2][1] + m[3][1]) * unit, (m[2][2] + m[3][2]) * unit, (h + det) * unit>>
      BY <1>3, <1>4, <2>1, <2>3, <2>4, <2>5
    <3>2. /\ (m[2][1] + m[3][1]) * unit = X(4) * ((h + det) * unit)
          /\ (m[2][2] + m[3][2]) * unit = Y(4) * ((h + det) * unit)
      BY <1>1, <1>3, <1>4, <2>4
    <3>3. (h + det) * unit \in Int
      BY <1>3, <1>4
    <3> QED BY <2>2, <2>9, <3>1, <3>2, <3>3
  <2> QED BY <2>6, <2>7, <2>8, <2>9
<1>8. ASSUME NEW r \in {1, 2, 3, 4}
      PROVE  Picture!Shows(quad, Picture!MarkerPlaces[r], quad[r])
  <2> DEFINE place == Picture!MarkerPlaces[r]
             q == Column3(m, place[1], place[2])
             p == Picture!ToSource(m, place)
  <2>1. PICK w \in Int : q = <<X(r) * w, Y(r) * w, w>>
    BY <1>7
  <2>2. p = Scaled(Flip(q[3]), q)
    BY SourceOf
  <2>3. Flip(q[3]) \in {-1, 1} /\ X(r) \in Int /\ Y(r) \in Int
    BY <1>1 DEF Flip
  <2>4. place \in Picture!Pixels
    BY PlacesArePixels
  <2>5. p[3] > 0
    BY <2>4 DEF Picture!Samples, m
  <2> HIDE DEF place, q, p
  <2>6. p[1] = X(r) * p[3] /\ p[2] = Y(r) * p[3]
    BY <1>6, <2>1, <2>2, <2>3, ZenonT(60)
  <2> QED BY <2>5, <2>6 DEF Picture!Shows, p, place, m, X, Y
<1> QED BY <1>8

-----------------------------------------------------------------------------
(* Sums over finite sets.                                                     *)

\* A set of naturals that is not empty has a least element.
LEMMA LeastNatural ==
  ASSUME NEW T \in SUBSET Nat, T # {}
  PROVE  \E n \in T : \A k \in T : n <= k
<1>1. PICK n \in T : \A k \in T : ~(<<k, n>> \in OpToRel(<, Nat))
  BY WFMin, NatLessThanWellFounded
<1>2. \A k \in T : ~(k < n)
  BY <1>1 DEF OpToRel
<1> QED BY <1>2

\* The element of a set that a fold takes first.
Taken(s) == CHOOSE x \in s : TRUE

LEMMA TakenIsElement == \A s : s # {} => Taken(s) \in s
BY DEF Taken

\* The equation a sum satisfies over the sets in a domain.
IsSum(it, f, dom) ==
    it = [s \in dom |-> IF s = {} THEN 0 ELSE f[Taken(s)] + it[s \ {Taken(s)}]]

\* What is left of a finite set when an element is taken is one smaller.
LEMMA LeftIsSmaller ==
  ASSUME NEW S, IsFiniteSet(S), NEW s \in SUBSET S
  PROVE  /\ Cardinality(s) \in Nat
         /\ s # {} => /\ s \ {Taken(s)} \in SUBSET S
                      /\ Cardinality(s) > 0
                      /\ Cardinality(s \ {Taken(s)}) = Cardinality(s) - 1
<1>1. IsFiniteSet(s)
  BY FS_Subset
<1>2. Cardinality(s) \in Nat
  BY <1>1, FS_CardinalityType
<1>3. ASSUME s # {} PROVE Cardinality(s \ {Taken(s)}) = Cardinality(s) - 1
  BY <1>1, <1>3, TakenIsElement, FS_RemoveElement
<1>4. ASSUME s # {} PROVE Cardinality(s) > 0
  BY <1>1, <1>2, <1>4, FS_EmptySet
<1> QED BY <1>2, <1>3, <1>4

\* What holds of the empty set, and of a set when it holds of what is left once an
\* element is taken, holds of all subsets.
LEMMA SubsetInduction ==
  ASSUME NEW S, IsFiniteSet(S), NEW T, {} \in T,
         \A s \in SUBSET S : s # {} /\ s \ {Taken(s)} \in T => s \in T
  PROVE  \A s \in SUBSET S : s \in T
<1> DEFINE bad == {n \in Nat : \E s \in SUBSET S : s \notin T /\ Cardinality(s) = n}
<1> SUFFICES ASSUME NEW s0 \in SUBSET S, s0 \notin T PROVE FALSE
  OBVIOUS
<1>1. bad # {}
  <2>1. Cardinality(s0) \in Nat
    BY LeftIsSmaller
  <2> QED BY <2>1
<1>2. PICK n \in bad : \A k \in bad : n <= k
  BY <1>1, LeastNatural
<1>3. PICK s \in SUBSET S : s \notin T /\ Cardinality(s) = n
  BY <1>2
<1>4. s # {} /\ s \ {Taken(s)} \notin T
  BY <1>3
<1>5. s \ {Taken(s)} \in SUBSET S /\ Cardinality(s \ {Taken(s)}) = n - 1 /\ n - 1 \in Nat
  BY <1>3, <1>4, LeftIsSmaller
<1>6. n - 1 \in bad
  BY <1>4, <1>5
<1> QED BY <1>2, <1>5, <1>6

\* There is a function that satisfies the equation of a sum.
LEMMA SumExists ==
  ASSUME NEW S, IsFiniteSet(S), NEW f
  PROVE  \E it : IsSum(it, f, SUBSET S)
<1> DEFINE Sub(n) == {s \in SUBSET S : Cardinality(s) <= n}
           bad == {n \in Nat : ~\E it : IsSum(it, f, Sub(n))}
<1>1. \A n \in Nat : \E it : IsSum(it, f, Sub(n))
  <2> SUFFICES ASSUME bad # {} PROVE FALSE
    OBVIOUS
  <2>1. PICK n \in bad : \A k \in bad : n <= k
    BY LeastNatural
  <2>2. CASE n = 0
    <3> DEFINE it == [s \in Sub(0) |-> 0]
    <3>1. \A s \in Sub(0) : s = {}
      <4> TAKE s \in Sub(0)
      <4>1. s \in SUBSET S /\ Cardinality(s) <= 0 /\ Cardinality(s) \in Nat
        BY LeftIsSmaller
      <4>2. s # {} => Cardinality(s) > 0
        BY <4>1, LeftIsSmaller
      <4> QED BY <4>1, <4>2
    <3>2. IsSum(it, f, Sub(0))
      BY <3>1 DEF IsSum
    <3> QED BY <2>1, <2>2, <3>2
  <2>3. CASE n # 0
    <3>1. n - 1 \in Nat /\ n - 1 \notin bad
      <4>1. n \in Nat
        BY <2>1
      <4>2. n - 1 \in Nat /\ ~(n <= n - 1)
        BY <4>1, <2>3
      <4> HIDE DEF bad
      <4> QED BY <2>1, <4>2
    <3>2. PICK g : IsSum(g, f, Sub(n - 1))
      BY <3>1
    <3> DEFINE it == [s \in Sub(n) |-> IF s = {} THEN 0 ELSE f[Taken(s)] + g[s \ {Taken(s)}]]
    <3>3. ASSUME NEW s \in Sub(n), s # {}
          PROVE  s \ {Taken(s)} \in Sub(n - 1) /\ s \ {Taken(s)} \in Sub(n)
      BY <2>1, <3>1, <3>3, LeftIsSmaller
    <3>4. \A s \in Sub(n - 1) : s \in Sub(n)
      <4> TAKE s \in Sub(n - 1)
      <4>1. s \in SUBSET S /\ Cardinality(s) <= n - 1
        OBVIOUS
      <4>2. Cardinality(s) \in Nat
        BY <4>1, LeftIsSmaller
      <4>3. n \in Nat
        BY <2>1
      <4> QED BY <4>1, <4>2, <4>3
    <3>5. \A s \in Sub(n - 1) : g[s] = IF s = {} THEN 0 ELSE f[Taken(s)] + g[s \ {Taken(s)}]
      BY <3>2 DEF IsSum
    <3>6. \A s \in Sub(n - 1) : it[s] = g[s]
      <4> HIDE DEF Sub
      <4> QED BY <3>4, <3>5
    <3>7. \A s \in Sub(n) : s # {} => it[s \ {Taken(s)}] = g[s \ {Taken(s)}]
      BY <3>3, <3>6
    <3>8. IsSum(it, f, Sub(n))
      <4> HIDE DEF Sub
      <4> QED BY <3>7 DEF IsSum
    <3> QED BY <2>1, <3>8
  <2> QED BY <2>2, <2>3
<1>2. Cardinality(S) \in Nat
  BY FS_CardinalityType
<1>3. Sub(Cardinality(S)) = SUBSET S
  BY FS_Subset
<1> QED BY <1>1, <1>2, <1>3

-----------------------------------------------------------------------------
(* The budget of derived images.                                              *)

LEMMA LargestOfTwo == ASSUME NEW a \in Nat, NEW b \in Nat
                      PROVE  Picture!Max({a, b}) \in {a, b} /\ Picture!Max({a, b}) >= a /\ Picture!Max({a, b}) >= b
<1> DEFINE P(x) == x \in {a, b} /\ \A y \in {a, b} : x >= y
<1>1. Picture!Max({a, b}) = CHOOSE x : P(x)
  BY DEF Picture!Max
<1>2. \E x : P(x)
  <2>1. CASE a >= b
    BY <2>1
  <2>2. CASE b >= a
    BY <2>2
  <2> QED BY <2>1, <2>2
<1>3. P(CHOOSE x : P(x))
  BY <1>2, Zenon
<1> QED BY <1>1, <1>3

\* A thumbnail is not larger than the page, nor than what thumbnails may be.
LEMMA ThumbnailIsSmall ==
  ASSUME Out \in Nat \ {0}
  PROVE  /\ Picture!ThumbPixels \in Nat
         /\ Picture!ThumbPixels <= Picture!OutPixels
         /\ Picture!ThumbPixels <= ThumbWidth * ThumbHeight
<1> DEFINE size == Picture!Thumbnail(Out, Out)
<1>1. ThumbWidth \in Nat \ {0} /\ ThumbHeight \in Nat \ {0}
  BY BudgetAssumption
<1>2. \A n \in Nat \ {0} : (Out * n) \div Out = n /\ Picture!Max({n, 1}) = n
  <2> TAKE n \in Nat \ {0}
  <2>1. (Out * n) \div Out = n
    OBVIOUS
  <2>2. Picture!Max({n, 1}) = n
    BY LargestOfTwo
  <2> QED BY <2>1, <2>2
<1>3. \E n, k \in Nat : /\ size = <<n, k>> /\ n <= Out /\ k <= Out
                        /\ n <= ThumbWidth /\ k <= ThumbHeight
  <2>1. CASE Out <= ThumbWidth /\ Out <= ThumbHeight
    BY <1>1, <2>1 DEF Picture!Thumbnail
  <2>2. CASE ~(Out <= ThumbWidth /\ Out <= ThumbHeight) /\ ThumbWidth * Out <= ThumbHeight * Out
    <3>1. size = <<ThumbWidth, ThumbWidth>>
      BY <1>1, <1>2, <2>2 DEF Picture!Thumbnail
    <3>2. ThumbWidth <= ThumbHeight
      BY <1>1, <2>2
    <3> QED BY <1>1, <2>2, <3>1, <3>2
  <2>3. CASE ~(Out <= ThumbWidth /\ Out <= ThumbHeight) /\ ~(ThumbWidth * Out <= ThumbHeight * Out)
    <3>1. size = <<ThumbHeight, ThumbHeight>>
      BY <1>1, <1>2, <2>3 DEF Picture!Thumbnail
    <3>2. ThumbHeight <= ThumbWidth
      BY <1>1, <2>3
    <3> QED BY <1>1, <2>3, <3>1, <3>2
  <2> QED BY <2>1, <2>2, <2>3
<1>4. PICK n, k \in Nat : /\ size = <<n, k>> /\ n <= Out /\ k <= Out
                          /\ n <= ThumbWidth /\ k <= ThumbHeight
  BY <1>3
<1>5. Picture!ThumbPixels = n * k
  BY <1>4 DEF Picture!ThumbPixels
<1>6. n * k <= Out * Out /\ n * k <= ThumbWidth * ThumbHeight /\ n * k \in Nat
  <2>1. \A a, b, c, d \in Nat : a <= c /\ b <= d => a * b <= c * d /\ a * b \in Nat
    <3> TAKE a, b, c, d \in Nat
    <3> HAVE a <= c /\ b <= d
    <3>1. a * b <= a * d /\ a * d <= c * d /\ a * b \in Nat /\ a * d \in Nat /\ c * d \in Nat
      OBVIOUS
    <3> QED BY <3>1
  <2> QED BY <1>1, <1>4, <2>1
<1> QED BY <1>5, <1>6 DEF Picture!OutPixels

\* A page that is small enough fits the budget.
LEMMA SmallPagesFit == Picture!SizeAccepted => Picture!BudgetAccepted
<1> SUFFICES ASSUME Picture!SizeAccepted PROVE Picture!BudgetAccepted
  OBVIOUS
<1>1. Out \in Nat \ {0} /\ Picture!OutPixels \in Nat
  BY GeometryAssumption DEF Picture!SizeAccepted, Picture!OutPixels
<1>2. /\ Picture!ThumbPixels \in Nat /\ Picture!ThumbPixels <= Picture!OutPixels
      /\ Picture!ThumbPixels <= ThumbWidth * ThumbHeight
  BY <1>1, ThumbnailIsSmall
<1>3. Picture!OutPixels <= MaxOutPixels /\ 3 * Picture!OutPixels <= MaxOutBytes
  BY DEF Picture!SizeAccepted
<1>4. ThumbWidth * ThumbHeight \in Nat
  BY BudgetAssumption
<1> QED BY <1>1, <1>2, <1>3, <1>4, BudgetAssumption DEF Picture!BudgetAccepted

\* What derived images weigh, whichever of them are alive, is within the budget.
LEMMA WeightIsWithin ==
  ASSUME Picture!BudgetAccepted, Out \in Nat \ {0}, NEW set \in SUBSET Picture!Derived
  PROVE  Picture!Weight(set) <= MaxWorkingBytes
<1> DEFINE f == Picture!Bytes
           W(s, b) == IF b \in s THEN f[b] ELSE 0
           All(s) == W(s, "corrected") + W(s, "ocr") + W(s, "scratch") + W(s, "thumbnail")
           it == CHOOSE g : IsSum(g, f, SUBSET set)
           T == {s \in SUBSET set : it[s] = All(s)}
<1>1. IsFiniteSet(set)
  <2>1. IsFiniteSet({"corrected", "ocr", "scratch", "thumbnail"})
    <3>1. IsFiniteSet({"corrected"})
      BY FS_Singleton
    <3>2. IsFiniteSet({"corrected"} \cup {"ocr"})
      BY <3>1, FS_AddElement
    <3>3. IsFiniteSet(({"corrected"} \cup {"ocr"}) \cup {"scratch"})
      BY <3>2, FS_AddElement
    <3>4. IsFiniteSet((({"corrected"} \cup {"ocr"}) \cup {"scratch"}) \cup {"thumbnail"})
      BY <3>3, FS_AddElement
    <3>5. (({"corrected"} \cup {"ocr"}) \cup {"scratch"}) \cup {"thumbnail"}
            = {"corrected", "ocr", "scratch", "thumbnail"}
      OBVIOUS
    <3> QED BY <3>4, <3>5
  <2> QED BY <2>1, FS_Subset DEF Picture!Derived
<1>2. IsSum(it, f, SUBSET set)
  BY <1>1, SumExists
<1>3. Picture!Weight(set) = it[set]
  BY DEF Picture!Weight, Picture!MapThenSumSet, Picture!MapThenFoldSet, IsSum, Taken
<1>4. /\ f["corrected"] = 3 * Picture!OutPixels /\ f["ocr"] = Picture!OutPixels
      /\ f["scratch"] = Picture!OutPixels /\ f["thumbnail"] = 3 * Picture!ThumbPixels
  BY DEF Picture!Bytes
<1>5. Picture!OutPixels \in Nat /\ Picture!ThumbPixels \in Nat
  BY ThumbnailIsSmall DEF Picture!OutPixels
<1>6. \A b \in Picture!Derived : f[b] \in Nat
  BY <1>4, <1>5 DEF Picture!Derived
<1> HIDE DEF f, it
<1>7. {} \in T
  BY <1>2 DEF IsSum
<1>8. ASSUME NEW s \in SUBSET set, s # {}, s \ {Taken(s)} \in T PROVE s \in T
  <2> DEFINE b == Taken(s)
             r == s \ {b}
  <2>1. b \in s /\ b \in Picture!Derived /\ r \in SUBSET set
    BY <1>8, TakenIsElement
  <2>2. it[s] = f[b] + it[r]
    BY <1>2, <1>8 DEF IsSum
  <2>3. it[r] = All(r)
    BY <1>8
  <2> HIDE DEF b
  <2>4. f[b] + All(r) = All(s)
    <3>1. b \in {"corrected", "ocr", "scratch", "thumbnail"}
      BY <2>1 DEF Picture!Derived
    <3>2. /\ f["corrected"] \in Nat /\ f["ocr"] \in Nat
          /\ f["scratch"] \in Nat /\ f["thumbnail"] \in Nat
      BY <1>6 DEF Picture!Derived
    <3>3. \A c : W(r, c) = IF c = b THEN 0 ELSE W(s, c)
      OBVIOUS
    <3>4. W(s, b) = f[b]
      BY <2>1
    <3>5. /\ W(s, "corrected") \in Nat /\ W(s, "ocr") \in Nat
          /\ W(s, "scratch") \in Nat /\ W(s, "thumbnail") \in Nat
      BY <3>2
    <3> HIDE DEF W
    <3>6. CASE b = "corrected"
      BY <3>2, <3>3, <3>4, <3>5, <3>6
    <3>7. CASE b = "ocr"
      BY <3>2, <3>3, <3>4, <3>5, <3>7
    <3>8. CASE b = "scratch"
      BY <3>2, <3>3, <3>4, <3>5, <3>8
    <3>9. CASE b = "thumbnail"
      BY <3>2, <3>3, <3>4, <3>5, <3>9
    <3> QED BY <3>1, <3>6, <3>7, <3>8, <3>9
  <2> QED BY <2>2, <2>3, <2>4
<1>9. it[set] = All(set)
  <2> HIDE DEF T
  <2>1. \A s \in SUBSET set : s \in T
    BY <1>1, <1>7, <1>8, SubsetInduction
  <2> QED BY <2>1 DEF T
<1>10. All(set) <= 5 * Picture!OutPixels + 3 * Picture!ThumbPixels
  BY <1>4, <1>5
<1>11. 5 * Picture!OutPixels + 3 * Picture!ThumbPixels <= MaxWorkingBytes
  BY <1>5, BudgetAssumption DEF Picture!BudgetAccepted
<1>12. All(set) \in Nat
  BY <1>6 DEF Picture!Derived
<1> HIDE DEF All
<1> QED BY <1>3, <1>5, <1>9, <1>10, <1>11, <1>12, BudgetAssumption

LEMMA EmptyWeighsNothing == Picture!Weight({}) = 0
<1> DEFINE f == Picture!Bytes
           it == CHOOSE g : IsSum(g, f, SUBSET {})
<1>1. IsSum(it, f, SUBSET {})
  BY FS_EmptySet, SumExists
<1>2. Picture!Weight({}) = it[{}]
  BY DEF Picture!Weight, Picture!MapThenSumSet, Picture!MapThenFoldSet, IsSum, Taken
<1> HIDE DEF it, f
<1> QED BY <1>1, <1>2 DEF IsSum

-----------------------------------------------------------------------------
(* The processing of a picture.                                               *)

PassNames == {"preview", "registration"}

\* The stages of a pass in their order; a pass is at one of them or has ended.
Planned  == {"preflight", "rectify", "ocr", "contrast", "sharpen", "sharpening",
             "thumbnail", "assemble", "deliver"}
Matched  == {"analysed"} \cup Planned
Decoded  == {"gray", "measure", "detect"} \cup Matched
PassStages   == {"ended", "decode"} \cup Decoded

AgreedMarkers == [r \in DOMAIN Picture!Layout |-> Picture!Layout[r]]

PlanMade == picture.side >= 2 /\ Picture!SizeAccepted /\ Picture!PlanAccepts(Picture!Quad)

\* What a pass knows of the picture at each stage, and an approved preview of all.
KnownByStage ==
    /\ stage \in Decoded => Picture!DecodedWithin
    /\ stage \in Matched => Picture!TagsAgree(picture.tags, Picture!Layout) /\ markers[pass] = AgreedMarkers
    /\ stage \in Planned => PlanMade

ApprovedFacts ==
    /\ Picture!DecodedWithin /\ Picture!TagsAgree(picture.tags, Picture!Layout) /\ PlanMade
    /\ markers["preview"] = AgreedMarkers

TagsInPicture ==
    \A i \in 1 .. Len(picture.tags) : picture.tags[i].at \in Spot

\* Derived images are alive only once the page is planned for.
DerivedWhenPlanned ==
    /\ stage \notin Planned => buffers \cap Picture!Derived = {}
    /\ stage = "ended" => buffers = {}

PictureInv ==
    /\ TagsInPicture
    /\ pass \in PassNames \cup {"none"} /\ stage \in PassStages
    /\ pass = "none" => stage = "ended"
    /\ DOMAIN markers = PassNames /\ DOMAIN outcome = PassNames
    /\ outcome["preview"] \in {"none", "cancelled", "refused", "done"}
    /\ outcome["registration"] \in {"none", "done"}
    /\ KnownByStage
    /\ outcome["preview"] = "done" => ApprovedFacts
    /\ pass = "registration" => outcome["preview"] = "done"
    /\ DerivedWhenPlanned

-----------------------------------------------------------------------------
LEMMA FourInSequence ==
  ASSUME NEW R, NEW t \in [1 .. 4 -> R]
  PROVE  t \in Seq(R) /\ Len(t) = 4
<1>1. Len(t) = 4 /\ DOMAIN t = 1 .. 4
  OBVIOUS
<1>2. 4 \in Nat
  OBVIOUS
<1>3. t \in Seq(R)
  BY <1>2, SeqDef, Zenon
<1> QED BY <1>1, <1>3

LEMMA SequenceOps ==
  ASSUME NEW R, NEW t \in Seq(R)
  PROVE  /\ \A i \in 1 .. Len(t) : t[i] \in R
         /\ \A e \in R : Append(t, e) \in Seq(R)
         /\ t # <<>> => Tail(t) \in Seq(R) /\ t[1] \in R
<1>1. \A i \in 1 .. Len(t) : t[i] \in R
  OBVIOUS
<1>2. \A e \in R : Append(t, e) \in Seq(R)
  OBVIOUS
<1>3. t # <<>> => Tail(t) \in Seq(R) /\ t[1] \in R
  OBVIOUS
<1> QED BY <1>1, <1>2, <1>3

TagSet == [id : Int, at : Spot]

\* Whatever the picture, the centres of the tags in it are points with a weight.
LEMMA PicturesHaveSpots ==
  ASSUME NEW p \in Picture!Pictures
  PROVE  \A i \in 1 .. Len(p.tags) : p.tags[i].at \in Spot
<1> DEFINE Places == <<Around(3, 3), Around(5, 3), Around(5, 5), Around(3, 5)>>
           good == CHOOSE quad \in Picture!Quads : Picture!PlanAccepts(quad)
<1>1. \A x, y \in Int : Around(x, y) \subseteq Spot
  BY DEF Around, Spot
<1>2. \A quad \in Picture!Quads : \A r \in 1 .. 4 : quad[r] \in Spot
  <2>1. \A r \in 1 .. 4 : Places[r] \subseteq Spot
    <3>1. \A r \in {1, 2, 3, 4} : Places[r] \subseteq Spot
      BY <1>1
    <3> QED BY <3>1
  <2> QED BY <2>1 DEF Picture!Quads
<1>3. good \in Picture!Quads
  BY PageInViewAssumption
<1>4. ASSUME NEW quad, \A r \in 1 .. 4 : quad[r] \in Spot
      PROVE  Picture!Tags(quad) \in Seq(TagSet) /\ Len(Picture!Tags(quad)) = 4
  <2>1. \A r \in 1 .. 4 : Picture!Layout[Picture!Roles[r]] \in Int
    <3>1. \A r \in {1, 2, 3, 4} : Picture!Layout[Picture!Roles[r]] \in Int
      BY DEF Picture!Layout, Picture!Roles
    <3> QED BY <3>1
  <2>2. \A r \in 1 .. 4 : Picture!Tags(quad)[r] \in TagSet
    BY <1>4, <2>1 DEF Picture!Tags, Picture!Tag, TagSet
  <2>3. Picture!Tags(quad) \in [1 .. 4 -> TagSet]
    BY <2>2 DEF Picture!Tags
  <2> QED BY <2>3, FourInSequence
<1>5. ASSUME NEW t \in Seq(TagSet) PROVE \A i \in 1 .. Len(t) : t[i].at \in Spot
  <2>1. \A i \in 1 .. Len(t) : t[i] \in TagSet
    BY <1>5, SequenceOps
  <2> QED BY <2>1 DEF TagSet
<1>6. ASSUME NEW quad \in Picture!Quads, NEW t \in Picture!Turned(quad)
      PROVE  \A r \in 1 .. 4 : t[r] \in Spot
  <2>1. quad[1] \in Spot /\ quad[2] \in Spot /\ quad[3] \in Spot /\ quad[4] \in Spot
    BY <1>2
  <2>2. \A r \in {1, 2, 3, 4} : t[r] \in Spot
    BY <2>1 DEF Picture!Turned
  <2> QED BY <2>2
<1> DEFINE g == Picture!Tags(good)
           ok == [Picture!Sound EXCEPT !.tags = g]
<1>7. g \in Seq(TagSet) /\ g # <<>>
  <2>1. g \in Seq(TagSet) /\ Len(g) = 4
    BY <1>2, <1>3, <1>4
  <2> HIDE DEF g
  <2>2. Len(<<>>) = 0
    OBVIOUS
  <2> QED BY <2>1, <2>2
<1>8. /\ DOMAIN ok = DOMAIN Picture!Sound /\ "tags" \in DOMAIN Picture!Sound /\ ok.tags = g
  BY DEF Picture!Sound
<1> HIDE DEF g, good
<1>9. p.tags \in Seq(TagSet)
  <2>1. ASSUME NEW quad \in Picture!Quads, NEW t \in Picture!Turned(quad),
               p = [Picture!Sound EXCEPT !.tags = Picture!Tags(t)]
        PROVE  p.tags \in Seq(TagSet)
    <3>1. p.tags = Picture!Tags(t)
      BY <2>1 DEF Picture!Sound
    <3> QED BY <1>4, <1>6, <3>1
  <2>2. ASSUME p \in {[ok EXCEPT !.bytes = 0], [ok EXCEPT !.bytes = MaxBytes + 1], [ok EXCEPT !.signed = FALSE],
                      [ok EXCEPT !.decodes = FALSE], [ok EXCEPT !.side = Side + 1], [ok EXCEPT !.side = 1]}
        PROVE  p.tags \in Seq(TagSet)
    <3>1. p.tags = ok.tags
      BY <2>2 DEF Picture!Sound
    <3> QED BY <1>7, <1>8, <3>1
  <2>3. ASSUME p \in {[ok EXCEPT !.tags = Tail(@)], [ok EXCEPT !.tags = Append(@, @[1])],
                      [ok EXCEPT !.tags = Append(@, Picture!Tag(9, Picture!Point(0, 0)))]}
        PROVE  p.tags \in Seq(TagSet)
    <3>1. p.tags \in {Tail(g), Append(g, g[1]), Append(g, Picture!Tag(9, Picture!Point(0, 0)))}
      BY <1>8, <2>3 DEF Picture!Sound
    <3>2. Picture!Tag(9, Picture!Point(0, 0)) \in TagSet
      BY DEF Picture!Tag, Picture!Point, Spot, TagSet
    <3> QED BY <1>7, <3>1, <3>2, SequenceOps
  <2>4. \/ \E quad \in Picture!Quads : \E t \in Picture!Turned(quad) :
              p = [Picture!Sound EXCEPT !.tags = Picture!Tags(t)]
        \/ p \in {[ok EXCEPT !.bytes = 0], [ok EXCEPT !.bytes = MaxBytes + 1], [ok EXCEPT !.signed = FALSE],
                  [ok EXCEPT !.decodes = FALSE], [ok EXCEPT !.side = Side + 1], [ok EXCEPT !.side = 1]}
        \/ p \in {[ok EXCEPT !.tags = Tail(@)], [ok EXCEPT !.tags = Append(@, @[1])],
                  [ok EXCEPT !.tags = Append(@, Picture!Tag(9, Picture!Point(0, 0)))]}
    <3>0. \A A, B, C : p \in A \cup B \cup C => p \in A \/ p \in B \/ p \in C
      OBVIOUS
    <3>1. p \in {[Picture!Sound EXCEPT !.tags = Picture!Tags(t)] :
                    t \in UNION {Picture!Turned(quad) : quad \in Picture!Quads}}
          \/ p \in {[ok EXCEPT !.bytes = 0], [ok EXCEPT !.bytes = MaxBytes + 1], [ok EXCEPT !.signed = FALSE],
                    [ok EXCEPT !.decodes = FALSE], [ok EXCEPT !.side = Side + 1], [ok EXCEPT !.side = 1]}
          \/ p \in {[ok EXCEPT !.tags = Tail(@)], [ok EXCEPT !.tags = Append(@, @[1])],
                    [ok EXCEPT !.tags = Append(@, Picture!Tag(9, Picture!Point(0, 0)))]}
      BY <3>0, Zenon DEF Picture!Pictures, g, good
    <3>2. ASSUME p \in {[Picture!Sound EXCEPT !.tags = Picture!Tags(t)] :
                           t \in UNION {Picture!Turned(quad) : quad \in Picture!Quads}}
          PROVE  \E quad \in Picture!Quads : \E t \in Picture!Turned(quad) :
                    p = [Picture!Sound EXCEPT !.tags = Picture!Tags(t)]
      BY <3>2, Zenon
    <3> HIDE DEF ok
    <3> QED BY <3>1, <3>2, Zenon
  <2> QED BY <2>1, <2>2, <2>3, <2>4, Zenon
<1> QED BY <1>5, <1>9

\* The markers of a page whose tags agree are among the tags.
LEMMA QuadHasSpots ==
  ASSUME TagsInPicture, Picture!TagsAgree(picture.tags, Picture!Layout)
  PROVE  \A r \in 1 .. 4 : Picture!Quad[r] \in Spot
<1> SUFFICES ASSUME NEW r \in 1 .. 4 PROVE Picture!Quad[r] \in Spot
  OBVIOUS
<1> DEFINE id == Picture!Layout[Picture!Roles[r]]
           found == CHOOSE i \in 1 .. Len(picture.tags) : picture.tags[i].id = id
<1>1. \E i \in 1 .. Len(picture.tags) : picture.tags[i].id = id
  BY DEF Picture!TagsAgree
<1>2. found \in 1 .. Len(picture.tags)
  BY <1>1
<1>3. Picture!Quad[r] = picture.tags[found].at
  BY DEF Picture!Quad, Picture!MarkerQuad, Picture!CentreOf
<1> QED BY <1>2, <1>3 DEF TagsInPicture

\* A page that is planned for is read within the picture at every pixel.
LEMMA PlannedIsRead ==
  ASSUME TagsInPicture, Picture!TagsAgree(picture.tags, Picture!Layout), PlanMade
  PROVE  /\ \A pixel \in Picture!Pixels : Picture!Samples(Picture!Quad, pixel)
         /\ \A r \in 1 .. 4 : Picture!Shows(Picture!Quad, Picture!MarkerPlaces[r], Picture!Quad[r])
<1>1. \A r \in 1 .. 4 : Picture!Quad[r] \in Spot
  BY QuadHasSpots
<1>2. Out > 0 /\ Picture!WithinImage(Picture!SourceCorners(Picture!Quad))
  BY GeometryAssumption DEF PlanMade, Picture!PlanAccepts, Picture!SizeAccepted
<1>3. \A pixel \in Picture!Pixels : Picture!Samples(Picture!Quad, pixel)
  BY <1>1, <1>2, PageInside
<1> QED BY <1>1, <1>3, MarkersShown

-----------------------------------------------------------------------------
LEMMA PictureInitial == Picture!PictureInit => PictureInv
<1> SUFFICES ASSUME Picture!PictureInit PROVE PictureInv
  OBVIOUS
<1>1. TagsInPicture
  BY PicturesHaveSpots DEF Picture!PictureInit, TagsInPicture
<1> QED BY <1>1 DEF Picture!PictureInit, PictureInv, PassNames, PassStages, Decoded, Matched, Planned, KnownByStage, DerivedWhenPlanned

\* The facts about the picture do not change.
LEMMA PictureFactsStay ==
  ASSUME picture' = picture
  PROVE  /\ TagsInPicture' = TagsInPicture
         /\ Picture!DecodedWithin' = Picture!DecodedWithin
         /\ Picture!TagsAgree(picture.tags, Picture!Layout)' = Picture!TagsAgree(picture.tags, Picture!Layout)
         /\ PlanMade' = PlanMade
BY DEF TagsInPicture, Picture!DecodedWithin, Picture!SourcePixels, Picture!TagsAgree, PlanMade, Picture!Quad

\* A pass that ends keeps the invariant when its end is one the invariant allows.
LEMMA EndKeepsInv ==
  ASSUME PictureInv, NEW r, Picture!End(r), pass \in PassNames,
         pass = "preview" => /\ r \in {"cancelled", "refused", "done"}
                             /\ r = "done" => ApprovedFacts,
         pass = "registration" => r = "done"
  PROVE  PictureInv'
<1>1. picture' = picture /\ pass' = pass /\ markers' = markers /\ stage' = "ended" /\ buffers' = {}
  BY DEF Picture!End
<1>2. /\ DOMAIN outcome' = PassNames
      /\ \A p \in PassNames : outcome'[p] = IF p = pass THEN r ELSE outcome[p]
  BY DEF Picture!End, PictureInv
<1>3. ApprovedFacts' = ApprovedFacts
  BY <1>1, PictureFactsStay DEF ApprovedFacts
<1>4. outcome'["preview"] = (IF pass = "preview" THEN r ELSE outcome["preview"])
      /\ outcome'["registration"] = (IF pass = "registration" THEN r ELSE outcome["registration"])
  BY <1>2 DEF PassNames
<1>5. TagsInPicture'
  BY <1>1, PictureFactsStay DEF PictureInv
<1>6. KnownByStage' /\ DerivedWhenPlanned' /\ stage' \in PassStages
  BY <1>1 DEF KnownByStage, DerivedWhenPlanned, PassStages, Decoded, Matched, Planned
<1> QED BY <1>1, <1>2, <1>3, <1>4, <1>5, <1>6 DEF PictureInv, PassNames

\* A pass that goes on keeps it when the next stage's facts hold.
LEMMA ProceedKeepsInv ==
  ASSUME PictureInv, picture' = picture, pass' = pass, outcome' = outcome, markers' = markers,
         pass # "none", stage' \in PassStages \ {"ended"},
         stage' \in Decoded => Picture!DecodedWithin,
         stage' \in Matched => Picture!TagsAgree(picture.tags, Picture!Layout) /\ markers[pass] = AgreedMarkers,
         stage' \in Planned => PlanMade,
         stage' \notin Planned => buffers' \cap Picture!Derived = {}
  PROVE  PictureInv'
<1>1. ApprovedFacts' = ApprovedFacts
  BY PictureFactsStay DEF ApprovedFacts
<1>2. KnownByStage'
  BY PictureFactsStay DEF KnownByStage
<1> QED BY <1>1, <1>2, PictureFactsStay DEF PictureInv, DerivedWhenPlanned

LEMMA PictureStepKeepsInv == PictureInv /\ Picture!PictureNext => PictureInv'
<1> SUFFICES ASSUME PictureInv, Picture!PictureNext PROVE PictureInv'
  OBVIOUS
<1> USE DEF PassStages, Decoded, Matched, Planned
<1>0. /\ stage # "ended" => pass \in PassNames
      /\ pass = "registration" => ~Picture!IsCancelled /\ ApprovedFacts
      /\ pass \in PassNames \cup {"none"}
  BY DEF PictureInv, Picture!IsCancelled, PassNames
<1>c. ASSUME Picture!End("cancelled"), Picture!IsCancelled, stage # "ended" PROVE PictureInv'
  BY <1>0, <1>c, EndKeepsInv
<1>1. ASSUME NEW p \in PassNames, Picture!Begin(p) PROVE PictureInv'
  <2>1. /\ picture' = picture /\ outcome' = outcome /\ markers' = markers /\ buffers' = buffers
        /\ pass' = p /\ stage' = "decode" /\ stage = "ended"
        /\ p = "registration" => outcome["preview"] = "done"
    BY <1>1 DEF Picture!Begin, PictureInv, PassNames
  <2>2. ApprovedFacts' = ApprovedFacts /\ TagsInPicture' = TagsInPicture
    BY <2>1, PictureFactsStay DEF ApprovedFacts
  <2>3. KnownByStage' /\ DerivedWhenPlanned'
    BY <2>1 DEF KnownByStage, DerivedWhenPlanned, PictureInv
  <2> QED BY <2>1, <2>2, <2>3 DEF PictureInv, PassNames
<1>2. CASE Picture!Cancel
  <2>1. UNCHANGED <<picture, pass, stage, buffers, outcome, markers>>
    BY <1>2 DEF Picture!Cancel
  <2>2. ApprovedFacts' = ApprovedFacts /\ TagsInPicture' = TagsInPicture /\ KnownByStage' = KnownByStage
    BY <2>1, PictureFactsStay DEF ApprovedFacts, KnownByStage
  <2> QED BY <2>1, <2>2 DEF PictureInv, DerivedWhenPlanned
<1>3. CASE Picture!Decode
  <2>1. CASE Picture!IsCancelled
    BY <1>3, <1>c, <2>1 DEF Picture!Decode
  <2>2. CASE ~Picture!IsCancelled /\ Picture!DecodedWithin
    BY <1>0, <1>3, <2>2, ProceedKeepsInv DEF Picture!Decode, Picture!Proceed, Picture!Derived, PassNames
  <2>3. CASE ~Picture!IsCancelled /\ ~Picture!DecodedWithin
    BY <1>0, <1>3, <2>3, EndKeepsInv DEF Picture!Decode, ApprovedFacts
  <2> QED BY <2>1, <2>2, <2>3
<1>4. CASE Picture!ToGray
  <2>1. Picture!DecodedWithin
    BY <1>4 DEF Picture!ToGray, PictureInv, KnownByStage
  <2>2. Picture!SourcePixels <= MaxPixels
    BY <2>1 DEF Picture!DecodedWithin
  <2> QED BY <1>0, <1>4, <2>1, <2>2, ProceedKeepsInv DEF Picture!ToGray, Picture!Proceed, Picture!Derived, PassNames
<1>5. CASE Picture!Measure
  <2>1. Picture!DecodedWithin
    BY <1>5 DEF Picture!Measure, PictureInv, KnownByStage
  <2>2. buffers' \cap Picture!Derived = {}
    BY <1>5 DEF Picture!Measure, Picture!Proceed, Picture!Derived, PictureInv, DerivedWhenPlanned
  <2> QED BY <1>0, <1>5, <2>1, <2>2, ProceedKeepsInv DEF Picture!Measure, Picture!Proceed, PassNames
<1>6. CASE Picture!Detect
  <2>1. Picture!DecodedWithin /\ stage = "detect"
    BY <1>6 DEF Picture!Detect, PictureInv, KnownByStage
  <2>2. CASE ~Picture!TagsAgree(picture.tags, Picture!Layout)
    BY <1>0, <1>6, <2>1, <2>2, EndKeepsInv DEF Picture!Detect, ApprovedFacts
  <2>3. CASE Picture!TagsAgree(picture.tags, Picture!Layout)
    <3>1. /\ picture' = picture /\ pass' = pass /\ outcome' = outcome /\ stage' = "analysed"
          /\ buffers' \subseteq buffers
          /\ markers' = [markers EXCEPT ![pass] = AgreedMarkers]
      BY <1>6, <2>3 DEF Picture!Detect, AgreedMarkers
    <3>2. /\ DOMAIN markers' = PassNames /\ markers'[pass] = AgreedMarkers
          /\ \A p \in PassNames : markers'[p] = markers[p] \/ markers'[p] = AgreedMarkers
      BY <1>0, <2>1, <3>1 DEF PictureInv
    <3>3. ApprovedFacts => ApprovedFacts'
      BY <3>1, <3>2, PictureFactsStay DEF ApprovedFacts, PassNames
    <3>4. KnownByStage'
      BY <2>1, <2>3, <3>1, <3>2, PictureFactsStay DEF KnownByStage
    <3>5. DerivedWhenPlanned'
      BY <2>1, <3>1 DEF DerivedWhenPlanned, PictureInv
    <3>6. pass # "none"
      BY <2>1 DEF PictureInv
    <3>7. TagsInPicture'
      BY <3>1, PictureFactsStay DEF PictureInv
    <3> QED BY <3>1, <3>2, <3>3, <3>4, <3>5, <3>6, <3>7 DEF PictureInv
  <2> QED BY <2>2, <2>3
<1>7. CASE Picture!Plan
  <2>1. /\ Picture!DecodedWithin /\ stage = "analysed"
        /\ Picture!TagsAgree(picture.tags, Picture!Layout) /\ markers[pass] = AgreedMarkers
    BY <1>7 DEF Picture!Plan, PictureInv, KnownByStage
  <2>2. CASE Picture!IsCancelled
    BY <1>7, <1>c, <2>2 DEF Picture!Plan
  <2>3. CASE ~Picture!IsCancelled /\ PlanMade
    BY <1>0, <1>7, <2>1, <2>3, ProceedKeepsInv DEF Picture!Plan, Picture!Proceed, PassNames, PlanMade
  <2>4. CASE ~Picture!IsCancelled /\ ~PlanMade
    BY <1>0, <1>7, <2>1, <2>4, EndKeepsInv DEF Picture!Plan, ApprovedFacts, PlanMade
  <2> QED BY <2>2, <2>3, <2>4
\* From here on the page is planned for.
<1>8. ASSUME stage \in Planned
      PROVE  /\ PlanMade /\ Picture!DecodedWithin /\ pass \in PassNames /\ pass # "none"
             /\ Picture!TagsAgree(picture.tags, Picture!Layout) /\ markers[pass] = AgreedMarkers
  BY <1>0, <1>8 DEF PictureInv, KnownByStage, PassNames
<1>9. ASSUME stage \in Planned, picture' = picture, pass' = pass, outcome' = outcome, markers' = markers,
             stage' \in Planned
      PROVE  PictureInv'
  BY <1>8, <1>9, ProceedKeepsInv
<1>10. ASSUME NEW next \in Planned, NEW alive, Picture!Proceed(next, alive), stage \in Planned
       PROVE  PictureInv'
  BY <1>9, <1>10 DEF Picture!Proceed
<1>11. CASE Picture!Preflight
  <2>1. stage = "preflight" /\ Picture!BudgetAccepted
    BY <1>8, <1>11, SmallPagesFit DEF Picture!Preflight, Picture!Stage, PlanMade
  <2>2. CASE Picture!IsCancelled
    BY <1>11, <1>c, <2>1, <2>2 DEF Picture!Preflight
  <2>3. CASE ~Picture!IsCancelled
    BY <1>10, <1>11, <2>1, <2>3 DEF Picture!Preflight
  <2> QED BY <2>2, <2>3
<1>12. CASE Picture!Rectify
  <2>0. stage = "rectify" /\ TagsInPicture
    BY <1>12 DEF Picture!Rectify, Picture!Stage, PictureInv
  <2>1. \A pixel \in Picture!Pixels : Picture!Samples(Picture!Quad, pixel)
    BY <1>8, <2>0, PlannedIsRead
  <2>2. CASE Picture!IsCancelled
    BY <1>12, <1>c, <2>0, <2>2 DEF Picture!Rectify
  <2>3. CASE ~Picture!IsCancelled
    BY <1>10, <1>12, <2>0, <2>1, <2>3 DEF Picture!Rectify
  <2> QED BY <2>2, <2>3
<1>13. CASE Picture!ToOcr
  BY <1>10, <1>13, <1>c DEF Picture!ToOcr, Picture!Stage
<1>14. CASE Picture!NormalizeContrast
  <2>1. (IF SharpenPasses > 0 THEN "sharpen" ELSE "thumbnail") \in Planned
    OBVIOUS
  <2> QED BY <1>10, <1>14, <1>c, <2>1 DEF Picture!NormalizeContrast, Picture!Stage
<1>15. CASE Picture!Sharpen
  BY <1>10, <1>15, <1>c DEF Picture!Sharpen, Picture!Stage
<1>16. CASE Picture!Sharpened
  BY <1>9, <1>16 DEF Picture!Sharpened, Picture!Stage
<1>17. CASE Picture!MakeThumbnail
  BY <1>10, <1>17, <1>c DEF Picture!MakeThumbnail, Picture!Stage
<1>18. CASE Picture!Assemble
  BY <1>10, <1>18, <1>c DEF Picture!Assemble, Picture!Stage
<1>19. CASE Picture!Deliver
  <2>1. stage = "deliver"
    BY <1>19 DEF Picture!Deliver, Picture!Stage
  <2>2. CASE Picture!IsCancelled
    BY <1>19, <1>c, <2>1, <2>2 DEF Picture!Deliver
  <2>3. CASE ~Picture!IsCancelled
    <3>1. pass = "registration" => markers["registration"] = markers["preview"]
      BY <1>0, <1>8, <2>1 DEF ApprovedFacts
    <3>2. Picture!End("done")
      BY <1>19, <2>3, <3>1 DEF Picture!Deliver
    <3>3. pass = "preview" => ApprovedFacts
      BY <1>8, <2>1 DEF ApprovedFacts
    <3> QED BY <1>8, <2>1, <3>2, <3>3, EndKeepsInv
  <2> QED BY <2>2, <2>3
<1> QED BY <1>1, <1>2, <1>3, <1>4, <1>5, <1>6, <1>7, <1>11, <1>12, <1>13, <1>14, <1>15, <1>16,
          <1>17, <1>18, <1>19 DEF Picture!PictureNext, PassNames

-----------------------------------------------------------------------------
\* Outside a behaviour of the picture nothing is processed.
Unprocessed == buffers = {} /\ \A p \in DOMAIN outcome : outcome[p] = "none"

ProcessingInv ==
    /\ part = "picture" => PictureInv
    /\ part # "picture" => Unprocessed /\ outcome = [preview |-> "none", registration |-> "none"]

LEMMA ProcessingInitial == MCInit => ProcessingInv
<1> SUFFICES ASSUME MCInit PROVE ProcessingInv
  OBVIOUS
<1>1. CASE part = "picture"
  BY <1>1, PictureInitial DEF MCInit, ProcessingInv
<1>2. CASE part # "picture"
  BY <1>2 DEF MCInit, ProcessingInv, Unprocessed
<1> QED BY <1>1, <1>2

LEMMA ProcessingStep == ProcessingInv /\ [MCNext]_allVars => ProcessingInv'
<1> SUFFICES ASSUME ProcessingInv, [MCNext]_allVars PROVE ProcessingInv'
  OBVIOUS
<1>1. part' = part /\ ((part = "picture" /\ Picture!PictureNext) \/ UNCHANGED pictureVars)
  BY DEF MCNext, allVars
<1>2. CASE part = "picture" /\ Picture!PictureNext
  BY <1>1, <1>2, PictureStepKeepsInv DEF ProcessingInv
<1>3. CASE UNCHANGED pictureVars
  <2>1. PictureInv => PictureInv'
    <3>1. UNCHANGED <<picture, pass, stage, buffers, outcome, markers>>
      BY <1>3 DEF pictureVars
    <3>2. ApprovedFacts' = ApprovedFacts /\ TagsInPicture' = TagsInPicture /\ KnownByStage' = KnownByStage
      BY <3>1, PictureFactsStay DEF ApprovedFacts, KnownByStage
    <3> QED BY <3>1, <3>2 DEF PictureInv, DerivedWhenPlanned
  <2> QED BY <1>1, <1>3, <2>1 DEF ProcessingInv, Unprocessed, pictureVars
<1> QED BY <1>1, <1>2, <1>3

(* Whatever quadrilateral the markers span, of whatever sizes: when the       *)
(* extrapolated corners of a page are in the picture, so is every pixel, and  *)
(* the corrected page shows the markers where the layout puts them.           *)
THEOREM EveryPixelIsInPicture == MCSpec => []PageIsInPicture
<1>1. ProcessingInv => PageIsInPicture
  <2> SUFFICES ASSUME ProcessingInv PROVE PageIsInPicture
    OBVIOUS
  <2>1. CASE part = "picture"
    <3>1. PictureInv
      BY <2>1 DEF ProcessingInv
    <3>2. \A p \in DOMAIN outcome : outcome[p] # "outOfBounds"
      BY <3>1 DEF PictureInv, PassNames
    <3>3. ASSUME "corrected" \in buffers
          PROVE  \A r \in 1 .. 4 : Picture!Shows(Picture!Quad, Picture!MarkerPlaces[r], Picture!Quad[r])
      <4>1. stage \in Planned
        BY <3>1, <3>3 DEF PictureInv, DerivedWhenPlanned, Picture!Derived
      <4> QED BY <3>1, <4>1, PlannedIsRead DEF PictureInv, KnownByStage, Matched
    <3> QED BY <3>2, <3>3 DEF PageIsInPicture, Picture!PageIsInPicture
  <2>2. CASE part # "picture"
    BY <2>2 DEF ProcessingInv, Unprocessed, PageIsInPicture, Picture!PageIsInPicture
  <2> QED BY <2>1, <2>2
<1> QED BY <1>1, ProcessingInitial, ProcessingStep, PTL DEF MCSpec, allVars

(* What the user approved is registered: the second processing ends as the    *)
(* first did, and with the limits ordered as the code's are, a page of an     *)
(* accepted size never runs into the budget, which covers all that is alive.  *)
THEOREM ApprovedIsProcessedAgain == MCSpec => []ApprovedIsRegistered
<1>1. ProcessingInv => ApprovedIsRegistered
  <2> SUFFICES ASSUME ProcessingInv PROVE ApprovedIsRegistered
    OBVIOUS
  <2>0. Picture!Weight({}) <= MaxWorkingBytes
    BY EmptyWeighsNothing, BudgetAssumption
  <2>1. CASE part = "picture"
    <3>1. PictureInv
      BY <2>1 DEF ProcessingInv
    <3>2. outcome["registration"] \in {"none", "done"} /\ outcome["preview"] # "overBudget"
      BY <3>1 DEF PictureInv
    <3>3. Picture!Weight(buffers \cap Picture!Derived) <= MaxWorkingBytes
      <4>1. CASE stage \in Planned
        <5>1. Picture!SizeAccepted
          BY <3>1, <4>1 DEF PictureInv, KnownByStage, PlanMade
        <5>2. Out \in Nat \ {0}
          BY <5>1, GeometryAssumption DEF Picture!SizeAccepted
        <5> QED BY <5>1, <5>2, SmallPagesFit, WeightIsWithin
      <4>2. CASE stage \notin Planned
        BY <2>0, <3>1, <4>2 DEF PictureInv, DerivedWhenPlanned
      <4> QED BY <4>1, <4>2
    <3> QED BY <3>2, <3>3 DEF ApprovedIsRegistered, Picture!ApprovedIsRegistered
  <2>2. CASE part # "picture"
    <3>1. buffers \cap Picture!Derived = {}
      BY <2>2 DEF ProcessingInv, Unprocessed
    <3> QED BY <2>0, <2>2, <3>1 DEF ProcessingInv, ApprovedIsRegistered, Picture!ApprovedIsRegistered
  <2> QED BY <2>1, <2>2
<1> QED BY <1>1, ProcessingInitial, ProcessingStep, PTL DEF MCSpec, allVars

-----------------------------------------------------------------------------
(* The verdict on a picture.                                                  *)

Grid == Quality!PixelsOf

\* The pixels that are dark or bright, and the share of the bright ones.
DarkOnes(f, set)   == {p \in set : f[p] <= DarkCutoff}
BrightOnes(f, set) == {p \in set : f[p] >= HighlightCutoff}
DarkShare(f, set)   == <<100 * Cardinality(DarkOnes(f, set)), Cardinality(set)>>
BrightShare(f, set) == <<100 * Cardinality(BrightOnes(f, set)), Cardinality(set)>>

Shares(f) == {BrightShare(f, tile) : tile \in Quality!Tiles}

GradedStates == {"Accepted", "Warning", "NeedsReview", "Rejected"}

Thresholds(t) == t[1] \in Int /\ t[2] \in Int /\ t[3] \in Int

Lighter(f, g) == /\ f \in [Grid -> Nat] /\ g \in [Grid -> Nat]
                 /\ \A p \in Grid : f[p] <= g[p]

LEMMA GridIsFinite == IsFiniteSet(Grid) /\ Grid # {}
<1>1. Width \in Nat \ {0} /\ Height \in Nat \ {0}
  BY QualityAssumption
<1>2. IsFiniteSet(0 .. Width - 1) /\ IsFiniteSet(0 .. Height - 1)
  BY <1>1, FS_Interval
<1>3. IsFiniteSet(Grid)
  BY <1>2, FS_Product DEF Grid, Quality!PixelsOf
<1>4. <<0, 0>> \in Grid
  BY <1>1 DEF Grid, Quality!PixelsOf
<1> QED BY <1>3, <1>4

\* The sum of the pixels of a picture that is nowhere darker is not smaller.
LEMMA SumIsMonotonic ==
  ASSUME NEW f, NEW g, Lighter(f, g)
  PROVE  /\ Quality!Average(f)[1] \in Int /\ Quality!Average(g)[1] \in Int
         /\ Quality!Average(f)[1] <= Quality!Average(g)[1]
         /\ Quality!Average(f)[2] = Width * Height /\ Quality!Average(g)[2] = Width * Height
<1> DEFINE itf == CHOOSE it : IsSum(it, f, SUBSET Grid)
           itg == CHOOSE it : IsSum(it, g, SUBSET Grid)
           T == {s \in SUBSET Grid : itf[s] \in Int /\ itg[s] \in Int /\ itf[s] <= itg[s]}
<1>1. IsSum(itf, f, SUBSET Grid) /\ IsSum(itg, g, SUBSET Grid)
  BY GridIsFinite, SumExists
<1>2. Quality!Average(f) = <<itf[Grid], Width * Height>>
  BY DEF Quality!Average, Quality!MapThenSumSet, Quality!MapThenFoldSet, IsSum, Taken, Grid
<1>3. Quality!Average(g) = <<itg[Grid], Width * Height>>
  BY DEF Quality!Average, Quality!MapThenSumSet, Quality!MapThenFoldSet, IsSum, Taken, Grid
<1> HIDE DEF itf, itg
<1>4. {} \in T
  BY <1>1 DEF IsSum
<1>5. ASSUME NEW s \in SUBSET Grid, s # {}, s \ {Taken(s)} \in T PROVE s \in T
  <2>1. Taken(s) \in Grid /\ s \ {Taken(s)} \in SUBSET Grid
    BY <1>5, TakenIsElement
  <2>2. itf[s] = f[Taken(s)] + itf[s \ {Taken(s)}] /\ itg[s] = g[Taken(s)] + itg[s \ {Taken(s)}]
    BY <1>1, <1>5 DEF IsSum
  <2>3. f[Taken(s)] \in Nat /\ g[Taken(s)] \in Nat /\ f[Taken(s)] <= g[Taken(s)]
    BY <2>1 DEF Lighter
  <2> QED BY <1>5, <2>2, <2>3
<1>6. Grid \in T
  <2> HIDE DEF T
  <2> QED BY <1>4, <1>5, GridIsFinite, SubsetInduction
<1> QED BY <1>2, <1>3, <1>6

LEMMA SharesAre ==
  ASSUME NEW f
  PROVE  /\ \A set : Quality!Share(f, set, Quality!IsDark) = DarkShare(f, set)
         /\ \A set : Quality!Share(f, set, Quality!IsBright) = BrightShare(f, set)
BY DEF Quality!Share, Quality!IsDark, Quality!IsBright, Quality!Cardinality, Cardinality, DarkShare, BrightShare, DarkOnes, BrightOnes

\* Of a set of pixels, no more are dark and no fewer bright in a lighter picture.
LEMMA SharesAreMonotonic ==
  ASSUME NEW f, NEW g, Lighter(f, g), NEW set \in SUBSET Grid
  PROVE  /\ DarkShare(g, set)[1] <= DarkShare(f, set)[1]
         /\ BrightShare(f, set)[1] <= BrightShare(g, set)[1]
         /\ DarkShare(g, set)[2] = DarkShare(f, set)[2] /\ BrightShare(g, set)[2] = BrightShare(f, set)[2]
         /\ DarkShare(f, set) \in Nat \X Nat /\ DarkShare(g, set) \in Nat \X Nat
         /\ BrightShare(f, set) \in Nat \X Nat /\ BrightShare(g, set) \in Nat \X Nat
<1>1. DarkCutoff \in Nat /\ HighlightCutoff \in Nat
  BY QualityAssumption
<1>2. \A p \in set : f[p] \in Nat /\ g[p] \in Nat /\ f[p] <= g[p]
  BY DEF Lighter
<1>3. DarkOnes(g, set) \subseteq DarkOnes(f, set) /\ BrightOnes(f, set) \subseteq BrightOnes(g, set)
  BY <1>1, <1>2 DEF DarkOnes, BrightOnes
<1>4. IsFiniteSet(set)
  BY GridIsFinite, FS_Subset
<1>5. \A h : DarkOnes(h, set) \in SUBSET set /\ BrightOnes(h, set) \in SUBSET set
  BY DEF DarkOnes, BrightOnes
<1>6. \A h : /\ IsFiniteSet(DarkOnes(h, set)) /\ Cardinality(DarkOnes(h, set)) \in Nat
             /\ IsFiniteSet(BrightOnes(h, set)) /\ Cardinality(BrightOnes(h, set)) \in Nat
  BY <1>4, <1>5, FS_Subset, FS_CardinalityType
<1>7. /\ Cardinality(DarkOnes(g, set)) <= Cardinality(DarkOnes(f, set))
      /\ Cardinality(BrightOnes(f, set)) <= Cardinality(BrightOnes(g, set))
  BY <1>3, <1>6, FS_Subset
<1>8. Cardinality(set) \in Nat
  BY <1>4, FS_CardinalityType
<1> QED BY <1>6, <1>7, <1>8 DEF DarkShare, BrightShare

-----------------------------------------------------------------------------
(* States.                                                                    *)

LEMMA LowerIs ==
  ASSUME NEW v, NEW t
  PROVE  Quality!LowerIsBetter(v, t) =
           IF v[1] <= t[1] * v[2] THEN "Accepted" ELSE IF v[1] <= t[2] * v[2] THEN "Warning"
           ELSE IF v[1] <= t[3] * v[2] THEN "NeedsReview" ELSE "Rejected"
BY DEF Quality!LowerIsBetter, Quality!Graded

LEMMA HigherIs ==
  ASSUME NEW v, NEW t
  PROVE  Quality!HigherIsBetter(v, t) =
           IF v[1] >= t[1] * v[2] THEN "Accepted" ELSE IF v[1] >= t[2] * v[2] THEN "Warning"
           ELSE IF v[1] >= t[3] * v[2] THEN "NeedsReview" ELSE "Rejected"
BY DEF Quality!HigherIsBetter, Quality!Graded

Rank(s) == Quality!Ranked[s]

LEMMA RanksAre == /\ Rank("Unavailable") = 0 /\ Rank("Accepted") = 1 /\ Rank("Warning") = 2
                  /\ Rank("NeedsReview") = 3 /\ Rank("Rejected") = 4
BY DEF Rank, Quality!Ranked

\* A measurement that meets every threshold another meets has no worse a state.
LEMMA LowerIsMonotonic ==
  ASSUME NEW v, NEW w, NEW t,
         \A i \in 1 .. 3 : w[1] <= t[i] * w[2] => v[1] <= t[i] * v[2]
  PROVE  Rank(Quality!LowerIsBetter(v, t)) <= Rank(Quality!LowerIsBetter(w, t))
<1>1. /\ w[1] <= t[1] * w[2] => v[1] <= t[1] * v[2]
      /\ w[1] <= t[2] * w[2] => v[1] <= t[2] * v[2]
      /\ w[1] <= t[3] * w[2] => v[1] <= t[3] * v[2]
  OBVIOUS
<1> QED BY <1>1, LowerIs, RanksAre

LEMMA HigherIsMonotonic ==
  ASSUME NEW v, NEW w, NEW t,
         \A i \in 1 .. 3 : w[1] >= t[i] * w[2] => v[1] >= t[i] * v[2]
  PROVE  Rank(Quality!HigherIsBetter(v, t)) <= Rank(Quality!HigherIsBetter(w, t))
<1>1. /\ w[1] >= t[1] * w[2] => v[1] >= t[1] * v[2]
      /\ w[1] >= t[2] * w[2] => v[1] >= t[2] * v[2]
      /\ w[1] >= t[3] * w[2] => v[1] >= t[3] * v[2]
  OBVIOUS
<1> QED BY <1>1, HigherIs, RanksAre

LEMMA StatesAreGraded ==
  \A v, t : Quality!LowerIsBetter(v, t) \in GradedStates /\ Quality!HigherIsBetter(v, t) \in GradedStates
BY LowerIs, HigherIs DEF GradedStates

\* The worst of some states is one of them, and none is worse.
LEMMA WorstIs ==
  ASSUME NEW set \in SUBSET GradedStates, set # {}
  PROVE  Quality!Worst(set) \in set /\ \A r \in set : Rank(r) <= Rank(Quality!Worst(set))
<1>1. \E s \in set : \A r \in set : Rank(r) <= Rank(s)
  <2>1. CASE "Rejected" \in set
    BY <2>1, RanksAre DEF GradedStates
  <2>2. CASE "Rejected" \notin set /\ "NeedsReview" \in set
    BY <2>2, RanksAre DEF GradedStates
  <2>3. CASE "Rejected" \notin set /\ "NeedsReview" \notin set /\ "Warning" \in set
    BY <2>3, RanksAre DEF GradedStates
  <2>4. CASE "Rejected" \notin set /\ "NeedsReview" \notin set /\ "Warning" \notin set
    <3>1. set = {"Accepted"}
      BY <2>4 DEF GradedStates
    <3> QED BY <3>1, RanksAre
  <2> QED BY <2>1, <2>2, <2>3, <2>4
<1> QED BY <1>1 DEF Quality!Worst, Rank

LEMMA WorstOfTwoIsMonotonic ==
  ASSUME NEW a \in GradedStates, NEW b \in GradedStates, NEW c \in GradedStates, NEW d \in GradedStates,
         Rank(a) <= Rank(c), Rank(b) <= Rank(d)
  PROVE  Rank(Quality!Worst({a, b})) <= Rank(Quality!Worst({c, d}))
<1>1. Quality!Worst({a, b}) \in {a, b}
  BY WorstIs
<1>2. Quality!Worst({c, d}) \in {c, d} /\ Rank(c) <= Rank(Quality!Worst({c, d})) /\ Rank(d) <= Rank(Quality!Worst({c, d}))
  BY WorstIs
<1>3. \A s \in GradedStates : Rank(s) \in Nat
  BY RanksAre DEF GradedStates
<1> QED BY <1>1, <1>2, <1>3

-----------------------------------------------------------------------------
(* Tiles.                                                                     *)

LEMMA ImageIsFinite ==
  ASSUME NEW S, IsFiniteSet(S), NEW h
  PROVE  IsFiniteSet({h[x] : x \in S})
<1> DEFINE T == {h[x] : x \in S}
           k == [x \in S |-> h[x]]
<1>1. k \in Surjection(S, T)
  BY DEF Surjection
<1> QED BY <1>1, FS_Surjection

LEMMA TilesAre ==
  /\ IsFiniteSet(Quality!Tiles) /\ Quality!Tiles # {}
  /\ \A t \in Quality!Tiles : t \in SUBSET Grid /\ t # {}
  /\ UNION Quality!Tiles = Grid
  /\ \A t, u \in Quality!Tiles : t # u => t \cap u = {}
<1> DEFINE At(i) == {p \in Grid : Quality!TileOf(p) = i}
           places == {Quality!TileOf(p) : p \in Grid}
<1>1. Quality!Tiles = {At(i) : i \in places}
  BY DEF Quality!Tiles, Grid
<1>2. IsFiniteSet(places) /\ places # {}
  <2> DEFINE h == [p \in Grid |-> Quality!TileOf(p)]
  <2>1. places = {h[p] : p \in Grid}
    OBVIOUS
  <2>2. IsFiniteSet({h[p] : p \in Grid})
    <3> HIDE DEF h
    <3> QED BY GridIsFinite, ImageIsFinite
  <2> QED BY <2>1, <2>2, GridIsFinite
<1> HIDE DEF places
<1>3. IsFiniteSet({At(i) : i \in places})
  <2> DEFINE h == [i \in places |-> At(i)]
  <2>1. {At(i) : i \in places} = {h[i] : i \in places}
    <3> HIDE DEF At
    <3> QED OBVIOUS
  <2>2. IsFiniteSet({h[i] : i \in places})
    <3> HIDE DEF h
    <3> QED BY <1>2, ImageIsFinite
  <2> QED BY <2>1, <2>2
<1>4. \A i \in places : At(i) \in SUBSET Grid /\ At(i) # {}
  BY DEF places
<1>5. \A p \in Grid : Quality!TileOf(p) \in places /\ p \in At(Quality!TileOf(p))
  BY DEF places
<1>6. \A i, j \in places : At(i) # At(j) => At(i) \cap At(j) = {}
  OBVIOUS
<1> HIDE DEF At
<1>7. UNION {At(i) : i \in places} = Grid
  BY <1>4, <1>5
<1> QED BY <1>1, <1>2, <1>3, <1>4, <1>6, <1>7

LEMMA TileShares ==
  ASSUME NEW f, NEW tile \in Quality!Tiles
  PROVE  /\ BrightShare(f, tile)[1] \in Nat /\ BrightShare(f, tile)[2] \in Nat \ {0}
         /\ BrightShare(f, tile)[1] = 100 * Cardinality(BrightOnes(f, tile))
         /\ BrightShare(f, tile)[2] = Cardinality(tile)
         /\ Cardinality(BrightOnes(f, tile)) \in Nat
<1>1. IsFiniteSet(tile) /\ tile # {}
  BY TilesAre, GridIsFinite, FS_Subset
<1>2. Cardinality(tile) \in Nat /\ Cardinality(tile) # 0
  BY <1>1, FS_CardinalityType, FS_EmptySet
<1>3. BrightOnes(f, tile) \in SUBSET tile
  BY DEF BrightOnes
<1>4. Cardinality(BrightOnes(f, tile)) \in Nat
  BY <1>1, <1>3, FS_Subset, FS_CardinalityType
<1> QED BY <1>2, <1>4 DEF BrightShare

LEMMA SharesAreFinite ==
  ASSUME NEW f
  PROVE  /\ IsFiniteSet(Shares(f)) /\ Shares(f) # {}
         /\ \A r \in Shares(f) : r[1] \in Nat /\ r[2] \in Nat \ {0}
<1>1. IsFiniteSet(Shares(f))
  <2> DEFINE h == [t \in Quality!Tiles |-> BrightShare(f, t)]
  <2>1. Shares(f) = {h[t] : t \in Quality!Tiles}
    BY DEF Shares
  <2>2. IsFiniteSet({h[t] : t \in Quality!Tiles})
    <3> HIDE DEF h
    <3> QED BY TilesAre, ImageIsFinite
  <2> QED BY <2>1, <2>2
<1> QED BY <1>1, TilesAre, TileShares DEF Shares

\* Fractions with positive denominators are compared by cross multiplication.
LEMMA CrossIsTransitive ==
  ASSUME NEW a \in Nat, NEW ad \in Nat \ {0}, NEW b \in Nat, NEW bd \in Nat \ {0},
         NEW c \in Nat, NEW cd \in Nat \ {0}, a * bd <= b * ad, b * cd <= c * bd
  PROVE  a * cd <= c * ad
<1>1. (a * bd) * cd <= (b * ad) * cd
  BY SMTT(20)
<1>2. (b * cd) * ad <= (c * bd) * ad
  BY SMTT(20)
<1>3. (a * cd) * bd <= (c * ad) * bd
  BY <1>1, <1>2, SMTT(20)
<1>4. a * cd \in Nat /\ c * ad \in Nat
  OBVIOUS
<1> DEFINE x == a * cd
           y == c * ad
<1>5. x \in Nat /\ y \in Nat /\ x * bd <= y * bd
  BY <1>3, <1>4
<1> HIDE DEF x, y
<1>6. x <= y
  BY <1>5, SMTT(20)
<1> QED BY <1>6 DEF x, y

LEMMA TopExists ==
  ASSUME NEW S, IsFiniteSet(S), S # {}, \A r \in S : r[1] \in Nat /\ r[2] \in Nat \ {0}
  PROVE  \E s \in S : \A r \in S : r[1] * s[2] <= s[1] * r[2]
<1> DEFINE T == {s \in SUBSET S : s = {} \/ \E m \in s : \A r \in s : r[1] * m[2] <= m[1] * r[2]}
<1>1. {} \in T
  OBVIOUS
<1>2. ASSUME NEW s \in SUBSET S, s # {}, s \ {Taken(s)} \in T PROVE s \in T
  <2>1. Taken(s) \in s
    BY <1>2, TakenIsElement
  <2> DEFINE x == Taken(s)
             rest == s \ {x}
  <2>2. x \in S /\ x \in s /\ s = rest \cup {x} /\ x[1] \in Nat /\ x[2] \in Nat \ {0}
    BY <2>1
  <2> HIDE DEF x
  <2>3. CASE rest = {}
    <3>1. s = {x}
      BY <2>2, <2>3
    <3> QED BY <2>2, <3>1
  <2>4. CASE rest # {}
    <3>1. PICK m \in rest : \A r \in rest : r[1] * m[2] <= m[1] * r[2]
      BY <1>2, <2>4 DEF x
    <3>2. m \in S /\ m[1] \in Nat /\ m[2] \in Nat \ {0}
      BY <3>1
    <3>3. CASE x[1] * m[2] <= m[1] * x[2]
      <4>1. \A r \in s : r[1] * m[2] <= m[1] * r[2]
        BY <3>1, <3>3, <2>2
      <4> QED BY <3>1, <4>1
    <3>4. CASE ~(x[1] * m[2] <= m[1] * x[2])
      <4>1. m[1] * x[2] <= x[1] * m[2]
        <5> DEFINE u == x[1] * m[2]
                   w == m[1] * x[2]
        <5>1. u \in Nat /\ w \in Nat /\ ~(u <= w)
          BY <2>2, <3>2, <3>4
        <5> HIDE DEF u, w
        <5>2. w <= u
          BY <5>1
        <5> QED BY <5>2 DEF u, w
      <4>2. ASSUME NEW r \in s PROVE r[1] * x[2] <= x[1] * r[2]
        <5>1. CASE r = x
          BY <5>1, <2>2
        <5>2. CASE r # x
          <6>1. r \in rest /\ r[1] \in Nat /\ r[2] \in Nat \ {0}
            BY <5>2
          <6>2. r[1] * m[2] <= m[1] * r[2]
            BY <6>1, <3>1
          <6> QED BY <6>1, <6>2, <4>1, <3>2, <2>2, CrossIsTransitive
        <5> QED BY <5>1, <5>2
      <4> QED BY <4>2, <2>2
    <3> QED BY <3>3, <3>4
  <2> QED BY <2>3, <2>4
<1>3. S \in T
  <2> HIDE DEF T
  <2> QED BY <1>1, <1>2, SubsetInduction
<1> QED BY <1>3

LEMMA BrightestIs ==
  ASSUME NEW f
  PROVE  /\ Quality!Brightest(f) \in Shares(f)
         /\ \A r \in Shares(f) : r[1] * Quality!Brightest(f)[2] <= Quality!Brightest(f)[1] * r[2]
         /\ Quality!Brightest(f)[1] \in Nat /\ Quality!Brightest(f)[2] \in Nat \ {0}
<1>1. Quality!Brightest(f) = CHOOSE s \in Shares(f) : \A r \in Shares(f) : ~(r[1] * s[2] > s[1] * r[2])
  BY SharesAre DEF Quality!Brightest, Quality!Greatest, Quality!Above, Shares
<1>2. PICK s \in Shares(f) : \A r \in Shares(f) : r[1] * s[2] <= s[1] * r[2]
  BY SharesAreFinite, TopExists
<1>3. \A r, u \in Shares(f) : (r[1] * u[2] <= u[1] * r[2]) <=> ~(r[1] * u[2] > u[1] * r[2])
  <2> TAKE r, u \in Shares(f)
  <2> DEFINE x == r[1] * u[2]
             y == u[1] * r[2]
  <2>1. x \in Nat /\ y \in Nat
    BY SharesAreFinite
  <2> HIDE DEF x, y
  <2>2. (x <= y) <=> ~(x > y)
    BY <2>1
  <2> QED BY <2>2 DEF x, y
<1>4. \A r \in Shares(f) : ~(r[1] * s[2] > s[1] * r[2])
  BY <1>2, <1>3
<1>5. /\ Quality!Brightest(f) \in Shares(f)
      /\ \A r \in Shares(f) : ~(r[1] * Quality!Brightest(f)[2] > Quality!Brightest(f)[1] * r[2])
  BY <1>1, <1>4
<1> QED BY <1>3, <1>5, SharesAreFinite

\* A bound that the brightest tile of a picture meets is met by the brightest tile
\* of a picture that is nowhere brighter.
LEMMA BrightestIsMonotonic ==
  ASSUME NEW f, NEW g, Lighter(f, g), NEW b \in Nat,
         Quality!Brightest(g)[1] <= b * Quality!Brightest(g)[2]
  PROVE  Quality!Brightest(f)[1] <= b * Quality!Brightest(f)[2]
<1>1. PICK tile \in Quality!Tiles : Quality!Brightest(f) = BrightShare(f, tile)
  BY BrightestIs DEF Shares
<1> DEFINE r == BrightShare(g, tile)
           s == Quality!Brightest(g)
<1>2. r \in Shares(g) /\ r[1] \in Nat /\ r[2] \in Nat \ {0} /\ s[1] \in Nat /\ s[2] \in Nat \ {0}
  BY TileShares, BrightestIs DEF Shares
<1>3. r[1] * s[2] <= s[1] * r[2]
  BY <1>2, BrightestIs
<1>4. BrightShare(f, tile)[1] <= r[1] /\ BrightShare(f, tile)[2] = r[2]
      /\ BrightShare(f, tile)[1] \in Nat
  BY TilesAre, SharesAreMonotonic, TileShares
<1> HIDE DEF r, s
<1>5. s[1] <= b * s[2]
  BY DEF s
<1>6. s[1] * 1 <= b * s[2] /\ 1 \in Nat \ {0}
  BY <1>5, <1>2
<1>7. r[1] * 1 <= b * r[2]
  <2> DEFINE r1 == r[1]
             r2 == r[2]
             s1 == s[1]
             s2 == s[2]
  <2>1. r1 \in Nat /\ r2 \in Nat \ {0} /\ s1 \in Nat /\ s2 \in Nat \ {0} /\ r1 * s2 <= s1 * r2 /\ s1 * 1 <= b * s2
    BY <1>2, <1>3, <1>6
  <2> HIDE DEF r1, r2, s1, s2
  <2>2. r1 * 1 <= b * r2
    BY <2>1, <1>6, CrossIsTransitive
  <2> QED BY <2>2 DEF r1, r2
<1> QED BY <1>1, <1>2, <1>4, <1>7

\* The bright pixels of a part of the tiles are no larger a share of the part than
\* the brightest tile's.
LEMMA BrightestIsNotAveraged ==
  ASSUME NEW f
  PROVE  ~Quality!Above(BrightShare(f, Grid), Quality!Brightest(f))
<1> DEFINE n == Quality!Brightest(f)[1]
           d == Quality!Brightest(f)[2]
           Lit(s) == 100 * Cardinality(BrightOnes(f, UNION s))
           Size(s) == Cardinality(UNION s)
           T == {s \in SUBSET Quality!Tiles : Lit(s) * d <= n * Size(s)}
<1>1. n \in Nat /\ d \in Nat \ {0}
  BY BrightestIs
<1>2. \A s \in SUBSET Quality!Tiles :
         /\ UNION s \in SUBSET Grid /\ IsFiniteSet(UNION s) /\ Size(s) \in Nat
         /\ IsFiniteSet(BrightOnes(f, UNION s)) /\ Cardinality(BrightOnes(f, UNION s)) \in Nat
  <2> TAKE s \in SUBSET Quality!Tiles
  <2>1. UNION s \in SUBSET Grid
    BY TilesAre
  <2>2. IsFiniteSet(UNION s)
    BY <2>1, GridIsFinite, FS_Subset
  <2>3. BrightOnes(f, UNION s) \in SUBSET UNION s
    BY DEF BrightOnes
  <2>4. IsFiniteSet(BrightOnes(f, UNION s))
    BY <2>2, <2>3, FS_Subset
  <2> QED BY <2>1, <2>2, <2>4, FS_CardinalityType
<1>3. {} \in T
  <2>1. UNION {} = {} /\ BrightOnes(f, {}) = {}
    BY DEF BrightOnes
  <2>2. Lit({}) = 0 /\ Size({}) = 0
    BY <2>1, FS_EmptySet
  <2>3. 0 * d <= n * 0
    BY <1>1
  <2> QED BY <2>2, <2>3
<1>4. ASSUME NEW s \in SUBSET Quality!Tiles, s # {}, s \ {Taken(s)} \in T PROVE s \in T
  <2> DEFINE t == Taken(s)
             rest == s \ {t}
  <2>1. t \in s /\ t \in Quality!Tiles /\ rest \in SUBSET Quality!Tiles
    BY <1>4, TakenIsElement
  <2> HIDE DEF t
  <2>2. UNION s = (UNION rest) \cup t /\ (UNION rest) \cap t = {}
    BY <2>1, TilesAre
  <2>3. IsFiniteSet(t) /\ IsFiniteSet(UNION rest)
    BY <2>1, <1>2, TilesAre, GridIsFinite, FS_Subset
  <2>4. Size(s) = Size(rest) + Cardinality(t) - Cardinality({})
    BY <2>2, <2>3, FS_Union
  <2>5. /\ BrightOnes(f, UNION s) = BrightOnes(f, UNION rest) \cup BrightOnes(f, t)
        /\ BrightOnes(f, UNION rest) \cap BrightOnes(f, t) = {}
    BY <2>2 DEF BrightOnes
  <2>6. IsFiniteSet(BrightOnes(f, t)) /\ IsFiniteSet(BrightOnes(f, UNION rest))
    <3>1. BrightOnes(f, t) \in SUBSET t
      BY DEF BrightOnes
    <3> QED BY <3>1, <2>1, <2>3, <1>2, FS_Subset
  <2>7. Cardinality(BrightOnes(f, UNION s)) =
          Cardinality(BrightOnes(f, UNION rest)) + Cardinality(BrightOnes(f, t)) - Cardinality({})
    BY <2>5, <2>6, FS_Union, ZenonT(60)
  <2>8. /\ BrightShare(f, t)[1] * d <= n * BrightShare(f, t)[2]
        /\ BrightShare(f, t)[1] \in Nat /\ BrightShare(f, t)[2] \in Nat
    BY <2>1, BrightestIs, TileShares DEF Shares
  <2> DEFINE a == Cardinality(BrightOnes(f, UNION rest))
             b == Cardinality(BrightOnes(f, t))
             x == Size(rest)
             y == Cardinality(t)
  <2>9. a \in Nat /\ b \in Nat /\ x \in Nat /\ y \in Nat
    BY <1>2, <2>1, TileShares, ZenonT(60)
  <2>10. (100 * a) * d <= n * x
    BY <1>4 DEF t
  <2>11. (100 * b) * d <= n * y
    BY <2>8, <2>1, TileShares
  <2>12. Lit(s) = 100 * (a + b) /\ Size(s) = x + y
    BY <2>4, <2>7, <2>9, FS_EmptySet
  <2> HIDE DEF a, b, x, y, n, d
  <2>13. (100 * (a + b)) * d <= n * (x + y)
    <3>1. (100 * (a + b)) * d = (100 * a) * d + (100 * b) * d
      BY <2>9, <1>1, SMTT(20)
    <3>2. n * (x + y) = n * x + n * y
      BY <2>9, <1>1, SMTT(20)
    <3>3. (100 * a) * d \in Nat /\ (100 * b) * d \in Nat /\ n * x \in Nat /\ n * y \in Nat
      BY <2>9, <1>1
    <3> DEFINE p1 == (100 * a) * d
               p2 == (100 * b) * d
               q1 == n * x
               q2 == n * y
    <3>4. p1 + p2 <= q1 + q2
      <4>1. p1 \in Nat /\ p2 \in Nat /\ q1 \in Nat /\ q2 \in Nat /\ p1 <= q1 /\ p2 <= q2
        BY <3>3, <2>10, <2>11
      <4> HIDE DEF p1, p2, q1, q2
      <4> QED BY <4>1
    <3> QED BY <3>1, <3>2, <3>4
  <2> QED BY <2>12, <2>13
<1>5. Quality!Tiles \in T
  <2> HIDE DEF T
  <2> QED BY <1>3, <1>4, TilesAre, SubsetInduction
<1>6. (100 * Cardinality(BrightOnes(f, Grid))) * d <= n * Cardinality(Grid)
  BY <1>5, TilesAre
<1>7. 100 * Cardinality(BrightOnes(f, Grid)) \in Nat /\ Cardinality(Grid) \in Nat
  BY <1>2, TilesAre
<1> DEFINE p == (100 * Cardinality(BrightOnes(f, Grid))) * d
           q == n * Cardinality(Grid)
<1>8. p \in Nat /\ q \in Nat
  BY <1>7, <1>1
<1>9. ~(p > q)
  <2> HIDE DEF p, q
  <2>1. p <= q
    BY <1>6 DEF p, q
  <2> QED BY <2>1, <1>8
<1> QED BY <1>9 DEF Quality!Above, BrightShare

-----------------------------------------------------------------------------
(* The states of a picture, and what is lost or won when it gets lighter.     *)

MeanLow           == <<60, 45, 30>>
DarkFraction      == <<25, 50, 75>>
MeanHigh          == <<80, 90, 110>>
HighlightFraction == <<50, 75, 90>>
TileFraction      == <<60, 80, 99>>

LEMMA LightStatesAre ==
  ASSUME NEW f
  PROVE  /\ Quality!States(f)["underexposure"] =
              Quality!Worst({Quality!HigherIsBetter(Quality!Average(f), MeanLow),
                             Quality!LowerIsBetter(DarkShare(f, Grid), DarkFraction)})
         /\ Quality!States(f)["overexposure"] =
              Quality!Worst({Quality!LowerIsBetter(Quality!Average(f), MeanHigh),
                             Quality!LowerIsBetter(BrightShare(f, Grid), HighlightFraction)})
         /\ Quality!States(f)["glare"] =
              Quality!Worst({Quality!LowerIsBetter(BrightShare(f, Grid), HighlightFraction),
                             Quality!LowerIsBetter(Quality!Brightest(f), TileFraction)})
<1>1. /\ Quality!Share(f, Grid, Quality!IsDark) = DarkShare(f, Grid)
      /\ Quality!Share(f, Grid, Quality!IsBright) = BrightShare(f, Grid)
  BY SharesAre
<1> QED BY <1>1 DEF Quality!States, Quality!Measured, Grid, MeanLow, DarkFraction, MeanHigh,
                   HighlightFraction, TileFraction

LEMMA OtherStatesAre ==
  ASSUME NEW f
  PROVE  /\ DOMAIN Quality!States(f) = Quality!Measured \cup Quality!PageMetrics
         /\ Quality!States(f)["focus"] =
              Quality!Optional(Quality!Sharpness(f), "focus",
                  Quality!HigherIsBetter(Quality!Sharpness(f), <<10000, 1000, 10>>))
         /\ \A m \in Quality!PageMetrics :
               Quality!States(f)[m] = Quality!Optional(Quality!others[m], m, Quality!others[m])
<1>1. \A m \in Quality!PageMetrics : m \notin {"focus", "underexposure", "overexposure", "glare"}
  BY DEF Quality!PageMetrics
<1> QED BY <1>1 DEF Quality!States, Quality!Measured

LEMMA LighterIsNoBetterLit ==
  ASSUME NEW f, NEW g, Lighter(f, g)
  PROVE  /\ Rank(Quality!States(g)["underexposure"]) <= Rank(Quality!States(f)["underexposure"])
         /\ Rank(Quality!States(f)["overexposure"]) <= Rank(Quality!States(g)["overexposure"])
         /\ Rank(Quality!States(f)["glare"]) <= Rank(Quality!States(g)["glare"])
<1>1. /\ Width * Height \in Int
      /\ Quality!Average(f)[1] \in Int /\ Quality!Average(g)[1] \in Int
      /\ Quality!Average(f)[1] <= Quality!Average(g)[1]
      /\ Quality!Average(f)[2] = Quality!Average(g)[2]
      /\ Quality!Average(f)[2] \in Int
  BY SumIsMonotonic, QualityAssumption
<1>2. /\ DarkShare(g, Grid)[1] <= DarkShare(f, Grid)[1]
      /\ BrightShare(f, Grid)[1] <= BrightShare(g, Grid)[1]
      /\ DarkShare(g, Grid)[2] = DarkShare(f, Grid)[2] /\ BrightShare(g, Grid)[2] = BrightShare(f, Grid)[2]
      /\ DarkShare(f, Grid) \in Nat \X Nat /\ DarkShare(g, Grid) \in Nat \X Nat
      /\ BrightShare(f, Grid) \in Nat \X Nat /\ BrightShare(g, Grid) \in Nat \X Nat
  BY SharesAreMonotonic
<1>3. Rank(Quality!HigherIsBetter(Quality!Average(g), MeanLow))
        <= Rank(Quality!HigherIsBetter(Quality!Average(f), MeanLow))
  <2>1. ASSUME NEW b \in Int, Quality!Average(f)[1] >= b * Quality!Average(f)[2]
        PROVE  Quality!Average(g)[1] >= b * Quality!Average(g)[2]
    BY <1>1, <2>1
  <2>2. \A i \in 1 .. 3 : MeanLow[i] \in Int
    BY DEF MeanLow
  <2> QED BY <2>1, <2>2, HigherIsMonotonic
<1>4. Rank(Quality!LowerIsBetter(DarkShare(g, Grid), DarkFraction))
        <= Rank(Quality!LowerIsBetter(DarkShare(f, Grid), DarkFraction))
  <2>1. ASSUME NEW b \in Int, DarkShare(f, Grid)[1] <= b * DarkShare(f, Grid)[2]
        PROVE  DarkShare(g, Grid)[1] <= b * DarkShare(g, Grid)[2]
    BY <1>2, <2>1
  <2>2. \A i \in 1 .. 3 : DarkFraction[i] \in Int
    BY DEF DarkFraction
  <2> QED BY <2>1, <2>2, LowerIsMonotonic
<1>5. Rank(Quality!LowerIsBetter(Quality!Average(f), MeanHigh))
        <= Rank(Quality!LowerIsBetter(Quality!Average(g), MeanHigh))
  <2>1. ASSUME NEW b \in Int, Quality!Average(g)[1] <= b * Quality!Average(g)[2]
        PROVE  Quality!Average(f)[1] <= b * Quality!Average(f)[2]
    BY <1>1, <2>1
  <2>2. \A i \in 1 .. 3 : MeanHigh[i] \in Int
    BY DEF MeanHigh
  <2> QED BY <2>1, <2>2, LowerIsMonotonic
<1>6. Rank(Quality!LowerIsBetter(BrightShare(f, Grid), HighlightFraction))
        <= Rank(Quality!LowerIsBetter(BrightShare(g, Grid), HighlightFraction))
  <2>1. ASSUME NEW b \in Int, BrightShare(g, Grid)[1] <= b * BrightShare(g, Grid)[2]
        PROVE  BrightShare(f, Grid)[1] <= b * BrightShare(f, Grid)[2]
    BY <1>2, <2>1
  <2>2. \A i \in 1 .. 3 : HighlightFraction[i] \in Int
    BY DEF HighlightFraction
  <2> QED BY <2>1, <2>2, LowerIsMonotonic
<1>7. Rank(Quality!LowerIsBetter(Quality!Brightest(f), TileFraction))
        <= Rank(Quality!LowerIsBetter(Quality!Brightest(g), TileFraction))
  <2>1. \A i \in 1 .. 3 : TileFraction[i] \in Nat
    BY DEF TileFraction
  <2> QED BY <2>1, BrightestIsMonotonic, LowerIsMonotonic
<1> DEFINE FA == Quality!LowerIsBetter(Quality!Average(f), MeanHigh)
           GA == Quality!LowerIsBetter(Quality!Average(g), MeanHigh)
           FB == Quality!LowerIsBetter(BrightShare(f, Grid), HighlightFraction)
           GB == Quality!LowerIsBetter(BrightShare(g, Grid), HighlightFraction)
           FT == Quality!LowerIsBetter(Quality!Brightest(f), TileFraction)
           GT == Quality!LowerIsBetter(Quality!Brightest(g), TileFraction)
           FM == Quality!HigherIsBetter(Quality!Average(f), MeanLow)
           GM == Quality!HigherIsBetter(Quality!Average(g), MeanLow)
           FD == Quality!LowerIsBetter(DarkShare(f, Grid), DarkFraction)
           GD == Quality!LowerIsBetter(DarkShare(g, Grid), DarkFraction)
<1>8. {FA, GA, FB, GB, FT, GT, FM, GM, FD, GD} \subseteq GradedStates
  BY StatesAreGraded
<1>9. /\ Quality!States(f)["underexposure"] = Quality!Worst({FM, FD})
      /\ Quality!States(g)["underexposure"] = Quality!Worst({GM, GD})
      /\ Quality!States(f)["overexposure"] = Quality!Worst({FA, FB})
      /\ Quality!States(g)["overexposure"] = Quality!Worst({GA, GB})
      /\ Quality!States(f)["glare"] = Quality!Worst({FB, FT})
      /\ Quality!States(g)["glare"] = Quality!Worst({GB, GT})
  BY LightStatesAre
<1> HIDE DEF FA, GA, FB, GB, FT, GT, FM, GM, FD, GD
<1>10. /\ Rank(GM) <= Rank(FM) /\ Rank(GD) <= Rank(FD)
       /\ Rank(FA) <= Rank(GA) /\ Rank(FB) <= Rank(GB) /\ Rank(FT) <= Rank(GT)
  BY <1>3, <1>4, <1>5, <1>6, <1>7 DEF FA, GA, FB, GB, FT, GT, FM, GM, FD, GD
<1>11. Rank(Quality!Worst({GM, GD})) <= Rank(Quality!Worst({FM, FD}))
  BY <1>8, <1>10, WorstOfTwoIsMonotonic
<1>12. Rank(Quality!Worst({FA, FB})) <= Rank(Quality!Worst({GA, GB}))
  BY <1>8, <1>10, WorstOfTwoIsMonotonic
<1>13. Rank(Quality!Worst({FB, FT})) <= Rank(Quality!Worst({GB, GT}))
  BY <1>8, <1>10, WorstOfTwoIsMonotonic
<1> QED BY <1>9, <1>11, <1>12, <1>13

LEMMA LightStatesAreGraded ==
  \A f : /\ Quality!States(f)["underexposure"] \in GradedStates
         /\ Quality!States(f)["overexposure"] \in GradedStates
         /\ Quality!States(f)["glare"] \in GradedStates
<1>1. ASSUME NEW a \in GradedStates, NEW b \in GradedStates PROVE Quality!Worst({a, b}) \in GradedStates
  <2>1. {a, b} \in SUBSET GradedStates /\ {a, b} # {}
    OBVIOUS
  <2>2. Quality!Worst({a, b}) \in {a, b}
    BY <2>1, WorstIs
  <2> QED BY <2>2
<1> TAKE f
<1>2. /\ Quality!Worst({Quality!HigherIsBetter(Quality!Average(f), MeanLow),
                        Quality!LowerIsBetter(DarkShare(f, Grid), DarkFraction)}) \in GradedStates
      /\ Quality!Worst({Quality!LowerIsBetter(Quality!Average(f), MeanHigh),
                        Quality!LowerIsBetter(BrightShare(f, Grid), HighlightFraction)}) \in GradedStates
      /\ Quality!Worst({Quality!LowerIsBetter(BrightShare(f, Grid), HighlightFraction),
                        Quality!LowerIsBetter(Quality!Brightest(f), TileFraction)}) \in GradedStates
  BY <1>1, StatesAreGraded
<1> QED BY <1>2, LightStatesAre

LEMMA PageStatesAreGraded ==
  ASSUME NEW p, NEW m \in Quality!PageMetrics
  PROVE  Quality!PageStates(p)[m] \in GradedStates \cup {NotMeasured}
<1>1. \A set \in SUBSET GradedStates : set # {} => Quality!Worst(set) \in GradedStates
  <2> TAKE set \in SUBSET GradedStates
  <2> HAVE set # {}
  <2>1. Quality!Worst(set) \in set
    BY WorstIs
  <2> QED BY <2>1
<1>2. \A v, t : Quality!WithinBand(v, t) \in GradedStates
  BY DEF Quality!WithinBand, Quality!Graded, GradedStates
<1>3. \A a, b, c, d \in GradedStates :
         /\ {a, b} \in SUBSET GradedStates /\ {a, b, c} \in SUBSET GradedStates
         /\ {a, b, c, d} \in SUBSET GradedStates
  OBVIOUS
<1>4. \A a, b, c, d \in GradedStates :
         /\ Quality!Worst({a, b}) \in GradedStates /\ Quality!Worst({a, b, c}) \in GradedStates
         /\ Quality!Worst({a, b, c, d}) \in GradedStates
  BY <1>1, <1>3
<1>5. Quality!Framing(p) \in GradedStates
  BY <1>2, <1>4, StatesAreGraded, Zenon DEF Quality!Framing
<1>6. Quality!MarkerConfidence(p) \in GradedStates
  BY <1>4, StatesAreGraded, Zenon DEF Quality!MarkerConfidence
<1>7. Quality!Perspective(p) \in GradedStates
  BY <1>4, StatesAreGraded, Zenon DEF Quality!Perspective
<1>8. Quality!Resolution(p) \in GradedStates
  BY <1>4, StatesAreGraded, Zenon DEF Quality!Resolution
<1>9. Quality!Curvature(p) \in GradedStates
  BY <1>4, StatesAreGraded, Zenon DEF Quality!Curvature
<1>10. Quality!PageState(p, m) \in GradedStates \cup {NotMeasured}
  BY <1>5, <1>6, <1>7, <1>8, <1>9 DEF Quality!PageState, Quality!PageMetrics
<1> QED BY <1>10 DEF Quality!PageStates

-----------------------------------------------------------------------------
(* The page in a picture.                                                     *)

Quads == [1 .. 4 -> Int \X Int \X {1}]

Turn(a, b, c) == a[1] * (b[2] - c[2]) - a[2] * (b[1] - c[1]) + (b[1] * c[2] - b[2] * c[1])

LEMMA CornersAre ==
  ASSUME NEW quad \in Quads
  PROVE  \A i \in 1 .. 4 : quad[i][1] \in Int /\ quad[i][2] \in Int /\ quad[i][3] = 1
BY DEF Quads

LEMMA AfterIs ==
  /\ Quality!After[1] = 2 /\ Quality!After[2] = 3 /\ Quality!After[3] = 4 /\ Quality!After[4] = 1
  /\ Quality!Opposite[1] = 3 /\ Quality!Opposite[2] = 4 /\ Quality!Opposite[3] = 1 /\ Quality!Opposite[4] = 2
  /\ \A i \in 1 .. 4 :
        /\ Quality!After[i] \in 1 .. 4 /\ Quality!Opposite[i] \in 1 .. 4
        /\ Quality!Opposite[Quality!Opposite[i]] = i
        /\ Quality!Opposite[Quality!After[Quality!Opposite[i]]] = Quality!After[i]
BY DEF Quality!After, Quality!Opposite

\* The corners of a page turn all one way.
LEMMA PageTurns ==
  ASSUME NEW quad \in Quads, Quality!Valid(quad)
  PROVE  LET T(i, j, k) == Turn(quad[i], quad[j], quad[k])
         IN  \/ T(1, 2, 3) > 0 /\ T(2, 3, 4) > 0 /\ T(3, 4, 1) > 0 /\ T(4, 1, 2) > 0
             \/ T(1, 2, 3) < 0 /\ T(2, 3, 4) < 0 /\ T(3, 4, 1) < 0 /\ T(4, 1, 2) < 0
<1>1. PICK turns \in {-1, 1} :
        \A i \in 0 .. 3 :
           Quality!Cross(quad[(i % 4) + 1], quad[((i + 1) % 4) + 1], quad[((i + 2) % 4) + 1]) = turns
  BY DEF Quality!Valid
<1>2. /\ 0 % 4 = 0 /\ 1 % 4 = 1 /\ 2 % 4 = 2 /\ 3 % 4 = 3 /\ 4 % 4 = 0 /\ 5 % 4 = 1
  OBVIOUS
<1>3. /\ Quality!Cross(quad[1], quad[2], quad[3]) = turns
      /\ Quality!Cross(quad[2], quad[3], quad[4]) = turns
      /\ Quality!Cross(quad[3], quad[4], quad[1]) = turns
      /\ Quality!Cross(quad[4], quad[1], quad[2]) = turns
  BY <1>1, <1>2
<1>4. ASSUME NEW i \in 1 .. 4, NEW j \in 1 .. 4, NEW k \in 1 .. 4
      PROVE  Quality!Cross(quad[i], quad[j], quad[k]) = Quality!Sign(Turn(quad[i], quad[j], quad[k]))
  <2>1. /\ quad[i][3] = 1 /\ quad[j][3] = 1 /\ quad[k][3] = 1
        /\ quad[i][1] \in Int /\ quad[i][2] \in Int /\ quad[j][1] \in Int /\ quad[j][2] \in Int
        /\ quad[k][1] \in Int /\ quad[k][2] \in Int
    BY CornersAre
  <2>2. /\ quad[j][2] * quad[k][3] = quad[j][2] /\ quad[j][3] * quad[k][2] = quad[k][2]
        /\ quad[j][1] * quad[k][3] = quad[j][1] /\ quad[j][3] * quad[k][1] = quad[k][1]
        /\ quad[i][3] * (quad[j][1] * quad[k][2] - quad[j][2] * quad[k][1])
             = quad[j][1] * quad[k][2] - quad[j][2] * quad[k][1]
    BY <2>1
  <2> QED BY <2>2 DEF Quality!Cross, Turn
<1>5. \A n \in Int : /\ Quality!Sign(n) = 1 => n > 0
                     /\ Quality!Sign(n) = -1 => n < 0
  BY DEF Quality!Sign
<1>6. \A i, j, k \in 1 .. 4 : Turn(quad[i], quad[j], quad[k]) \in Int
  <2>1. ASSUME NEW x \in Int, NEW y \in Int, NEW u \in Int, NEW v \in Int, NEW s \in Int, NEW t \in Int
        PROVE  x * (v - t) - y * (u - s) + (u * t - v * s) \in Int
    OBVIOUS
  <2> TAKE i, j, k \in 1 .. 4
  <2> QED BY <2>1, CornersAre DEF Turn
<1> QED BY <1>3, <1>4, <1>5, <1>6

\* An edge of a page has a length.
LEMMA EdgeHasLength ==
  ASSUME NEW a, NEW b, NEW c, a[1] \in Int, a[2] \in Int, b[1] \in Int, b[2] \in Int,
         c[1] \in Int, c[2] \in Int
  PROVE  /\ Quality!Distance(a, b) \in Nat
         /\ Quality!Distance(a, b) = Quality!Distance(b, a)
         /\ Turn(a, b, c) # 0 => Quality!Distance(a, b) > 0
<1> DEFINE x == a[1] - b[1]
           y == a[2] - b[2]
<1>1. ASSUME NEW n \in Int PROVE n * n \in Nat /\ (n # 0 => n * n > 0) /\ (-n) * (-n) = n * n
  OBVIOUS
<1>2. x \in Int /\ y \in Int /\ b[1] - a[1] = -x /\ b[2] - a[2] = -y
  OBVIOUS
<1>3. Quality!Distance(a, b) = x * x + y * y
  BY DEF Quality!Distance
<1>4. Quality!Distance(b, a) = (-x) * (-x) + (-y) * (-y)
  BY <1>2 DEF Quality!Distance
<1>5. ASSUME x = 0, y = 0 PROVE Turn(a, b, c) = 0
  <2>1. a[1] = b[1] /\ a[2] = b[2]
    BY <1>5
  <2> QED BY <2>1 DEF Turn
<1> HIDE DEF x, y
<1>6. x * x \in Nat /\ y * y \in Nat /\ (-x) * (-x) = x * x /\ (-y) * (-y) = y * y
  BY <1>1, <1>2
<1>7. x # 0 \/ y # 0 => x * x > 0 \/ y * y > 0
  BY <1>1, <1>2
<1> QED BY <1>3, <1>4, <1>5, <1>6, <1>7

LEMMA TurnIsCyclic ==
  ASSUME NEW a, NEW b, NEW c, a[1] \in Int, a[2] \in Int, b[1] \in Int, b[2] \in Int,
         c[1] \in Int, c[2] \in Int
  PROVE  Turn(a, b, c) = Turn(b, c, a)
BY DEF Turn

\* The edges and the diagonals of a page have lengths.
LEMMA LengthsArePositive ==
  ASSUME NEW quad \in Quads, Quality!Valid(quad)
  PROVE  /\ \A i \in 1 .. 4 : Quality!Edge(quad, i) \in Nat \ {0}
         /\ Quality!Distance(quad[1], quad[3]) \in Nat \ {0}
         /\ Quality!Distance(quad[2], quad[4]) \in Nat \ {0}
<1> DEFINE T(i, j, k) == Turn(quad[i], quad[j], quad[k])
<1>1. T(1, 2, 3) # 0 /\ T(2, 3, 4) # 0 /\ T(3, 4, 1) # 0 /\ T(4, 1, 2) # 0
  <2>1. \/ T(1, 2, 3) > 0 /\ T(2, 3, 4) > 0 /\ T(3, 4, 1) > 0 /\ T(4, 1, 2) > 0
        \/ T(1, 2, 3) < 0 /\ T(2, 3, 4) < 0 /\ T(3, 4, 1) < 0 /\ T(4, 1, 2) < 0
    BY PageTurns
  <2> HIDE DEF T
  <2> QED BY <2>1
<1>2. T(1, 3, 4) # 0 /\ T(2, 4, 1) # 0
  <2>1. T(1, 3, 4) = T(3, 4, 1) /\ T(2, 4, 1) = T(4, 1, 2)
    BY TurnIsCyclic, CornersAre
  <2> HIDE DEF T
  <2> QED BY <1>1, <2>1
<1>3. ASSUME NEW i \in 1 .. 4, NEW j \in 1 .. 4, NEW k \in 1 .. 4, T(i, j, k) # 0
      PROVE  Quality!Distance(quad[i], quad[j]) \in Nat \ {0}
  <2>1. /\ quad[i][1] \in Int /\ quad[i][2] \in Int /\ quad[j][1] \in Int /\ quad[j][2] \in Int
        /\ quad[k][1] \in Int /\ quad[k][2] \in Int
    BY CornersAre
  <2>2. /\ Quality!Distance(quad[i], quad[j]) \in Nat /\ Quality!Distance(quad[i], quad[j]) > 0
    BY <1>3, <2>1, EdgeHasLength
  <2> QED BY <2>2
<1>4. ASSUME NEW i \in 1 .. 4
      PROVE  Quality!Edge(quad, i) = Quality!Distance(quad[i], quad[Quality!After[i]])
  BY DEF Quality!Edge
<1> HIDE DEF T
<1>5. /\ Quality!Distance(quad[1], quad[2]) \in Nat \ {0}
      /\ Quality!Distance(quad[2], quad[3]) \in Nat \ {0}
      /\ Quality!Distance(quad[3], quad[4]) \in Nat \ {0}
      /\ Quality!Distance(quad[4], quad[1]) \in Nat \ {0}
      /\ Quality!Distance(quad[1], quad[3]) \in Nat \ {0}
      /\ Quality!Distance(quad[2], quad[4]) \in Nat \ {0}
  BY <1>1, <1>2, <1>3
<1>6. \A i \in 1 .. 4 : i = 1 \/ i = 2 \/ i = 3 \/ i = 4
  OBVIOUS
<1> QED BY <1>4, <1>5, <1>6, AfterIs

LEMMA ExtremesAre ==
  ASSUME NEW a \in Int, NEW b \in Int, NEW c \in Int, NEW d \in Int
  PROVE  LET S == {a, b, c, d}
         IN  /\ Quality!Max(S) \in S /\ Quality!Min(S) \in S
             /\ \A x \in S : Quality!Min(S) <= x /\ x <= Quality!Max(S)
<1> DEFINE S == {a, b, c, d}
<1>1. \E x \in S : \A y \in S : x >= y
  OBVIOUS
<1>2. \E x \in S : \A y \in S : x <= y
  OBVIOUS
<1>3. Quality!Max(S) \in S /\ \A y \in S : Quality!Max(S) >= y
  BY <1>1 DEF Quality!Max
<1>4. Quality!Min(S) \in S /\ \A y \in S : Quality!Min(S) <= y
  BY <1>2 DEF Quality!Min
<1>5. \A x \in S : x \in Int
  OBVIOUS
<1> HIDE DEF S
<1>6. /\ Quality!Max(S) \in S /\ Quality!Min(S) \in S
      /\ \A x \in S : Quality!Min(S) <= x /\ x <= Quality!Max(S)
  BY <1>3, <1>4, <1>5
<1> QED BY <1>6 DEF S

LEMMA ExtremesOfTwoAre ==
  ASSUME NEW a \in Int, NEW b \in Int
  PROVE  /\ Quality!Max({a, b}) \in {a, b} /\ a <= Quality!Max({a, b}) /\ b <= Quality!Max({a, b})
         /\ Quality!Min({a, b}) \in {a, b} /\ Quality!Min({a, b}) <= a /\ Quality!Min({a, b}) <= b
<1>1. {a, b} = {a, b, a, b}
  OBVIOUS
<1> QED BY <1>1, ExtremesAre

LEMMA ProductIsWithin ==
  ASSUME NEW a \in Int, NEW b \in Int, NEW u \in Nat, NEW v \in Nat,
         -u <= a, a <= u, -v <= b, b <= v
  PROVE  a * b \in Int /\ -(u * v) <= a * b /\ a * b <= u * v
<1>1. ASSUME NEW m \in Nat, NEW n \in Nat, m <= u, n <= v
      PROVE  m * n \in Nat /\ m * n <= u * v
  <2>1. m * n \in Nat /\ m * v \in Nat /\ u * v \in Nat
    OBVIOUS
  <2>2. m * n <= m * v
    BY <1>1, SMTT(20)
  <2>3. m * v <= u * v
    BY <1>1, SMTT(20)
  <2> QED BY <2>1, <2>2, <2>3
<1>2. u * v \in Nat
  OBVIOUS
<1>3. CASE a >= 0 /\ b >= 0
  BY <1>1, <1>2, <1>3
<1>4. CASE a >= 0 /\ b < 0
  <2>1. a * b = -(a * (-b)) /\ -b \in Nat /\ -b <= v
    BY <1>4
  <2> QED BY <1>1, <1>2, <1>4, <2>1
<1>5. CASE a < 0 /\ b >= 0
  <2>1. a * b = -((-a) * b) /\ -a \in Nat /\ -a <= u
    BY <1>5
  <2> QED BY <1>1, <1>2, <1>5, <2>1
<1>6. CASE a < 0 /\ b < 0
  <2>1. a * b = (-a) * (-b) /\ -a \in Nat /\ -b \in Nat /\ -a <= u /\ -b <= v
    BY <1>6
  <2> QED BY <1>1, <1>2, <1>6, <2>1
<1> QED BY <1>3, <1>4, <1>5, <1>6

Extent(set) == Quality!Max(set) - Quality!Min(set)

LEMMA ExtentIs ==
  ASSUME NEW a \in Int, NEW b \in Int, NEW c \in Int, NEW d \in Int
  PROVE  /\ Extent({a, b, c, d}) \in Nat
         /\ \A x, z \in {a, b, c, d} :
               -Extent({a, b, c, d}) <= x - z /\ x - z <= Extent({a, b, c, d})
<1> DEFINE S  == {a, b, c, d}
           hi == Quality!Max(S)
           lo == Quality!Min(S)
<1>1. hi \in S /\ lo \in S /\ \A x \in S : lo <= x /\ x <= hi
  BY ExtremesAre
<1>2. \A x \in S : x \in Int
  OBVIOUS
<1>3. Extent(S) = hi - lo
  BY DEF Extent
<1> HIDE DEF S, hi, lo
<1>4. hi \in Int /\ lo \in Int /\ lo <= hi
  BY <1>1, <1>2
<1>5. ASSUME NEW x \in S, NEW z \in S PROVE -(hi - lo) <= x - z /\ x - z <= hi - lo
  <2>1. x \in Int /\ z \in Int /\ lo <= x /\ x <= hi /\ lo <= z /\ z <= hi
    BY <1>1, <1>2
  <2> QED BY <1>4, <2>1
<1>6. Extent(S) \in Nat /\ \A x, z \in S : -Extent(S) <= x - z /\ x - z <= Extent(S)
  BY <1>3, <1>4, <1>5
<1> QED BY <1>6 DEF S

\* A quadrilateral is within the upright box around it.
LEMMA AreaIsOfBox ==
  ASSUME NEW quad \in Quads
  PROVE  /\ Extent(Quality!Columns(quad)) \in Nat /\ Extent(Quality!Rows(quad)) \in Nat
         /\ Quality!TwiceArea(quad) \in Nat
         /\ Quality!TwiceArea(quad) <= 2 * (Extent(Quality!Columns(quad)) * Extent(Quality!Rows(quad)))
         /\ Quality!Valid(quad) => Quality!TwiceArea(quad) > 0
<1> DEFINE x1 == quad[1][1]  x2 == quad[2][1]  x3 == quad[3][1]  x4 == quad[4][1]
           y1 == quad[1][2]  y2 == quad[2][2]  y3 == quad[3][2]  y4 == quad[4][2]
           w  == Extent(Quality!Columns(quad))
           h  == Extent(Quality!Rows(quad))
           s  == (x1 - x3) * (y2 - y4) - (x2 - x4) * (y1 - y3)
<1>1. /\ x1 \in Int /\ x2 \in Int /\ x3 \in Int /\ x4 \in Int
      /\ y1 \in Int /\ y2 \in Int /\ y3 \in Int /\ y4 \in Int
  BY CornersAre
<1>2. Quality!Columns(quad) = {x1, x2, x3, x4} /\ Quality!Rows(quad) = {y1, y2, y3, y4}
  <2>1. \A i \in 1 .. 4 : i = 1 \/ i = 2 \/ i = 3 \/ i = 4
    OBVIOUS
  <2> QED BY <2>1 DEF Quality!Columns, Quality!Rows
<1>3. /\ w \in Nat /\ \A x, z \in {x1, x2, x3, x4} : -w <= x - z /\ x - z <= w
      /\ h \in Nat /\ \A x, z \in {y1, y2, y3, y4} : -h <= x - z /\ x - z <= h
  <2>2. /\ w = Extent({x1, x2, x3, x4}) /\ h = Extent({y1, y2, y3, y4})
    BY <1>2
  <2> HIDE DEF x1, x2, x3, x4, y1, y2, y3, y4, w, h
  <2>3. /\ Extent({x1, x2, x3, x4}) \in Nat
        /\ \A x, z \in {x1, x2, x3, x4} :
              -Extent({x1, x2, x3, x4}) <= x - z /\ x - z <= Extent({x1, x2, x3, x4})
    BY <1>1, ExtentIs
  <2>4. /\ Extent({y1, y2, y3, y4}) \in Nat
        /\ \A x, z \in {y1, y2, y3, y4} :
              -Extent({y1, y2, y3, y4}) <= x - z /\ x - z <= Extent({y1, y2, y3, y4})
    BY <1>1, ExtentIs
  <2> QED BY <2>2, <2>3, <2>4
<1>4. Quality!TwiceArea(quad) = Quality!Magnitude(s)
  <2>1. Quality!TwiceArea(quad) =
          Quality!Magnitude((x1 * y2 - y1 * x2) + (x2 * y3 - y2 * x3) + (x3 * y4 - y3 * x4) + (x4 * y1 - y4 * x1))
    BY AfterIs DEF Quality!TwiceArea
  <2>2. ASSUME NEW a1 \in Int, NEW a2 \in Int, NEW a3 \in Int, NEW a4 \in Int,
               NEW b1 \in Int, NEW b2 \in Int, NEW b3 \in Int, NEW b4 \in Int
        PROVE  (a1 * b2 - b1 * a2) + (a2 * b3 - b2 * a3) + (a3 * b4 - b3 * a4) + (a4 * b1 - b4 * a1)
                 = (a1 - a3) * (b2 - b4) - (a2 - a4) * (b1 - b3)
    OBVIOUS
  <2> HIDE DEF x1, x2, x3, x4, y1, y2, y3, y4
  <2>3. (x1 * y2 - y1 * x2) + (x2 * y3 - y2 * x3) + (x3 * y4 - y3 * x4) + (x4 * y1 - y4 * x1) = s
    BY <1>1, <2>2
  <2> QED BY <2>1, <2>3
<1>5. /\ (x1 - x3) * (y2 - y4) \in Int /\ -(w * h) <= (x1 - x3) * (y2 - y4) /\ (x1 - x3) * (y2 - y4) <= w * h
      /\ (x2 - x4) * (y1 - y3) \in Int /\ -(w * h) <= (x2 - x4) * (y1 - y3) /\ (x2 - x4) * (y1 - y3) <= w * h
  <2> HIDE DEF x1, x2, x3, x4, y1, y2, y3, y4, w, h
  <2>1. /\ x1 - x3 \in Int /\ x2 - x4 \in Int /\ y2 - y4 \in Int /\ y1 - y3 \in Int
        /\ -w <= x1 - x3 /\ x1 - x3 <= w /\ -w <= x2 - x4 /\ x2 - x4 <= w
        /\ -h <= y2 - y4 /\ y2 - y4 <= h /\ -h <= y1 - y3 /\ y1 - y3 <= h
    BY <1>1, <1>3
  <2> QED BY <1>3, <2>1, ProductIsWithin
<1>6. s \in Int /\ -(2 * (w * h)) <= s /\ s <= 2 * (w * h)
  <2> DEFINE m == (x1 - x3) * (y2 - y4)
             n == (x2 - x4) * (y1 - y3)
             k == w * h
  <2>1. k \in Nat
    BY <1>3
  <2>2. m \in Int /\ n \in Int /\ -k <= m /\ m <= k /\ -k <= n /\ n <= k
    BY <1>5
  <2>3. s = m - n
    OBVIOUS
  <2> HIDE DEF m, n, k, s
  <2>4. s \in Int /\ -(2 * k) <= s /\ s <= 2 * k
    BY <2>1, <2>2, <2>3
  <2> QED BY <2>4 DEF k
<1>7. ASSUME Quality!Valid(quad) PROVE s # 0
  <2> DEFINE t == Turn(quad[1], quad[2], quad[3])
             u == Turn(quad[3], quad[4], quad[1])
  <2>1. (t > 0 /\ u > 0) \/ (t < 0 /\ u < 0)
    BY <1>7, PageTurns
  <2>2. ASSUME NEW a1 \in Int, NEW a2 \in Int, NEW a3 \in Int, NEW a4 \in Int,
               NEW b1 \in Int, NEW b2 \in Int, NEW b3 \in Int, NEW b4 \in Int
        PROVE  (a1 - a3) * (b2 - b4) - (a2 - a4) * (b1 - b3) =
                 (a1 * (b2 - b3) - b1 * (a2 - a3) + (a2 * b3 - b2 * a3))
                 + (a3 * (b4 - b1) - b3 * (a4 - a1) + (a4 * b1 - b4 * a1))
    OBVIOUS
  <2>3. s = t + u
    BY <1>1, <2>2 DEF Turn
  <2>4. t \in Int /\ u \in Int
    BY <1>1 DEF Turn
  <2> HIDE DEF s, t, u
  <2> QED BY <2>1, <2>3, <2>4
<1> HIDE DEF s, w, h
<1>8. Quality!Magnitude(s) \in Nat /\ Quality!Magnitude(s) <= 2 * (w * h) /\ (s # 0 => Quality!Magnitude(s) > 0)
  <2> DEFINE k == 2 * (w * h)
  <2>1. k \in Int /\ s \in Int /\ -k <= s /\ s <= k
    BY <1>3, <1>6
  <2> HIDE DEF k
  <2>2. Quality!Magnitude(s) \in Nat /\ Quality!Magnitude(s) <= k /\ (s # 0 => Quality!Magnitude(s) > 0)
    BY <2>1 DEF Quality!Magnitude
  <2> QED BY <2>2 DEF k
<1> QED BY <1>3, <1>4, <1>7, <1>8 DEF w, h

LEMMA ExtremeFractionIs ==
  ASSUME NEW f, NEW g, f[1] \in Nat, f[2] \in Nat, g[1] \in Nat, g[2] \in Nat
  PROVE  Quality!Greatest({f, g}) \in {f, g} /\ Quality!Least({f, g}) \in {f, g}
<1> DEFINE u == f[1] * g[2]
           v == g[1] * f[2]
<1>1. u \in Nat /\ v \in Nat
  OBVIOUS
<1>2. Quality!Above(f, g) <=> u > v
  BY DEF Quality!Above
<1>3. Quality!Above(g, f) <=> v > u
  BY DEF Quality!Above
<1>4. ~Quality!Above(f, f) /\ ~Quality!Above(g, g)
  BY DEF Quality!Above
<1> HIDE DEF u, v
<1>5. ~Quality!Above(f, g) \/ ~Quality!Above(g, f)
  BY <1>1, <1>2, <1>3
<1>6. \E a \in {f, g} : \A b \in {f, g} : ~Quality!Above(b, a)
  BY <1>4, <1>5
<1>7. \E a \in {f, g} : \A b \in {f, g} : ~Quality!Above(a, b)
  BY <1>4, <1>5
<1> QED BY <1>6, <1>7 DEF Quality!Greatest, Quality!Least

\* Of edges of a page, the opposite ones differ no more than any.
LEMMA PerspectiveIsDefined ==
  ASSUME NEW quad \in Quads, Quality!Valid(quad)
  PROVE  /\ Quality!EdgeRatio(quad)[2] > 0 /\ Quality!Opposing(quad)[2] > 0
         /\ Quality!Diagonals(quad)[2] > 0 /\ Quality!Fill(quad)[2] > 0
         /\ ~Quality!Above(Quality!Opposing(quad), Quality!EdgeRatio(quad))
         /\ Quality!Fill(quad)[1] \in 1 .. 100 * Quality!Fill(quad)[2]
<1> DEFINE e(i) == Quality!Edge(quad, i)
           most == Quality!Max(Quality!Edges(quad))
           least == Quality!Min(Quality!Edges(quad))
<1>1. e(1) \in Nat \ {0} /\ e(2) \in Nat \ {0} /\ e(3) \in Nat \ {0} /\ e(4) \in Nat \ {0}
  BY LengthsArePositive
<1>2. Quality!Edges(quad) = {e(1), e(2), e(3), e(4)}
  <2>1. \A i \in 1 .. 4 : i = 1 \/ i = 2 \/ i = 3 \/ i = 4
    OBVIOUS
  <2> QED BY <2>1 DEF Quality!Edges
<1>3. /\ most \in {e(1), e(2), e(3), e(4)} /\ least \in {e(1), e(2), e(3), e(4)}
      /\ \A x \in {e(1), e(2), e(3), e(4)} : least <= x /\ x <= most
  <2> HIDE DEF e
  <2>1. e(1) \in Int /\ e(2) \in Int /\ e(3) \in Int /\ e(4) \in Int
    BY <1>1
  <2> DEFINE S == {e(1), e(2), e(3), e(4)}
  <2>2. /\ Quality!Max(S) \in S /\ Quality!Min(S) \in S
        /\ \A x \in S : Quality!Min(S) <= x /\ x <= Quality!Max(S)
    BY <2>1, ExtremesAre
  <2> QED BY <1>2, <2>2
<1>4. Quality!EdgeRatio(quad)[1] = 100 * most /\ Quality!EdgeRatio(quad)[2] = least
  BY DEF Quality!EdgeRatio
<1>5. most \in Nat \ {0} /\ least \in Nat \ {0}
  <2> HIDE DEF e, most, least
  <2> QED BY <1>1, <1>3
<1>6. ASSUME NEW a \in Nat \ {0}, NEW b \in Nat \ {0}
      PROVE  /\ Quality!Ratio(a, b)[1] \in Nat /\ Quality!Ratio(a, b)[2] \in Nat \ {0}
             /\ Quality!Ratio(a, b)[1] = 100 * Quality!Max({a, b})
             /\ Quality!Max({a, b}) \in {a, b} /\ Quality!Ratio(a, b)[2] \in {a, b}
  <2>0. a \in Int /\ b \in Int
    OBVIOUS
  <2>1. Quality!Max({a, b}) \in {a, b} /\ Quality!Min({a, b}) \in {a, b}
    BY <2>0, ExtremesOfTwoAre
  <2>2. Quality!Ratio(a, b)[1] = 100 * Quality!Max({a, b}) /\ Quality!Ratio(a, b)[2] = Quality!Min({a, b})
    BY DEF Quality!Ratio
  <2> QED BY <2>1, <2>2
<1>7. ASSUME NEW a \in {e(1), e(2), e(3), e(4)}, NEW b \in {e(1), e(2), e(3), e(4)}
      PROVE  ~Quality!Above(Quality!Ratio(a, b), Quality!EdgeRatio(quad))
  <2> HIDE DEF e, most, least
  <2>1. a \in Nat \ {0} /\ b \in Nat \ {0}
    BY <1>1
  <2> DEFINE m == Quality!Max({a, b})
             n == Quality!Ratio(a, b)[2]
  <2>2. m \in Nat /\ n \in Nat /\ m <= most /\ least <= n
    BY <1>3, <1>6, <2>1
  <2>3. Quality!Ratio(a, b)[1] = 100 * m
    BY <1>6, <2>1
  <2> HIDE DEF m
  <2>4. m * least \in Nat /\ most * least \in Nat /\ most * n \in Nat
    BY <1>5, <2>2
  <2>5. m * least <= most * least /\ most * least <= most * n
    BY <1>5, <2>2, SMTT(20)
  <2>6. (100 * m) * least = 100 * (m * least) /\ (100 * most) * n = 100 * (most * n)
    BY <1>5, <2>2
  <2>7. ~((100 * m) * least > (100 * most) * n)
    BY <2>4, <2>5, <2>6
  <2> QED BY <1>4, <2>3, <2>7 DEF Quality!Above
<1>8. Quality!Opposing(quad) \in {Quality!Ratio(e(1), e(3)), Quality!Ratio(e(2), e(4))}
  <2> DEFINE f == Quality!Ratio(e(1), e(3))
             g == Quality!Ratio(e(2), e(4))
  <2>1. f[1] \in Nat /\ f[2] \in Nat /\ g[1] \in Nat /\ g[2] \in Nat
    BY <1>1, <1>6
  <2>2. Quality!Opposing(quad) = Quality!Greatest({f, g})
    BY DEF Quality!Opposing
  <2> HIDE DEF f, g
  <2>3. Quality!Opposing(quad) \in {f, g}
    BY <2>1, <2>2, ExtremeFractionIs
  <2> QED BY <2>3 DEF f, g
<1>9. Quality!Opposing(quad)[2] > 0 /\ ~Quality!Above(Quality!Opposing(quad), Quality!EdgeRatio(quad))
  <2>1. Quality!Ratio(e(1), e(3))[2] > 0 /\ Quality!Ratio(e(2), e(4))[2] > 0
    <3> HIDE DEF e
    <3>1. Quality!Ratio(e(1), e(3))[2] \in Nat \ {0} /\ Quality!Ratio(e(2), e(4))[2] \in Nat \ {0}
      BY <1>1, <1>6
    <3> QED BY <3>1
  <2> HIDE DEF e
  <2> QED BY <1>7, <1>8, <2>1
<1>10. Quality!Diagonals(quad)[2] > 0
  <2> DEFINE a == Quality!Distance(quad[1], quad[3])
             b == Quality!Distance(quad[2], quad[4])
  <2>1. a \in Nat \ {0} /\ b \in Nat \ {0}
    BY LengthsArePositive
  <2>2. Quality!Diagonals(quad) = Quality!Ratio(a, b)
    BY DEF Quality!Diagonals
  <2> HIDE DEF a, b
  <2>3. Quality!Ratio(a, b)[2] \in Nat \ {0}
    BY <1>6, <2>1
  <2> QED BY <2>2, <2>3
<1>11. Quality!Fill(quad)[2] > 0 /\ Quality!Fill(quad)[1] \in 1 .. 100 * Quality!Fill(quad)[2]
  <2> DEFINE w == Extent(Quality!Columns(quad))
             h == Extent(Quality!Rows(quad))
             t == Quality!TwiceArea(quad)
             k == w * h
  <2>1. w \in Nat /\ h \in Nat /\ t \in Nat /\ t <= 2 * k /\ t > 0
    BY AreaIsOfBox
  <2>2. k \in Nat
    BY <2>1
  <2>3. 2 * w * h = 2 * k
    BY <2>1
  <2>4. Quality!Fill(quad)[1] = 100 * t /\ Quality!Fill(quad)[2] = 2 * w * h
    BY DEF Quality!Fill, Extent
  <2> HIDE DEF w, h, t, k
  <2> QED BY <2>1, <2>2, <2>3, <2>4
<1> QED BY <1>4, <1>5, <1>9, <1>10, <1>11

LEMMA FramingIsDefined ==
  ASSUME NEW quad \in Quads, Side >= 2, Quality!WithinImage(quad)
  PROVE  /\ Quality!Area(quad)[2] > 0 /\ Quality!Margin(quad)[2] > 0 /\ Quality!Offset(quad)[2] > 0
         /\ Quality!Area(quad)[1] \in 1 .. 100 * Quality!Area(quad)[2]
<1> DEFINE far == Side - 1
           sq  == far * far
<1>1. far \in Nat \ {0}
  BY GeometryAssumption
<1>2. sq \in Nat \ {0}
  <2> HIDE DEF far
  <2> QED BY <1>1
<1>3. /\ Quality!Area(quad)[1] = 100 * Quality!TwiceArea(quad) /\ Quality!Area(quad)[2] = 2 * far * far
      /\ Quality!Margin(quad)[2] = far /\ Quality!Offset(quad)[2] = 8 * far * far
  BY DEF Quality!Area, Quality!Margin, Quality!Offset, Quality!Far
<1>4. 2 * far * far = 2 * sq /\ 8 * far * far = 8 * sq
  <2> HIDE DEF far
  <2> QED BY <1>1
<1>5. ASSUME NEW a \in 0 .. far, NEW b \in 0 .. far, NEW c \in 0 .. far, NEW d \in 0 .. far
      PROVE  Extent({a, b, c, d}) <= far
  <2> DEFINE S == {a, b, c, d}
  <2> HIDE DEF far
  <2>0. a \in Int /\ b \in Int /\ c \in Int /\ d \in Int
    BY <1>1
  <2>1. Quality!Max(S) \in S /\ Quality!Min(S) \in S
    BY <2>0, ExtremesAre
  <2>2. \A x \in S : x \in 0 .. far
    OBVIOUS
  <2> HIDE DEF S
  <2>3. Extent(S) <= far
    BY <1>1, <2>1, <2>2 DEF Extent
  <2> QED BY <2>3 DEF S
<1>6. \A i \in 1 .. 4 : quad[i][1] \in 0 .. far /\ quad[i][2] \in 0 .. far
  <2> TAKE i \in 1 .. 4
  <2>1. quad[i][1] \in Int /\ quad[i][2] \in Int /\ quad[i][3] = 1
    BY CornersAre
  <2>2. Quality!Inside(quad[i])
    BY DEF Quality!WithinImage
  <2>3. (Side - 1) * quad[i][3] = far
    BY <1>1, <2>1
  <2> QED BY <1>1, <2>1, <2>2, <2>3 DEF Quality!Inside
<1>7. /\ Quality!Columns(quad) = {quad[1][1], quad[2][1], quad[3][1], quad[4][1]}
      /\ Quality!Rows(quad) = {quad[1][2], quad[2][2], quad[3][2], quad[4][2]}
  <2>1. \A i \in 1 .. 4 : i = 1 \/ i = 2 \/ i = 3 \/ i = 4
    OBVIOUS
  <2> QED BY <2>1 DEF Quality!Columns, Quality!Rows
<1> DEFINE w == Extent(Quality!Columns(quad))
           h == Extent(Quality!Rows(quad))
           t == Quality!TwiceArea(quad)
<1>8. w \in Nat /\ h \in Nat /\ t \in Nat /\ t <= 2 * (w * h) /\ t > 0
  BY AreaIsOfBox DEF Quality!WithinImage
<1>9. w <= far /\ h <= far
  <2> HIDE DEF far
  <2>1. /\ quad[1][1] \in 0 .. far /\ quad[2][1] \in 0 .. far
        /\ quad[3][1] \in 0 .. far /\ quad[4][1] \in 0 .. far
        /\ quad[1][2] \in 0 .. far /\ quad[2][2] \in 0 .. far
        /\ quad[3][2] \in 0 .. far /\ quad[4][2] \in 0 .. far
    BY <1>6
  <2>2. Extent({quad[1][1], quad[2][1], quad[3][1], quad[4][1]}) <= far
    BY <1>5, <2>1
  <2>3. Extent({quad[1][2], quad[2][2], quad[3][2], quad[4][2]}) <= far
    BY <1>5, <2>1
  <2> QED BY <1>7, <2>2, <2>3
<1>10. w * h <= sq
  <2> HIDE DEF w, h, far
  <2>1. w * h \in Nat /\ w * far \in Nat
    BY <1>1, <1>8
  <2>2. w * h <= w * far
    BY <1>1, <1>8, <1>9, SMTT(20)
  <2>3. w * far <= far * far
    BY <1>1, <1>8, <1>9, SMTT(20)
  <2> QED BY <1>2, <2>1, <2>2, <2>3
<1>11. t \in Nat /\ t > 0 /\ t <= 2 * sq
  <2> DEFINE k == w * h
  <2>1. k \in Nat
    BY <1>8
  <2>2. t <= 2 * k /\ k <= sq
    BY <1>8, <1>10
  <2> HIDE DEF k, t, sq
  <2> QED BY <1>2, <1>8, <2>1, <2>2
<1> HIDE DEF far, sq, t
<1>12. 100 * t \in 1 .. 100 * (2 * sq)
  BY <1>2, <1>11
<1> QED BY <1>1, <1>2, <1>3, <1>4, <1>12 DEF t

\* What a page is, part by part.
LEMMA PageIs ==
  ASSUME NEW p \in Quality!PagesSeen
  PROVE  /\ p.quad \in Quads
         /\ p.paper[1] \in Nat \ {0} /\ p.paper[2] \in Nat \ {0}
         /\ p.size[1] \in Nat \ {0} /\ p.size[2] \in Nat \ {0}
         /\ \A i \in DOMAIN p.probes :
               /\ p.probes[i].edge \in 1 .. 4
               /\ p.probes[i].at[1] \in Nat /\ p.probes[i].at[2] \in Nat \ {0}
               /\ p.probes[i].seen[1] \in Int /\ p.probes[i].seen[2] \in Int
<1>1. /\ p.quad \in [1 .. 4 -> Int \X Int \X {1}]
      /\ p.paper \in (Nat \ {0}) \X (Nat \ {0}) /\ p.size \in (Nat \ {0}) \X (Nat \ {0})
      /\ p.probes \in Seq([edge : 1 .. 4, at : Nat \X (Nat \ {0}), seen : Int \X Int])
  BY DEF Quality!PagesSeen
<1> DEFINE Probes == [edge : 1 .. 4, at : Nat \X (Nat \ {0}), seen : Int \X Int]
<1>2. \A i \in DOMAIN p.probes : p.probes[i] \in Probes
  <2>1. p.probes \in Seq(Probes)
    BY <1>1
  <2> HIDE DEF Probes
  <2>2. p.probes \in [1 .. Len(p.probes) -> Probes] /\ DOMAIN p.probes = 1 .. Len(p.probes)
    BY <2>1, LenProperties
  <2> QED BY <2>2
<1>3. \A r \in Probes : /\ r.edge \in 1 .. 4 /\ r.at[1] \in Nat /\ r.at[2] \in Nat \ {0}
                        /\ r.seen[1] \in Int /\ r.seen[2] \in Int
  OBVIOUS
<1> QED BY <1>1, <1>2, <1>3 DEF Quads

LEMMA ResolutionIsDefined ==
  ASSUME NEW p \in Quality!PagesSeen, Quality!Valid(p.quad)
  PROVE  Quality!Source(p.quad, p.paper)[2] > 0 /\ Quality!Output(p.size, p.paper)[2] > 0
<1> DEFINE e(i) == Quality!Edge(p.quad, i)
           w == p.paper[1]
           h == p.paper[2]
           f == <<100 * Quality!Min({e(1), e(3)}), w * w>>
           g == <<100 * Quality!Min({e(2), e(4)}), h * h>>
           k == <<100 * (p.size[1] - 1) * (p.size[1] - 1), w * w>>
           m == <<100 * (p.size[2] - 1) * (p.size[2] - 1), h * h>>
<1>1. e(1) \in Nat \ {0} /\ e(2) \in Nat \ {0} /\ e(3) \in Nat \ {0} /\ e(4) \in Nat \ {0}
  BY LengthsArePositive, PageIs
<1>2. w * w \in Nat \ {0} /\ h * h \in Nat \ {0}
  <2>1. w \in Nat \ {0} /\ h \in Nat \ {0}
    BY PageIs
  <2> HIDE DEF w, h
  <2> QED BY <2>1
<1>3. ASSUME NEW a \in Nat \ {0}, NEW b \in Nat \ {0} PROVE 100 * Quality!Min({a, b}) \in Nat
  <2>1. a \in Int /\ b \in Int
    OBVIOUS
  <2>2. Quality!Min({a, b}) \in {a, b}
    BY <2>1, ExtremesOfTwoAre
  <2> QED BY <2>2
<1>4. ASSUME NEW n \in Nat \ {0} PROVE 100 * (n - 1) * (n - 1) \in Nat
  OBVIOUS
<1>5. /\ f[1] \in Nat /\ f[2] \in Nat \ {0} /\ g[1] \in Nat /\ g[2] \in Nat \ {0}
      /\ k[1] \in Nat /\ k[2] \in Nat \ {0} /\ m[1] \in Nat /\ m[2] \in Nat \ {0}
  <2>1. p.size[1] \in Nat \ {0} /\ p.size[2] \in Nat \ {0}
    BY PageIs
  <2> HIDE DEF e, w, h
  <2> QED BY <1>1, <1>2, <1>3, <1>4, <2>1
<1>6. Quality!Source(p.quad, p.paper) = Quality!Least({f, g}) /\ Quality!Output(p.size, p.paper) = Quality!Least({k, m})
  BY DEF Quality!Source, Quality!Output
<1> HIDE DEF f, g, k, m
<1>7. Quality!Least({f, g}) \in {f, g} /\ Quality!Least({k, m}) \in {k, m}
  BY <1>5, ExtremeFractionIs
<1> QED BY <1>5, <1>6, <1>7

LEMMA CurvatureIsDefined ==
  ASSUME NEW p \in Quality!PagesSeen, Quality!Valid(p.quad), NEW i \in DOMAIN p.probes
  PROVE  Quality!Deviations(p)[i][2] > 0
<1> DEFINE e == p.probes[i].edge
           d == p.probes[i].at[2]
           a == p.quad[e]
           b == p.quad[Quality!After[e]]
           x == b[1] - a[1]
           y == b[2] - a[2]
           n == x * x + y * y
<1>1. e \in 1 .. 4 /\ d \in Nat \ {0} /\ p.quad \in Quads /\ Quality!After[e] \in 1 .. 4
  BY PageIs, AfterIs
<1>2. a[1] \in Int /\ a[2] \in Int /\ b[1] \in Int /\ b[2] \in Int
  BY <1>1, CornersAre
<1>3. Quality!Distance(a, b) \in Nat \ {0}
  <2>1. Quality!Edge(p.quad, e) = Quality!Distance(a, b)
    BY DEF Quality!Edge
  <2> HIDE DEF e, a, b
  <2> QED BY <1>1, <2>1, LengthsArePositive
<1>4. Quality!Distance(a, b) = Quality!Distance(b, a) /\ Quality!Distance(b, a) = n
  <2>1. Quality!Distance(b, a) = n
    BY DEF Quality!Distance
  <2> HIDE DEF a, b, n
  <2>2. Quality!Distance(a, b) = Quality!Distance(b, a)
    BY <1>2, EdgeHasLength
  <2> QED BY <2>1, <2>2
<1>5. Quality!Deviations(p)[i][2] = d * n
  BY DEF Quality!Deviations, Quality!Deviation
<1> HIDE DEF d, n
<1> QED BY <1>1, <1>3, <1>4, <1>5

LEMMA PagesAreMeasured ==
  ASSUME NEW p \in Quality!PagesSeen, Quality!Measurable(p)
  PROVE  Quality!ShapeIsDefined(p) /\ Quality!ShapeIsBounded(p)
<1>1. p.quad \in Quads
  BY PageIs
<1>2. /\ \A m \in {"framing", "perspective", "resolution", "curvature"} :
            m \in p.measured => Quality!Valid(p.quad)
      /\ "framing" \in p.measured => Side >= 2 /\ Quality!WithinImage(p.quad)
  BY DEF Quality!Measurable
<1>3. ASSUME "framing" \in p.measured
      PROVE  /\ \A v \in {Quality!Area(p.quad), Quality!Margin(p.quad), Quality!Offset(p.quad)} : v[2] > 0
             /\ Quality!Area(p.quad)[1] \in 1 .. 100 * Quality!Area(p.quad)[2]
  BY <1>1, <1>2, <1>3, FramingIsDefined
<1>4. ASSUME "perspective" \in p.measured
      PROVE  /\ \A v \in {Quality!EdgeRatio(p.quad), Quality!Opposing(p.quad), Quality!Diagonals(p.quad),
                          Quality!Fill(p.quad)} : v[2] > 0
             /\ ~Quality!Above(Quality!Opposing(p.quad), Quality!EdgeRatio(p.quad))
             /\ Quality!Fill(p.quad)[1] \in 1 .. 100 * Quality!Fill(p.quad)[2]
  BY <1>1, <1>2, <1>4, PerspectiveIsDefined
<1>5. ASSUME "resolution" \in p.measured
      PROVE  Quality!Source(p.quad, p.paper)[2] > 0 /\ Quality!Output(p.size, p.paper)[2] > 0
  BY <1>2, <1>5, ResolutionIsDefined
<1>6. ASSUME "curvature" \in p.measured
      PROVE  \A i \in DOMAIN p.probes : Quality!Deviations(p)[i][2] > 0
  BY <1>2, <1>6, CurvatureIsDefined
<1> QED BY <1>3, <1>4, <1>5, <1>6 DEF Quality!ShapeIsDefined, Quality!ShapeIsBounded

LEMMA UpsideDownIs ==
  ASSUME NEW p \in Quality!PagesSeen
  PROVE  LET q == Quality!UpsideDown(p)
         IN  /\ q.quad = [i \in 1 .. 4 |-> p.quad[Quality!Opposite[i]]]
             /\ q.probes = [i \in DOMAIN p.probes |->
                              [p.probes[i] EXCEPT !.edge = Quality!Opposite[@]]]
             /\ q.measured = p.measured /\ q.decisions = p.decisions /\ q.errors = p.errors
             /\ q.unexpected = p.unexpected /\ q.paper = p.paper /\ q.size = p.size
BY DEF Quality!UpsideDown, Quality!PagesSeen

\* The corners of a page that lies upside down are the same, and so are its edges.
LEMMA UpsideDownCorners ==
  ASSUME NEW p \in Quality!PagesSeen
  PROVE  LET c == p.quad  d == Quality!UpsideDown(p).quad
         IN  /\ d[1] = c[3] /\ d[2] = c[4] /\ d[3] = c[1] /\ d[4] = c[2]
             /\ \A i \in 1 .. 4 : d[Quality!Opposite[i]] = c[i]
             /\ Quality!Edge(d, 1) = Quality!Edge(c, 3) /\ Quality!Edge(d, 2) = Quality!Edge(c, 4)
             /\ Quality!Edge(d, 3) = Quality!Edge(c, 1) /\ Quality!Edge(d, 4) = Quality!Edge(c, 2)
             /\ Quality!Columns(d) = Quality!Columns(c) /\ Quality!Rows(d) = Quality!Rows(c)
             /\ Quality!TwiceArea(d) = Quality!TwiceArea(c)
<1> DEFINE c == p.quad
           d == Quality!UpsideDown(p).quad
<1>1. d = [i \in 1 .. 4 |-> c[Quality!Opposite[i]]]
  BY UpsideDownIs
<1>2. c \in Quads
  BY PageIs
<1> HIDE DEF c, d
<1>3. d[1] = c[3] /\ d[2] = c[4] /\ d[3] = c[1] /\ d[4] = c[2]
  BY <1>1, AfterIs
<1>4. \A i \in 1 .. 4 : d[Quality!Opposite[i]] = c[i]
  BY <1>1, AfterIs
<1>5. /\ Quality!Edge(d, 1) = Quality!Edge(c, 3) /\ Quality!Edge(d, 2) = Quality!Edge(c, 4)
      /\ Quality!Edge(d, 3) = Quality!Edge(c, 1) /\ Quality!Edge(d, 4) = Quality!Edge(c, 2)
  BY <1>3, AfterIs DEF Quality!Edge
<1>6. \A i \in 1 .. 4 : i = 1 \/ i = 2 \/ i = 3 \/ i = 4
  OBVIOUS
<1>7. Quality!Columns(d) = Quality!Columns(c)
  <2>1. \A f : Quality!Columns(f) = {f[1][1], f[2][1], f[3][1], f[4][1]}
    BY <1>6 DEF Quality!Columns
  <2> QED BY <1>3, <2>1
<1>8. Quality!Rows(d) = Quality!Rows(c)
  <2>1. \A f : Quality!Rows(f) = {f[1][2], f[2][2], f[3][2], f[4][2]}
    BY <1>6 DEF Quality!Rows
  <2> QED BY <1>3, <2>1
<1>9. Quality!TwiceArea(d) = Quality!TwiceArea(c)
  <2> DEFINE T(a, b) == a[1] * b[2] - a[2] * b[1]
  <2>1. \A f : Quality!TwiceArea(f) = Quality!Magnitude(T(f[1], f[2]) + T(f[2], f[3]) + T(f[3], f[4]) + T(f[4], f[1]))
    BY AfterIs DEF Quality!TwiceArea
  <2>2. T(c[1], c[2]) \in Int /\ T(c[2], c[3]) \in Int /\ T(c[3], c[4]) \in Int /\ T(c[4], c[1]) \in Int
    BY <1>2, CornersAre
  <2> HIDE DEF T
  <2>3. T(d[1], d[2]) + T(d[2], d[3]) + T(d[3], d[4]) + T(d[4], d[1])
          = T(c[1], c[2]) + T(c[2], c[3]) + T(c[3], c[4]) + T(c[4], c[1])
    BY <1>3, <2>2
  <2> QED BY <2>1, <2>3
<1> QED BY <1>3, <1>4, <1>5, <1>7, <1>8, <1>9 DEF c, d

LEMMA UpsideDownShape ==
  ASSUME NEW p \in Quality!PagesSeen
  PROVE  LET c == p.quad  d == Quality!UpsideDown(p).quad
         IN  /\ Quality!Area(d) = Quality!Area(c) /\ Quality!Margin(d) = Quality!Margin(c)
             /\ Quality!Offset(d) = Quality!Offset(c) /\ Quality!EdgeRatio(d) = Quality!EdgeRatio(c)
             /\ Quality!Opposing(d) = Quality!Opposing(c) /\ Quality!Diagonals(d) = Quality!Diagonals(c)
             /\ Quality!Fill(d) = Quality!Fill(c) /\ Quality!Source(d, p.paper) = Quality!Source(c, p.paper)
<1> DEFINE c == p.quad
           d == Quality!UpsideDown(p).quad
<1>1. /\ d[1] = c[3] /\ d[2] = c[4] /\ d[3] = c[1] /\ d[4] = c[2]
      /\ Quality!Edge(d, 1) = Quality!Edge(c, 3) /\ Quality!Edge(d, 2) = Quality!Edge(c, 4)
      /\ Quality!Edge(d, 3) = Quality!Edge(c, 1) /\ Quality!Edge(d, 4) = Quality!Edge(c, 2)
      /\ Quality!Columns(d) = Quality!Columns(c) /\ Quality!Rows(d) = Quality!Rows(c)
      /\ Quality!TwiceArea(d) = Quality!TwiceArea(c)
  BY UpsideDownCorners
<1>2. c \in Quads
  BY PageIs
<1> HIDE DEF c, d
<1>3. Quality!Area(d) = Quality!Area(c)
  BY <1>1 DEF Quality!Area
<1>4. Quality!Margin(d) = Quality!Margin(c)
  BY <1>1 DEF Quality!Margin
<1>5. Quality!Fill(d) = Quality!Fill(c)
  BY <1>1 DEF Quality!Fill
<1>6. Quality!Offset(d) = Quality!Offset(c)
  <2>1. ASSUME NEW k \in {1, 2} PROVE Quality!Aside(d, k) = Quality!Aside(c, k)
    <3>1. /\ c[1][k] \in Int /\ c[2][k] \in Int /\ c[3][k] \in Int /\ c[4][k] \in Int
      BY <1>2, CornersAre
    <3>2. d[1][k] + d[2][k] + d[3][k] + d[4][k] = c[1][k] + c[2][k] + c[3][k] + c[4][k]
      BY <1>1, <3>1
    <3> QED BY <3>2 DEF Quality!Aside
  <2>2. Quality!Aside(d, 1) = Quality!Aside(c, 1) /\ Quality!Aside(d, 2) = Quality!Aside(c, 2)
    BY <2>1
  <2> QED BY <2>2 DEF Quality!Offset
<1>7. \A a, b : {a, b} = {b, a}
  OBVIOUS
<1>8. \A a, b : Quality!Ratio(a, b) = Quality!Ratio(b, a)
  BY <1>7 DEF Quality!Ratio
<1>9. Quality!EdgeRatio(d) = Quality!EdgeRatio(c)
  <2>1. \A i \in 1 .. 4 : i = 1 \/ i = 2 \/ i = 3 \/ i = 4
    OBVIOUS
  <2>2. \A f : Quality!Edges(f) = {Quality!Edge(f, 1), Quality!Edge(f, 2), Quality!Edge(f, 3), Quality!Edge(f, 4)}
    BY <2>1 DEF Quality!Edges
  <2>3. Quality!Edges(d) = Quality!Edges(c)
    BY <1>1, <2>2
  <2> QED BY <2>3 DEF Quality!EdgeRatio
<1>10. Quality!Opposing(d) = Quality!Opposing(c)
  <2>1. /\ Quality!Ratio(Quality!Edge(d, 1), Quality!Edge(d, 3)) = Quality!Ratio(Quality!Edge(c, 1), Quality!Edge(c, 3))
        /\ Quality!Ratio(Quality!Edge(d, 2), Quality!Edge(d, 4)) = Quality!Ratio(Quality!Edge(c, 2), Quality!Edge(c, 4))
    BY <1>1, <1>8
  <2> QED BY <2>1 DEF Quality!Opposing
<1>11. Quality!Diagonals(d) = Quality!Diagonals(c)
  <2>1. \A i, j \in 1 .. 4 : Quality!Distance(c[i], c[j]) = Quality!Distance(c[j], c[i])
    BY <1>2, CornersAre, EdgeHasLength
  <2>2. /\ Quality!Distance(d[1], d[3]) = Quality!Distance(c[1], c[3])
        /\ Quality!Distance(d[2], d[4]) = Quality!Distance(c[2], c[4])
    BY <1>1, <2>1
  <2> QED BY <2>2 DEF Quality!Diagonals
<1>12. Quality!Source(d, p.paper) = Quality!Source(c, p.paper)
  <2>1. /\ {Quality!Edge(d, 1), Quality!Edge(d, 3)} = {Quality!Edge(c, 1), Quality!Edge(c, 3)}
        /\ {Quality!Edge(d, 2), Quality!Edge(d, 4)} = {Quality!Edge(c, 2), Quality!Edge(c, 4)}
    BY <1>1, <1>7
  <2> QED BY <2>1 DEF Quality!Source
<1> QED BY <1>3, <1>4, <1>5, <1>6, <1>9, <1>10, <1>11, <1>12 DEF c, d

LEMMA UpsideDownProbes ==
  ASSUME NEW p \in Quality!PagesSeen
  PROVE  LET q == Quality!UpsideDown(p)
         IN  /\ DOMAIN q.probes = DOMAIN p.probes /\ Len(q.probes) = Len(p.probes)
             /\ (q.probes = <<>>) <=> (p.probes = <<>>)
             /\ Quality!Deviations(q) = Quality!Deviations(p)
<1> DEFINE q == Quality!UpsideDown(p)
           Probes == [edge : 1 .. 4, at : Nat \X (Nat \ {0}), seen : Int \X Int]
           Turned(r) == [r EXCEPT !.edge = Quality!Opposite[@]]
<1>1. q.quad = [i \in 1 .. 4 |-> p.quad[Quality!Opposite[i]]]
  BY UpsideDownIs
<1>2. q.probes = [i \in DOMAIN p.probes |-> Turned(p.probes[i])]
  BY UpsideDownIs
<1>3. p.probes \in Seq(Probes)
  BY DEF Quality!PagesSeen
<1>4. p.probes \in [1 .. Len(p.probes) -> Probes] /\ DOMAIN p.probes = 1 .. Len(p.probes) /\ Len(p.probes) \in Nat
  <2> HIDE DEF Probes
  <2> QED BY <1>3, LenProperties
<1>5. \A r \in Probes : /\ Turned(r).edge = Quality!Opposite[r.edge] /\ Turned(r).at = r.at
                        /\ Turned(r).seen = r.seen /\ r.edge \in 1 .. 4 /\ Turned(r) \in Probes
  BY AfterIs
<1>6. \A i \in 1 .. 4 : /\ q.quad[Quality!Opposite[i]] = p.quad[i]
                        /\ q.quad[Quality!After[Quality!Opposite[i]]] = p.quad[Quality!After[i]]
  <2>1. \A i \in 1 .. 4 : Quality!After[Quality!Opposite[i]] \in 1 .. 4 /\ Quality!Opposite[i] \in 1 .. 4
    BY AfterIs
  <2> QED BY <1>1, <2>1, AfterIs
<1> HIDE DEF q, Turned, Probes
<1>7. DOMAIN q.probes = DOMAIN p.probes
  BY <1>2
<1>8. q.probes \in Seq(Probes) /\ Len(q.probes) = Len(p.probes)
  <2>1. q.probes \in [1 .. Len(p.probes) -> Probes]
    BY <1>2, <1>4, <1>5
  <2>2. q.probes \in Seq(Probes)
    BY <1>4, <2>1
  <2>3. DOMAIN q.probes = 1 .. Len(q.probes) /\ Len(q.probes) \in Nat
    BY <2>2, LenProperties
  <2> QED BY <1>4, <1>7, <2>2, <2>3
<1>9. (q.probes = <<>>) <=> (p.probes = <<>>)
  BY <1>3, <1>8, EmptySeq
<1>10. ASSUME NEW i \in DOMAIN p.probes
       PROVE  Quality!Deviation(q.quad, q.probes[i]) = Quality!Deviation(p.quad, p.probes[i])
  <2> DEFINE r == p.probes[i]
  <2>1. r \in Probes
    BY <1>4
  <2>2. q.probes[i] = Turned(r)
    BY <1>2
  <2> HIDE DEF r
  <2>3. /\ q.quad[Turned(r).edge] = p.quad[r.edge]
        /\ q.quad[Quality!After[Turned(r).edge]] = p.quad[Quality!After[r.edge]]
        /\ Turned(r).at = r.at /\ Turned(r).seen = r.seen
    BY <1>5, <1>6, <2>1
  <2>4. Quality!Deviation(q.quad, Turned(r)) = Quality!Deviation(p.quad, r)
    BY <2>3 DEF Quality!Deviation
  <2> QED BY <2>2, <2>4 DEF r
<1>11. Quality!Deviations(q) = Quality!Deviations(p)
  BY <1>7, <1>10 DEF Quality!Deviations
<1> QED BY <1>7, <1>8, <1>9, <1>11 DEF q

\* The states of a page do not depend on which way up it lies.
LEMMA UpsideDownStates ==
  ASSUME NEW p \in Quality!PagesSeen
  PROVE  Quality!PageStates(Quality!UpsideDown(p)) = Quality!PageStates(p)
<1> DEFINE q == Quality!UpsideDown(p)
<1>1. /\ q.measured = p.measured /\ q.decisions = p.decisions /\ q.errors = p.errors
      /\ q.unexpected = p.unexpected /\ q.paper = p.paper /\ q.size = p.size
  BY UpsideDownIs
<1>2. /\ Quality!Area(q.quad) = Quality!Area(p.quad) /\ Quality!Margin(q.quad) = Quality!Margin(p.quad)
      /\ Quality!Offset(q.quad) = Quality!Offset(p.quad)
      /\ Quality!EdgeRatio(q.quad) = Quality!EdgeRatio(p.quad)
      /\ Quality!Opposing(q.quad) = Quality!Opposing(p.quad)
      /\ Quality!Diagonals(q.quad) = Quality!Diagonals(p.quad)
      /\ Quality!Fill(q.quad) = Quality!Fill(p.quad)
      /\ Quality!Source(q.quad, p.paper) = Quality!Source(p.quad, p.paper)
  BY UpsideDownShape
<1>3. /\ DOMAIN q.probes = DOMAIN p.probes /\ Len(q.probes) = Len(p.probes)
      /\ (q.probes = <<>>) <=> (p.probes = <<>>)
      /\ Quality!Deviations(q) = Quality!Deviations(p)
  BY UpsideDownProbes
<1> HIDE DEF q
<1>4. Quality!Framing(q) = Quality!Framing(p)
  BY <1>2 DEF Quality!Framing
<1>5. Quality!MarkerConfidence(q) = Quality!MarkerConfidence(p)
  BY <1>1 DEF Quality!MarkerConfidence
<1>6. Quality!Perspective(q) = Quality!Perspective(p)
  BY <1>2 DEF Quality!Perspective
<1>7. Quality!Resolution(q) = Quality!Resolution(p)
  BY <1>1, <1>2 DEF Quality!Resolution
<1>8. Quality!Bend(q) = Quality!Bend(p)
  BY <1>3 DEF Quality!Bend
<1>9. Quality!Spread(q) = Quality!Spread(p)
  BY <1>3 DEF Quality!Spread
<1>10. Quality!Curvature(q) = Quality!Curvature(p)
  BY <1>8, <1>9 DEF Quality!Curvature
<1>11. ASSUME NEW m \in Quality!PageMetrics PROVE Quality!PageState(q, m) = Quality!PageState(p, m)
  BY <1>1, <1>3, <1>4, <1>5, <1>6, <1>7, <1>10 DEF Quality!PageState, Quality!PageMetrics
<1>12. Quality!PageStates(q) = Quality!PageStates(p)
  BY <1>11 DEF Quality!PageStates
<1> QED BY <1>12 DEF q

\* Whatever page is measured, and whatever the size of its picture: no measurement
\* divides by zero; opposite edges differ no more than any two; the page fills no more
\* than the box around it, and of a picture it is in no more than all; and the states
\* do not depend on which way up the page lies.
THEOREM ShapesAreSound ==
  ASSUME NEW p \in Quality!PagesSeen, Quality!Measurable(p)
  PROVE  /\ Quality!ShapeIsDefined(p) /\ Quality!ShapeIsBounded(p)
         /\ Quality!PageStates(Quality!UpsideDown(p)) = Quality!PageStates(p)
BY PagesAreMeasured, UpsideDownStates

-----------------------------------------------------------------------------
(* The verdict.                                                               *)

Evaluated(states) == {states[m] : m \in DOMAIN states} \ {"Unavailable"}

\* What a verdict is made of, once the states are graded: no state is worse than it.
LEMMA OverallIs ==
  ASSUME NEW states, Evaluated(states) \in SUBSET GradedStates,
         Quality!Overall(states) \in {"Accepted", "AcceptedWithWarnings"}
  PROVE  \A m \in DOMAIN states : states[m] \in {"Unavailable", "Accepted", "Warning"}
<1>1. Evaluated(states) # {} /\ Quality!Worst(Evaluated(states)) \in {"Accepted", "Warning"}
  <2>1. Evaluated(states) = {} => Quality!Overall(states) = "NeedsReview"
    BY DEF Quality!Overall, Evaluated
  <2>2. Evaluated(states) # {}
    BY <2>1
  <2>3. Quality!Worst(Evaluated(states)) \in GradedStates
    BY <2>2, WorstIs
  <2>4. /\ Quality!Worst(Evaluated(states)) = "NeedsReview" => Quality!Overall(states) = "NeedsReview"
        /\ Quality!Worst(Evaluated(states)) = "Rejected" => Quality!Overall(states) \in {"Rejected", "NeedsReview"}
    BY DEF Quality!Overall, Evaluated
  <2> QED BY <2>2, <2>3, <2>4 DEF GradedStates
<1>2. \A r \in Evaluated(states) : r \in GradedStates /\ Rank(r) <= 2
  <2>1. \A r \in Evaluated(states) : r \in GradedStates /\ Rank(r) <= Rank(Quality!Worst(Evaluated(states)))
    BY <1>1, WorstIs
  <2>2. Rank(Quality!Worst(Evaluated(states))) \in {1, 2}
    BY <1>1, RanksAre
  <2>3. \A r \in GradedStates : Rank(r) \in Nat
    BY RanksAre DEF GradedStates
  <2> QED BY <2>1, <2>2, <2>3
<1>3. \A r \in Evaluated(states) : r \in {"Accepted", "Warning"}
  BY <1>2, RanksAre DEF GradedStates
<1> QED BY <1>3 DEF Evaluated

VerdictInv ==
  /\ part # "quality" => assessment = NotMeasured
  /\ part = "quality" =>
       /\ frame \in [Grid -> Luminances]
       /\ pose \in Poses
       /\ assessment # NotMeasured => Quality!Measurable(pose)
       /\ assessment # NotMeasured =>
            assessment = [states |-> Quality!States(frame), overall |-> Quality!Overall(Quality!States(frame)),
                          production |-> IF Quality!AllowsProduction
                                         THEN Quality!Overall(Quality!States(frame)) ELSE NotMeasured,
                          warned |-> ~Quality!AllowsProduction]

LEMMA VerdictInit == MCInit => VerdictInv
BY DEF MCInit, VerdictInv, Quality!QualityInit, Frames, Grid, Quality!PixelsOf

LEMMA VerdictStep ==
  VerdictInv /\ [MCNext]_<<part, sessionVars, machineVars, schedulerVars, policyVars, nativeVars,
                           pictureVars, qualityVars>> => VerdictInv'
<1> SUFFICES ASSUME VerdictInv,
                    [MCNext]_<<part, sessionVars, machineVars, schedulerVars, policyVars, nativeVars,
                               pictureVars, qualityVars>>
             PROVE  VerdictInv'
  OBVIOUS
<1>1. CASE part' = part /\ UNCHANGED qualityVars
  <2>1. /\ frame' = frame /\ pose' = pose /\ required' = required /\ calibration' = calibration
        /\ assessment' = assessment
    BY <1>1 DEF qualityVars
  <2>2. (Quality!States(frame))' = Quality!States(frame)
    BY <2>1 DEF Quality!States, Quality!Optional, Quality!others
  <2>3. (Quality!AllowsProduction)' = Quality!AllowsProduction
    BY <2>1 DEF Quality!AllowsProduction
  <2>4. (Quality!Overall(Quality!States(frame)))' = Quality!Overall(Quality!States(frame))
    BY <2>2
  <2> QED BY <1>1, <2>1, <2>3, <2>4, <2>2 DEF VerdictInv
<1>2. CASE part' = part /\ part = "quality" /\ Quality!QualityNext
  BY <1>2 DEF VerdictInv, Quality!QualityNext, Quality!Assess, Quality!AllowsProduction,
              Quality!States, Quality!Optional, Quality!others, Quality!Measurable
<1> QED BY <1>1, <1>2 DEF MCNext

LEMMA LightSafe == VerdictInv => Quality!VerdictFollowsLight
<1> SUFFICES ASSUME VerdictInv, assessment # NotMeasured
             PROVE  Quality!VerdictFollowsLight
  BY DEF Quality!VerdictFollowsLight
<1> DEFINE states == Quality!States(frame)
<1>1. /\ frame \in [Grid -> Luminances]
      /\ \A m \in Quality!PageMetrics : Quality!others[m] \in GradedStates \cup {NotMeasured}
      /\ assessment.states = states
      /\ assessment.production = IF Quality!AllowsProduction THEN Quality!Overall(states) ELSE NotMeasured
  BY PageStatesAreGraded DEF VerdictInv, Quality!others
<1>2. ASSUME NEW p \in Grid, NEW v \in Luminances, v > frame[p]
      PROVE  LET lighter == Quality!States([frame EXCEPT ![p] = v])
             IN  /\ Rank(lighter["underexposure"]) <= Rank(states["underexposure"])
                 /\ Rank(lighter["overexposure"]) >= Rank(states["overexposure"])
                 /\ Rank(lighter["glare"]) >= Rank(states["glare"])
  <2> DEFINE g == [frame EXCEPT ![p] = v]
  <2>1. Luminances \subseteq Nat
    BY QualityAssumption
  <2>2. Lighter(frame, g)
    <3>1. frame \in [Grid -> Nat] /\ g \in [Grid -> Nat]
      BY <1>1, <2>1
    <3>2. \A q \in Grid : g[q] = IF q = p THEN v ELSE frame[q]
      BY <1>1
    <3>3. \A q \in Grid : frame[q] \in Nat
      BY <3>1
    <3> HIDE DEF g
    <3>4. v \in Nat /\ frame[p] < v
      BY <1>2, <2>1
    <3>5. \A q \in Grid : frame[q] <= g[q]
      BY <3>2, <3>3, <3>4
    <3> QED BY <3>1, <3>5 DEF Lighter
  <2> HIDE DEF g
  <2>3. /\ Rank(Quality!States(g)["underexposure"]) <= Rank(states["underexposure"])
        /\ Rank(states["overexposure"]) <= Rank(Quality!States(g)["overexposure"])
        /\ Rank(states["glare"]) <= Rank(Quality!States(g)["glare"])
    BY <2>2, LighterIsNoBetterLit
  <2>4. \A h : /\ Rank(Quality!States(h)["overexposure"]) \in Nat
               /\ Rank(Quality!States(h)["glare"]) \in Nat
    <3>1. \A s \in GradedStates : Rank(s) \in Nat
      BY RanksAre DEF GradedStates
    <3>2. \A h : Quality!States(h)["overexposure"] \in GradedStates /\ Quality!States(h)["glare"] \in GradedStates
      BY LightStatesAreGraded
    <3> QED BY <3>1, <3>2
  <2> QED BY <2>3, <2>4 DEF g
<1>3. ~Quality!Above(Quality!Share(frame, Grid, Quality!IsBright), Quality!Brightest(frame))
  BY SharesAre, BrightestIsNotAveraged
<1>4. ASSUME assessment.production \in {"Accepted", "AcceptedWithWarnings"}
      PROVE  /\ \A m \in required \cap Quality!PageMetrics : Quality!others[m] \in {"Accepted", "Warning"}
             /\ "focus" \in required => Quality!Sharpness(frame) # NotMeasured
             /\ calibration.state = "Calibrated" /\ calibration.version > 0
  <2>1. Quality!AllowsProduction /\ Quality!Overall(states) \in {"Accepted", "AcceptedWithWarnings"}
    BY <1>1, <1>4, QualityAssumption
  <2>2. \A m \in Quality!PageMetrics : states[m] = Quality!Optional(Quality!others[m], m, Quality!others[m])
    BY OtherStatesAre
  <2>3. states["focus"] = Quality!Optional(Quality!Sharpness(frame), "focus",
                              Quality!HigherIsBetter(Quality!Sharpness(frame), <<10000, 1000, 10>>))
    BY OtherStatesAre
  <2>4. DOMAIN states = {"focus", "underexposure", "overexposure", "glare"} \cup Quality!PageMetrics
    BY OtherStatesAre DEF Quality!Measured
  <2>5. \A m \in Quality!PageMetrics : states[m] \in GradedStates \cup {"Unavailable"}
    BY <2>2, <1>1 DEF Quality!Optional, GradedStates
  <2>6. states["focus"] \in GradedStates \cup {"Unavailable"}
    BY <2>3, StatesAreGraded DEF Quality!Optional, GradedStates
  <2>7. /\ states["underexposure"] \in GradedStates /\ states["overexposure"] \in GradedStates
        /\ states["glare"] \in GradedStates
    BY LightStatesAreGraded
  <2> HIDE DEF states
  <2>8. Evaluated(states) \in SUBSET GradedStates
    BY <2>4, <2>5, <2>6, <2>7 DEF Evaluated
  <2>9. \A m \in DOMAIN states : states[m] \in {"Unavailable", "Accepted", "Warning"}
    BY <2>1, <2>8, OverallIs
  <2>10. ASSUME NEW m \in required \cap Quality!PageMetrics PROVE Quality!others[m] \in {"Accepted", "Warning"}
    <3>1. states[m] = Quality!Optional(Quality!others[m], m, Quality!others[m]) /\ states[m] # "NeedsReview"
          /\ states[m] # "Rejected" /\ states[m] \in {"Unavailable", "Accepted", "Warning"}
      BY <2>2, <2>4, <2>9
    <3>2. Quality!others[m] # NotMeasured
      BY <3>1 DEF Quality!Optional
    <3> QED BY <3>1, <3>2, <1>1 DEF Quality!Optional, GradedStates
  <2>11. ASSUME "focus" \in required PROVE Quality!Sharpness(frame) # NotMeasured
    BY <2>3, <2>4, <2>9, <2>11 DEF Quality!Optional
  <2> QED BY <2>10, <2>11, <2>1 DEF Quality!AllowsProduction
<1> QED BY <1>1, <1>2, <1>3, <1>4
        DEF Quality!VerdictFollowsLight, Rank, Grid

LEMMA ShapeSafe == VerdictInv => Quality!VerdictFollowsShape
<1> SUFFICES ASSUME VerdictInv, assessment # NotMeasured
             PROVE  Quality!VerdictFollowsShape
  BY DEF Quality!VerdictFollowsShape
<1>1. /\ pose \in Quality!PagesSeen /\ Quality!Measurable(pose)
      /\ assessment.states = Quality!States(frame)
  BY QualityAssumption DEF VerdictInv
<1>2. \A m \in Quality!PageMetrics :
         assessment.states[m] = Quality!Optional(Quality!others[m], m, Quality!others[m])
  BY <1>1, OtherStatesAre
<1>3. Quality!others = Quality!PageStates(Quality!UpsideDown(pose))
  BY <1>1, UpsideDownStates DEF Quality!others
<1> QED BY <1>1, <1>2, <1>3, PagesAreMeasured DEF Quality!VerdictFollowsShape

LEMMA VerdictSafe == VerdictInv => VerdictFollowsPicture
BY LightSafe, ShapeSafe DEF VerdictFollowsPicture, Quality!VerdictFollowsPicture

\* Whatever picture is judged, whatever the size of it and of the grid and wherever
\* the cutoffs are: a brighter pixel never makes it look better exposed to light or
\* freer of glare, glare in a tile is not averaged away, what counts as accepted for
\* production was measured and calibrated, and a page gets the verdict that it would get
\* upside down, from measurements that are numbers.
THEOREM VerdictsFollow == MCSpec => []VerdictFollowsPicture
<1> QED BY VerdictInit, VerdictStep, VerdictSafe, PTL DEF MCSpec
=============================================================================
