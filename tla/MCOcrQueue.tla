----------------------------- MODULE MCOcrQueue -----------------------------
(* Model-checking instances of OcrQueue.  No set is symmetric: job ids are  *)
(* ordered by the queries, and AbsentRow chooses a scan and a kind.         *)
EXTENDS OcrQueue

(* Callers that only finalize: the older record and complete calls, which   *)
(* SplitApi leaves out here, are in MCLibrary's queue.                      *)
FinalizingSpec == Init /\ [][Enqueue \/ Claim \/ Settle \/ Crash]_vars
=============================================================================
