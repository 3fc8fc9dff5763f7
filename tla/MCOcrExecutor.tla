--------------------------- MODULE MCOcrExecutor ---------------------------
(* Model-checking instances of OcrExecutor. *)
EXTENDS OcrExecutor
=============================================================================
