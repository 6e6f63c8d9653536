--------------------------- MODULE MCUploadPipeline --------------------------
(* The instance of UploadPipeline for TLC: a file of several blocks, and an empty one
   that shares the permits with it. *)
EXTENDS UploadPipeline

CONSTANTS f1, f2

MCExpected == [f \in {f1, f2} |-> IF f = f1 THEN 2 ELSE 0]
MCMaxBlocks == [f \in {f1, f2} |-> IF f = f1 THEN 3 ELSE 0]
==============================================================================
