----------------------------- MODULE MCUploadTool ------------------------------
(* Constants of the TLC runs of UploadTool. *)
EXTENDS UploadTool, TLC

CONSTANTS ali, d1, k1, k2
==============================================================================
