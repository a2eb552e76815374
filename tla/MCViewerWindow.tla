---------------------------- MODULE MCViewerWindow ----------------------------
(* Constants of the TLC run of ViewerWindow: a model without parts, one whose
   number of parts divides 2 ^ 8 and one whose number does not; 255 leaves the
   same remainders by 3 and 2 as 2 ^ 32 - 1. *)
EXTENDS ViewerWindow, TLC

CONSTANTS m0, m3, m2

MCModels == {m0, m3, m2}
MCParts == (m0 :> 0) @@ (m3 :> 3) @@ (m2 :> 2)
=============================================================================
