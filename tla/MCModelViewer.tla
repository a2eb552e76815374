---------------------------- MODULE MCModelViewer -----------------------------
(* Constants of the TLC runs of ModelViewer. *)
EXTENDS ModelViewer, TLC

CONSTANTS v1, v2, s1, s2

MCViewers == {v1, v2}
MCSubsids == {s1, s2}
Symmetry == Permutations(MCViewers) \union Permutations(MCSubsids)
=============================================================================
