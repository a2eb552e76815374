-------------------------- MODULE MCPublishServer ---------------------------
(* Constants of the TLC runs of PublishServer. *)
EXTENDS PublishServer, TLC

CONSTANTS h1, h2, ali, sara, guest, d1, d2, k1, k2, k3

MCRng == 1..3
MCRandNext == [s \in MCRng |-> (s % 3) + 1]
MCRandHash == [s \in MCRng |-> CASE s = 1 -> k1 [] s = 2 -> k2 [] s = 3 -> k3]
MCHandlers == {h1, h2}
Symmetry == Permutations(MCHandlers)
MCAdIds == {NoId, 1}
=============================================================================
