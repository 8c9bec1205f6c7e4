--------------------------- MODULE MCVideoIngress ---------------------------
(* A small instance of VideoIngress.                                       *)
EXTENDS VideoIngress, TLC

Symmetry == Permutations(Streams)
=============================================================================
