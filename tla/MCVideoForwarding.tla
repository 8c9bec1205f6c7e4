------------------------- MODULE MCVideoForwarding -------------------------
(* A small instance of VideoForwarding.                                    *)
EXTENDS VideoForwarding, TLC
=============================================================================
