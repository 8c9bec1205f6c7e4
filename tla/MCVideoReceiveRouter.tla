------------------------ MODULE MCVideoReceiveRouter ------------------------
(* A small instance of VideoReceiveRouter.  The frames let a chain, a gap, *)
(* a recovery past the gap and a number reused by a later share happen     *)
(* across the wrap of the counter.                                         *)
EXTENDS VideoReceiveRouter

KeyframesAndDeltas ==
    {[seq |-> 5, key |-> TRUE], [seq |-> 0, key |-> FALSE],
     [seq |-> 1, key |-> FALSE], [seq |-> 1, key |-> TRUE]}
=============================================================================
