------------------------ MODULE MCVideoFrameReorder ------------------------
(* A small instance of VideoFrameReorder, with mutants of the code.        *)
EXTENDS VideoFrameReorder
=============================================================================
