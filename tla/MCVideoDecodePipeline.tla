----------------------- MODULE MCVideoDecodePipeline -----------------------
(* A small instance of VideoDecodePipeline: the queue is long enough to be *)
(* trimmed and to pass the hard limit.                                     *)
EXTENDS VideoDecodePipeline
=============================================================================
