-------------------------- MODULE MCDatagramBacklog --------------------------
(* Small instances of DatagramBacklog for TLC.                             *)
EXTENDS DatagramBacklog
==============================================================================
