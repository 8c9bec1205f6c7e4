---------------------------- MODULE MCCameraShare ----------------------------
(* Small instances of CameraShare for TLC.                                 *)
EXTENDS CameraShare
==============================================================================
