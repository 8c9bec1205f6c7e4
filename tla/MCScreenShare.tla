----------------------------- MODULE MCScreenShare -----------------------------
(* ScreenShare with the three staging textures of client/include/client/app.h. *)
EXTENDS ScreenShare
=============================================================================
