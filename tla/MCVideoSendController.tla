------------------------- MODULE MCVideoSendController -------------------------
(* VideoSendController with a floor of 10, ceilings of 9 and 13 units and    *)
(* frames of one or two bytes.                                                *)
EXTENDS VideoSendController
MCTargets == {9, 13}
=============================================================================
