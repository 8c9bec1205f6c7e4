--------------------------- MODULE ScreenShareState ---------------------------
(***************************************************************************)
(* What the four threads of a screen share (ScreenShare) have between them *)
(* - three staging textures, the flags of client/src/windows/app.cpp and   *)
(* the encoder - and what must be true of it at every moment.              *)
(***************************************************************************)
EXTENDS Integers

CONSTANT ENCODE_SLOTS

(* One slot to write, one queued, one being encoded. *)
ASSUME EncodeSlotsAssumption == ENCODE_SLOTS \in Nat /\ ENCODE_SLOTS >= 3

VARIABLES
    main,      \* message thread: pc and the flags sharing_screen_, encode_running_
    capture,   \* capture thread: pc, the slot it copies into, textures allocated
    slots,     \* encode_write_slot_, encode_ready_slot_, encode_active_slot_, encode_last_slot_
    encoder,   \* encode thread: pc; its encoder: outdated, fresh, force_keyframe_
    request,   \* QUIC worker: pc; screen_keyframe_requested_ and the controller's keyframe_request_
    waiting,   \* the threads asleep on encode_cv_
    viewers    \* ghost: a viewer waits for a keyframe; a frame was lost; a failing encode
               \* spent the keyframe due for that loss; a delta followed the loss otherwise

NoSlot == -1
Slots == 0 .. ENCODE_SLOTS - 1

MainRecords == [pc : {"idle", "starting", "draining", "stopping", "notify", "join"},
                sharing : BOOLEAN, running : BOOLEAN]
CaptureRecords == [pc : {"off", "idle", "resize", "copy"}, ws : Slots, sized : BOOLEAN]
SlotRecords == [write : Slots, ready : Slots \cup {NoSlot},
                active : Slots \cup {NoSlot}, last : Slots \cup {NoSlot}]
EncoderRecords == [pc : {"none", "check", "block", "configure", "encode", "release"},
                   outdated : BOOLEAN, fresh : BOOLEAN, force : BOOLEAN]
RequestRecords == [pc : {"idle", "wake"}, screen : BOOLEAN, sender : BOOLEAN]
ViewerRecords == [want : BOOLEAN, broken : BOOLEAN, spent : BOOLEAN, torn : BOOLEAN]

ScreenTypeOK ==
    /\ main \in MainRecords
    /\ capture \in CaptureRecords
    /\ slots \in SlotRecords
    /\ encoder \in EncoderRecords
    /\ request \in RequestRecords
    /\ waiting \subseteq {"encode", "capture"}
    /\ viewers \in ViewerRecords

----------------------------------------------------------------------------
(* The slot the capture thread copies into outside the mutex is neither     *)
(* queued for the encoder nor being encoded, whatever publishes, re-queued  *)
(* pictures and resizes came before: no picture is overwritten while read.  *)
WriterOwnsSlot == capture.pc = "copy" => capture.ws \notin {slots.ready, slots.active}

(* No delta frame reaches the viewers after a frame that could not be sent: *)
(* the next frame that is sent is a keyframe, unless an encode that failed  *)
(* took the keyframe forced for that very loss with it (LossEndsInKeyframe  *)
(* makes no exception). Skips, restarts, resizes, new encoders and other    *)
(* failing encodes do not excuse a delta.                                   *)
NoDeltaAfterLoss == ~viewers.torn

(* The slots' indices stay valid through wraps, resizes and stops, and the    *)
(* capture callback never writes a texture that is published or being encoded.*)
SlotDiscipline == ScreenTypeOK /\ WriterOwnsSlot
=============================================================================
