------------------------------ MODULE ScreenShare ------------------------------
(***************************************************************************)
(* The sharer's side of a screen share in the Windows shell               *)
(* (client/src/windows/app.cpp): four threads around three staging         *)
(* textures.                                                               *)
(*                                                                         *)
(*   - the capture thread copies a captured picture into the write slot    *)
(*     and publishes it as the ready slot;                                 *)
(*   - the encode thread takes the ready slot, makes it the active one,    *)
(*     applies pending keyframe requests, encodes and sends;               *)
(*   - the QUIC worker passes a viewer's keyframe request on and re-queues *)
(*     the newest picture, because a static screen delivers no other;      *)
(*   - the message thread starts and stops the share.                      *)
(*                                                                         *)
(* The slots are guarded by encode_mutex_ and announced through            *)
(* encode_cv_. A section under the mutex is one step here, except the      *)
(* wait of the encode thread, which is two: the predicate is evaluated     *)
(* ("block": the mutex is held), then the thread sleeps. A notification    *)
(* between the two reaches nobody, and only a writer that takes the mutex  *)
(* is kept out of that window.                                             *)
(*                                                                         *)
(* Picture contents, timestamps, the frame-rate limiter and the send       *)
(* controller (see VideoSendController) are left out: a captured frame is  *)
(* admitted or not, a send succeeds or fails. The encoder is a synchronous *)
(* one (NVENC, OpenH264): its output is handed over inside encode().       *)
(***************************************************************************)
EXTENDS ScreenShareState

vars == <<main, capture, slots, encoder, request, waiting, viewers>>

NoSlots == [write |-> 0, ready |-> NoSlot, active |-> NoSlot, last |-> NoSlot]

Init ==
    /\ main = [pc |-> "idle", sharing |-> FALSE, running |-> FALSE]
    /\ capture = [pc |-> "off", ws |-> 0, sized |-> FALSE]
    /\ slots = NoSlots
    /\ encoder = [pc |-> "none", outdated |-> TRUE, fresh |-> FALSE, force |-> FALSE]
    /\ request = [pc |-> "idle", screen |-> FALSE, sender |-> FALSE]
    /\ waiting = {}
    /\ viewers = [want |-> FALSE, broken |-> FALSE, spent |-> FALSE, torn |-> FALSE]

(* encode_mutex_: held across steps only by an encode thread about to sleep. *)
MutexFree == encoder.pc # "block"

(* encode_cv_.notify_one() *)
NotifyOne ==
    \/ waiting = {} /\ UNCHANGED waiting
    \/ \E t \in waiting : waiting' = waiting \ {t}

(* A condition variable may wake a sleeper for no reason. *)
SpuriousWake ==
    /\ \E t \in waiting : waiting' = waiting \ {t}
    /\ UNCHANGED <<main, capture, slots, encoder, request, viewers>>

----------------------------------------------------------------------------
(* Message thread: start and stop. *)

(* finish_screen_share_start: the controller is reset, the slots are        *)
(* emptied, the encode thread starts and the capture callback is installed. *)
StartShare ==
    /\ main.pc = "idle" /\ ~main.sharing
    /\ main' = [main EXCEPT !.pc = "starting", !.running = TRUE]
    /\ slots' = NoSlots
    /\ capture' = [capture EXCEPT !.pc = "idle", !.sized = FALSE]
    /\ encoder' = [pc |-> "check", outdated |-> TRUE, fresh |-> FALSE, force |-> FALSE]
    /\ request' = [request EXCEPT !.sender = FALSE]
    /\ viewers' = [want |-> FALSE, broken |-> FALSE, spent |-> FALSE, torn |-> FALSE]
    /\ UNCHANGED waiting

(* Its last lines: from here on captured frames are used. *)
StartedShare ==
    /\ main.pc = "starting"
    /\ main' = [main EXCEPT !.pc = "idle", !.sharing = TRUE]
    /\ UNCHANGED <<capture, slots, encoder, request, waiting, viewers>>

StopShare ==
    /\ main.pc = "idle" /\ main.sharing
    /\ main' = [main EXCEPT !.pc = "draining", !.sharing = FALSE]
    /\ UNCHANGED <<capture, slots, encoder, request, waiting, viewers>>

(* stop_frame_delivery: waits for a callback in progress, removes it. *)
StopDelivery ==
    /\ main.pc = "draining" /\ capture.pc = "idle"
    /\ capture' = [capture EXCEPT !.pc = "off"]
    /\ main' = [main EXCEPT !.pc = "stopping"]
    /\ UNCHANGED <<slots, encoder, request, waiting, viewers>>

(* encode_running_.store(false): without encode_mutex_. *)
StopEncode ==
    /\ main.pc = "stopping"
    /\ main' = [main EXCEPT !.pc = "notify", !.running = FALSE]
    /\ UNCHANGED <<capture, slots, encoder, request, waiting, viewers>>

StopNotify ==
    /\ main.pc = "notify"
    /\ main' = [main EXCEPT !.pc = "join"]
    /\ NotifyOne
    /\ UNCHANGED <<capture, slots, encoder, request, viewers>>

(* encode_thread_.join() returned: the textures and the encoder are freed. *)
StopJoin ==
    /\ main.pc = "join" /\ encoder.pc = "none"
    /\ main' = [main EXCEPT !.pc = "idle"]
    /\ capture' = [capture EXCEPT !.sized = FALSE]
    /\ encoder' = [encoder EXCEPT !.outdated = TRUE, !.fresh = FALSE, !.force = FALSE]
    /\ UNCHANGED <<slots, request, waiting, viewers>>

----------------------------------------------------------------------------
(* Capture thread. *)

(* A frame of the known size: the write slot is read under the mutex. *)
CaptureFrame ==
    /\ capture.pc = "idle" /\ main.sharing /\ capture.sized /\ MutexFree
    /\ capture' = [capture EXCEPT !.pc = "copy", !.ws = slots.write]
    /\ UNCHANGED <<main, slots, encoder, request, waiting, viewers>>

(* A frame of another size (the first one always is). *)
CaptureResized ==
    /\ capture.pc = "idle" /\ main.sharing
    /\ capture' = [capture EXCEPT !.pc = "resize"]
    /\ UNCHANGED <<main, slots, encoder, request, waiting, viewers>>

(* The new textures wait until no slot is being encoded. *)
CaptureAwaitEncoder ==
    /\ capture.pc = "resize" /\ "capture" \notin waiting /\ MutexFree
    /\ slots.active # NoSlot
    /\ waiting' = waiting \cup {"capture"}
    /\ UNCHANGED <<main, capture, slots, encoder, request, viewers>>

CaptureReallocate ==
    /\ capture.pc = "resize" /\ "capture" \notin waiting /\ MutexFree
    /\ slots.active = NoSlot
    /\ slots' = NoSlots
    /\ capture' = [pc |-> "copy", ws |-> 0, sized |-> TRUE]
    /\ encoder' = [encoder EXCEPT !.outdated = TRUE]
    /\ UNCHANGED <<main, request, waiting, viewers>>

(* A texture cannot be created: the frame is given up, the size stays old.  *)
CaptureReallocateFails ==
    /\ capture.pc = "resize" /\ "capture" \notin waiting /\ MutexFree
    /\ slots.active = NoSlot
    /\ capture' = [capture EXCEPT !.pc = "idle"]
    /\ UNCHANGED <<main, slots, encoder, request, waiting, viewers>>

(* Mutant: the slot being encoded is not spared. *)
SparesOnlyReady(ready, active, write) ==
    LET free == Slots \ {ready}
    IN IF free = {} THEN write ELSE CHOOSE i \in free : \A j \in free : i <= j

(* The first slot that is neither ready nor being encoded; the old one when *)
(* there is none.                                                           *)
FreeWriteSlot(ready, active, write) ==
    LET free == Slots \ {ready, active}
    IN IF free = {} THEN write ELSE CHOOSE i \in free : \A j \in free : i <= j

(* Mutant: the slot is published without taking encode_mutex_. *)
PublishUnlocked ==
    /\ capture.pc = "copy"
    /\ capture' = [capture EXCEPT !.pc = "idle"]
    /\ slots' = [slots EXCEPT !.ready = capture.ws, !.last = capture.ws,
                              !.write = FreeWriteSlot(capture.ws, slots.active, slots.write)]
    /\ NotifyOne
    /\ UNCHANGED <<main, encoder, request, viewers>>

CapturePublish ==
    /\ capture.pc = "copy" /\ MutexFree
    /\ capture' = [capture EXCEPT !.pc = "idle"]
    /\ slots' = [slots EXCEPT !.ready = capture.ws, !.last = capture.ws,
                              !.write = FreeWriteSlot(capture.ws, slots.active, slots.write)]
    /\ NotifyOne
    /\ UNCHANGED <<main, encoder, request, viewers>>

----------------------------------------------------------------------------
(* Encode thread: encode_loop. *)

EncodeAwake == encoder.pc = "check" /\ "encode" \notin waiting

EncodeExit ==
    /\ EncodeAwake /\ ~main.running
    /\ encoder' = [encoder EXCEPT !.pc = "none"]
    /\ UNCHANGED <<main, capture, slots, request, waiting, viewers>>

EncodeTake ==
    /\ EncodeAwake /\ main.running /\ slots.ready # NoSlot
    /\ slots' = [slots EXCEPT !.active = slots.ready, !.ready = NoSlot]
    /\ encoder' = [encoder EXCEPT !.pc = "configure"]
    /\ UNCHANGED <<main, capture, request, waiting, viewers>>

(* Nothing to do: the predicate was false, the mutex is still held ... *)
EncodeIdle ==
    /\ EncodeAwake /\ main.running /\ slots.ready = NoSlot
    /\ encoder' = [encoder EXCEPT !.pc = "block"]
    /\ UNCHANGED <<main, capture, slots, request, waiting, viewers>>

(* ... and the thread goes to sleep. *)
EncodeSleep ==
    /\ encoder.pc = "block"
    /\ waiting' = waiting \cup {"encode"}
    /\ encoder' = [encoder EXCEPT !.pc = "check"]
    /\ UNCHANGED <<main, capture, slots, request, viewers>>

(* A new encoder is needed and cannot be created: the frame is given up. *)
EncodeInitFails ==
    /\ encoder.pc = "configure"
    /\ slots' = [slots EXCEPT !.active = NoSlot]
    /\ encoder' = [encoder EXCEPT !.pc = "check", !.outdated = TRUE]
    /\ NotifyOne
    /\ UNCHANGED <<main, capture, request, viewers>>

(* The encoder is created when its size is outdated, or again for a rate it *)
(* cannot reach otherwise; then both keyframe requests are consumed.        *)
EncodeConfigure ==
    /\ encoder.pc = "configure"
    /\ \E recreate \in BOOLEAN :
         /\ encoder.outdated => recreate
         /\ encoder' = [pc |-> "encode", outdated |-> FALSE,
                        fresh |-> encoder.fresh \/ recreate,
                        force |-> (encoder.force /\ ~recreate) \/ request.sender \/ request.screen]
    /\ request' = [request EXCEPT !.sender = FALSE, !.screen = FALSE]
    /\ UNCHANGED <<main, capture, slots, waiting, viewers>>

(* Mutant: a skipped frame consumes the forced keyframe. *)
SkipForgetsKeyframe ==
    /\ encoder.pc = "encode"
    /\ encoder' = [encoder EXCEPT !.pc = "release", !.force = FALSE]
    /\ UNCHANGED <<main, capture, slots, request, waiting, viewers>>

(* Rate control skips the frame: no output, a forced keyframe stays pending. *)
EncodeSkip ==
    /\ encoder.pc = "encode"
    /\ encoder' = [encoder EXCEPT !.pc = "release"]
    /\ UNCHANGED <<main, capture, slots, request, waiting, viewers>>

(* The encode fails: nothing comes out. A forced keyframe survives when the *)
(* input cannot be mapped (NVENC), and is consumed when the failure comes   *)
(* later; the first keyframe of a new encoder, too, when its encoded frame  *)
(* cannot be read.                                                          *)
EncodeFails ==
    /\ encoder.pc = "encode"
    /\ \E left \in {encoder, [encoder EXCEPT !.force = FALSE],
                     [encoder EXCEPT !.force = FALSE, !.fresh = FALSE]} :
         /\ encoder' = [left EXCEPT !.pc = "release"]
         /\ viewers' = [viewers EXCEPT !.spent =
                          @ \/ (viewers.broken /\ ~left.force /\ ~left.fresh)]
    /\ UNCHANGED <<main, capture, slots, request, waiting>>

(* The encoder hands its output over; a stopped share drops it. A frame     *)
(* that cannot be sent asks the controller for a keyframe (on_send_failed). *)
EncodeOutput(sent) ==
    /\ encoder.pc = "encode"
    /\ encoder' = [encoder EXCEPT !.pc = "release", !.fresh = FALSE, !.force = FALSE]
    /\ LET keyframe == encoder.fresh \/ encoder.force
       IN  \/ ~main.sharing /\ UNCHANGED <<request, viewers>>
           \/ /\ main.sharing /\ sent
              /\ viewers' = [want |-> viewers.want /\ ~keyframe,
                             broken |-> viewers.broken /\ ~keyframe,
                             spent |-> viewers.spent /\ ~keyframe,
                             torn |-> viewers.torn
                                      \/ (viewers.broken /\ ~viewers.spent /\ ~keyframe)]
              /\ UNCHANGED request
           \/ /\ main.sharing /\ ~sent
              /\ viewers' = [viewers EXCEPT !.broken = TRUE, !.spent = FALSE]
              /\ request' = [request EXCEPT !.sender = TRUE]
    /\ UNCHANGED <<main, capture, slots, waiting>>

EncodeSent == EncodeOutput(TRUE)
EncodeUnsent == EncodeOutput(FALSE)

EncodeRelease ==
    /\ encoder.pc = "release"
    /\ slots' = [slots EXCEPT !.active = NoSlot]
    /\ encoder' = [encoder EXCEPT !.pc = "check"]
    /\ NotifyOne
    /\ UNCHANGED <<main, capture, request, viewers>>

----------------------------------------------------------------------------
(* QUIC worker: bridge.request_keyframe. *)

(* A viewer joined, or lost a frame: it asks until it gets a keyframe. *)
ViewerNeedsKeyframe ==
    /\ main.sharing /\ ~viewers.want
    /\ viewers' = [viewers EXCEPT !.want = TRUE]
    /\ UNCHANGED <<main, capture, slots, encoder, request, waiting>>

RequestKeyframe ==
    /\ request.pc = "idle" /\ viewers.want
    /\ request' = [request EXCEPT !.screen = TRUE,
                                  !.pc = IF main.sharing /\ main.running THEN "wake" ELSE "idle"]
    /\ UNCHANGED <<main, capture, slots, encoder, waiting, viewers>>

(* Mutant: the newest picture is not queued again. *)
WakeOnly ==
    /\ request.pc = "wake" /\ MutexFree
    /\ request' = [request EXCEPT !.pc = "idle"]
    /\ NotifyOne
    /\ UNCHANGED <<main, capture, slots, encoder, viewers>>

RequestWake ==
    /\ request.pc = "wake" /\ MutexFree
    /\ request' = [request EXCEPT !.pc = "idle"]
    /\ slots' = [slots EXCEPT !.ready =
                   IF slots.ready = NoSlot /\ slots.active = NoSlot THEN slots.last ELSE @]
    /\ NotifyOne
    /\ UNCHANGED <<main, capture, encoder, viewers>>

----------------------------------------------------------------------------
Next ==
    \/ StartShare \/ StartedShare
    \/ StopShare \/ StopDelivery \/ StopEncode \/ StopNotify \/ StopJoin
    \/ CaptureFrame \/ CaptureResized \/ CaptureAwaitEncoder \/ CaptureReallocate
    \/ CaptureReallocateFails \/ CapturePublish
    \/ EncodeExit \/ EncodeTake \/ EncodeIdle \/ EncodeSleep
    \/ EncodeInitFails \/ EncodeConfigure \/ EncodeSkip \/ EncodeFails
    \/ EncodeSent \/ EncodeUnsent \/ EncodeRelease
    \/ ViewerNeedsKeyframe \/ RequestKeyframe \/ RequestWake
    \/ SpuriousWake

Spec == Init /\ [][Next]_vars

EncodeEnds == EncodeSkip \/ EncodeFails \/ EncodeSent \/ EncodeUnsent
KeyframeSent == (encoder.fresh \/ encoder.force) /\ EncodeSent

(* Every thread that can run runs. A viewer repeats its request until it is *)
(* served (VideoReceiveRouter's retries). Encoders do not refuse to start   *)
(* for ever, and of frames due to be keyframes not all are skipped, fail or *)
(* go unsent (strong fairness of KeyframeSent). Captures and requests come at  *)
(* a frame interval and a cooldown, the mutex is held for an instant: a     *)
(* thread that wants it is not overtaken for ever (strong fairness).        *)
(* Captures and stops are the environment's and the user's: no fairness.    *)
Fairness ==
    /\ WF_vars(StartedShare) /\ WF_vars(StopDelivery) /\ WF_vars(StopEncode)
    /\ WF_vars(StopNotify) /\ WF_vars(StopJoin)
    /\ SF_vars(CaptureAwaitEncoder \/ CaptureReallocate \/ CaptureReallocateFails)
    /\ SF_vars(CapturePublish)
    /\ WF_vars(EncodeExit \/ EncodeIdle) /\ SF_vars(EncodeTake) /\ WF_vars(EncodeSleep)
    /\ SF_vars(EncodeConfigure) /\ WF_vars(EncodeEnds) /\ SF_vars(KeyframeSent)
    /\ WF_vars(EncodeRelease)
    /\ WF_vars(RequestKeyframe) /\ SF_vars(RequestWake)

FairSpec == Spec /\ Fairness

----------------------------------------------------------------------------
(* No delta is sent after a loss whatever failed since: see the README on   *)
(* what a failing encode does to the keyframe it was to be.                 *)
LossEndsInKeyframe ==
    [][EncodeSent /\ main.sharing /\ viewers.broken => encoder.fresh \/ encoder.force]_vars

(* A published picture does not stay queued while the encode thread sleeps: *)
(* the thread takes it or the share stops.                                  *)
PublishedIsTaken == slots.ready # NoSlot ~> slots.ready = NoSlot \/ ~main.sharing

(* A viewer waiting for a keyframe gets one even if the screen never        *)
(* changes again, or the share stops.                                       *)
KeyframeIsServed ==
    viewers.want /\ slots.last # NoSlot ~> ~viewers.want \/ ~main.sharing

(* Stopping a share returns: the encode thread sees encode_running_ and     *)
(* exits, so the message thread's join() ends.                              *)
StopReturns == main.pc = "join" ~> main.pc = "idle"
=============================================================================
