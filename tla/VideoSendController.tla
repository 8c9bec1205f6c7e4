-------------------------- MODULE VideoSendController --------------------------
(***************************************************************************)
(* The sharer's congestion controller (common/src/video_send_controller.cpp)*)
(* together with the threads that drive it (client/src/app_core.cpp):       *)
(*                                                                          *)
(*   - the encode thread asks for admission, takes the published bitrate,   *)
(*     charges a frame, hands it to the transport and takes the charge back *)
(*     when that failed;                                                    *)
(*   - the QUIC worker reports completed sends;                             *)
(*   - the main thread evaluates windows, moves the slider, starts and      *)
(*     stops shares and cleans up after a lost connection.                  *)
(*                                                                          *)
(* outstanding is the atomic counter outstanding_: each step on it is one   *)
(* atomic operation, so on_completed is a subtraction followed, when the    *)
(* result is negative, by the compare-and-swap loop that clamps it.         *)
(*                                                                          *)
(* Bitrates are small integers with the code's factors in percent. Time is  *)
(* "the window is over", which also ends the publish interval (both are     *)
(* 500 ms). The measured goodput, queueing delay and share of refused       *)
(* frames only decide between outcomes, so they are choices where the code  *)
(* can find either. Frame numbers, statistics and RTT filtering are left    *)
(* out.                                                                     *)
(***************************************************************************)
EXTENDS VideoSendControllerState

vars == <<rate, window, outstanding, inflight, encode, net, cleanup>>

Highest(a, b) == IF a > b THEN a ELSE b

(* scale_bitrate, the factor in percent *)
Scale(bps, percent) == (bps * percent + 50) \div 100

(* The adaptation floor: never above the user's ceiling. *)
FloorOf(r) == Lowest(r.floor, r.target)

(* refresh_allowance: bytes that may be outstanding at the adapted bitrate. *)
Allowance == (rate.adapted * Horizon) \div 10

(* publish_bitrate_if_needed(now, true) *)
ForcePublished(r) == [r EXCEPT !.published = r.adapted, !.pending = r.adapted]

(* reset(cfg): outstanding_ is not part of it. *)
Reset(target, floor) ==
    ForcePublished([target |-> target, floor |-> floor, adapted |-> target, published |-> 0,
                    pending |-> 0, recent |-> FALSE])

(* reset_video_sender: the floor is fixed for the share, below its first    *)
(* ceiling.                                                                 *)
ResetFor(target) == Reset(target, Lowest(MinBitrate, target))

FreshWindow == [over |-> FALSE, lost |-> FALSE, refused |-> FALSE, congested |-> 0, clean |-> 0]
NoEncoder == [pc |-> "off", size |-> 1, after |-> 0, bitrate |-> 0]

Init ==
    /\ rate \in {ResetFor(t) : t \in Targets}
    /\ window = FreshWindow
    /\ outstanding = 0
    /\ inflight = [s \in Sizes |-> 0]
    /\ encode = NoEncoder
    /\ net = [connected |-> TRUE, authenticated |-> TRUE]
    /\ cleanup = "idle"

----------------------------------------------------------------------------
(* Main thread: shares, slider, windows. *)

\* Mutant: a new share forgets the sends of the previous one.
StartClearsOutstanding(target) ==
    /\ cleanup = "idle" /\ net.authenticated /\ encode.pc = "off"
    /\ rate' = ResetFor(target)
    /\ window' = FreshWindow
    /\ encode' = [encode EXCEPT !.pc = "idle", !.bitrate = 0]
    /\ outstanding' = 0
    /\ UNCHANGED <<inflight, net, cleanup>>

(* A share starts: reset_video_sender, then the encode thread. Sends of the *)
(* previous share on this connection may still be in flight.                *)
StartShare(target) ==
    /\ cleanup = "idle" /\ net.authenticated /\ encode.pc = "off"
    /\ rate' = ResetFor(target)
    /\ window' = FreshWindow
    /\ encode' = [encode EXCEPT !.pc = "idle", !.bitrate = 0]
    /\ UNCHANGED <<outstanding, inflight, net, cleanup>>

(* The share stops: the encode thread is joined. *)
StopShare ==
    /\ cleanup = "idle" /\ encode.pc = "idle"
    /\ encode' = [encode EXCEPT !.pc = "off", !.bitrate = 0]
    /\ UNCHANGED <<rate, window, outstanding, inflight, net, cleanup>>

(* set_target_bitrate: a lower ceiling is applied and published at once. *)
SetTarget(target) ==
    /\ cleanup = "idle" /\ target # rate.target
    /\ rate' = IF rate.adapted > target
               THEN ForcePublished([rate EXCEPT !.target = target, !.adapted = target])
               ELSE [rate EXCEPT !.target = target]
    /\ UNCHANGED <<window, outstanding, inflight, encode, net, cleanup>>

(* window_ms and min_reconfigure_ms have passed. *)
WindowElapses ==
    /\ ~window.over
    /\ window' = [window EXCEPT !.over = TRUE]
    /\ rate' = [rate EXCEPT !.recent = FALSE]
    /\ UNCHANGED <<outstanding, inflight, encode, net, cleanup>>

\* Mutant: a small step onto the target or the floor is not published either.
GatesBounds(r) ==
    LET change == IF r.adapted > r.published THEN r.adapted - r.published
                                             ELSE r.published - r.adapted
    IN IF r.adapted = r.published \/ 10 * change < r.published \/ r.recent
       THEN r
       ELSE [ForcePublished(r) EXCEPT !.recent = TRUE]

(* publish_bitrate_if_needed(now, false): changes under 10 % wait unless    *)
(* the bitrate rests on a bound.                                            *)
Published(r) ==
    LET change == IF r.adapted > r.published THEN r.adapted - r.published
                                             ELSE r.published - r.adapted
        atBound == r.adapted \in {r.target, FloorOf(r)}
    IN IF \/ r.adapted = r.published
          \/ ~atBound /\ 10 * change < r.published
          \/ r.recent
       THEN r
       ELSE [ForcePublished(r) EXCEPT !.recent = TRUE]

(* tick() inside a window: nothing but a publish that was due. *)
Tick ==
    /\ cleanup = "idle" /\ ~window.over
    /\ rate' = Published(rate)
    /\ UNCHANGED <<window, outstanding, inflight, encode, net, cleanup>>

(* tick() closing a congested window: a lost frame, or possibly a standing  *)
(* queue or many refused frames. Enough of them in a row lower the bitrate  *)
(* to 85 %, or to less when the goodput was less.                           *)
CloseCongested ==
    /\ cleanup = "idle" /\ window.over
    /\ window.lost \/ window.refused \/ outstanding > 0
    /\ IF window.congested + 1 < CongestedWindows
       THEN /\ window' = [FreshWindow EXCEPT !.congested = window.congested + 1]
            /\ rate' = Published(rate)
       ELSE /\ window' = FreshWindow
            /\ \E measured \in 0 .. Scale(rate.adapted, 85) :
                 LET reduced == Highest(FloorOf(rate), measured)
                 IN rate' = Published([rate EXCEPT !.adapted = Lowest(rate.adapted, reduced)])
    /\ UNCHANGED <<outstanding, inflight, encode, net, cleanup>>

(* tick() closing a clean window: enough of them raise it by 10 %. *)
CloseClean ==
    /\ cleanup = "idle" /\ window.over /\ ~window.lost
    /\ IF window.clean + 1 < CleanWindows
       THEN /\ window' = [FreshWindow EXCEPT !.clean = window.clean + 1]
            /\ rate' = Published(rate)
       ELSE /\ window' = FreshWindow
            /\ rate' = Published([rate EXCEPT !.adapted =
                                    Lowest(rate.target, Highest(Scale(@, 110), @ + 1))])
    /\ UNCHANGED <<outstanding, inflight, encode, net, cleanup>>

----------------------------------------------------------------------------
(* Capture and encode thread. *)

(* admit_frame: refused while more than the allowance is outstanding. *)
AdmitFrame ==
    /\ encode.pc = "idle" /\ outstanding <= Allowance
    /\ encode' = [encode EXCEPT !.pc = "create"]
    /\ UNCHANGED <<rate, window, outstanding, inflight, net, cleanup>>

RefuseFrame ==
    /\ encode.pc = "idle" /\ outstanding > Allowance
    /\ window' = [window EXCEPT !.refused = TRUE]
    /\ UNCHANGED <<rate, outstanding, inflight, encode, net, cleanup>>

(* The encoder is created, when there is none or it must change, at the     *)
(* adapted bitrate.                                                         *)
CreateEncoder ==
    /\ encode.pc = "create"
    /\ \/ encode' = [encode EXCEPT !.pc = "configure", !.bitrate = rate.adapted]
       \/ encode.bitrate # 0 /\ encode' = [encode EXCEPT !.pc = "configure"]
    /\ UNCHANGED <<rate, window, outstanding, inflight, net, cleanup>>

(* take_bitrate_update: the published bitrate, once. *)
TakeBitrate ==
    /\ encode.pc = "configure"
    /\ encode' = [encode EXCEPT !.pc = "charge",
                                !.bitrate = IF rate.pending # 0 THEN rate.pending ELSE @]
    /\ rate' = [rate EXCEPT !.pending = 0]
    /\ UNCHANGED <<window, outstanding, inflight, net, cleanup>>

(* The encoder produced nothing, or send_video_frame returns at once. *)
NothingToSend ==
    /\ encode.pc = "charge"
    /\ encode' = [encode EXCEPT !.pc = "idle"]
    /\ UNCHANGED <<rate, window, outstanding, inflight, net, cleanup>>

(* send_video_frame: on_enqueued before the transport sees the frame. *)
Charge(size) ==
    /\ encode.pc = "charge" /\ net.authenticated /\ net.connected
    /\ outstanding' = outstanding + size
    /\ encode' = [encode EXCEPT !.pc = "send", !.size = size]
    /\ UNCHANGED <<rate, window, inflight, net, cleanup>>

SendFrame ==
    /\ encode.pc = "send" /\ net.connected
    /\ inflight' = [inflight EXCEPT ![encode.size] = @ + 1]
    /\ encode' = [encode EXCEPT !.pc = "idle"]
    /\ UNCHANGED <<rate, window, outstanding, net, cleanup>>

(* The send call fails: the connection went, or no stream can be opened. *)
SendFails ==
    /\ encode.pc = "send"
    /\ encode' = [encode EXCEPT !.pc = "refund"]
    /\ UNCHANGED <<rate, window, outstanding, inflight, net, cleanup>>

\* Mutant: the charge of a failed send is kept.
KeepsCharge ==
    /\ encode.pc = "refund"
    /\ encode' = [encode EXCEPT !.pc = "failed"]
    /\ UNCHANGED <<rate, window, outstanding, inflight, net, cleanup>>

(* on_completed for a send that never happened: the subtraction. *)
Refund ==
    /\ encode.pc = "refund"
    /\ outstanding' = outstanding - encode.size
    /\ encode' = [encode EXCEPT !.pc = IF outstanding' < 0 THEN "clamp" ELSE "failed",
                                !.after = IF outstanding' < 0 THEN outstanding' ELSE 0]
    /\ UNCHANGED <<rate, window, inflight, net, cleanup>>

(* One round of the compare-and-swap loop that lifts a negative counter to  *)
(* zero; it ends when the swap succeeds or the counter is not negative.     *)
RefundClamp ==
    /\ encode.pc = "clamp"
    /\ IF outstanding = encode.after
       THEN /\ outstanding' = 0
            /\ encode' = [encode EXCEPT !.pc = "failed", !.after = 0]
       ELSE /\ encode' = IF outstanding < 0
                         THEN [encode EXCEPT !.after = outstanding]
                         ELSE [encode EXCEPT !.pc = "failed", !.after = 0]
            /\ UNCHANGED outstanding
    /\ UNCHANGED <<rate, window, inflight, net, cleanup>>

(* on_send_failed: the window is congested (the keyframe request is         *)
(* modelled in ScreenShare).                                                *)
RecordFailure ==
    /\ encode.pc = "failed"
    /\ window' = [window EXCEPT !.lost = TRUE]
    /\ encode' = [encode EXCEPT !.pc = "idle"]
    /\ UNCHANGED <<rate, outstanding, inflight, net, cleanup>>

----------------------------------------------------------------------------
(* QUIC worker. *)

(* SEND_COMPLETE, canceled or not, reports exactly the bytes handed over.   *)
(* Here the counter never gets below zero (OutstandingExact): the clamp     *)
(* loop is not entered and needs no step of its own.                        *)
SendComplete(size) ==
    /\ inflight[size] > 0
    /\ inflight' = [inflight EXCEPT ![size] = @ - 1]
    /\ outstanding' = Highest(0, outstanding - size)
    /\ UNCHANGED <<rate, window, encode, net, cleanup>>

(* The connection is lost: nothing can be sent, what is queued is canceled. *)
ConnectionLost ==
    /\ net.connected
    /\ net' = [net EXCEPT !.connected = FALSE]
    /\ UNCHANGED <<rate, window, outstanding, inflight, encode, cleanup>>

----------------------------------------------------------------------------
(* Main thread: on_disconnect_cleanup, once every send was reported. *)

CleanupReset ==
    /\ cleanup = "idle" /\ ~net.connected /\ net.authenticated
    /\ \A s \in Sizes : inflight[s] = 0
    /\ net' = [net EXCEPT !.authenticated = FALSE]
    /\ rate' = Reset(rate.target, rate.floor)
    /\ window' = FreshWindow
    /\ cleanup' = "clear"
    /\ UNCHANGED <<outstanding, inflight, encode>>

CleanupClear ==
    /\ cleanup = "clear"
    /\ outstanding' = 0
    /\ cleanup' = "join"
    /\ UNCHANGED <<rate, window, inflight, encode, net>>

(* ... and stop_screen_share, when a share is running. *)
CleanupJoin ==
    /\ cleanup = "join" /\ encode.pc \in {"off", "idle"}
    /\ encode' = [encode EXCEPT !.pc = "off", !.bitrate = 0]
    /\ cleanup' = "idle"
    /\ UNCHANGED <<rate, window, outstanding, inflight, net>>

(* A new connection was authenticated (see ClientConnection). *)
Reconnected ==
    /\ cleanup = "idle" /\ ~net.authenticated
    /\ net' = [connected |-> TRUE, authenticated |-> TRUE]
    /\ UNCHANGED <<rate, window, outstanding, inflight, encode, cleanup>>

----------------------------------------------------------------------------
Next ==
    \/ \E t \in Targets : StartShare(t) \/ SetTarget(t)
    \/ StopShare \/ WindowElapses \/ Tick \/ CloseCongested \/ CloseClean
    \/ AdmitFrame \/ RefuseFrame \/ CreateEncoder \/ TakeBitrate \/ NothingToSend
    \/ \E s \in Sizes : Charge(s) \/ SendComplete(s)
    \/ SendFrame \/ SendFails \/ Refund \/ RefundClamp \/ RecordFailure
    \/ ConnectionLost
    \/ CleanupReset \/ CleanupClear \/ CleanupJoin \/ Reconnected

Spec == Init /\ [][Next]_vars

(* The threads run; time passes; the picture keeps changing, so an admitted *)
(* frame is taken again and again; what is in flight completes.             *)
Fairness ==
    /\ WF_vars(WindowElapses) /\ WF_vars(CloseCongested \/ CloseClean) /\ WF_vars(Tick)
    /\ SF_vars(AdmitFrame) /\ WF_vars(CreateEncoder) /\ WF_vars(TakeBitrate)
    /\ WF_vars(NothingToSend \/ \E s \in Sizes : Charge(s))
    /\ WF_vars(SendFrame \/ SendFails) /\ WF_vars(Refund) /\ WF_vars(RefundClamp)
    /\ WF_vars(RecordFailure)
    /\ \A s \in Sizes : WF_vars(SendComplete(s))
    /\ WF_vars(CleanupReset) /\ WF_vars(CleanupClear) /\ WF_vars(CleanupJoin)

FairSpec == Spec /\ Fairness

----------------------------------------------------------------------------
(* A running share is not refused for ever: admission reopens.              *)
AdmissionReopens == encode.pc = "idle" ~> outstanding <= Allowance \/ encode.pc = "off"

(* Once the adapted bitrate rests on the user's target or on the floor, the *)
(* encoder of a running share ends up at that bitrate, however small the    *)
(* last step was and whenever the encoder was created.                      *)
EncoderSettles ==
    \A b \in 1 .. MaxTarget :
        <>[](rate.adapted = b /\ b \in {rate.target, FloorOf(rate)} /\ encode.pc # "off")
        => <>[](encode.bitrate = b)
=============================================================================
