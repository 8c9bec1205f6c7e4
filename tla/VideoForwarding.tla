-------------------------- MODULE VideoForwarding --------------------------
(***************************************************************************)
(* How the server forwards one video stream (Server::forward_video_frame): *)
(* a gate per viewer (ViewerVideoGate, common/include/parties/             *)
(* video_backlog.h) drops whole frames while the bytes on their way to the *)
(* viewer exceed its budget and reopens at a keyframe; keyframe requests   *)
(* to the sharer are paced per viewer and coalesced per stream.  Frames    *)
(* reach the gate in order (the ingress reorder buffer).  The main loop    *)
(* alternates control messages and video; QUIC workers complete sends at   *)
(* any moment.                                                             *)
(*                                                                         *)
(* Data abstraction.  A frame is its keyframe bit and its size; within a   *)
(* share every queued frame is older than the one being forwarded, so no   *)
(* sequence number is kept.  The frame counter starts over with a share: a *)
(* frame queued during an earlier one can look older or newer.  A budget   *)
(* (rates x round trips + headroom) is any member of Budgets.  A time      *)
(* stamp is the time left until it matters.                                *)
(***************************************************************************)
EXTENDS Integers, Sequences, FiniteSets, SequencesExt, FiniteSetsExt

CONSTANTS
    Viewers,        \* sessions in the sharer's channel
    FrameStreams,   \* the viewers of protocol 1.2 or later; the others get
                    \* whole frames on one ordered stream
    Budgets,        \* values of viewer_backlog_threshold
    DeltaBytes, KeyBytes,
    Cooldown,       \* VIDEO_KEYFRAME_REQUEST_COOLDOWN_MS
    FirstBackoff,   \* 1 s
    MaxBackoff,     \* 4 s
    HealthyFrames,  \* HEALTHY_FRAMES
    MaxOut          \* bound: frames on their way to one viewer

ASSUME ForwardingAssumption ==
    /\ FrameStreams \subseteq Viewers
    /\ Budgets \subseteq Nat /\ Budgets # {}
    /\ DeltaBytes \in Nat \ {0} /\ KeyBytes \in Nat \ {0}
    /\ Cooldown \in Nat \ {0}
    /\ FirstBackoff \in Nat \ {0} /\ MaxBackoff \in Nat /\ FirstBackoff <= MaxBackoff
    /\ HealthyFrames \in Nat \ {0}
    /\ MaxOut \in Nat

VARIABLES
    phase,        \* which part of Server::run is executing
    running,      \* the stream is registered in the channel
    subs,         \* viewers with the stream in subscribed_sharers
    gate,         \* video_gates: a missing entry is NewGate
    out,          \* per viewer: the frames sent and not shut down, oldest first
    outstanding,  \* video_outstanding_bytes
    pli,          \* SharerVideoState: coalescer and deferred request
    sharer,       \* external: "idle", "asked" (a request is on its way to it)
                  \* or "encoding" a keyframe
    gap,          \* history: viewers lacking a frame since their last keyframe
    owed          \* history: a refused request no keyframe has answered since

vars == <<phase, running, subs, gate, out, outstanding, pli, sharer, gap, owed>>

Size(key) == IF key THEN KeyBytes ELSE DeltaBytes

-----------------------------------------------------------------------------
(* ViewerVideoGate.                                                        *)
Gate == [awaiting : BOOLEAN, wait : 0 .. MaxBackoff,
         backoff : 0 .. MaxBackoff, healthy : 0 .. HealthyFrames]

NewGate == [awaiting |-> FALSE, wait |-> 0, backoff |-> 0, healthy |-> 0]

\* Mutant: a closed gate asks for nothing.
NeedsNothing(g, over, key) == FALSE

Over(bytes, budget, key) == bytes > budget

Admits(g, over, key) == ~over /\ (g.awaiting => key)

NeedsKeyframe(g, over, key) == ~over /\ g.awaiting /\ ~key

AfterAdmit(g, over, key) ==
    LET healthy == IF g.healthy < HealthyFrames THEN g.healthy + 1 ELSE g.healthy
        well == healthy = HealthyFrames
    IN  CASE over -> [g EXCEPT !.awaiting = TRUE, !.healthy = 0]
          [] ~over /\ ~Admits(g, over, key) -> g
          [] OTHER -> [awaiting |-> FALSE, healthy |-> healthy,
                       wait |-> IF well THEN 0 ELSE g.wait,
                       backoff |-> IF well THEN 0 ELSE g.backoff]

AllowsRequest(g) == g.wait = 0

AfterRequest(g) ==
    LET step == IF g.backoff = 0 THEN FirstBackoff ELSE g.backoff
    IN  [g EXCEPT !.wait = step,
                  !.backoff = IF 2 * step < MaxBackoff THEN 2 * step ELSE MaxBackoff]

-----------------------------------------------------------------------------
(* SharerVideoState: wait is what is left of the coalescer's interval,     *)
(* key_after stands for last_keyframe_us > pli_deferred_at_us.             *)
Pli == [wait : 0 .. Cooldown, deferred : BOOLEAN, key_after : BOOLEAN]

NewPli == [wait |-> 0, deferred |-> FALSE, key_after |-> FALSE]

SentPli == [wait |-> Cooldown, deferred |-> FALSE, key_after |-> FALSE]

Defer(p) == IF p.deferred THEN p ELSE [p EXCEPT !.deferred = TRUE, !.key_after = FALSE]

KeyframeSeen(p) == [p EXCEPT !.key_after = p.deferred]

\* send_keyframe_request, to a sharer in state sh.
Ask(sh) == IF sh = "encoding" THEN sh ELSE "asked"

\* request_keyframe_from_sharer, with the coalescer in state p.
RequestKeyframe(p, sh) ==
    IF p.wait = 0
    THEN pli' = SentPli /\ sharer' = Ask(sh) /\ owed' = FALSE
    ELSE pli' = Defer(p) /\ sharer' = sh /\ owed' = TRUE

-----------------------------------------------------------------------------
(* Per-frame streams toward a viewer.                                      *)
\* stage "aborted": by the server; "refused": the viewer stopped reading.
Frames == [key : BOOLEAN, stage : {"open", "aborted", "refused"}, earlier : BOOLEAN,
           charge : {0, DeltaBytes, KeyBytes}]

NewFrame(key) == [key |-> key, stage |-> "open", earlier |-> FALSE, charge |-> Size(key)]

\* Mutant: queued keyframes are spared.
AbortSparesKeyframes(v, frames, spared) ==
    [i \in DOMAIN frames |->
        IF frames[i].key THEN frames[i] ELSE [frames[i] EXCEPT !.stage = "aborted"]]

\* abort_video_frames: only per-frame streams are in video_out_streams; spared
\* says whether the frames of an earlier share look newer than before_seq.
AbortVideoFrames(v, frames, spared) ==
    [i \in DOMAIN frames |->
        IF v \in FrameStreams /\ ~(spared /\ frames[i].earlier)
        THEN [frames[i] EXCEPT !.stage = "aborted"] ELSE frames[i]]

\* Mutant: SHUTDOWN_COMPLETE gives back what SEND_COMPLETE already did.
UnchargeAgain(v, i) ==
    [bytes |-> outstanding[v] - Size(out[v][i].key), frame |-> [out[v][i] EXCEPT !.charge = 0]]

\* VideoOutStreamContext::uncharge: exchange(0), then fetch_sub.
Uncharge(v, i) ==
    [bytes |-> outstanding[v] - out[v][i].charge, frame |-> [out[v][i] EXCEPT !.charge = 0]]

-----------------------------------------------------------------------------
Init ==
    /\ phase = "control"
    /\ running = FALSE
    /\ subs = {}
    /\ gate = [v \in Viewers |-> NewGate]
    /\ out = [v \in Viewers |-> <<>>]
    /\ outstanding = [v \in Viewers |-> 0]
    /\ pli = NewPli
    /\ sharer = "idle"
    /\ gap = Viewers
    /\ owed = FALSE

(* Control messages and datagrams.                                         *)
ShareStart ==
    /\ phase = "control"
    /\ running' = TRUE
    /\ UNCHANGED <<phase, subs, gate, out, outstanding, pli, sharer, gap, owed>>

\* stop_video_stream; frames already queued toward viewers stay queued.
ShareStop ==
    /\ phase = "control" /\ running
    /\ running' = FALSE
    /\ subs' = {}
    /\ gate' = [v \in Viewers |-> NewGate]
    /\ pli' = NewPli
    /\ sharer' = "idle" /\ owed' = FALSE /\ gap' = Viewers
    /\ out' = [v \in Viewers |-> [i \in DOMAIN out[v] |-> [out[v][i] EXCEPT !.earlier = TRUE]]]
    /\ UNCHANGED <<phase, outstanding>>

Subscribed(g) == [g EXCEPT !.awaiting = TRUE]

View(v) ==
    /\ phase = "control" /\ running /\ v \notin subs
    /\ subs' = subs \cup {v}
    /\ gate' = [gate EXCEPT ![v] = Subscribed(@)]
    /\ RequestKeyframe(pli, sharer)
    /\ UNCHANGED <<phase, running, out, outstanding, gap>>

\* Unview, or the viewer leaves: its subscriptions and gates are erased.
Unview(v) ==
    /\ phase = "control"
    /\ subs' = subs \ {v}
    /\ gate' = [gate EXCEPT ![v] = NewGate]
    /\ gap' = gap \cup {v}
    /\ UNCHANGED <<phase, running, out, outstanding, pli, sharer, owed>>

\* handle_video_control: a viewer's PLI, which need not be subscribed.  One
\* the token bucket refuses changes nothing.
ViewerPli(v) ==
    /\ phase = "control" /\ running
    /\ \E b \in Budgets : gate[v].awaiting => outstanding[v] <= b
    /\ AllowsRequest(gate[v])
    /\ gate' = [gate EXCEPT ![v] = AfterRequest(@)]
    /\ RequestKeyframe(pli, sharer)
    /\ UNCHANGED <<phase, running, subs, out, outstanding, gap>>

-----------------------------------------------------------------------------
(* process_video_frames: the frames of this pass, then the deferred        *)
(* keyframe request.                                                       *)
BeginVideo ==
    /\ phase = "control"
    /\ phase' = "video"
    /\ UNCHANGED <<running, subs, gate, out, outstanding, pli, sharer, gap, owed>>

\* The ingress reorder buffer reports a broken chain (or asks again).
IngressLoss ==
    /\ phase = "video" /\ running
    /\ RequestKeyframe(pli, sharer)
    /\ UNCHANGED <<phase, running, subs, gate, out, outstanding, gap>>

\* Mutant: a viewer whose send failed is served on.
FailedKeepsOpen(g) == g

MissedFrame(g) == [g EXCEPT !.awaiting = TRUE]

\* budget[v]: the threshold of viewer v; ok: the viewers whose send succeeds.
ForwardVideoFrame(key, budget, ok, spared) ==
    LET over(v) == Over(outstanding[v], budget[v], key)
        admitted == {v \in subs : Admits(gate[v], over(v), key)}
        closing == {v \in subs : over(v) /\ ~gate[v].awaiting}
        asking == {v \in subs : NeedsKeyframe(gate[v], over(v), key) /\ AllowsRequest(gate[v])}
        older == IF key THEN admitted ELSE {}
        sent == admitted \cap ok
        p == IF key THEN KeyframeSeen(pli) ELSE pli
        sh == IF key THEN "idle" ELSE sharer
    IN  /\ phase = "video" /\ running
        /\ gate' = [v \in Viewers |->
             LET g == IF v \in subs THEN AfterAdmit(gate[v], over(v), key) ELSE gate[v]
             IN  CASE v \in asking -> AfterRequest(g)
                   [] v \in admitted \ sent -> MissedFrame(g)
                   [] OTHER -> g]
        /\ out' = [v \in Viewers |->
             LET queued == CASE v \in closing -> AbortVideoFrames(v, out[v], FALSE)
                             [] v \in older -> AbortVideoFrames(v, out[v], spared)
                             [] OTHER -> out[v]
             IN  IF v \in sent THEN Append(queued, NewFrame(key)) ELSE queued]
        /\ outstanding' = [v \in Viewers |->
             IF v \in sent THEN outstanding[v] + Size(key) ELSE outstanding[v]]
        /\ gap' = (gap \cup (Viewers \ sent)) \ (IF key THEN sent ELSE {})
        /\ IF asking \cup (admitted \ sent) # {} THEN RequestKeyframe(p, sh)
           ELSE pli' = p /\ sharer' = sh /\ owed' = (owed /\ ~key)
        /\ UNCHANGED <<phase, running, subs>>

Forward(key, ok) ==
    \E budget \in [Viewers -> Budgets], spared \in {FALSE, key} :
        /\ ForwardVideoFrame(key, budget, ok, spared)
        /\ \A v \in Viewers : Len(out'[v]) <= MaxOut

ForwardDelta == \E ok \in SUBSET Viewers : Forward(FALSE, ok)

ForwardKeyframe == \E ok \in SUBSET Viewers : Forward(TRUE, ok)

\* send_deferred_keyframe_requests ends the pass.
EndVideo ==
    /\ phase = "video"
    /\ phase' = "control"
    /\ CASE ~pli.deferred -> UNCHANGED <<pli, sharer, owed>>
         [] pli.deferred /\ pli.key_after ->
              pli' = [pli EXCEPT !.deferred = FALSE, !.key_after = FALSE] /\ UNCHANGED <<sharer, owed>>
         [] pli.deferred /\ ~pli.key_after /\ pli.wait > 0 -> UNCHANGED <<pli, sharer, owed>>
         [] OTHER -> pli' = SentPli /\ sharer' = Ask(sharer) /\ owed' = FALSE
    /\ UNCHANGED <<running, subs, gate, out, outstanding, gap>>

-----------------------------------------------------------------------------
(* QUIC workers (video_out_stream_callback), the network and the clock.    *)
SendComplete(v) ==
    \E i \in DOMAIN out[v] :
        /\ out[v][i].charge > 0
        /\ LET u == Uncharge(v, i)
           IN  /\ outstanding' = [outstanding EXCEPT ![v] = u.bytes]
               /\ out' = [out EXCEPT ![v] = IF v \in FrameStreams
                                            THEN [@ EXCEPT ![i] = u.frame]
                                            ELSE RemoveAt(@, i)]
        /\ UNCHANGED <<phase, running, subs, gate, pli, sharer, gap, owed>>

PeerReceiveAborted(v) ==
    \E i \in DOMAIN out[v] :
        /\ v \in FrameStreams /\ out[v][i].stage = "open"
        /\ out' = [out EXCEPT ![v][i].stage = "refused"]
        /\ UNCHANGED <<phase, running, subs, gate, outstanding, pli, sharer, gap, owed>>

ShutdownComplete(v) ==
    \E i \in DOMAIN out[v] :
        /\ v \in FrameStreams
        /\ outstanding' = [outstanding EXCEPT ![v] = Uncharge(v, i).bytes]
        /\ out' = [out EXCEPT ![v] = RemoveAt(@, i)]
        /\ UNCHANGED <<phase, running, subs, gate, pli, sharer, gap, owed>>

\* The request is a datagram: it can get lost.
PliLost ==
    /\ sharer = "asked"
    /\ sharer' = "idle"
    /\ UNCHANGED <<phase, running, subs, gate, out, outstanding, pli, gap, owed>>

SharerHears ==
    /\ sharer = "asked"
    /\ sharer' = "encoding"
    /\ UNCHANGED <<phase, running, subs, gate, out, outstanding, pli, gap, owed>>

SharerAnswers == sharer = "encoding" /\ Forward(TRUE, Viewers)

Tick ==
    /\ pli' = [pli EXCEPT !.wait = IF @ > 0 THEN @ - 1 ELSE 0]
    /\ gate' = [v \in Viewers |->
                  [gate[v] EXCEPT !.wait = IF @ > 0 THEN @ - 1 ELSE 0]]
    /\ UNCHANGED <<phase, running, subs, out, outstanding, sharer, gap, owed>>

-----------------------------------------------------------------------------
Next ==
    \/ ShareStart
    \/ ShareStop
    \/ \E v \in Viewers : View(v)
    \/ \E v \in Viewers : Unview(v)
    \/ \E v \in Viewers : ViewerPli(v)
    \/ BeginVideo
    \/ IngressLoss
    \/ ForwardDelta
    \/ ForwardKeyframe
    \/ EndVideo
    \/ \E v \in Viewers : SendComplete(v)
    \/ \E v \in Viewers : PeerReceiveAborted(v)
    \/ \E v \in Viewers : ShutdownComplete(v)
    \/ PliLost
    \/ SharerHears
    \/ Tick

Spec == Init /\ [][Next]_vars

(* The main loop keeps going round and time passes; every send completes   *)
(* or is canceled and its stream shuts down; the sharer keeps producing    *)
(* frames and answers one of infinitely many requests with a keyframe that *)
(* can be sent.                                                            *)
FairSpec ==
    /\ Spec
    /\ WF_vars(BeginVideo) /\ WF_vars(EndVideo) /\ WF_vars(Tick)
    /\ \A v \in Viewers : WF_vars(SendComplete(v)) /\ WF_vars(ShutdownComplete(v))
    /\ SF_vars(Forward(FALSE, Viewers))
    /\ SF_vars(SharerHears) /\ SF_vars(SharerAnswers)

-----------------------------------------------------------------------------
TypeOK ==
    /\ phase \in {"control", "video"}
    /\ sharer \in {"idle", "asked", "encoding"}
    /\ running \in BOOLEAN /\ owed \in BOOLEAN
    /\ subs \subseteq Viewers /\ gap \subseteq Viewers
    /\ gate \in [Viewers -> Gate]
    /\ out \in [Viewers -> Seq(Frames)]
    /\ outstanding \in [Viewers -> Int]
    /\ pli \in Pli

Charges(frames) == SumFunction([i \in DOMAIN frames |-> frames[i].charge])

(* The backlog counter is exact: a send is charged once and given back     *)
(* once, whichever of SEND_COMPLETE, an abort and SHUTDOWN_COMPLETE comes  *)
(* first.  A leak would throttle the viewer forever.                       *)
OutstandingExact == \A v \in Viewers : outstanding[v] = Charges(out[v])

(* What is queued toward a viewer stays within one frame of its budget, so *)
(* video is never more than that much late (video_backlog.h).              *)
BacklogBounded ==
    \A v \in Viewers : \E b \in Budgets, key \in BOOLEAN : outstanding[v] <= b + Size(key)

(* An open gate means a whole chain: every frame since the viewer's last   *)
(* keyframe was sent to it, so the next delta is decodable.                *)
OpenGateIsWhole == \A v \in subs : gate[v].awaiting \/ v \notin gap

(* A keyframe never waits behind video of its share that it makes useless: *)
(* while the share runs, everything of it still queued ahead of the        *)
(* keyframe toward a per-frame viewer has been given up, by the server or  *)
(* by the viewer.                                                          *)
NothingStaleAheadOfKeyframe ==
    \A v \in FrameStreams : \A i, j \in DOMAIN out[v] :
        i < j /\ out[v][j].key /\ ~out[v][i].earlier /\ ~out[v][j].earlier
            => out[v][i].stage # "open"

(* A request inside the cooldown is deferred to its end, not dropped,      *)
(* unless a keyframe passes through meanwhile (server.h, SharerVideoState).*)
RefusedIsDeferred == owed => pli.deferred

(* A gate that closed opens again: a subscribed viewer whose link drains   *)
(* gets a keyframe however many requests and keyframes are lost.           *)
GateReopens ==
    \A v \in Viewers :
        v \in subs /\ gate[v].awaiting ~> v \notin subs \/ ~gate[v].awaiting

(* What a viewer is charged is what is queued toward it, every frame is given*)
(* back once however its stream ends, and the sum stays near the budget.   *)
ForwardAccounting == TypeOK /\ OutstandingExact /\ BacklogBounded
============================================================================
