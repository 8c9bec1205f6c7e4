------------------------- MODULE VideoFrameReorder -------------------------
(***************************************************************************)
(* One VideoFrameReorderBuffer under the calls its owners make             *)
(* (Server::process_video_frames on the SFU, VideoReceiveRouter in the     *)
(* client): frame headers, complete frames, aborted streams, the poll      *)
(* timer, RTT updates and resets, in any order, with any sequence number a *)
(* peer can put in a header, while the clock advances.                     *)
(***************************************************************************)
EXTENDS VideoFrameReorderBuffer

VARIABLE buf    \* the buffer

vars == <<buf>>

Frame == [seq : FrameSeq, key : BOOLEAN, size : Sizes]

Init == buf = NewBuffer(0)

FrameStarted ==
    \E s \in FrameSeq, k \in BOOLEAN : buf' = OnFrameStarted(buf, [seq |-> s, key |-> k])

FrameArrives == \E f \in Frame : buf' = OnFrame(buf, f)

FrameAborted == \E s \in FrameSeq : buf' = OnFrameAborted(buf, s)

PollTimer == buf' = Poll(buf)

RttUpdate == \E r \in Rtts : buf' = SetRtt(buf, r)

ResetBuffer == buf' = Reset(buf)

Tick == buf' = Elapse(buf)

Next ==
    \/ FrameStarted
    \/ FrameArrives
    \/ FrameAborted
    \/ PollTimer
    \/ RttUpdate
    \/ ResetBuffer
    \/ Tick

Spec == Init /\ [][Next]_vars

\* The owner polls on every tick of its loop, and time passes.
FairSpec == Spec /\ WF_vars(PollTimer) /\ WF_vars(Tick)

-----------------------------------------------------------------------------
(* Every field of the buffer has the type its declaration gives it, and    *)
(* the held frames carry distinct sequence numbers (held_ is a map).  The  *)
(* byte counter and the aborted list are pinned by BytesExact and          *)
(* AbortedAhead.                                                           *)
TypeOK ==
    /\ buf \in Buffer({buf.held_bytes}, {buf.aborted})
    /\ \A g, h \in buf.held : g.seq = h.seq => g = h

(* Once a baseline exists every held frame lies beyond a real gap: newer   *)
(* than last_delivered_ and never its immediate successor, which would be  *)
(* a decodable frame stuck in the buffer.                                  *)
HeldBeyondGap ==
    buf.have_last =>
        \A h \in buf.held : Newer(h.seq, buf.last) /\ h.seq # Next1(buf.last)

(* held_bytes_ is the sum of the held sizes: drain, eviction, expiry and   *)
(* aborts all give back exactly what they took.                            *)
BytesExact == buf.held_bytes = Bytes(buf.held)

(* The gap timer runs from the earliest arrival among the held frames, so  *)
(* a gap can neither expire early nor be extended by later arrivals.       *)
GapTimerExact == buf.gap_age = EarliestAge(buf.held)

(* Memory is bounded between calls, whatever arrives.                      *)
WithinBounds ==
    /\ Cardinality(buf.held) <= HeldLimit
    /\ Bytes(buf.held) <= MaxBytes
    /\ Len(buf.aborted) <= MaxAborted

(* A broken chain is silent only while a newer keyframe is on its way: if  *)
(* the buffer waits for a keyframe and has not called LostFn, some started *)
(* keyframe newer than the baseline has neither arrived nor been aborted.  *)
(* Otherwise nobody would ever ask for the keyframe that repairs it.       *)
QuietOnlyForKeyframe ==
    buf.have_last /\ buf.awaiting /\ ~buf.loss_reported =>
        buf.inflight /\ Newer(buf.inflight_seq, buf.last)

(* Aborted frames behind the chain are forgotten, and once the chain stops *)
(* in front of an aborted one the buffer is already in recovery.           *)
AbortedAhead ==
    buf.have_last =>
        /\ \A s \in AbortedSet(buf) : s \in FrameSeq /\ Newer(s, buf.last)
        /\ Next1(buf.last) \in AbortedSet(buf) => buf.awaiting

(* The bookkeeping of the buffer: its type, the bytes held, the gap timer, *)
(* the limits and the list of aborted frames.                              *)
BookkeepingExact == TypeOK /\ BytesExact /\ GapTimerExact /\ WithinBounds /\ AbortedAhead

Delivery == INSTANCE VideoDelivery WITH
    have <- buf.have_last,
    last <- IF buf.have_last THEN buf.last ELSE 0,
    broken <- buf.awaiting,
    told <- buf.loss_reported,
    out <- buf.delivered,
    lost <- buf.lost

(* The buffer implements VideoDelivery: whatever arrives in whatever order *)
(* DeliverFn gets an unbroken reference chain that only moves forward, and *)
(* LostFn is called once per interruption, for the frame that is missing.  *)
ImplementsDelivery == Delivery!Spec

\* A frame that has arrived completely is reported as aborted.
AbortsHeld == \E s \in HeldSeqs(buf.held) : buf' = OnFrameAborted(buf, s)

(* A gap never goes unnoticed: frames held behind a missing one are        *)
(* released (it arrived, or a keyframe did), dropped, or LostFn has been   *)
(* called, even if keyframes that never complete keep starting.  Only a    *)
(* transport that for ever aborts frames it had completed, which           *)
(* VideoIngress shows this one does not, could keep a gap open.            *)
GapIsResolved ==
    <>[][~AbortsHeld]_vars =>
        []<>(buf.held = {} \/ buf.loss_reported \/ buf.delivered # <<>> \/ ~buf.have_last)
=============================================================================
