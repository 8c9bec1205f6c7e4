------------------------- MODULE VideoReceiveRouter -------------------------
(***************************************************************************)
(* One stream of the client's VideoReceiveRouter                           *)
(* (common/src/video_receive_router.cpp): a reorder buffer while the       *)
(* stream is watched, paced keyframe requests, and a playout queue that a  *)
(* thread of its own drains toward the decoder.  Four threads call in: the *)
(* transport (frames, aborts), the main thread (open, close, tick), the    *)
(* decoder (request_keyframe) and the playout thread, which delivers what  *)
(* it popped without any lock.                                             *)
(*                                                                         *)
(* The playout clock is abstracted: the head of the queue can become due   *)
(* at any moment.  A request time is the time left until it.               *)
(*                                                                         *)
(* The router has names of its own for its specification, so that a proof  *)
(* can speak of the router and of VideoFrameReorder, its buffer, at once.  *)
(***************************************************************************)
EXTENDS VideoFrameReorderBuffer

CONSTANTS
    BaseBackoff,   \* base_backoff_ms
    MaxBackoff,    \* max_backoff_ms
    NoFrame,
    SentFrames,    \* bound: the frames, by number and kind, the network carries
    MaxPending     \* bound: frames on their way to the decoder

ASSUME RouterAssumption ==
    /\ BaseBackoff \in Nat \ {0}
    /\ MaxBackoff \in Nat /\ BaseBackoff <= MaxBackoff
    /\ NoFrame \notin FrameSeq
    /\ SentFrames \subseteq [seq : FrameSeq, key : BOOLEAN]
    /\ MaxPending \in Nat

VARIABLES
    watching,   \* the stream is in streams_
    buffer,     \* its reorder buffer
    pace,       \* pacing_: a missing entry is NoPace
    tick,       \* the main thread inside tick(): what it saw under the lock
    pending,    \* pending_: the playout queue
    due,        \* frames the playout thread popped and has not delivered
    decoded,    \* history: number of the last frame the decoder was given
    sent        \* whether the last step put a request on the wire

routerVars == <<watching, buffer, pace, tick, pending, due, decoded, sent>>

Delivered == [seq : FrameSeq, key : BOOLEAN]

NoPace == [wait |-> 0, backoff |-> 0]
FirstPace == [wait |-> BaseBackoff, backoff |-> BaseBackoff]
NotTicking == [busy |-> FALSE, wants |-> FALSE, arriving |-> FALSE]

RouterInit ==
    /\ watching = FALSE
    /\ buffer = NewBuffer(0)
    /\ pace = NoPace
    /\ tick = NotTicking
    /\ pending = <<>>
    /\ due = <<>>
    /\ decoded = NoFrame
    /\ sent = FALSE

-----------------------------------------------------------------------------
Backoff(p) == IF p.backoff = 0 THEN BaseBackoff ELSE p.backoff

\* Mutant: a request that has to wait starts the wait again.
PacedRestarts(p) ==
    IF p.wait > 0 THEN [wait |-> Backoff(p), backoff |-> Backoff(p)]
    ELSE [wait |-> Backoff(p), backoff |-> AtMost(2 * Backoff(p), MaxBackoff)]

\* request_keyframe: the pacing it leaves behind; it is sent iff p.wait = 0.
Requested(p) ==
    IF p.wait > 0 THEN [p EXCEPT !.backoff = Backoff(p)]
    ELSE [wait |-> Backoff(p), backoff |-> AtMost(2 * Backoff(p), MaxBackoff)]

\* keyframe_arrived: only an existing entry is touched.
KeyframeArrived(p) == IF p = NoPace THEN p ELSE [wait |-> 0, backoff |-> BaseBackoff]

(* The callbacks of a buffer call, in the order the buffer makes them: the *)
(* delivered frames are queued for playout (a keyframe resets the pacing), *)
(* a broken chain, found last, requests a keyframe.                        *)
Callbacks(b) ==
    LET hasKey == \E i \in DOMAIN b.delivered : b.delivered[i].key
        p == IF hasKey THEN KeyframeArrived(pace) ELSE pace
    IN  /\ buffer' = Fresh(b)
        /\ pending' = pending \o b.delivered
        /\ pace' = IF b.lost = <<>> THEN p ELSE Requested(p)
        /\ sent' = (b.lost # <<>> /\ p.wait = 0)
        /\ Len(pending') + Len(due) <= MaxPending

Request ==
    /\ pace' = Requested(pace)
    /\ sent' = (pace.wait = 0)

-----------------------------------------------------------------------------
(* Main thread: the watch lifecycle and tick().                            *)

\* Also a restart: on_screen_share_started reopens a stream still watched.
Open ==
    /\ ~tick.busy
    /\ watching' = TRUE
    /\ pace' = FirstPace
    /\ sent' = FALSE
    /\ buffer' = Reset(buffer)
    /\ UNCHANGED <<tick, pending, due, decoded>>

Close ==
    /\ ~tick.busy /\ watching
    /\ watching' = FALSE
    /\ buffer' = Reset(buffer)
    /\ pending' = <<>>
    /\ pace' = NoPace
    /\ sent' = FALSE
    /\ UNCHANGED <<tick, due, decoded>>

PathRtt ==
    /\ ~tick.busy
    /\ \E r \in Rtts : buffer' = SetRtt(buffer, r)
    /\ sent' = FALSE
    /\ UNCHANGED <<watching, pace, tick, pending, due, decoded>>

TickPoll ==
    /\ ~tick.busy /\ watching
    /\ UNCHANGED <<watching, due, decoded>>
    /\ LET b == Poll(buffer)
       IN  /\ tick' = [busy |-> TRUE, wants |-> ShouldRequestKeyframe(b),
                       arriving |-> KeyframeInFlight(b)]
           /\ Callbacks(b)

\* The decoder predicate is evaluated, and the request made, without the lock.
TickRequest ==
    /\ tick.busy
    /\ tick' = NotTicking
    /\ \E decoderNeeds \in BOOLEAN :
          IF tick.wants \/ (~tick.arriving /\ decoderNeeds) THEN Request
          ELSE sent' = FALSE /\ UNCHANGED pace
    /\ UNCHANGED <<watching, buffer, pending, due, decoded>>

-----------------------------------------------------------------------------
(* Transport thread.                                                       *)
OnStreamFrameStarted ==
    /\ watching
    /\ \E f \in SentFrames : Callbacks(OnFrameStarted(buffer, f))
    /\ UNCHANGED <<watching, tick, due, decoded>>

OnStreamFrame ==
    /\ watching
    /\ \E f \in SentFrames, n \in Sizes :
          Callbacks(OnFrame(buffer, [seq |-> f.seq, key |-> f.key, size |-> n]))
    /\ UNCHANGED <<watching, tick, due, decoded>>

OnStreamFrameAborted ==
    /\ watching
    /\ \E f \in SentFrames : Callbacks(OnFrameAborted(buffer, f.seq))
    /\ UNCHANGED <<watching, tick, due, decoded>>

\* The stream died before its header: only a keyframe is certain to help.
OnUnknownFrameAborted ==
    /\ watching
    /\ ~KeyframeInFlight(buffer)
    /\ Request
    /\ UNCHANGED <<watching, buffer, tick, pending, due, decoded>>

\* Decoder thread: the decode gate lost its reference.
DecoderRequest ==
    /\ Request
    /\ UNCHANGED <<watching, buffer, tick, pending, due, decoded>>

-----------------------------------------------------------------------------
(* Playout thread: pop what is due under the lock, deliver it without.     *)
\* Mutant: the thread goes back for more before it has delivered.
PopsAhead(d) == TRUE

MayPop(d) == d = <<>>

PlayoutPop ==
    /\ MayPop(due)
    /\ \E n \in 1 .. Len(pending) :
          /\ due' = SubSeq(pending, 1, n)
          /\ pending' = SubSeq(pending, n + 1, Len(pending))
    /\ sent' = FALSE
    /\ UNCHANGED <<watching, buffer, pace, tick, decoded>>

PlayoutDeliver ==
    /\ due # <<>>
    /\ decoded' = Head(due).seq
    /\ due' = Tail(due)
    /\ sent' = FALSE
    /\ UNCHANGED <<watching, buffer, pace, tick, pending>>

Time ==
    /\ UNCHANGED <<watching, tick, pending, due, decoded>>
    /\ sent' = FALSE
    /\ pace' = [pace EXCEPT !.wait = IF @ > 0 THEN @ - 1 ELSE 0]
    /\ buffer' = Elapse(buffer)

-----------------------------------------------------------------------------
RouterNext ==
    \/ Open
    \/ Close
    \/ PathRtt
    \/ TickPoll
    \/ TickRequest
    \/ OnStreamFrameStarted
    \/ OnStreamFrame
    \/ OnStreamFrameAborted
    \/ OnUnknownFrameAborted
    \/ DecoderRequest
    \/ PlayoutPop
    \/ PlayoutDeliver
    \/ Time

RouterSpec == RouterInit /\ [][RouterNext]_routerVars

\* The client's main loop ticks the router, and time passes.
FairRouterSpec ==
    /\ RouterSpec
    /\ WF_routerVars(TickPoll \/ TickRequest)
    /\ WF_routerVars(Time)

-----------------------------------------------------------------------------
RouterTypeOK ==
    /\ watching \in BOOLEAN /\ sent \in BOOLEAN
    /\ buffer \in Buffer({buffer.held_bytes}, {buffer.aborted})
    /\ pace \in [wait : 0 .. MaxBackoff, backoff : 0 .. MaxBackoff]
    /\ tick \in [busy : BOOLEAN, wants : BOOLEAN, arriving : BOOLEAN]
    /\ pending \in Seq(Delivered) /\ due \in Seq(Delivered)
    /\ decoded \in FrameSeq \cup {NoFrame}

(* The decoder is given an unbroken chain whatever the watch does          *)
(* meanwhile: every delta directly follows the frame before it, across     *)
(* close, reopen and frames the playout thread had already popped.         *)
DecoderSeesChain ==
    [][due # <<>> /\ due' = Tail(due) /\ ~Head(due).key
         => decoded # NoFrame /\ Head(due).seq = Next1(decoded)]_routerVars

(* A watched stream that has no usable reference asks for a keyframe       *)
(* again and again until one arrives: pacing delays a request, it never    *)
(* swallows the need for one (unless the watch is started over for ever).  *)
NeedIsRequested ==
    \/ []<>(~watching \/ ~ShouldRequestKeyframe(buffer) \/ sent)
    \/ []<><<Open>>_routerVars
=============================================================================
