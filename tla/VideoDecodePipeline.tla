------------------------ MODULE VideoDecodePipeline ------------------------
(***************************************************************************)
(* The decode pipeline of one watched stream in the Windows shell          *)
(* (client/src/windows/app.cpp: enqueue_decode_work, decode_loop,          *)
(* start_video_stream, stop_stream_thread; client/video_decode_gate.h,     *)
(* client/video_decode_backlog.h).                                         *)
(*                                                                         *)
(* The playout thread passes each received frame through the gate into a   *)
(* queue; the decode thread swaps the whole queue out, may trim or flush   *)
(* it, and decodes the batch without the lock; the main thread starts and  *)
(* stops the stream and retries keyframe requests.  queue_mutex guards     *)
(* gate, queue and the stale-flush tracker: a section under it is one      *)
(* step, except the decode thread's wait, which is two (the predicate is   *)
(* evaluated, then the thread sleeps and releases the mutex).              *)
(*                                                                         *)
(* What arrives is any frame, in sequence or not, and decoding fails       *)
(* whenever it likes.  The stream is a remote one (not a self-preview).    *)
(* Of a queue's arrival times only the oldest is read, so that one is      *)
(* kept; times are counted up to the limit they are compared with, and     *)
(* those of the tracker only while it reads them.                          *)
(***************************************************************************)
EXTENDS FrameSequence, Sequences

CONSTANTS
    WarningFrames,  \* kVideoDecodeBacklogWarningFrames
    HardLimit,      \* kVideoDecodeBacklogHardLimitFrames
    MaxAge,         \* kVideoDecodeBacklogMaxAgeUs
    PliLimit,       \* kVideoDecodeStaleFlushPliLimit
    SlowPli,        \* kVideoDecodeStaleFlushSlowPliUs
    Recovery,       \* kVideoDecodeStaleFlushRecoveryUs
    MaxBackoff,     \* max_backoff_ms of the router's pacing
    MaxQueue,       \* bound: frames queued
    NoFrame

ASSUME DecodeAssumption ==
    /\ Half \in Nat \ {0}
    /\ WarningFrames \in Nat /\ HardLimit \in Nat /\ WarningFrames <= HardLimit
    /\ MaxAge \in Nat \ {0} /\ PliLimit \in Nat \ {0}
    /\ SlowPli \in Nat \ {0} /\ Recovery \in Nat \ {0} /\ MaxBackoff \in Nat \ {0}
    /\ MaxQueue \in Nat /\ NoFrame \notin FrameSeq

VARIABLES
    main,      \* message thread: off, on (watching), or a step of stop_video_stream
    running,   \* s->running
    gate,      \* decode_gate
    queue,     \* queue, and the time its oldest frame has waited
    tracker,   \* stale_flushes
    dec,       \* decode thread: pc, batch, decoded_since_init, last frame the decoder was given
    pace,      \* the router's pacing: time until a request may go out again
    asked,     \* a keyframe request is on its way to the publisher
    flap       \* history: time since the last flush, and whether the last step ended a run

vars == <<main, running, gate, queue, tracker, dec, pace, asked, flap>>

Work == [seq : FrameSeq, key : BOOLEAN, recovery : BOOLEAN]

NewGate == [awaiting |-> TRUE, last |-> 0]
NewTracker == [flushes |-> 0, resumed |-> FALSE, since |-> 0, requested |-> SlowPli]
NoQueue == [frames |-> <<>>, age |-> 0]
NoThread == [pc |-> "none", batch |-> <<>>, ready |-> FALSE, ref |-> NoFrame]
NoFlap == [since |-> Recovery, ended |-> FALSE]

Up(t, limit) == IF t < limit THEN t + 1 ELSE t

Init ==
    /\ main = "off" /\ running = FALSE
    /\ gate = NewGate /\ queue = NoQueue /\ tracker = NewTracker
    /\ dec = NoThread /\ pace = 0 /\ asked = FALSE /\ flap = NoFlap

-----------------------------------------------------------------------------
(* The gate and the tracker.                                               *)

Accepts(g, f) == f.key \/ (~g.awaiting /\ f.seq = Next1(g.last))

Accepted(g, f) == [awaiting |-> FALSE, last |-> f.seq]

Discontinuity(g, f) == ~g.awaiting /\ ~Accepts(g, f)

Required(g) == [g EXCEPT !.awaiting = TRUE]

Suppressed(t) == t.flushes > PliLimit

\* The counter is compared with the limit only: it stops above it.
OnStaleFlush(t) ==
    LET n == Up(t.flushes, PliLimit + 1)
    IN  [t EXCEPT !.flushes = n, !.resumed = FALSE, !.since = 0,
                  !.requested = IF n <= PliLimit THEN 0 ELSE @]

\* Mutant: one more decoded frame after the recovery ends the run.
DecodedEndsRun(t, recovery) ==
    IF t.flushes = 0 THEN t
    ELSE IF recovery \/ ~t.resumed THEN [t EXCEPT !.resumed = TRUE, !.since = 0]
    ELSE NewTracker

OnFrameDecoded(t, recovery) ==
    IF t.flushes = 0 THEN t
    ELSE IF recovery \/ ~t.resumed THEN [t EXCEPT !.resumed = TRUE, !.since = 0]
    ELSE IF t.since = Recovery THEN NewTracker
    ELSE t

(* AppCore::send_pli and the router's request_keyframe: a request inside   *)
(* the backoff is swallowed.                                               *)
SendPli ==
    \/ pace = 0 /\ asked' = TRUE /\ pace' \in 1 .. MaxBackoff
    \/ pace > 0 /\ UNCHANGED <<pace, asked>>

\* queue_mutex is held while the decode thread goes from its check to sleep.
Unlocked == dec.pc # "block"

Quiet == flap' = [flap EXCEPT !.ended = FALSE]

Wakes == dec' = IF dec.pc = "asleep" THEN [dec EXCEPT !.pc = "check"] ELSE dec

-----------------------------------------------------------------------------
(* Message thread.                                                         *)
StartVideoStream ==
    /\ main = "off"
    /\ main' = "on" /\ running' = TRUE
    /\ dec' = [NoThread EXCEPT !.pc = "check"]
    /\ pace' \in 1 .. MaxBackoff
    /\ UNCHANGED <<gate, queue, tracker, flap, asked>>

\* The stream leaves video_streams_: nothing is queued any more.
StopErase ==
    /\ main = "on"
    /\ main' = "stop"
    /\ Quiet
    /\ UNCHANGED <<running, gate, queue, tracker, dec, pace, asked>>

\* Mutant: running is cleared without queue_mutex.
StopFlagUnlocked ==
    /\ main = "stop"
    /\ main' = "notify" /\ running' = FALSE
    /\ Quiet
    /\ UNCHANGED <<gate, queue, tracker, dec, pace, asked>>

StopFlag ==
    /\ main = "stop" /\ Unlocked
    /\ main' = "notify" /\ running' = FALSE
    /\ Quiet
    /\ UNCHANGED <<gate, queue, tracker, dec, pace, asked>>

StopNotify ==
    /\ main = "notify"
    /\ main' = "join"
    /\ Wakes /\ Quiet
    /\ UNCHANGED <<running, gate, queue, tracker, pace, asked>>

StopJoin ==
    /\ main = "join" /\ dec.pc = "none"
    /\ main' = "off"
    /\ gate' = NewGate /\ queue' = NoQueue /\ tracker' = NewTracker
    /\ dec' = NoThread /\ flap' = NoFlap
    /\ pace' = 0 /\ asked' = FALSE
    /\ UNCHANGED running

\* Mutant: once suppressed, the stream never asks again.
NeverSlow(t) == FALSE

TakeSlowRequest(t) == t.requested = SlowPli

\* AppCore::tick: the decoder predicate, then the paced request.
TickRetry ==
    /\ main = "on" /\ Unlocked
    /\ gate.awaiting
    /\ \/ ~Suppressed(tracker) /\ UNCHANGED tracker
       \/ /\ Suppressed(tracker) /\ TakeSlowRequest(tracker)
          /\ tracker' = [tracker EXCEPT !.requested = 0]
    /\ SendPli /\ Quiet
    /\ UNCHANGED <<main, running, gate, queue, dec>>

-----------------------------------------------------------------------------
(* Playout thread: enqueue_decode_work of one frame.                       *)
Enqueue(f) ==
    /\ main = "on" /\ Unlocked
    /\ \/ /\ Accepts(gate, f)
          /\ Len(queue.frames) < MaxQueue
          /\ queue' = [queue EXCEPT !.frames =
                Append(@, [seq |-> f.seq, key |-> f.key, recovery |-> f.key /\ gate.awaiting])]
          /\ gate' = Accepted(gate, f)
          /\ Wakes
          /\ pace' = IF f.key THEN 0 ELSE pace
          /\ asked' = (asked /\ ~f.key)
       \/ /\ Discontinuity(gate, f)
          /\ queue' = NoQueue
          /\ gate' = Required(gate)
          /\ SendPli
          /\ UNCHANGED dec
    /\ Quiet
    /\ UNCHANGED <<main, running, tracker>>

\* The number of the next frame, or of one after a gap.
Numbers == {Plus(gate.last, n) : n \in {1, 2}}

DeltaArrives == \E s \in Numbers : Enqueue([seq |-> s, key |-> FALSE])

KeyframeArrives == \E s \in Numbers : Enqueue([seq |-> s, key |-> TRUE])

-----------------------------------------------------------------------------
(* Decode thread.                                                          *)
AtCheck == dec.pc = "check"

Park ==
    /\ AtCheck /\ running /\ queue.frames = <<>>
    /\ dec' = [dec EXCEPT !.pc = "block"]
    /\ Quiet
    /\ UNCHANGED <<main, running, gate, queue, tracker, pace, asked>>

Sleep ==
    /\ dec.pc = "block"
    /\ dec' = [dec EXCEPT !.pc = "asleep"]
    /\ Quiet
    /\ UNCHANGED <<main, running, gate, queue, tracker, pace, asked>>

Exit ==
    /\ AtCheck /\ ~running
    /\ dec' = [dec EXCEPT !.pc = "none"]
    /\ Quiet
    /\ UNCHANGED <<main, running, gate, queue, tracker, pace, asked>>

HasKeyframe(frames) == \E i \in DOMAIN frames : frames[i].key

TrimToLatestKeyframe(frames) ==
    IF ~HasKeyframe(frames) THEN frames
    ELSE SubSeq(frames, CHOOSE i \in DOMAIN frames :
                    frames[i].key /\ \A j \in DOMAIN frames : j > i => ~frames[j].key, Len(frames))

\* should_resync_decode_backlog and should_resync_stale_decode_backlog.
Stale(frames) ==
    /\ dec.ready /\ ~HasKeyframe(frames)
    /\ Len(frames) > HardLimit \/ queue.age = MaxAge

TakeBatch ==
    /\ AtCheck /\ running /\ queue.frames # <<>>
    /\ LET frames == IF Len(queue.frames) > WarningFrames
                     THEN TrimToLatestKeyframe(queue.frames) ELSE queue.frames
       IN  dec' = IF Stale(frames) THEN [dec EXCEPT !.pc = "flush"]
                  ELSE [dec EXCEPT !.pc = "decode", !.batch = frames]
    /\ queue' = NoQueue
    /\ Quiet
    /\ UNCHANGED <<main, running, gate, tracker, pace, asked>>

\* resync_warm_decoder_at_keyframe.
Resync ==
    /\ dec.pc = "flush"
    /\ gate' = Required(gate) /\ queue' = NoQueue
    /\ tracker' = OnStaleFlush(tracker)
    /\ dec' = [dec EXCEPT !.pc = IF Suppressed(tracker') THEN "check" ELSE "ask"]
    /\ flap' = [since |-> 0, ended |-> FALSE]
    /\ UNCHANGED <<main, running, pace, asked>>

\* Mutant: recovery forgets what was queued meanwhile.
RecoverKeepsQueue ==
    /\ dec.pc = "recover"
    /\ gate' = Required(gate)
    /\ dec' = [NoThread EXCEPT !.pc = "ask"]
    /\ Quiet
    /\ UNCHANGED <<main, running, queue, tracker, pace, asked>>

\* recover_at_keyframe: the decoder is gone.
Recover ==
    /\ dec.pc = "recover"
    /\ gate' = Required(gate) /\ queue' = NoQueue
    /\ dec' = [NoThread EXCEPT !.pc = "ask"]
    /\ Quiet
    /\ UNCHANGED <<main, running, tracker, pace, asked>>

\* Both ask once the mutex is released.
Ask ==
    /\ dec.pc = "ask"
    /\ dec' = [dec EXCEPT !.pc = "check"]
    /\ SendPli /\ Quiet
    /\ UNCHANGED <<main, running, gate, queue, tracker>>

\* A lost context, a decoder that cannot be created, a bitstream error.
DecodeFails ==
    /\ dec.pc = "decode"
    /\ dec' = [dec EXCEPT !.batch = <<>>, !.pc = IF running THEN "recover" ELSE "check"]
    /\ Quiet
    /\ UNCHANGED <<main, running, gate, queue, tracker, pace, asked>>

(* One frame is decoded, after a new decoder was made for it if there is   *)
(* none or, at a keyframe, the format changed.  The decoder is warm from   *)
(* the first picture it puts out, which may come with a later frame.       *)
Decode ==
    /\ dec.pc = "decode"
    /\ LET w == Head(dec.batch)
           rest == Tail(dec.batch)
       IN  /\ \E fresh, shown \in BOOLEAN :
                /\ dec.ref = NoFrame => fresh
                /\ fresh => w.key \/ dec.ref = NoFrame
                /\ dec' = [pc |-> IF rest = <<>> THEN "check" ELSE "decode", batch |-> rest,
                           ready |-> shown \/ (dec.ready /\ ~fresh), ref |-> w.seq]
           /\ tracker' = OnFrameDecoded(tracker, w.recovery)
    /\ flap' = [flap EXCEPT !.ended = tracker.flushes > 0 /\ tracker'.flushes = 0]
    /\ UNCHANGED <<main, running, gate, queue, pace, asked>>

-----------------------------------------------------------------------------
Tick ==
    /\ queue' = IF queue.frames = <<>> THEN queue ELSE [queue EXCEPT !.age = Up(@, MaxAge)]
    /\ tracker' = [tracker EXCEPT
          !.since = IF tracker.resumed THEN Up(@, Recovery) ELSE @,
          !.requested = Up(@, SlowPli)]
    /\ pace' = IF pace > 0 THEN pace - 1 ELSE 0
    /\ flap' = [since |-> Up(flap.since, Recovery), ended |-> FALSE]
    /\ UNCHANGED <<main, running, gate, dec, asked>>

Next ==
    \/ StartVideoStream \/ StopErase \/ StopFlag \/ StopNotify \/ StopJoin \/ TickRetry
    \/ DeltaArrives \/ KeyframeArrives
    \/ Park \/ Sleep \/ Exit \/ TakeBatch \/ Resync \/ Recover \/ Ask \/ DecodeFails \/ Decode
    \/ Tick

Spec == Init /\ [][Next]_vars

(* The threads run, decode() returns, the main loop ticks, time passes,    *)
(* and a requested keyframe arrives.                                       *)
FairSpec ==
    /\ Spec
    /\ WF_vars(Park \/ Sleep \/ Exit \/ TakeBatch \/ Resync \/ Recover \/ Ask \/ DecodeFails \/ Decode)
    /\ WF_vars(StopFlag \/ StopNotify \/ StopJoin)
    /\ WF_vars(TickRetry)
    /\ WF_vars(Tick)
    /\ WF_vars(asked /\ KeyframeArrives)

-----------------------------------------------------------------------------
GateRecords == [awaiting : BOOLEAN, last : FrameSeq]
QueueRecords == [frames : Seq(Work), age : 0 .. MaxAge]
TrackerRecords == [flushes : 0 .. PliLimit + 1, resumed : BOOLEAN, since : 0 .. Recovery,
                   requested : 0 .. SlowPli]
DecodeRecords == [pc : {"none", "check", "block", "asleep", "flush", "recover", "ask", "decode"},
                  batch : Seq(Work), ready : BOOLEAN, ref : FrameSeq \cup {NoFrame}]
FlapRecords == [since : 0 .. Recovery, ended : BOOLEAN]

TypeOK ==
    /\ main \in {"off", "on", "stop", "notify", "join"} /\ running \in BOOLEAN
    /\ gate \in GateRecords
    /\ queue \in QueueRecords /\ Len(queue.frames) <= MaxQueue
    /\ tracker \in TrackerRecords
    /\ dec \in DecodeRecords
    /\ pace \in 0 .. MaxBackoff /\ asked \in BOOLEAN
    /\ flap \in FlapRecords

(* The decoder follows the references: a delta it is given directly        *)
(* follows the frame it was given before, whatever was trimmed, flushed or *)
(* queued while a batch was being decoded, and a new decoder starts at a   *)
(* keyframe.                                                               *)
DecodesChain ==
    [][Decode /\ ~Head(dec.batch).key
         => dec.ref # NoFrame /\ Head(dec.batch).seq = Next1(dec.ref)]_vars

(* A run of flushes ends, and requests for keyframes are free again, only  *)
(* after a whole recovery window without a flush.                          *)
FlapGuardHolds == TypeOK /\ (flap.ended => flap.since = Recovery)

(* A stream that lost its reference gets a keyframe again although         *)
(* requests are paced, swallowed, and rationed for a slow decoder.         *)
DecodingResumes == main = "on" /\ gate.awaiting ~> ~gate.awaiting \/ main # "on"

(* "that would hang the join forever": stopping a stream returns.          *)
StopReturns == main = "stop" ~> main = "off"
=============================================================================
