---------------------------- MODULE ShellProofs -----------------------------
(***************************************************************************)
(* Proofs about the client's application shell (windows/app.cpp), in two   *)
(* parts.                                                                  *)
(*                                                                         *)
(* VideoDecodePipeline, for every width of the frame numbers and all       *)
(* limits: the decoder is given no delta without its reference, and a run  *)
(* of flushes ends only after a quiet recovery window.                     *)
(*                                                                         *)
(* CameraShare, for every set of channels and any number of clicks: at     *)
(* most one camera is open and every open one is closed on the camera      *)
(* thread; once the wire is quiet the server publishes exactly the camera  *)
(* the client shows as live, described by the encoder that feeds it.  The  *)
(* invariant has four parts: the order of the camera thread's tasks, the   *)
(* capture sessions and the thread or worker each belongs to, the control  *)
(* stream (which of the messages on their way decides what the server will *)
(* hold), and the flags and arguments of the main thread's handlers.       *)
(***************************************************************************)
EXTENDS VideoDecodePipeline, CameraShare, SequenceTheorems, WellFoundedInduction,
        SumTheorems, TLAPS

-----------------------------------------------------------------------------
(* Chains of frames.                                                       *)

(* f can be decoded after the frame ref.                                   *)
Follows(ref, f) == f.key \/ (ref # NoFrame /\ f.seq = Next1(ref))

Chained(ref, frames) ==
    \A i \in 1 .. Len(frames) : Follows(IF i = 1 THEN ref ELSE frames[i - 1].seq, frames[i])

(* The last frame the decoder knows once it decoded frames.                *)
EndOf(ref, frames) == IF frames = <<>> THEN ref ELSE frames[Len(frames)].seq

LEMMA WorkFields ==
    ASSUME NEW f \in Work
    PROVE  f.seq \in FrameSeq /\ f.seq # NoFrame /\ f.key \in BOOLEAN
BY DecodeAssumption DEF Work

LEMMA ChainedEmpty ==
    ASSUME NEW ref
    PROVE  Chained(ref, <<>>) /\ EndOf(ref, <<>>) = ref
BY EmptySeq DEF Chained, EndOf

LEMMA ChainedAppend ==
    ASSUME NEW ref, NEW frames \in Seq(Work), NEW f \in Work,
           Chained(ref, frames), Follows(EndOf(ref, frames), f)
    PROVE  Chained(ref, Append(frames, f)) /\ EndOf(ref, Append(frames, f)) = f.seq
<1> DEFINE g == Append(frames, f)
<1>1. /\ Len(frames) \in Nat /\ Len(g) = Len(frames) + 1 /\ g # <<>>
      /\ \A i \in 1 .. Len(frames) : g[i] = frames[i]
      /\ g[Len(frames) + 1] = f
    BY AppendProperties, LenProperties
<1>2. frames = <<>> <=> Len(frames) = 0
    BY EmptySeq
<1> HIDE DEF g
<1>3. ASSUME NEW i \in 1 .. Len(g)
      PROVE  Follows(IF i = 1 THEN ref ELSE g[i - 1].seq, g[i])
    <2>1. CASE i \in 1 .. Len(frames)
        <3>1. g[i] = frames[i] /\ (i # 1 => g[i - 1] = frames[i - 1])
            BY <1>1, <2>1
        <3> QED
            BY <2>1, <3>1 DEF Chained
    <2>2. CASE i = Len(frames) + 1
        <3>1. g[i] = f /\ (i # 1 => g[i - 1] = frames[i - 1] /\ i - 1 = Len(frames))
            BY <1>1, <2>2
        <3>2. (IF i = 1 THEN ref ELSE g[i - 1].seq) = EndOf(ref, frames)
            BY <1>1, <1>2, <2>2, <3>1 DEF EndOf
        <3> QED
            BY <3>1, <3>2
    <2> QED
        BY <1>1, <2>1, <2>2
<1>4. EndOf(ref, g) = f.seq
    BY <1>1 DEF EndOf
<1> QED
    BY <1>3, <1>4 DEF Chained, g

LEMMA ChainedTail ==
    ASSUME NEW ref, NEW frames \in Seq(Work), frames # <<>>, Chained(ref, frames)
    PROVE  /\ Head(frames) \in Work /\ Tail(frames) \in Seq(Work)
           /\ Follows(ref, Head(frames))
           /\ Chained(Head(frames).seq, Tail(frames))
           /\ EndOf(Head(frames).seq, Tail(frames)) = EndOf(ref, frames)
<1> DEFINE h == Head(frames)
           t == Tail(frames)
<1>1. /\ Len(frames) \in Nat \ {0} /\ h \in Work /\ h = frames[1]
      /\ t \in Seq(Work) /\ Len(t) = Len(frames) - 1
      /\ \A i \in 1 .. Len(t) : t[i] = frames[i + 1]
    BY HeadTailProperties, EmptySeq, LenProperties
<1>2. t = <<>> <=> Len(t) = 0
    BY <1>1, EmptySeq
<1> HIDE DEF h, t
<1>3. Follows(ref, h)
    BY <1>1 DEF Chained
<1>4. ASSUME NEW i \in 1 .. Len(t)
      PROVE  Follows(IF i = 1 THEN h.seq ELSE t[i - 1].seq, t[i])
    <2>1. i + 1 \in 1 .. Len(frames) /\ i + 1 # 1 /\ (i + 1) - 1 = i
        BY <1>1
    <2>2. Follows(frames[i].seq, frames[i + 1])
        BY <2>1 DEF Chained
    <2>3. frames[i] = IF i = 1 THEN h ELSE t[i - 1]
        BY <1>1
    <2> QED
        BY <1>1, <2>2, <2>3
<1>5. EndOf(h.seq, t) = EndOf(ref, frames)
    BY <1>1, <1>2 DEF EndOf
<1> QED
    BY <1>1, <1>3, <1>4, <1>5 DEF Chained, h, t

(* A set of positions has a last one.                                      *)
LEMMA LastPosition ==
    ASSUME NEW n \in Nat, NEW P, P \subseteq 1 .. n, P # {}
    PROVE  \E i \in P : \A j \in P : j <= i
<1> DEFINE T == {n - i : i \in P}
           R == OpToRel(<, Nat)
<1>1. T \subseteq Nat /\ T # {}
    OBVIOUS
<1>2. IsWellFoundedOn(R, Nat)
    BY NatLessThanWellFounded
<1> HIDE DEF T
<1>3. PICK x \in T : \A y \in T : ~ (<<y, x>> \in R)
    BY <1>1, <1>2, WFMin
<1>4. \A a, b \in Nat : a < b => <<a, b>> \in R
    BY DEF OpToRel
<1> HIDE DEF R
<1>5. \A y \in T : x <= y
    <2>1. \A y \in T : ~ (y < x)
        BY <1>1, <1>3, <1>4
    <2>2. x \in Nat /\ \A y \in T : y \in Nat
        BY <1>1, <1>3
    <2> QED
        BY <2>1, <2>2
<1>6. PICK i \in P : x = n - i
    BY <1>3 DEF T
<1>7. \A j \in P : n - i <= n - j
    BY <1>5, <1>6 DEF T
<1> QED
    BY <1>7

(* Trimming to the latest keyframe keeps a chain that ends where it did.   *)
LEMMA ChainedTrim ==
    ASSUME NEW ref, NEW frames \in Seq(Work), frames # <<>>, Chained(ref, frames)
    PROVE  LET t == TrimToLatestKeyframe(frames)
           IN  /\ t \in Seq(Work) /\ t # <<>>
               /\ Chained(ref, t) /\ EndOf(ref, t) = EndOf(ref, frames)
<1>1. Len(frames) \in Nat \ {0} /\ DOMAIN frames = 1 .. Len(frames)
    BY LenProperties, EmptySeq
<1>2. CASE ~HasKeyframe(frames)
    BY <1>2 DEF TrimToLatestKeyframe
<1>3. CASE HasKeyframe(frames)
    <2> DEFINE k == CHOOSE i \in DOMAIN frames :
                        frames[i].key /\ \A j \in DOMAIN frames : j > i => ~frames[j].key
               t == SubSeq(frames, k, Len(frames))
               P == {i \in 1 .. Len(frames) : frames[i].key}
    <2>1. k \in 1 .. Len(frames) /\ frames[k].key
        <3>1. P # {} /\ P \subseteq 1 .. Len(frames)
            BY <1>1, <1>3 DEF HasKeyframe
        <3>2. PICK i \in P : \A j \in P : j <= i
            BY <1>1, <3>1, LastPosition
        <3>3. \A j \in DOMAIN frames : j > i => ~frames[j].key
            BY <1>1, <3>2
        <3>4. \E m \in DOMAIN frames : frames[m].key /\ \A j \in DOMAIN frames : j > m => ~frames[j].key
            BY <1>1, <3>2, <3>3
        <3> QED
            BY <1>1, <3>4
    <2> HIDE DEF k
    <2>2. \A i \in k .. Len(frames) : frames[i] \in Work
        BY <1>1, <2>1, ElementOfSeq
    <2>3. /\ t \in Seq(Work) /\ Len(t) = Len(frames) - k + 1
          /\ \A i \in 1 .. Len(frames) - k + 1 : t[i] = frames[k + i - 1]
        BY <1>1, <2>1, <2>2, SubSeqProperties
    <2> HIDE DEF t
    <2>4. t # <<>>
        BY <1>1, <2>1, <2>3, EmptySeq
    <2>5. ASSUME NEW i \in 1 .. Len(t)
          PROVE  Follows(IF i = 1 THEN ref ELSE t[i - 1].seq, t[i])
        <3>1. CASE i = 1
            <4>1. t[i] = frames[k]
                BY <1>1, <2>1, <2>3, <3>1
            <4> QED
                BY <2>1, <4>1 DEF Follows
        <3>2. CASE i # 1
            <4>1. PICK m \in 1 .. Len(frames) : m = k + i - 1 /\ m # 1 /\ i - 1 \in 1 .. Len(t)
                BY <1>1, <2>1, <2>3, <3>2
            <4>2. t[i] = frames[m] /\ t[i - 1] = frames[m - 1]
                <5>1. k + (i - 1) - 1 = m - 1 /\ i \in 1 .. Len(frames) - k + 1
                      /\ i - 1 \in 1 .. Len(frames) - k + 1
                    BY <1>1, <2>1, <2>3, <4>1
                <5>2. t[i - 1] = frames[k + (i - 1) - 1]
                    BY <2>3, <5>1
                <5> QED
                    BY <2>3, <4>1, <5>1, <5>2
            <4>3. Follows(frames[m - 1].seq, frames[m])
                BY <4>1 DEF Chained
            <4> QED
                BY <3>2, <4>2, <4>3
        <3> QED
            BY <3>1, <3>2
    <2>6. t[Len(t)] = frames[Len(frames)]
        BY <1>1, <2>1, <2>3
    <2>7. EndOf(ref, t) = EndOf(ref, frames)
        BY <2>4, <2>6 DEF EndOf
    <2>8. TrimToLatestKeyframe(frames) = t
        BY <1>3 DEF TrimToLatestKeyframe, t, k
    <2> QED
        BY <2>3, <2>4, <2>5, <2>7, <2>8 DEF Chained
<1> QED
    BY <1>2, <1>3

-----------------------------------------------------------------------------
(* The inductive invariant.                                                *)

(* The queue will be decoded: neither a stop nor a resync is under way,    *)
(* which drop it.                                                          *)
Kept == running /\ dec.pc \notin {"flush", "recover"}

(* Where the decoder will be when it has decoded its batch.                *)
BatchEnd == EndOf(dec.ref, dec.batch)

(* The batch follows the decoder's reference, the queue follows the batch, *)
(* and the gate knows where the queue ends.                                *)
Chain ==
    /\ dec.pc = "decode" <=> dec.batch # <<>>
    /\ Chained(dec.ref, dec.batch)
    /\ Kept => Chained(BatchEnd, queue.frames)
    /\ Kept /\ ~gate.awaiting => EndOf(BatchEnd, queue.frames) = gate.last

(* A stream that is not watched has nothing left of an earlier one.        *)
OffIsNew == main = "off" => gate = NewGate /\ queue = NoQueue /\ dec = NoThread

(* The tracker's window is never ahead of the time since the last flush.   *)
WindowIsQuiet ==
    /\ tracker.flushes > 0 => tracker.since <= flap.since
    /\ flap.ended => flap.since = Recovery

IInv == TypeOK /\ Chain /\ OffIsNew /\ WindowIsQuiet

LEMMA Numbers01 ==
    /\ 0 \in FrameSeq /\ MaxQueue \in Nat /\ MaxBackoff \in Nat /\ 0 \in 0 .. MaxBackoff
    /\ \A p \in 1 .. MaxBackoff : p \in 0 .. MaxBackoff
BY DecodeAssumption DEF FrameSeq, SeqMod

LEMMA NewRecords ==
    /\ NewGate \in GateRecords /\ NewGate.awaiting
    /\ NoQueue \in QueueRecords /\ NoQueue.frames = <<>> /\ Len(NoQueue.frames) <= MaxQueue
    /\ NewTracker \in TrackerRecords /\ NewTracker.flushes = 0
    /\ NoThread \in DecodeRecords /\ NoThread.batch = <<>> /\ NoThread.pc = "none"
    /\ NoFlap \in FlapRecords /\ NoFlap.ended = FALSE
<1>1. NewGate \in GateRecords /\ NewGate.awaiting
    BY Numbers01 DEF NewGate, GateRecords
<1>2. NoQueue \in QueueRecords /\ NoQueue.frames = <<>> /\ Len(NoQueue.frames) <= MaxQueue
    BY EmptySeq, DecodeAssumption DEF NoQueue, QueueRecords
<1>3. NewTracker \in TrackerRecords /\ NewTracker.flushes = 0
    BY DecodeAssumption DEF NewTracker, TrackerRecords
<1>4. NoThread \in DecodeRecords /\ NoThread.batch = <<>> /\ NoThread.pc = "none"
    BY EmptySeq DEF NoThread, DecodeRecords
<1>5. NoFlap \in FlapRecords /\ NoFlap.ended = FALSE
    BY DecodeAssumption DEF NoFlap, FlapRecords
<1> QED
    BY <1>1, <1>2, <1>3, <1>4, <1>5

LEMMA NumbersType ==
    ASSUME TypeOK, NEW s \in Numbers
    PROVE  s \in FrameSeq
BY DecodeAssumption DEF TypeOK, GateRecords, Numbers, Plus, FrameSeq, SeqMod

LEMMA InitInv == Init => IInv
<1> SUFFICES ASSUME Init PROVE IInv
    OBVIOUS
<1>1. TypeOK
    BY NewRecords, Numbers01 DEF Init, TypeOK
<1>2. Chain
    BY NewRecords, ChainedEmpty DEF Init, Chain, Kept, BatchEnd
<1> QED
    BY <1>1, <1>2, NewRecords DEF Init, IInv, OffIsNew, WindowIsQuiet

(* What a step leaves alone, it leaves right.                              *)
LEMMA QuietFlap ==
    ASSUME IInv, Quiet
    PROVE  /\ flap' \in FlapRecords /\ flap'.since = flap.since /\ ~flap'.ended
           /\ UNCHANGED tracker => WindowIsQuiet'
<1>1. flap' \in FlapRecords /\ flap'.since = flap.since /\ ~flap'.ended
    BY DEF Quiet, IInv, TypeOK, FlapRecords
<1> QED
    BY <1>1 DEF IInv, WindowIsQuiet

LEMMA SendPliType ==
    ASSUME TypeOK, SendPli
    PROVE  pace' \in 0 .. MaxBackoff /\ asked' \in BOOLEAN
BY Numbers01 DEF SendPli, TypeOK

(* A step that only moves the decode thread from one waiting point to      *)
(* another, and may stop the stream.                                       *)
LEMMA SamePlace ==
    ASSUME IInv, dec' \in DecodeRecords,
           dec'.batch = dec.batch, dec'.ref = dec.ref, dec'.pc = "decode" <=> dec.pc = "decode",
           Kept' => Kept, UNCHANGED <<gate, queue>>
    PROVE  Chain'
<1>1. BatchEnd' = BatchEnd
    BY DEF BatchEnd
<1> QED
    BY <1>1 DEF IInv, Chain

(* A step that empties the queue and asks the gate for a keyframe.         *)
LEMMA Emptied ==
    ASSUME queue' = NoQueue, gate'.awaiting,
           dec'.pc = "decode" <=> dec'.batch # <<>>, Chained(dec'.ref, dec'.batch)
    PROVE  Chain'
BY NewRecords, ChainedEmpty DEF Chain

LEMMA RequiredType ==
    ASSUME TypeOK
    PROVE  Required(gate) \in GateRecords /\ Required(gate).awaiting
BY DEF TypeOK, Required, GateRecords

LEMMA WakesType ==
    ASSUME TypeOK, Wakes
    PROVE  /\ dec' \in DecodeRecords /\ dec'.batch = dec.batch /\ dec'.ref = dec.ref
           /\ dec'.pc = "decode" <=> dec.pc = "decode"
           /\ dec'.pc \in {"flush", "recover"} <=> dec.pc \in {"flush", "recover"}
BY DEF TypeOK, Wakes, DecodeRecords

-----------------------------------------------------------------------------
(* Message thread.                                                         *)

LEMMA StartInv ==
    ASSUME IInv, StartVideoStream
    PROVE  IInv'
<1>1. gate = NewGate /\ queue = NoQueue
    BY DEF StartVideoStream, IInv, OffIsNew
<1>2. dec' \in DecodeRecords /\ dec'.pc = "check" /\ dec'.batch = <<>> /\ dec'.ref = NoFrame
    BY NewRecords DEF StartVideoStream, NoThread, DecodeRecords
<1>3. TypeOK'
    BY <1>2, Numbers01 DEF StartVideoStream, IInv, TypeOK
<1>4. Chain'
    BY <1>1, <1>2, NewRecords, ChainedEmpty DEF StartVideoStream, Chain
<1> QED
    BY <1>3, <1>4 DEF StartVideoStream, IInv, OffIsNew, WindowIsQuiet

LEMMA StopInv ==
    ASSUME IInv, StopErase \/ StopFlag
    PROVE  IInv'
<1>1. /\ main' \in {"stop", "notify"} /\ running' \in BOOLEAN /\ (running' => running)
      /\ UNCHANGED <<gate, queue, tracker, dec, pace, asked>> /\ Quiet
    <2>1. CASE StopErase
        BY <2>1 DEF StopErase, IInv, TypeOK
    <2>2. CASE StopFlag
        BY <2>2 DEF StopFlag
    <2> QED
        BY <2>1, <2>2
<1>2. TypeOK'
    BY <1>1, QuietFlap DEF IInv, TypeOK
<1>3. Chain'
    BY <1>1, SamePlace DEF IInv, TypeOK, Kept
<1> QED
    BY <1>1, <1>2, <1>3, QuietFlap DEF IInv, OffIsNew

LEMMA StopNotifyInv ==
    ASSUME IInv, StopNotify
    PROVE  IInv'
<1>1. TypeOK'
    BY QuietFlap, WakesType DEF StopNotify, IInv, TypeOK
<1>2. Chain'
    BY WakesType, SamePlace DEF StopNotify, IInv, Kept
<1> QED
    BY <1>1, <1>2, QuietFlap DEF StopNotify, IInv, OffIsNew

LEMMA StopJoinInv ==
    ASSUME IInv, StopJoin
    PROVE  IInv'
<1>1. TypeOK'
    BY NewRecords, Numbers01 DEF StopJoin, IInv, TypeOK
<1>2. Chain'
    BY NewRecords, ChainedEmpty, Emptied DEF StopJoin
<1> QED
    BY <1>1, <1>2, NewRecords DEF StopJoin, IInv, OffIsNew, WindowIsQuiet

LEMMA TickRetryInv ==
    ASSUME IInv, TickRetry
    PROVE  IInv'
<1>1. tracker' \in TrackerRecords /\ tracker'.flushes = tracker.flushes /\ tracker'.since = tracker.since
    <2>1. tracker' = [tracker EXCEPT !.requested = 0] \/ tracker' = tracker
        BY DEF TickRetry
    <2>2. tracker \in TrackerRecords
        BY DEF IInv, TypeOK
    <2>3. 0 \in 0 .. SlowPli
        BY DecodeAssumption
    <2> QED
        BY <2>1, <2>2, <2>3 DEF TrackerRecords
<1>2. TypeOK'
    BY <1>1, QuietFlap, SendPliType DEF TickRetry, IInv, TypeOK
<1>3. Chain'
    BY SamePlace DEF TickRetry, IInv, TypeOK, Kept
<1>4. WindowIsQuiet'
    BY <1>1, QuietFlap DEF TickRetry, IInv, WindowIsQuiet
<1> QED
    BY <1>2, <1>3, <1>4 DEF TickRetry, IInv, OffIsNew

-----------------------------------------------------------------------------
(* Playout thread.                                                         *)

LEMMA AcceptedChains ==
    ASSUME IInv, NEW f, NEW w \in Work, Accepts(gate, f), w.seq = f.seq, w.key = f.key, Wakes,
           queue'.frames = Append(queue.frames, w), gate' = Accepted(gate, f), UNCHANGED running
    PROVE  Chain'
<1>1. /\ dec'.batch = dec.batch /\ dec'.ref = dec.ref /\ (dec'.pc = "decode" <=> dec.pc = "decode")
      /\ (Kept' <=> Kept) /\ BatchEnd' = BatchEnd
    BY WakesType DEF IInv, Kept, BatchEnd
<1>2. queue.frames \in Seq(Work)
    BY DEF IInv, TypeOK, QueueRecords
<1>3. ASSUME Kept
      PROVE  Chained(BatchEnd, queue'.frames) /\ EndOf(BatchEnd, queue'.frames) = f.seq
    <2>1. gate.last \in FrameSeq /\ gate.last # NoFrame
        BY DecodeAssumption DEF IInv, TypeOK, GateRecords
    <2>2. Follows(EndOf(BatchEnd, queue.frames), w)
        BY <1>3, <2>1 DEF IInv, Chain, Accepts, Follows
    <2> QED
        BY <1>2, <1>3, <2>2, ChainedAppend DEF IInv, Chain
<1>4. gate'.last = f.seq
    BY DEF Accepted
<1> QED
    BY <1>1, <1>3, <1>4 DEF IInv, Chain

LEMMA EnqueueInv ==
    ASSUME IInv, NEW f \in [seq : FrameSeq, key : BOOLEAN], Enqueue(f)
    PROVE  IInv'
<1>1. TypeOK /\ main = "on" /\ UNCHANGED <<main, running, tracker>> /\ Quiet
    BY DEF Enqueue, IInv
<1>2. CASE /\ Discontinuity(gate, f)
           /\ queue' = NoQueue /\ gate' = Required(gate) /\ SendPli /\ UNCHANGED dec
    <2>1. TypeOK'
        BY <1>1, <1>2, NewRecords, RequiredType, SendPliType, QuietFlap DEF TypeOK
    <2>2. Chain'
        BY <1>1, <1>2, RequiredType, Emptied DEF IInv, Chain
    <2> QED
        BY <1>1, <2>1, <2>2, QuietFlap DEF IInv, OffIsNew
<1>3. CASE /\ Accepts(gate, f) /\ Len(queue.frames) < MaxQueue
           /\ queue' = [queue EXCEPT !.frames =
                Append(@, [seq |-> f.seq, key |-> f.key, recovery |-> f.key /\ gate.awaiting])]
           /\ gate' = Accepted(gate, f)
           /\ Wakes
           /\ pace' = IF f.key THEN 0 ELSE pace
           /\ asked' = (asked /\ ~f.key)
    <2> DEFINE w == [seq |-> f.seq, key |-> f.key, recovery |-> f.key /\ gate.awaiting]
    <2>1. w \in Work /\ w.seq = f.seq /\ w.key = f.key
        BY DEF Work
    <2> HIDE DEF w
    <2>2. queue' = [queue EXCEPT !.frames = Append(queue.frames, w)]
        BY <1>3 DEF w
    <2>3. /\ queue.frames \in Seq(Work)
          /\ Append(queue.frames, w) \in Seq(Work)
          /\ Len(Append(queue.frames, w)) = Len(queue.frames) + 1
        BY <1>1, <2>1, AppendProperties DEF TypeOK, QueueRecords
    <2>4. queue' \in QueueRecords /\ queue'.frames = Append(queue.frames, w)
        BY <1>1, <2>2, <2>3 DEF TypeOK, QueueRecords
    <2>5. Len(queue'.frames) <= MaxQueue
        BY <1>3, <2>3, <2>4, Numbers01, LenProperties
    <2>6. gate' \in GateRecords
        BY <1>3 DEF Accepted, GateRecords
    <2>7. pace' \in 0 .. MaxBackoff /\ asked' \in BOOLEAN
        BY <1>1, <1>3, Numbers01 DEF TypeOK
    <2>8. TypeOK'
        BY <1>1, <1>3, <2>4, <2>5, <2>6, <2>7, WakesType, QuietFlap DEF TypeOK
    <2>9. Chain'
        BY <1>1, <1>3, <2>1, <2>4, AcceptedChains
    <2> QED
        BY <1>1, <2>8, <2>9, QuietFlap DEF IInv, OffIsNew
<1> QED
    BY <1>2, <1>3 DEF Enqueue

LEMMA ArrivesInv ==
    ASSUME IInv, DeltaArrives \/ KeyframeArrives
    PROVE  IInv'
<1>1. PICK s \in Numbers, k \in BOOLEAN : Enqueue([seq |-> s, key |-> k])
    BY DEF DeltaArrives, KeyframeArrives
<1>2. [seq |-> s, key |-> k] \in [seq : FrameSeq, key : BOOLEAN]
    BY NumbersType DEF IInv
<1> QED
    BY <1>1, <1>2, EnqueueInv

-----------------------------------------------------------------------------
(* Decode thread.                                                          *)

LEMMA WaitInv ==
    ASSUME IInv, Park \/ Sleep \/ Exit
    PROVE  IInv'
<1>1. PICK pc \in {"none", "block", "asleep"} :
        /\ dec' = [dec EXCEPT !.pc = pc] /\ dec.pc \in {"check", "block"}
        /\ UNCHANGED <<main, running, gate, queue, tracker, pace, asked>> /\ Quiet
    BY DEF Park, Sleep, Exit, AtCheck
<1>2. /\ dec' \in DecodeRecords /\ dec'.batch = dec.batch /\ dec'.ref = dec.ref
      /\ dec'.pc # "decode" /\ dec.pc # "decode" /\ (Kept' => Kept)
    BY <1>1 DEF IInv, TypeOK, DecodeRecords, Kept
<1>3. TypeOK'
    BY <1>1, <1>2, QuietFlap DEF IInv, TypeOK
<1>4. Chain'
    BY <1>1, <1>2, SamePlace
<1>5. main # "off"
    BY <1>1, NewRecords DEF IInv, OffIsNew
<1> QED
    BY <1>1, <1>3, <1>4, <1>5, QuietFlap DEF IInv, OffIsNew

LEMMA TakeBatchInv ==
    ASSUME IInv, TakeBatch
    PROVE  IInv'
<1> DEFINE frames == IF Len(queue.frames) > WarningFrames
                     THEN TrimToLatestKeyframe(queue.frames) ELSE queue.frames
<1>1. /\ dec.pc = "check" /\ running /\ queue.frames # <<>> /\ queue' = NoQueue /\ Quiet
      /\ UNCHANGED <<main, running, gate, tracker, pace, asked>>
      /\ dec \in DecodeRecords /\ queue.frames \in Seq(Work)
    BY DEF TakeBatch, AtCheck, IInv, TypeOK, QueueRecords
<1>2. dec.batch = <<>> /\ BatchEnd = dec.ref
    BY <1>1, ChainedEmpty DEF IInv, Chain, BatchEnd
<1>3. /\ Chained(dec.ref, queue.frames)
      /\ ~gate.awaiting => EndOf(dec.ref, queue.frames) = gate.last
    BY <1>1, <1>2 DEF IInv, Chain, Kept
<1>4. /\ frames \in Seq(Work) /\ frames # <<>> /\ Chained(dec.ref, frames)
      /\ EndOf(dec.ref, frames) = EndOf(dec.ref, queue.frames)
    BY <1>1, <1>3, ChainedTrim
<1>5. \/ dec' = [dec EXCEPT !.pc = "flush"]
      \/ dec' = [dec EXCEPT !.pc = "decode", !.batch = frames]
    BY DEF TakeBatch
<1> HIDE DEF frames
<1>6. dec' \in DecodeRecords
    BY <1>1, <1>4, <1>5 DEF DecodeRecords
<1>7. TypeOK'
    BY <1>1, <1>6, NewRecords, QuietFlap DEF IInv, TypeOK
<1>8. Chain'
    <2>1. CASE dec' = [dec EXCEPT !.pc = "flush"]
        <3>1. dec'.pc = "flush" /\ dec'.batch = <<>> /\ dec'.ref = dec.ref
            BY <1>1, <1>2, <2>1 DEF DecodeRecords
        <3> QED
            BY <3>1, ChainedEmpty DEF Chain, Kept
    <2>2. CASE dec' = [dec EXCEPT !.pc = "decode", !.batch = frames]
        <3>1. dec'.pc = "decode" /\ dec'.batch = frames /\ dec'.ref = dec.ref
            BY <1>1, <2>2 DEF DecodeRecords
        <3>2. BatchEnd' = EndOf(dec.ref, queue.frames)
            BY <1>4, <3>1 DEF BatchEnd
        <3> QED
            BY <1>1, <1>3, <1>4, <3>1, <3>2, ChainedEmpty, NewRecords DEF Chain
    <2> QED
        BY <1>5, <2>1, <2>2
<1>9. main # "off"
    BY <1>1, NewRecords DEF IInv, OffIsNew
<1> QED
    BY <1>1, <1>7, <1>8, <1>9, QuietFlap DEF IInv, OffIsNew

LEMMA ResyncInv ==
    ASSUME IInv, Resync
    PROVE  IInv'
<1>1. tracker' \in TrackerRecords /\ tracker'.since = 0
    <2> DEFINE n == Up(tracker.flushes, PliLimit + 1)
               r == IF n <= PliLimit THEN 0 ELSE tracker.requested
    <2>1. tracker \in TrackerRecords
        BY DEF IInv, TypeOK
    <2>2. n \in 0 .. PliLimit + 1 /\ r \in 0 .. SlowPli /\ 0 \in 0 .. Recovery
        BY <2>1, DecodeAssumption DEF Up, TrackerRecords
    <2>3. tracker' = [tracker EXCEPT !.flushes = n, !.resumed = FALSE, !.since = 0, !.requested = r]
        BY DEF Resync, OnStaleFlush
    <2> HIDE DEF n, r
    <2> QED
        BY <2>1, <2>2, <2>3 DEF TrackerRecords
<1>2. dec' \in DecodeRecords /\ dec'.batch = dec.batch /\ dec'.ref = dec.ref /\ dec'.pc # "decode"
    BY DEF Resync, IInv, TypeOK, DecodeRecords
<1>3. flap' \in FlapRecords /\ flap'.since = 0 /\ ~flap'.ended
    BY DecodeAssumption DEF Resync, FlapRecords
<1>4. TypeOK'
    BY <1>1, <1>2, <1>3, RequiredType, NewRecords DEF Resync, IInv, TypeOK
<1>5. Chain'
    BY <1>2, RequiredType, Emptied DEF Resync, IInv, Chain
<1>6. WindowIsQuiet'
    BY <1>1, <1>3 DEF WindowIsQuiet
<1>7. main # "off"
    BY NewRecords DEF Resync, IInv, OffIsNew
<1> QED
    BY <1>4, <1>5, <1>6, <1>7 DEF Resync, IInv, OffIsNew

LEMMA RecoverInv ==
    ASSUME IInv, Recover
    PROVE  IInv'
<1>1. dec' \in DecodeRecords /\ dec'.batch = <<>> /\ dec'.pc = "ask"
    BY NewRecords DEF Recover, NoThread, DecodeRecords
<1>2. TypeOK'
    BY <1>1, RequiredType, NewRecords, QuietFlap DEF Recover, IInv, TypeOK
<1>3. Chain'
    BY <1>1, RequiredType, ChainedEmpty, Emptied DEF Recover, IInv
<1>4. main # "off"
    BY NewRecords DEF Recover, IInv, OffIsNew
<1> QED
    BY <1>2, <1>3, <1>4, QuietFlap DEF Recover, IInv, OffIsNew

LEMMA AskInv ==
    ASSUME IInv, Ask
    PROVE  IInv'
<1>1. /\ dec' \in DecodeRecords /\ dec'.batch = dec.batch /\ dec'.ref = dec.ref /\ dec'.pc # "decode"
      /\ dec.pc # "decode" /\ (Kept' => Kept)
    BY DEF Ask, IInv, TypeOK, DecodeRecords, Kept
<1>2. TypeOK'
    BY <1>1, QuietFlap, SendPliType DEF Ask, IInv, TypeOK
<1>3. Chain'
    BY <1>1, SamePlace DEF Ask
<1>4. main # "off"
    BY NewRecords DEF Ask, IInv, OffIsNew
<1> QED
    BY <1>2, <1>3, <1>4, QuietFlap DEF Ask, IInv, OffIsNew

LEMMA DecodeFailsInv ==
    ASSUME IInv, DecodeFails
    PROVE  IInv'
<1>1. /\ dec' \in DecodeRecords /\ dec'.batch = <<>> /\ dec'.ref = dec.ref
      /\ dec'.pc = IF running THEN "recover" ELSE "check"
    BY EmptySeq DEF DecodeFails, IInv, TypeOK, DecodeRecords
<1>2. TypeOK'
    BY <1>1, QuietFlap DEF DecodeFails, IInv, TypeOK
<1>3. Chain'
    BY <1>1, ChainedEmpty DEF DecodeFails, Chain, Kept
<1>4. main # "off"
    BY NewRecords DEF DecodeFails, IInv, OffIsNew
<1> QED
    BY <1>2, <1>3, <1>4, QuietFlap DEF DecodeFails, IInv, OffIsNew

LEMMA DecodedTracker ==
    ASSUME IInv, NEW recovery \in BOOLEAN, tracker' = OnFrameDecoded(tracker, recovery),
           flap' = [flap EXCEPT !.ended = tracker.flushes > 0 /\ tracker'.flushes = 0]
    PROVE  tracker' \in TrackerRecords /\ flap' \in FlapRecords /\ WindowIsQuiet'
<1>1. tracker \in TrackerRecords /\ flap \in FlapRecords
    BY DEF IInv, TypeOK
<1>2. /\ flap' \in FlapRecords /\ flap'.since = flap.since
      /\ flap'.ended <=> tracker.flushes > 0 /\ tracker'.flushes = 0
    BY <1>1 DEF FlapRecords
<1>3. CASE tracker' = tracker
    BY <1>1, <1>2, <1>3 DEF IInv, WindowIsQuiet, TrackerRecords
<1>4. CASE tracker' = [tracker EXCEPT !.resumed = TRUE, !.since = 0] /\ tracker.flushes # 0
    <2>1. tracker' \in TrackerRecords /\ tracker'.since = 0 /\ tracker'.flushes = tracker.flushes
        <3>1. 0 \in 0 .. Recovery
            BY DecodeAssumption
        <3> QED
            BY <1>1, <1>4, <3>1 DEF TrackerRecords
    <2> QED
        BY <1>1, <1>2, <1>4, <2>1 DEF WindowIsQuiet, FlapRecords
<1>5. CASE tracker' = NewTracker /\ tracker.flushes # 0 /\ tracker.since = Recovery
    <2>1. flap.since = Recovery
        BY <1>1, <1>5, DecodeAssumption DEF IInv, WindowIsQuiet, TrackerRecords, FlapRecords
    <2> QED
        BY <1>2, <1>5, <2>1, NewRecords DEF WindowIsQuiet
<1> QED
    BY <1>3, <1>4, <1>5 DEF OnFrameDecoded

LEMMA DecodeInv ==
    ASSUME IInv, Decode
    PROVE  IInv'
<1> DEFINE w == Head(dec.batch)
           rest == Tail(dec.batch)
<1>1. /\ dec \in DecodeRecords /\ dec.batch \in Seq(Work) /\ dec.batch # <<>>
      /\ UNCHANGED <<main, running, gate, queue, pace, asked>>
    BY DEF Decode, IInv, TypeOK, DecodeRecords, Chain
<1>2. /\ w \in Work /\ rest \in Seq(Work) /\ Chained(w.seq, rest)
      /\ EndOf(w.seq, rest) = BatchEnd
    BY <1>1, ChainedTail DEF IInv, Chain, BatchEnd
<1>3. tracker' = OnFrameDecoded(tracker, w.recovery) /\ w.recovery \in BOOLEAN
    BY <1>2 DEF Decode, Work
<1>4. PICK ready \in BOOLEAN :
        dec' = [pc |-> IF rest = <<>> THEN "check" ELSE "decode", batch |-> rest,
                ready |-> ready, ref |-> w.seq]
    <2>1. PICK fresh \in BOOLEAN, shown \in BOOLEAN :
            dec' = [pc |-> IF rest = <<>> THEN "check" ELSE "decode", batch |-> rest,
                    ready |-> shown \/ (dec.ready /\ ~fresh), ref |-> w.seq]
        BY DEF Decode
    <2>2. (shown \/ (dec.ready /\ ~fresh)) \in BOOLEAN
        OBVIOUS
    <2> QED
        BY <2>1, <2>2
<1> HIDE DEF w, rest
<1>5. /\ dec' \in DecodeRecords /\ dec'.batch = rest /\ dec'.ref = w.seq
      /\ dec'.pc = IF rest = <<>> THEN "check" ELSE "decode"
    BY <1>2, <1>4, WorkFields DEF DecodeRecords
<1>6. tracker' \in TrackerRecords /\ flap' \in FlapRecords /\ WindowIsQuiet'
    BY <1>3, DecodedTracker DEF Decode
<1>7. TypeOK'
    BY <1>1, <1>5, <1>6 DEF IInv, TypeOK
<1>8. Chain'
    <2>1. BatchEnd' = BatchEnd
        BY <1>2, <1>5 DEF BatchEnd
    <2>2. Kept' => Kept
        BY <1>1, <1>5 DEF Decode, Kept
    <2> QED
        BY <1>1, <1>2, <1>5, <2>1, <2>2 DEF IInv, Chain
<1>9. main # "off"
    BY NewRecords DEF Decode, IInv, OffIsNew
<1> QED
    BY <1>1, <1>6, <1>7, <1>8, <1>9 DEF IInv, OffIsNew

LEMMA TickInv ==
    ASSUME IInv, Tick
    PROVE  IInv'
<1>1. /\ queue \in QueueRecords /\ tracker \in TrackerRecords /\ flap \in FlapRecords
      /\ UNCHANGED <<main, running, gate, dec, asked>>
    BY DEF Tick, IInv, TypeOK
<1>2. queue' \in QueueRecords /\ queue'.frames = queue.frames /\ (queue = NoQueue => queue' = NoQueue)
    <2>1. CASE queue.frames = <<>>
        BY <1>1, <2>1 DEF Tick
    <2>2. CASE queue.frames # <<>>
        <3>1. Up(queue.age, MaxAge) \in 0 .. MaxAge
            BY <1>1, DecodeAssumption DEF Up, QueueRecords
        <3>2. queue' = [queue EXCEPT !.age = Up(queue.age, MaxAge)] /\ queue # NoQueue
            BY <2>2, NewRecords DEF Tick
        <3> QED
            BY <1>1, <3>1, <3>2 DEF QueueRecords
    <2> QED
        BY <2>1, <2>2
<1>3. flap' \in FlapRecords /\ flap'.since = Up(flap.since, Recovery) /\ ~flap'.ended
    BY <1>1, DecodeAssumption DEF Tick, Up, FlapRecords
<1>4. /\ tracker' \in TrackerRecords /\ tracker'.flushes = tracker.flushes
      /\ tracker'.since \in {tracker.since, Up(tracker.since, Recovery)}
    <2> DEFINE s == IF tracker.resumed THEN Up(tracker.since, Recovery) ELSE tracker.since
    <2>1. /\ s \in 0 .. Recovery /\ s \in {tracker.since, Up(tracker.since, Recovery)}
          /\ Up(tracker.requested, SlowPli) \in 0 .. SlowPli
        BY <1>1, DecodeAssumption DEF Up, TrackerRecords
    <2>2. tracker' = [tracker EXCEPT !.since = s, !.requested = Up(tracker.requested, SlowPli)]
        BY DEF Tick
    <2> HIDE DEF s
    <2> QED
        BY <1>1, <2>1, <2>2 DEF TrackerRecords
<1>5. WindowIsQuiet'
    BY <1>1, <1>3, <1>4, DecodeAssumption DEF IInv, WindowIsQuiet, Up, TrackerRecords, FlapRecords
<1>6. pace' \in 0 .. MaxBackoff
    BY DecodeAssumption DEF Tick, IInv, TypeOK
<1>7. TypeOK'
    BY <1>1, <1>2, <1>3, <1>4, <1>6 DEF IInv, TypeOK
<1>8. Chain'
    BY <1>1, <1>2 DEF IInv, Chain, Kept, BatchEnd
<1> QED
    BY <1>1, <1>2, <1>5, <1>7, <1>8 DEF IInv, OffIsNew

-----------------------------------------------------------------------------
(* What is proved of the pipeline in every reachable state.                *)
LEMMA StepInv == IInv /\ [Next]_vars => IInv'
<1>1. ASSUME IInv, UNCHANGED vars PROVE IInv'
    BY <1>1 DEF vars, IInv, TypeOK, Chain, Kept, BatchEnd, OffIsNew, WindowIsQuiet
<1> QED
    BY <1>1, StartInv, StopInv, StopNotifyInv, StopJoinInv, TickRetryInv, ArrivesInv, WaitInv,
       TakeBatchInv, ResyncInv, RecoverInv, AskInv, DecodeFailsInv, DecodeInv, TickInv
    DEF Next

(* The invariant holds in every reachable state of the decode pipeline.    *)
THEOREM Inductive == Spec => []IInv
BY InitInv, StepInv, PTL DEF Spec

(* The decoder is given a delta only after the frame it refers to, however *)
(* the playout thread's enqueues and discontinuities, the decode thread's  *)
(* trims, flushes and failures and the message thread's stops interleave.  *)
THEOREM DecoderFollowsReferences == Spec => DecodesChain
<1>1. IInv /\ [Next]_vars => [Decode /\ ~Head(dec.batch).key
         => dec.ref # NoFrame /\ Head(dec.batch).seq = Next1(dec.ref)]_vars
    <2>1. ASSUME IInv, Decode, ~Head(dec.batch).key
          PROVE  dec.ref # NoFrame /\ Head(dec.batch).seq = Next1(dec.ref)
        <3>1. dec.batch \in Seq(Work) /\ dec.batch # <<>> /\ Chained(dec.ref, dec.batch)
            BY <2>1 DEF Decode, IInv, TypeOK, DecodeRecords, Chain
        <3>2. Follows(dec.ref, Head(dec.batch))
            BY <3>1, ChainedTail
        <3> QED
            BY <2>1, <3>2 DEF Follows
    <2> QED
        BY <2>1
<1> QED
    BY <1>1, Inductive, PTL DEF Spec, DecodesChain

(* on_frame_decoded forgets a run of stale flushes, and frees the keyframe *)
(* requests it rationed, only after a recovery window without a flush.     *)
THEOREM FlapGuard == Spec => []FlapGuardHolds
<1>1. IInv => FlapGuardHolds
    BY DEF IInv, WindowIsQuiet, FlapGuardHolds
<1> QED
    BY <1>1, Inductive, PTL

-----------------------------------------------------------------------------
(* The camera thread's queue.  ss are the sessions, ts the tasks still to  *)
(* run, O the sessions the main thread holds on to (0 stands for none).    *)

Opens(ts, k, id) == ts[k].op = "open" /\ ts[k].id = id
Closes(ts, k, id) == ts[k].op = "close" /\ ts[k].id = id

TasksKnown(ss, ts) ==
  \A k \in 1..Len(ts) : ts[k].op \in {"open", "close"} /\ ts[k].id \in 1..Len(ss)

(* A session is queued exactly while its open task is to run, which comes  *)
(* before any task that closes it; the sessions behind it are queued too.  *)
OpensQueued(ss, ts) ==
  \A k \in 1..Len(ts) : ts[k].op = "open" => ss[ts[k].id].st = "queued"
QueuedOpens(ss, ts) ==
  \A i \in 1..Len(ss) : ss[i].st = "queued" =>
    \E p \in 1..Len(ts) :
      Opens(ts, p, i) /\ \A k \in 1..Len(ts) : Closes(ts, k, i) => p < k
QueuedLast(ss) ==
  \A i, j \in 1..Len(ss) : i < j /\ ss[i].st = "queued" => ss[j].st = "queued"
OpensInOrder(ts) ==
  \A p, q \in 1..Len(ts) :
    p < q /\ ts[p].op = "open" /\ ts[q].op = "open" => ts[p].id < ts[q].id

(* Before a session is opened every earlier one has been closed or is      *)
(* going to be, and what the main thread let go of is going to be closed.  *)
ClosedFirst(ss, ts) ==
  \A p \in 1..Len(ts), i \in 1..Len(ss) :
    ts[p].op = "open" /\ i < ts[p].id /\ ss[i].st # "closed" =>
      \E k \in 1..Len(ts) : k < p /\ Closes(ts, k, i)
OthersClose(ss, ts, O) ==
  \A i \in 1..Len(ss) : ss[i].st # "closed" /\ i \notin O =>
    \E k \in 1..Len(ts) : Closes(ts, k, i)
OwnedKept(ts, O) == \A k \in 1..Len(ts) : ts[k].op = "close" => ts[k].id \notin O

OneOpen(ss) ==
  \A i, j \in 1..Len(ss) : ss[i].st = "open" /\ ss[j].st = "open" => i = j

Queue(ss, ts, O) ==
  /\ TasksKnown(ss, ts) /\ OpensQueued(ss, ts) /\ QueuedOpens(ss, ts)
  /\ QueuedLast(ss) /\ OpensInOrder(ts) /\ ClosedFirst(ss, ts)
  /\ OthersClose(ss, ts, O) /\ OwnedKept(ts, O) /\ OneOpen(ss)

LEMMA Appended ==
  ASSUME NEW S, NEW s \in Seq(S), NEW e \in S
  PROVE  /\ Append(s, e) \in Seq(S) /\ Len(s) \in Nat
         /\ Len(Append(s, e)) = Len(s) + 1
         /\ \A i \in 1..Len(s) : Append(s, e)[i] = s[i]
         /\ Append(s, e)[Len(s) + 1] = e
BY AppendProperties, LenProperties

LEMMA Shortened ==
  ASSUME NEW S, NEW s \in Seq(S), s # <<>>
  PROVE  /\ Tail(s) \in Seq(S) /\ Len(s) \in Nat /\ Len(s) >= 1
         /\ Len(Tail(s)) = Len(s) - 1
         /\ Head(s) = s[1] /\ Head(s) \in S
         /\ \A i \in 1..Len(s) - 1 : Tail(s)[i] = s[i + 1]
<1>1. Len(s) \in Nat /\ Len(s) # 0
  BY EmptySeq, LenProperties
<1> QED
  BY <1>1, HeadTailProperties

(* Letting go of a session: its close task is posted.                      *)
LEMMA QueueRelease ==
  ASSUME NEW ss \in Seq(Session), NEW ts \in Seq(Tasks), NEW O, NEW id \in 1..Len(ss),
         Queue(ss, ts, O), NEW R, R \subseteq O, O \ {id} \subseteq R, id \notin R
  PROVE  Queue(ss, Append(ts, [op |-> "close", id |-> id]), R)
<1> DEFINE e == [op |-> "close", id |-> id]
           us == Append(ts, e)
<1>0. Len(ss) \in Nat /\ id \in Nat
  BY LenProperties
<1>1. e \in Tasks /\ e.op = "close" /\ e.id = id
  BY <1>0 DEF Tasks
<1> HIDE DEF e
<1>2. /\ Len(ts) \in Nat /\ Len(us) = Len(ts) + 1
      /\ \A k \in 1..Len(ts) : us[k] = ts[k]
      /\ us[Len(ts) + 1] = e
  BY <1>1, Appended
<1> HIDE DEF us
<1>3. \A k \in 1..Len(us) : k \in 1..Len(ts) \/ k = Len(ts) + 1
  BY <1>2
<1>4. TasksKnown(ss, us)
  BY <1>1, <1>2, <1>3 DEF Queue, TasksKnown
<1>5. OpensQueued(ss, us)
  BY <1>1, <1>2, <1>3 DEF Queue, OpensQueued
<1>6. QueuedOpens(ss, us)
  <2> SUFFICES ASSUME NEW i \in 1..Len(ss), ss[i].st = "queued"
               PROVE  \E p \in 1..Len(us) :
                        Opens(us, p, i) /\ \A k \in 1..Len(us) : Closes(us, k, i) => p < k
    BY DEF QueuedOpens
  <2>1. PICK p \in 1..Len(ts) :
          Opens(ts, p, i) /\ \A k \in 1..Len(ts) : Closes(ts, k, i) => p < k
    BY DEF Queue, QueuedOpens
  <2>2. p \in 1..Len(us) /\ Opens(us, p, i)
    BY <1>2, <2>1 DEF Opens
  <2>3. ASSUME NEW k \in 1..Len(us), Closes(us, k, i) PROVE p < k
    BY <1>2, <1>3, <2>1, <2>3 DEF Closes
  <2> QED
    BY <2>2, <2>3
<1>7. OpensInOrder(us)
  BY <1>1, <1>2, <1>3 DEF Queue, OpensInOrder
<1>8. ClosedFirst(ss, us)
  <2> SUFFICES ASSUME NEW p \in 1..Len(us), NEW i \in 1..Len(ss),
                      us[p].op = "open", i < us[p].id, ss[i].st # "closed"
               PROVE  \E k \in 1..Len(us) : k < p /\ Closes(us, k, i)
    BY DEF ClosedFirst
  <2>1. p \in 1..Len(ts) /\ us[p] = ts[p]
    BY <1>1, <1>2, <1>3
  <2>2. PICK k \in 1..Len(ts) : k < p /\ Closes(ts, k, i)
    BY <2>1 DEF Queue, ClosedFirst
  <2>3. k \in 1..Len(us) /\ Closes(us, k, i)
    BY <1>2, <2>2 DEF Closes
  <2> QED
    BY <2>2, <2>3
<1>9. OthersClose(ss, us, R)
  <2> SUFFICES ASSUME NEW i \in 1..Len(ss), ss[i].st # "closed", i \notin R
               PROVE  \E k \in 1..Len(us) : Closes(us, k, i)
    BY DEF OthersClose
  <2>1. CASE i = id
    BY <1>1, <1>2, <2>1 DEF Closes
  <2>2. CASE i # id
    <3>1. PICK k \in 1..Len(ts) : Closes(ts, k, i)
      BY <2>2 DEF Queue, OthersClose
    <3> QED
      BY <1>2, <3>1 DEF Closes
  <2> QED
    BY <2>1, <2>2
<1>10. OwnedKept(us, R)
  BY <1>1, <1>2, <1>3 DEF Queue, OwnedKept
<1> QED
  BY <1>4, <1>5, <1>6, <1>7, <1>8, <1>9, <1>10 DEF Queue, us, e

(* A new session while the main thread holds none.                         *)
LEMMA QueueAcquire ==
  ASSUME NEW ss \in Seq(Session), NEW ts \in Seq(Tasks), NEW O,
         Queue(ss, ts, O), \A i \in 1..Len(ss) : i \notin O,
         NEW x \in Session, x.st = "queued"
  PROVE  Queue(Append(ss, x), Append(ts, [op |-> "open", id |-> Len(ss) + 1]),
               {0, Len(ss) + 1})
<1> DEFINE n == Len(ss) + 1
           e == [op |-> "open", id |-> n]
           us == Append(ts, e)
           rs == Append(ss, x)
<1>0. /\ Len(ss) \in Nat /\ n = Len(ss) + 1 /\ Len(rs) = n
      /\ \A i \in 1..Len(ss) : rs[i] = ss[i]
      /\ rs[n] = x
  BY Appended
<1> HIDE DEF n, rs
<1>1. e \in Tasks /\ e.op = "open" /\ e.id = n
  BY <1>0 DEF Tasks
<1> HIDE DEF e
<1>2. /\ Len(ts) \in Nat /\ Len(us) = Len(ts) + 1
      /\ \A k \in 1..Len(ts) : us[k] = ts[k]
      /\ us[Len(ts) + 1] = e
  BY <1>1, Appended
<1> HIDE DEF us
<1>3. /\ \A k \in 1..Len(us) : k \in 1..Len(ts) \/ k = Len(ts) + 1
      /\ \A i \in 1..Len(rs) : i \in 1..Len(ss) \/ i = n
  BY <1>0, <1>2
<1>k. \A k \in 1..Len(ts) : ts[k].op \in {"open", "close"} /\ ts[k].id \in 1..Len(ss)
  BY DEF Queue, TasksKnown
<1>4. TasksKnown(rs, us)
  BY <1>0, <1>1, <1>2, <1>3, <1>k DEF TasksKnown
<1>5. OpensQueued(rs, us)
  BY <1>0, <1>1, <1>2, <1>3, <1>k DEF Queue, OpensQueued
<1>6. QueuedOpens(rs, us)
  <2> SUFFICES ASSUME NEW i \in 1..Len(rs), rs[i].st = "queued"
               PROVE  \E p \in 1..Len(us) :
                        Opens(us, p, i) /\ \A k \in 1..Len(us) : Closes(us, k, i) => p < k
    BY DEF QueuedOpens
  <2>1. CASE i = n
    <3>1. \A k \in 1..Len(us) : ~Closes(us, k, n)
      BY <1>0, <1>1, <1>2, <1>3, <1>k DEF Closes
    <3>2. Len(ts) + 1 \in 1..Len(us) /\ Opens(us, Len(ts) + 1, n)
      BY <1>1, <1>2 DEF Opens
    <3> QED
      BY <2>1, <3>1, <3>2
  <2>2. CASE i \in 1..Len(ss)
    <3>1. PICK p \in 1..Len(ts) :
            Opens(ts, p, i) /\ \A k \in 1..Len(ts) : Closes(ts, k, i) => p < k
      BY <1>0, <2>2 DEF Queue, QueuedOpens
    <3>2. p \in 1..Len(us) /\ Opens(us, p, i)
      BY <1>2, <3>1 DEF Opens
    <3>3. ASSUME NEW k \in 1..Len(us), Closes(us, k, i) PROVE p < k
      BY <1>2, <1>3, <3>1, <3>3 DEF Closes
    <3> QED
      BY <3>2, <3>3
  <2> QED
    BY <1>3, <2>1, <2>2
<1>7. QueuedLast(rs)
  <2> SUFFICES ASSUME NEW i \in 1..Len(rs), NEW j \in 1..Len(rs), i < j, rs[i].st = "queued"
               PROVE  rs[j].st = "queued"
    BY DEF QueuedLast
  <2>1. CASE j = n
    BY <1>0, <2>1
  <2>2. CASE j \in 1..Len(ss)
    BY <1>0, <1>3, <2>2 DEF Queue, QueuedLast
  <2> QED
    BY <1>3, <2>1, <2>2
<1>8. OpensInOrder(us)
  <2> SUFFICES ASSUME NEW p \in 1..Len(us), NEW q \in 1..Len(us),
                      p < q, us[p].op = "open", us[q].op = "open"
               PROVE  us[p].id < us[q].id
    BY DEF OpensInOrder
  <2>1. p \in 1..Len(ts) /\ us[p] = ts[p]
    BY <1>2, <1>3
  <2>2. CASE q = Len(ts) + 1
    BY <1>0, <1>1, <1>2, <1>k, <2>1, <2>2
  <2>3. CASE q \in 1..Len(ts)
    BY <1>2, <2>1, <2>3 DEF Queue, OpensInOrder
  <2> QED
    BY <1>3, <2>2, <2>3
<1>9. ClosedFirst(rs, us)
  <2> SUFFICES ASSUME NEW p \in 1..Len(us), NEW i \in 1..Len(rs),
                      us[p].op = "open", i < us[p].id, rs[i].st # "closed"
               PROVE  \E k \in 1..Len(us) : k < p /\ Closes(us, k, i)
    BY DEF ClosedFirst
  <2>1. i \in 1..Len(ss) /\ rs[i] = ss[i]
    BY <1>0, <1>1, <1>2, <1>3, <1>k
  <2>2. CASE p = Len(ts) + 1
    <3>1. PICK k \in 1..Len(ts) : Closes(ts, k, i)
      BY <2>1 DEF Queue, OthersClose
    <3> QED
      BY <1>2, <2>2, <3>1 DEF Closes
  <2>3. CASE p \in 1..Len(ts)
    <3>1. PICK k \in 1..Len(ts) : k < p /\ Closes(ts, k, i)
      BY <1>2, <2>1, <2>3 DEF Queue, ClosedFirst
    <3> QED
      BY <1>2, <3>1 DEF Closes
  <2> QED
    BY <1>3, <2>2, <2>3
<1>10. OthersClose(rs, us, {0, n})
  <2> SUFFICES ASSUME NEW i \in 1..Len(rs), rs[i].st # "closed", i \notin {0, n}
               PROVE  \E k \in 1..Len(us) : Closes(us, k, i)
    BY DEF OthersClose
  <2>1. i \in 1..Len(ss) /\ rs[i] = ss[i]
    BY <1>0, <1>3
  <2>2. PICK k \in 1..Len(ts) : Closes(ts, k, i)
    BY <2>1 DEF Queue, OthersClose
  <2> QED
    BY <1>2, <2>2 DEF Closes
<1>11. OwnedKept(us, {0, n})
  BY <1>0, <1>1, <1>2, <1>3, <1>k DEF OwnedKept
<1>12. OneOpen(rs)
  BY <1>0, <1>3 DEF Queue, OneOpen
<1> QED
  BY <1>0, <1>4, <1>5, <1>6, <1>7, <1>8, <1>9, <1>10, <1>11, <1>12 DEF Queue, us, e, rs, n
(* Which sessions the main thread holds is all that matters of the owners, *)
(* and of a session its state.                                             *)
LEMMA QueueSame ==
  ASSUME NEW ss, NEW ts, NEW O, Queue(ss, ts, O),
         NEW rs, Len(rs) = Len(ss), \A i \in 1..Len(ss) : rs[i].st = ss[i].st,
         NEW R, \A i \in 1..Len(ss) : i \in R <=> i \in O
  PROVE  Queue(rs, ts, R)
<1>1. TasksKnown(rs, ts) /\ OpensQueued(rs, ts)
  BY DEF Queue, TasksKnown, OpensQueued
<1>2. QueuedOpens(rs, ts) /\ QueuedLast(rs) /\ OneOpen(rs)
  BY DEF Queue, QueuedOpens, QueuedLast, OneOpen
<1>3. ClosedFirst(rs, ts)
  BY DEF Queue, ClosedFirst
<1>4. OthersClose(rs, ts, R)
  BY DEF Queue, OthersClose
<1>5. OwnedKept(ts, R)
  BY DEF Queue, OwnedKept, TasksKnown
<1> QED
  BY <1>1, <1>2, <1>3, <1>4, <1>5 DEF Queue

LEMMA Replaced ==
  ASSUME NEW S, NEW s \in Seq(S), NEW i \in 1..Len(s), NEW x \in S
  PROVE  /\ [s EXCEPT ![i] = x] \in Seq(S)
         /\ Len([s EXCEPT ![i] = x]) = Len(s)
         /\ [s EXCEPT ![i] = x][i] = x
         /\ \A j \in 1..Len(s) : j # i => [s EXCEPT ![i] = x][j] = s[j]
BY ExceptSeq, LenProperties

(* The camera thread opens a session: every earlier one is closed by then. *)
LEMMA QueueOpenHead ==
  ASSUME NEW ss \in Seq(Session), NEW ts \in Seq(Tasks), NEW O, Queue(ss, ts, O),
         ts # <<>>, Head(ts).op = "open",
         NEW x \in Session, x.st \in {"open", "refused"}
  PROVE  /\ Head(ts).id \in 1..Len(ss) /\ ss[Head(ts).id].st = "queued"
         /\ Queue([ss EXCEPT ![Head(ts).id] = x], Tail(ts), O)
<1> DEFINE id == Head(ts).id
           us == Tail(ts)
           rs == [ss EXCEPT ![id] = x]
<1>0. /\ Len(ts) \in Nat /\ Len(ts) >= 1 /\ Len(us) = Len(ts) - 1 /\ Head(ts) = ts[1]
      /\ \A k \in 1..Len(us) : us[k] = ts[k + 1]
  BY Shortened
<1>1. /\ Len(ss) \in Nat /\ id \in 1..Len(ss) /\ ts[1].op = "open" /\ ts[1].id = id
      /\ ss[id].st = "queued"
  BY <1>0, LenProperties DEF Queue, TasksKnown, OpensQueued
<1>2. /\ Len(rs) = Len(ss) /\ rs[id] = x
      /\ \A j \in 1..Len(ss) : j # id => rs[j] = ss[j]
  BY <1>1, Replaced
<1> HIDE DEF id, us, rs
<1>3. \A k \in 1..Len(us) : k + 1 \in 1..Len(ts)
  BY <1>0
<1>4. \A k \in 1..Len(ts) : k # 1 => k - 1 \in 1..Len(us) /\ us[k - 1] = ts[k] /\ k = (k - 1) + 1
  BY <1>0
<1>5. \A i \in 1..Len(ss) : i < id => ss[i].st = "closed"
  <2> SUFFICES ASSUME NEW i \in 1..Len(ss), i < id, ss[i].st # "closed" PROVE FALSE
    OBVIOUS
  <2>1. 1 \in 1..Len(ts)
    BY <1>0
  <2>2. \E k \in 1..Len(ts) : k < 1 /\ Closes(ts, k, i)
    BY <1>1, <2>1 DEF Queue, ClosedFirst
  <2> QED
    BY <2>2
<1>6. \A k \in 1..Len(us) : us[k].op = "open" => us[k].id # id
  <2> SUFFICES ASSUME NEW k \in 1..Len(us), us[k].op = "open" PROVE us[k].id # id
    OBVIOUS
  <2>1. 1 \in 1..Len(ts) /\ k + 1 \in 1..Len(ts) /\ 1 < k + 1 /\ ts[k + 1].op = "open"
    BY <1>0, <1>3
  <2>2. ts[1].id < ts[k + 1].id
    BY <1>1, <2>1 DEF Queue, OpensInOrder
  <2> QED
    BY <1>0, <1>1, <2>2
<1>7. TasksKnown(rs, us)
  BY <1>0, <1>2, <1>3 DEF Queue, TasksKnown
<1>8. OpensQueued(rs, us)
  <2> SUFFICES ASSUME NEW k \in 1..Len(us), us[k].op = "open"
               PROVE  rs[us[k].id].st = "queued"
    BY DEF OpensQueued
  <2>1. k + 1 \in 1..Len(ts) /\ us[k] = ts[k + 1]
    BY <1>0, <1>3
  <2>2. us[k].id \in 1..Len(ss) /\ ss[us[k].id].st = "queued"
    BY <2>1 DEF Queue, TasksKnown, OpensQueued
  <2> QED
    BY <1>2, <1>6, <2>1, <2>2
<1>9. QueuedOpens(rs, us)
  <2> SUFFICES ASSUME NEW i \in 1..Len(ss), rs[i].st = "queued"
               PROVE  \E p \in 1..Len(us) :
                        Opens(us, p, i) /\ \A k \in 1..Len(us) : Closes(us, k, i) => p < k
    BY <1>2 DEF QueuedOpens
  <2>1. i # id /\ ss[i].st = "queued"
    BY <1>2
  <2>2. PICK p \in 1..Len(ts) :
          Opens(ts, p, i) /\ \A k \in 1..Len(ts) : Closes(ts, k, i) => p < k
    BY <2>1 DEF Queue, QueuedOpens
  <2>3. p # 1 /\ p - 1 \in 1..Len(us) /\ Opens(us, p - 1, i)
    BY <1>1, <1>4, <2>1, <2>2 DEF Opens
  <2>4. ASSUME NEW k \in 1..Len(us), Closes(us, k, i) PROVE p - 1 < k
    <3>1. Closes(ts, k + 1, i) /\ k + 1 \in 1..Len(ts)
      BY <1>0, <1>3, <2>4 DEF Closes
    <3> QED
      BY <2>2, <3>1
  <2> QED
    BY <2>3, <2>4
<1>10. QueuedLast(rs)
  <2> SUFFICES ASSUME NEW i \in 1..Len(ss), NEW j \in 1..Len(ss), i < j, rs[i].st = "queued"
               PROVE  rs[j].st = "queued"
    BY <1>2 DEF QueuedLast
  <2>1. i # id /\ ss[i].st = "queued" /\ j # id
    BY <1>2, <1>5
  <2> QED
    BY <1>2, <2>1 DEF Queue, QueuedLast
<1>11. OpensInOrder(us)
  <2> SUFFICES ASSUME NEW p \in 1..Len(us), NEW q \in 1..Len(us),
                      p < q, us[p].op = "open", us[q].op = "open"
               PROVE  us[p].id < us[q].id
    BY DEF OpensInOrder
  <2>1. p + 1 \in 1..Len(ts) /\ q + 1 \in 1..Len(ts) /\ p + 1 < q + 1
    BY <1>3
  <2> QED
    BY <1>0, <2>1 DEF Queue, OpensInOrder
<1>12. ClosedFirst(rs, us)
  <2> SUFFICES ASSUME NEW p \in 1..Len(us), NEW i \in 1..Len(ss),
                      us[p].op = "open", i < us[p].id, rs[i].st # "closed"
               PROVE  \E k \in 1..Len(us) : k < p /\ Closes(us, k, i)
    BY <1>2 DEF ClosedFirst
  <2>1. /\ p + 1 \in 1..Len(ts) /\ ts[p + 1].op = "open" /\ i < ts[p + 1].id
        /\ ss[i].st # "closed"
    BY <1>0, <1>1, <1>2, <1>3
  <2>2. PICK k \in 1..Len(ts) : k < p + 1 /\ Closes(ts, k, i)
    BY <2>1 DEF Queue, ClosedFirst
  <2>3. k # 1
    BY <1>1, <2>2 DEF Closes
  <2>4. k - 1 \in 1..Len(us) /\ Closes(us, k - 1, i) /\ k - 1 < p
    BY <1>4, <2>2, <2>3 DEF Closes
  <2> QED
    BY <2>4
<1>13. OthersClose(rs, us, O)
  <2> SUFFICES ASSUME NEW i \in 1..Len(ss), rs[i].st # "closed", i \notin O
               PROVE  \E k \in 1..Len(us) : Closes(us, k, i)
    BY <1>2 DEF OthersClose
  <2>1. ss[i].st # "closed"
    BY <1>1, <1>2
  <2>2. PICK k \in 1..Len(ts) : Closes(ts, k, i)
    BY <2>1 DEF Queue, OthersClose
  <2>3. k # 1
    BY <1>1, <2>2 DEF Closes
  <2> QED
    BY <1>4, <2>2, <2>3 DEF Closes
<1>14. OwnedKept(us, O)
  BY <1>0, <1>3 DEF Queue, OwnedKept
<1>15. OneOpen(rs)
  <2>1. \A i \in 1..Len(ss) : i # id => rs[i].st # "open"
    <3> SUFFICES ASSUME NEW i \in 1..Len(ss), i # id PROVE rs[i].st # "open"
      OBVIOUS
    <3>1. CASE i < id
      BY <1>2, <1>5, <3>1
    <3>2. CASE id < i
      BY <1>1, <1>2, <3>2 DEF Queue, QueuedLast
    <3> QED
      BY <1>1, <3>1, <3>2
  <2> QED
    BY <1>2, <2>1 DEF OneOpen
<1> QED
  BY <1>1, <1>7, <1>8, <1>9, <1>10, <1>11, <1>12, <1>13, <1>14, <1>15 DEF Queue, id, us, rs

(* The camera thread closes a session: it was opened or refused before.    *)
LEMMA QueueCloseHead ==
  ASSUME NEW ss \in Seq(Session), NEW ts \in Seq(Tasks), NEW O, Queue(ss, ts, O),
         ts # <<>>, Head(ts).op = "close",
         NEW x \in Session, x.st = "closed"
  PROVE  /\ Head(ts).id \in 1..Len(ss) /\ Head(ts).id \notin O
         /\ Queue([ss EXCEPT ![Head(ts).id] = x], Tail(ts), O)
<1> DEFINE id == Head(ts).id
           us == Tail(ts)
           rs == [ss EXCEPT ![id] = x]
<1>0. /\ Len(ts) \in Nat /\ Len(ts) >= 1 /\ Len(us) = Len(ts) - 1 /\ Head(ts) = ts[1]
      /\ \A k \in 1..Len(us) : us[k] = ts[k + 1]
  BY Shortened
<1>1. /\ Len(ss) \in Nat /\ id \in 1..Len(ss) /\ ts[1].op = "close" /\ ts[1].id = id
      /\ id \notin O /\ 1 \in 1..Len(ts) /\ Closes(ts, 1, id)
  BY <1>0, LenProperties DEF Queue, TasksKnown, OwnedKept, Closes
<1>2. /\ Len(rs) = Len(ss) /\ rs[id] = x
      /\ \A j \in 1..Len(ss) : j # id => rs[j] = ss[j]
  BY <1>1, Replaced
<1> HIDE DEF id, us, rs
<1>3. \A k \in 1..Len(us) : k + 1 \in 1..Len(ts)
  BY <1>0
<1>4. \A k \in 1..Len(ts) : k # 1 => k - 1 \in 1..Len(us) /\ us[k - 1] = ts[k] /\ k = (k - 1) + 1
  BY <1>0
<1>5. ss[id].st # "queued"
  <2> SUFFICES ASSUME ss[id].st = "queued" PROVE FALSE
    OBVIOUS
  <2>1. PICK p \in 1..Len(ts) :
          Opens(ts, p, id) /\ \A k \in 1..Len(ts) : Closes(ts, k, id) => p < k
    BY <1>1 DEF Queue, QueuedOpens
  <2> QED
    BY <1>1, <2>1
<1>6. \A k \in 1..Len(ts) : ts[k].op = "open" => ts[k].id # id
  BY <1>5 DEF Queue, OpensQueued
<1>7. TasksKnown(rs, us)
  BY <1>0, <1>2, <1>3 DEF Queue, TasksKnown
<1>8. OpensQueued(rs, us)
  <2> SUFFICES ASSUME NEW k \in 1..Len(us), us[k].op = "open"
               PROVE  rs[us[k].id].st = "queued"
    BY DEF OpensQueued
  <2>1. k + 1 \in 1..Len(ts) /\ us[k] = ts[k + 1]
    BY <1>0, <1>3
  <2>2. us[k].id \in 1..Len(ss) /\ ss[us[k].id].st = "queued"
    BY <2>1 DEF Queue, TasksKnown, OpensQueued
  <2> QED
    BY <1>2, <1>6, <2>1, <2>2
<1>9. QueuedOpens(rs, us)
  <2> SUFFICES ASSUME NEW i \in 1..Len(ss), rs[i].st = "queued"
               PROVE  \E p \in 1..Len(us) :
                        Opens(us, p, i) /\ \A k \in 1..Len(us) : Closes(us, k, i) => p < k
    BY <1>2 DEF QueuedOpens
  <2>1. i # id /\ ss[i].st = "queued"
    BY <1>2
  <2>2. PICK p \in 1..Len(ts) :
          Opens(ts, p, i) /\ \A k \in 1..Len(ts) : Closes(ts, k, i) => p < k
    BY <2>1 DEF Queue, QueuedOpens
  <2>3. p # 1 /\ p - 1 \in 1..Len(us) /\ Opens(us, p - 1, i)
    BY <1>1, <1>4, <2>1, <2>2 DEF Opens
  <2>4. ASSUME NEW k \in 1..Len(us), Closes(us, k, i) PROVE p - 1 < k
    <3>1. Closes(ts, k + 1, i) /\ k + 1 \in 1..Len(ts)
      BY <1>0, <1>3, <2>4 DEF Closes
    <3> QED
      BY <2>2, <3>1
  <2> QED
    BY <2>3, <2>4
<1>10. QueuedLast(rs)
  <2> SUFFICES ASSUME NEW i \in 1..Len(ss), NEW j \in 1..Len(ss), i < j, rs[i].st = "queued"
               PROVE  rs[j].st = "queued"
    BY <1>2 DEF QueuedLast
  <2>1. i # id /\ ss[i].st = "queued" /\ ss[j].st = "queued"
    BY <1>2 DEF Queue, QueuedLast
  <2> QED
    BY <1>2, <1>5, <2>1
<1>11. OpensInOrder(us)
  <2> SUFFICES ASSUME NEW p \in 1..Len(us), NEW q \in 1..Len(us),
                      p < q, us[p].op = "open", us[q].op = "open"
               PROVE  us[p].id < us[q].id
    BY DEF OpensInOrder
  <2>1. p + 1 \in 1..Len(ts) /\ q + 1 \in 1..Len(ts) /\ p + 1 < q + 1
    BY <1>3
  <2> QED
    BY <1>0, <2>1 DEF Queue, OpensInOrder
<1>12. ClosedFirst(rs, us)
  <2> SUFFICES ASSUME NEW p \in 1..Len(us), NEW i \in 1..Len(ss),
                      us[p].op = "open", i < us[p].id, rs[i].st # "closed"
               PROVE  \E k \in 1..Len(us) : k < p /\ Closes(us, k, i)
    BY <1>2 DEF ClosedFirst
  <2>1. /\ p + 1 \in 1..Len(ts) /\ ts[p + 1].op = "open" /\ i < ts[p + 1].id
        /\ ss[i].st # "closed" /\ i # id
    BY <1>0, <1>1, <1>2, <1>3
  <2>2. PICK k \in 1..Len(ts) : k < p + 1 /\ Closes(ts, k, i)
    BY <2>1 DEF Queue, ClosedFirst
  <2>3. k # 1
    BY <1>1, <2>1, <2>2 DEF Closes
  <2>4. k - 1 \in 1..Len(us) /\ Closes(us, k - 1, i) /\ k - 1 < p
    BY <1>4, <2>2, <2>3 DEF Closes
  <2> QED
    BY <2>4
<1>13. OthersClose(rs, us, O)
  <2> SUFFICES ASSUME NEW i \in 1..Len(ss), rs[i].st # "closed", i \notin O
               PROVE  \E k \in 1..Len(us) : Closes(us, k, i)
    BY <1>2 DEF OthersClose
  <2>1. ss[i].st # "closed" /\ i # id
    BY <1>1, <1>2
  <2>2. PICK k \in 1..Len(ts) : Closes(ts, k, i)
    BY <2>1 DEF Queue, OthersClose
  <2>3. k # 1
    BY <1>1, <2>1, <2>2 DEF Closes
  <2> QED
    BY <1>4, <2>2, <2>3 DEF Closes
<1>14. OwnedKept(us, O)
  BY <1>0, <1>3 DEF Queue, OwnedKept
<1>15. OneOpen(rs)
  BY <1>2 DEF Queue, OneOpen
<1> QED
  BY <1>1, <1>7, <1>8, <1>9, <1>10, <1>11, <1>12, <1>13, <1>14, <1>15 DEF Queue, id, us, rs
-----------------------------------------------------------------------------
(* The sessions and the handlers of the main thread.                       *)

Devices(s) ==
  /\ s.camera \in 0..Len(s.sessions) /\ s.opening \in 0..Len(s.sessions)
  /\ s.camera = 0 \/ s.opening = 0
  /\ s.camera # 0 => s.sessions[s.camera].st = "open"
  /\ s.opening # 0 => s.sessions[s.opening].enc = "none" /\ ~s.sessions[s.opening].live
  /\ \A id \in 1..Len(s.sessions) : s.sessions[id].enc # "none" => s.sessions[id].st = "open"
InQueue(s) == Queue(s.sessions, s.tasks, {s.camera, s.opening})
Capture(s) == s \in Client /\ Devices(s) /\ InQueue(s)

(* What a handler that only touches the capture leaves alone.              *)
Keeps(s, t) ==
  /\ t.channel = s.channel /\ t.pending = s.pending /\ t.on = s.on
  /\ t.starting = s.starting /\ t.preview = s.preview /\ t.restart = s.restart
  /\ t.stops = s.stops /\ t.watch = s.watch /\ t.wire = s.wire

LEMMA ClientFields ==
  ASSUME NEW s \in Client
  PROVE  /\ s.sessions \in Seq(Session) /\ s.tasks \in Seq(Tasks) /\ s.wire \in Seq(Requests)
         /\ s.channel \in Channels \cup {NoChannel} /\ s.pending \in Channels \cup {NoChannel}
         /\ s.on \in BOOLEAN /\ s.starting \in BOOLEAN /\ s.restart \in BOOLEAN
         /\ s.stops \in Nat /\ s.camera \in Nat /\ s.opening \in Nat
         /\ Len(s.sessions) \in Nat
<1>1. s.sessions \in Seq(Session)
  BY DEF Client
<1> QED
  BY <1>1, LenProperties DEF Client

LEMMA SameInQueue ==
  ASSUME NEW s, InQueue(s), NEW t, t.tasks = s.tasks, t.camera = s.camera,
         t.opening = s.opening, Len(t.sessions) = Len(s.sessions),
         \A i \in 1..Len(s.sessions) : t.sessions[i].st = s.sessions[i].st
  PROVE  InQueue(t)
<1> DEFINE O == {s.camera, s.opening}
<1>1. Queue(s.sessions, s.tasks, O) /\ {t.camera, t.opening} = O
  BY DEF InQueue
<1> HIDE DEF O
<1>2. Queue(t.sessions, s.tasks, O)
  BY <1>1, QueueSame
<1> QED
  BY <1>1, <1>2 DEF InQueue

(* The camera thread is told to close a session the main thread held.      *)
LEMMA CaptureLetGo ==
  ASSUME NEW s, Capture(s), NEW id \in {s.camera, s.opening}, id # 0,
         NEW t \in Client, t.camera = 0, t.opening = 0,
         t.tasks = Append(s.tasks, [op |-> "close", id |-> id]),
         Len(t.sessions) = Len(s.sessions),
         \A i \in 1..Len(s.sessions) :
           t.sessions[i].st = s.sessions[i].st /\ t.sessions[i].enc = s.sessions[i].enc
  PROVE  Capture(t)
<1>1. s.sessions \in Seq(Session) /\ s.tasks \in Seq(Tasks) /\ Len(s.sessions) \in Nat
  BY ClientFields DEF Capture
<1>2. id \in 1..Len(s.sessions) /\ {s.camera, s.opening} = {0, id}
  BY <1>1 DEF Capture, Devices
<1>3. Queue(s.sessions, t.tasks, {0})
  <2>1. Queue(s.sessions, s.tasks, {0, id})
    BY <1>2 DEF Capture, InQueue
  <2>2. {0} \subseteq {0, id} /\ {0, id} \ {id} \subseteq {0} /\ id \notin {0}
    OBVIOUS
  <2> QED
    BY <1>1, <1>2, <2>1, <2>2, QueueRelease
<1>4. InQueue(t)
  BY <1>3, QueueSame DEF InQueue
<1>5. Devices(t)
  BY <1>1 DEF Capture, Devices
<1> QED
  BY <1>4, <1>5 DEF Capture

LEMMA StopCaptureStops ==
  ASSUME NEW s, Capture(s)
  PROVE  /\ Capture(StopCapture(s)) /\ Keeps(s, StopCapture(s))
         /\ StopCapture(s).camera = 0 /\ StopCapture(s).opening = 0
         /\ Len(StopCapture(s).sessions) = Len(s.sessions)
<1> DEFINE t == StopCapture(s)
<1>1. /\ s \in Client /\ s.sessions \in Seq(Session) /\ s.tasks \in Seq(Tasks)
      /\ Len(s.sessions) \in Nat
  BY ClientFields DEF Capture
<1>2. CASE s.camera = 0 /\ s.opening = 0
  BY <1>2 DEF StopCapture, Keeps
<1>3. CASE s.opening # 0
  <2> DEFINE id == s.opening
             x == [s.sessions[id] EXCEPT !.cancelled = TRUE]
             ss == [s.sessions EXCEPT ![id] = x]
             ts == Append(s.tasks, [op |-> "close", id |-> id])
  <2>1. id \in 1..Len(s.sessions) /\ s.camera = 0
    BY <1>1, <1>3 DEF Capture, Devices
  <2>2. t = [s EXCEPT !.tasks = ts, !.sessions = ss, !.opening = 0]
    BY <1>1, <1>3, <2>1 DEF StopCapture, Post, Client
  <2>3. s.sessions[id] \in Session
    BY <1>1, <2>1, ElementOfSeq
  <2>4. x \in Session /\ x.st = s.sessions[id].st /\ x.enc = s.sessions[id].enc
    BY <2>3 DEF Session
  <2> HIDE DEF x
  <2>5. /\ ss \in Seq(Session) /\ Len(ss) = Len(s.sessions) /\ ss[id] = x
        /\ \A j \in 1..Len(s.sessions) : j # id => ss[j] = s.sessions[j]
    BY <1>1, <2>1, <2>4, Replaced
  <2> HIDE DEF ss
  <2>6. ts \in Seq(Tasks)
    BY <1>1, <2>1, Appended DEF Tasks
  <2>7. /\ t \in Client /\ t.camera = 0 /\ t.opening = 0 /\ t.tasks = ts /\ t.sessions = ss
        /\ Keeps(s, t)
    <3> HIDE DEF ts, t
    <3> QED
      BY <1>1, <2>1, <2>2, <2>5, <2>6 DEF Client, Keeps
  <2>8. \A i \in 1..Len(s.sessions) :
          ss[i].st = s.sessions[i].st /\ ss[i].enc = s.sessions[i].enc
    BY <2>4, <2>5
  <2> HIDE DEF t
  <2> QED
    BY <1>3, <2>5, <2>7, <2>8, CaptureLetGo DEF t
<1>4. CASE s.camera # 0
  <2> DEFINE id == s.camera
             x == [s.sessions[id] EXCEPT !.live = FALSE]
             ss == [s.sessions EXCEPT ![id] = x]
             ts == Append(s.tasks, [op |-> "close", id |-> id])
  <2>1. id \in 1..Len(s.sessions) /\ s.opening = 0
    BY <1>1, <1>4 DEF Capture, Devices
  <2>2. t = [s EXCEPT !.tasks = ts, !.sessions = ss, !.camera = 0]
    BY <1>1, <1>4, <2>1 DEF StopCapture, Post, Client
  <2>3. s.sessions[id] \in Session
    BY <1>1, <2>1, ElementOfSeq
  <2>4. x \in Session /\ x.st = s.sessions[id].st /\ x.enc = s.sessions[id].enc
    BY <2>3 DEF Session
  <2> HIDE DEF x
  <2>5. /\ ss \in Seq(Session) /\ Len(ss) = Len(s.sessions) /\ ss[id] = x
        /\ \A j \in 1..Len(s.sessions) : j # id => ss[j] = s.sessions[j]
    BY <1>1, <2>1, <2>4, Replaced
  <2> HIDE DEF ss
  <2>6. ts \in Seq(Tasks)
    BY <1>1, <2>1, Appended DEF Tasks
  <2>7. /\ t \in Client /\ t.camera = 0 /\ t.opening = 0 /\ t.tasks = ts /\ t.sessions = ss
        /\ Keeps(s, t)
    <3> HIDE DEF ts, t
    <3> QED
      BY <1>1, <2>1, <2>2, <2>5, <2>6 DEF Client, Keeps
  <2>8. \A i \in 1..Len(s.sessions) :
          ss[i].st = s.sessions[i].st /\ ss[i].enc = s.sessions[i].enc
    BY <2>4, <2>5
  <2> HIDE DEF t
  <2> QED
    BY <1>4, <2>5, <2>7, <2>8, CaptureLetGo DEF t
<1> QED
  BY <1>2, <1>3, <1>4

LEMMA StartCaptureStarts ==
  ASSUME NEW s, Capture(s), s.camera = 0, s.opening = 0, NEW r \in BOOLEAN
  PROVE  /\ Capture(StartCapture(s, r)) /\ Keeps(s, StartCapture(s, r))
         /\ StartCapture(s, r).camera = 0
         /\ Len(StartCapture(s, r).sessions) = Len(s.sessions) + 1
<1> DEFINE t == StartCapture(s, r)
           id == Len(s.sessions) + 1
           x == NewSession("queued", r)
           ss == Append(s.sessions, x)
           ts == Append(s.tasks, [op |-> "open", id |-> id])
<1>1. /\ s \in Client /\ s.sessions \in Seq(Session) /\ s.tasks \in Seq(Tasks)
      /\ Len(s.sessions) \in Nat
  BY ClientFields DEF Capture
<1>2. t = [s EXCEPT !.tasks = ts, !.sessions = ss, !.opening = id]
  BY <1>1 DEF StartCapture, Post, Client
<1>3. x \in Session /\ x.st = "queued" /\ x.enc = "none" /\ ~x.live
  BY DEF Session, NewSession
<1> HIDE DEF x
<1>4. /\ ss \in Seq(Session) /\ Len(ss) = id /\ ss[id] = x
      /\ \A i \in 1..Len(s.sessions) : ss[i] = s.sessions[i]
  BY <1>1, <1>3, Appended
<1>5. ts \in Seq(Tasks)
  BY <1>1, Appended DEF Tasks
<1>6. Queue(ss, ts, {0, id})
  BY <1>1, <1>3, QueueAcquire DEF Capture, InQueue
<1>7. id \in Nat /\ id # 0 /\ \A i \in 1..id : i = id \/ i \in 1..Len(s.sessions)
  BY <1>1
<1> HIDE DEF ss, ts, t, id
<1>8. /\ t \in Client /\ t.camera = 0 /\ t.opening = id /\ t.tasks = ts /\ t.sessions = ss
      /\ Keeps(s, t)
  BY <1>1, <1>2, <1>4, <1>5, <1>7 DEF Client, Keeps
<1>9. Devices(t)
  BY <1>3, <1>4, <1>7, <1>8 DEF Capture, Devices
<1> QED
  BY <1>4, <1>6, <1>8, <1>9 DEF Capture, InQueue, t, id

-----------------------------------------------------------------------------
(* What is under way on the control stream.  After(w, P, Q, base): the     *)
(* last message of w that decides belongs to Q and only messages of P      *)
(* follow it, or w has none but those and base holds.                      *)

After(w, P, Q, base) ==
  \E i \in 0..Len(w) :
    /\ \A k \in 1..Len(w) : i < k => w[k] \in P
    /\ IF i = 0 THEN base ELSE w[i] \in Q

LEMMA AfterPassing ==
  ASSUME NEW S, NEW w \in Seq(S), NEW e \in S, NEW P, NEW Q, NEW base \in BOOLEAN,
         After(w, P, Q, base), e \in P
  PROVE  After(Append(w, e), P, Q, base)
<1> DEFINE u == Append(w, e)
<1>1. /\ Len(w) \in Nat /\ Len(u) = Len(w) + 1 /\ u[Len(w) + 1] = e
      /\ \A k \in 1..Len(w) : u[k] = w[k]
  BY Appended
<1> HIDE DEF u
<1>2. PICK i \in 0..Len(w) : /\ \A k \in 1..Len(w) : i < k => w[k] \in P
                             /\ IF i = 0 THEN base ELSE w[i] \in Q
  BY DEF After
<1>3. \A k \in 1..Len(u) : i < k => u[k] \in P
  <2> SUFFICES ASSUME NEW k \in 1..Len(u), i < k PROVE u[k] \in P
    OBVIOUS
  <2>1. CASE k = Len(w) + 1
    BY <1>1, <2>1
  <2>2. CASE k \in 1..Len(w)
    BY <1>1, <1>2, <2>2
  <2> QED
    BY <1>1, <2>1, <2>2
<1>4. i \in 0..Len(u) /\ IF i = 0 THEN base ELSE u[i] \in Q
  BY <1>1, <1>2
<1> QED
  BY <1>3, <1>4 DEF After, u

LEMMA AfterSetting ==
  ASSUME NEW S, NEW w \in Seq(S), NEW e \in S, NEW P, NEW Q, NEW base, e \in Q
  PROVE  After(Append(w, e), P, Q, base)
<1> DEFINE u == Append(w, e)
<1>1. Len(w) \in Nat /\ Len(u) = Len(w) + 1 /\ u[Len(w) + 1] = e
  BY Appended
<1> HIDE DEF u
<1>2. Len(w) + 1 \in 0..Len(u) /\ \A k \in 1..Len(u) : ~(Len(w) + 1 < k)
  BY <1>1
<1>3. Len(w) + 1 # 0 /\ u[Len(w) + 1] \in Q
  BY <1>1
<1> QED
  BY <1>2, <1>3 DEF After, u

(* The head is handled: it was passing, decided, or something behind it    *)
(* decides.                                                                *)
LEMMA AfterHead ==
  ASSUME NEW S, NEW w \in Seq(S), w # <<>>, NEW P, NEW Q, NEW base, NEW next,
         After(w, P, Q, base),
         Head(w) \in P /\ base => next,
         Head(w) \in Q => next
  PROVE  After(Tail(w), P, Q, next)
<1> DEFINE u == Tail(w)
<1>1. /\ Len(w) \in Nat /\ Len(w) >= 1 /\ Len(u) = Len(w) - 1 /\ Head(w) = w[1]
      /\ \A k \in 1..Len(u) : u[k] = w[k + 1]
  BY Shortened
<1> HIDE DEF u
<1>2. PICK i \in 0..Len(w) : /\ \A k \in 1..Len(w) : i < k => w[k] \in P
                             /\ IF i = 0 THEN base ELSE w[i] \in Q
  BY DEF After
<1>3. CASE i \in {0, 1}
  <2>1. next
    BY <1>1, <1>2, <1>3
  <2>2. \A k \in 1..Len(u) : 0 < k => u[k] \in P
    BY <1>1, <1>2, <1>3
  <2>3. 0 \in 0..Len(u)
    BY <1>1
  <2> QED
    BY <2>1, <2>2, <2>3 DEF After, u
<1>4. CASE i > 1
  <2>1. i - 1 \in 0..Len(u) /\ i - 1 # 0
    BY <1>1, <1>4
  <2>2. u[i - 1] \in Q
    BY <1>1, <1>2, <1>4, <2>1
  <2>3. \A k \in 1..Len(u) : i - 1 < k => u[k] \in P
    BY <1>1, <1>2
  <2> QED
    BY <2>1, <2>2, <2>3 DEF After, u
<1> QED
  BY <1>3, <1>4

LEMMA AfterBase ==
  ASSUME NEW S, NEW w \in Seq(S), NEW P, NEW Q, NEW base, base,
         \A k \in 1..Len(w) : w[k] \in P
  PROVE  After(w, P, Q, base)
<1>1. 0 \in 0..Len(w)
  BY LenProperties
<1> QED
  BY <1>1 DEF After

(* How many messages of a type are under way.                              *)
Mark(x, t) == IF x.type = t THEN 1 ELSE 0
Marks(w, t) == [k \in 1..Len(w) |-> Mark(w[k], t)]
Count(w, t) == SumFunctionOnSet(Marks(w, t), 1..Len(w))

LEMMA CountNone == ASSUME NEW t PROVE Count(<<>>, t) = 0
<1>1. 1..Len(<<>>) = {}
  BY EmptySeq
<1> QED
  BY <1>1, SumEmpty DEF Count

LEMMA CountIsNat ==
  ASSUME NEW S, NEW w \in Seq(S), NEW t
  PROVE  /\ Count(w, t) \in Nat
         /\ \A k \in 1..Len(w) : w[k].type = t => Count(w, t) >= 1
<1> DEFINE f == [k \in 1..Len(w) |-> Mark(w[k], t)]
<1>1. IsFiniteSet(1..Len(w))
  BY LenProperties, Interval
<1>2. \A k \in 1..Len(w) : f[k] \in Nat /\ (w[k].type = t => f[k] = 1)
  BY DEF Mark
<1> HIDE DEF f
<1>3. /\ SumFunctionOnSet(f, 1..Len(w)) \in Nat
      /\ \A k \in 1..Len(w) : f[k] <= SumFunctionOnSet(f, 1..Len(w))
  BY <1>1, <1>2, SumIsNat
<1> DEFINE c == SumFunctionOnSet(f, 1..Len(w))
<1>4. c = Count(w, t)
  BY DEF Count, Marks, f
<1> HIDE DEF c
<1>5. c \in Nat /\ \A k \in 1..Len(w) : f[k] <= c
  BY <1>3 DEF c
<1> QED
  BY <1>2, <1>4, <1>5

LEMMA CountAppend ==
  ASSUME NEW S, NEW w \in Seq(S), NEW e \in S, NEW t
  PROVE  Count(Append(w, e), t) = Count(w, t) + Mark(e, t)
<1> DEFINE u == Append(w, e)
           f == [k \in 1..Len(w) |-> Mark(w[k], t)]
           g == [k \in 1..Len(u) |-> Mark(u[k], t)]
<1>1. /\ Len(w) \in Nat /\ Len(u) = Len(w) + 1 /\ u[Len(w) + 1] = e
      /\ \A k \in 1..Len(w) : u[k] = w[k]
  BY Appended
<1> HIDE DEF u
<1>2. \A i \in 1..Len(w) : f[i] \in Int /\ g[i] = f[i]
  BY <1>1 DEF Mark
<1>3. g[Len(w) + 1] = Mark(e, t) /\ Mark(e, t) \in Int
  BY <1>1 DEF Mark
<1> HIDE DEF f, g
<1>4. SumFunctionOnSet(g, 1..Len(w) + 1) = SumFunctionOnSet(f, 1..Len(w)) + g[Len(w) + 1]
  BY <1>1, <1>2, <1>3, SumAppend
<1> QED
  BY <1>1, <1>3, <1>4 DEF Count, Marks, f, g, u

LEMMA CountTail ==
  ASSUME NEW S, NEW w \in Seq(S), w # <<>>, NEW t
  PROVE  Count(Tail(w), t) = Count(w, t) - Mark(Head(w), t)
<1> DEFINE u == Tail(w)
           n == Len(u)
<1>1. /\ n \in Nat /\ Len(w) = n + 1 /\ Head(w) = w[1]
      /\ \A k \in 1..n : u[k] = w[k + 1]
  BY Shortened
<1>n. Len(u) = n
  OBVIOUS
<1> HIDE DEF u, n
<1>2. /\ \A i \in 1..n + 1 : Marks(w, t)[i] = Mark(w[i], t)
      /\ \A i \in 1..n : Marks(u, t)[i] = Mark(u[i], t)
  BY <1>1, <1>n DEF Marks
<1>3. 1 \in 1..n + 1 /\ Marks(w, t)[1] = Mark(Head(w), t)
  BY <1>1, <1>2
<1>4. \A i \in 1..n + 1 : Marks(w, t)[i] \in Int
  BY <1>2 DEF Mark
<1>5. ASSUME NEW i \in 1..n
      PROVE  Marks(u, t)[i] = IF i < 1 THEN Marks(w, t)[i] ELSE Marks(w, t)[i + 1]
  <2>1. i + 1 \in 1..n + 1 /\ ~(i < 1) /\ u[i] = w[i + 1]
    BY <1>1
  <2> QED
    BY <1>2, <2>1
<1>6. SumFunctionOnSet(Marks(u, t), 1..n) =
        SumFunctionOnSet(Marks(w, t), 1..n + 1) - Marks(w, t)[1]
  BY SMTT(30), <1>1, <1>3, <1>4, <1>5, SumDelete
<1>7. /\ Count(u, t) = SumFunctionOnSet(Marks(u, t), 1..n)
      /\ Count(w, t) = SumFunctionOnSet(Marks(w, t), 1..n + 1)
  BY <1>1, <1>n DEF Count
<1>8. Count(u, t) = Count(w, t) - Mark(Head(w), t)
  BY <1>3, <1>6, <1>7
<1> QED
  BY <1>8 DEF u

-----------------------------------------------------------------------------
(* The client s, the messages q on their way to it and the server's record *)
(* v of the user, put in relation.                                         *)

Start == {m \in Requests : m.type = "start"}
Ending == {m \in Requests : m.type \in {"stop", "leave"}}
Update(c) == {m \in Requests : m.type = "update" /\ m.arg = c}
NoStart == {m \in Requests : m.type # "start"}
Staying(ch) ==
  {m \in Requests : m.type = "update" \/ (m.type = "join" /\ m.arg # ch)}
Describing(c) ==
  {m \in Requests : m.type # "start" /\ (m.type = "update" => m.arg = c)}

(* What the client announced is published once the server has caught up,   *)
Told(s, v) ==
  Announced(s) =>
    After(s.wire, Staying(s.channel), Start, v.channel = s.channel => v.published)
(* is described by the session whose encoder runs,                         *)
Shown(s) ==
  IF s.camera # 0 /\ s.sessions[s.camera].enc = "running" THEN s.camera ELSE 0
Described(s, v) ==
  Shown(s) # 0 =>
    After(s.wire, Describing(Shown(s)), Update(Shown(s)),
          v.published => v.described = Shown(s))
(* and what it took back is ended; every stream the server ends, will end  *)
(* or was asked to start is one the client shows or waits for an echo of.  *)
Ended(s, v) == Announced(s) \/ After(s.wire, NoStart, Ending, ~v.published)
One(x) == IF x THEN 1 ELSE 0
Balanced(s, q, v) ==
  Count(q, "stopped") + One(v.published) + Count(s.wire, "start")
    <= s.stops + One(Announced(s))
NoneLeft(q) == \A k \in 1..Len(q) : q[k].type # "left"

(* The last three hold until a deletion, carried out or refused, takes the *)
(* user out of a channel (kept: none did).                                 *)
Stream(s, q, v, kept) ==
  /\ Told(s, v) /\ Described(s, v) /\ (v.published => v.channel # NoChannel)
  /\ kept => Ended(s, v) /\ Balanced(s, q, v) /\ NoneLeft(q)

View == [channel : Channels \cup {NoChannel}, published : BOOLEAN, described : Nat]

(* Steps of the client that leave the stream alone: what is shown may go   *)
(* away, and the channel may change while nothing is announced.            *)
LEMMA StreamSame ==
  ASSUME NEW s, NEW q, NEW v, NEW kept, Stream(s, q, v, kept),
         NEW t, t.wire = s.wire, t.stops = s.stops, Announced(t) = Announced(s),
         Announced(t) => t.channel = s.channel, Shown(t) \in {0, Shown(s)}
  PROVE  Stream(t, q, v, kept)
<1>1. Told(t, v)
  BY DEF Stream, Told
<1>2. Described(t, v)
  BY DEF Stream, Described
<1>3. Ended(s, v) => Ended(t, v)
  BY DEF Ended
<1>4. Balanced(s, q, v) => Balanced(t, q, v)
  BY DEF Balanced
<1> QED
  BY <1>1, <1>2, <1>3, <1>4 DEF Stream

(* The camera goes off and SCREEN_SHARE_STOP is sent.                      *)
LEMMA StreamStop ==
  ASSUME NEW s \in Client, NEW q \in Seq(Replies), NEW v \in View, NEW kept,
         Stream(s, q, v, kept), Announced(s),
         NEW t, t.wire = Append(s.wire, Msg("stop")), t.stops = s.stops + 1,
         ~Announced(t), Shown(t) = 0
  PROVE  Stream(t, q, v, kept)
<1>1. s.wire \in Seq(Requests) /\ s.stops \in Nat
  BY ClientFields
<1>2. Msg("stop") \in Requests /\ Msg("stop").type = "stop"
  BY DEF Msg, Requests
<1>3. Told(t, v) /\ Described(t, v)
  BY DEF Told, Described
<1>4. Ended(t, v)
  <2>1. Msg("stop") \in Ending
    BY <1>2 DEF Ending
  <2> QED
    BY <1>1, <1>2, <2>1, AfterSetting DEF Ended
<1>5. ASSUME Balanced(s, q, v) PROVE Balanced(t, q, v)
  <2>1. Count(t.wire, "start") = Count(s.wire, "start") + 0
    BY <1>1, <1>2, CountAppend DEF Mark
  <2>2. Count(s.wire, "start") \in Nat /\ Count(q, "stopped") \in Nat
    BY <1>1, CountIsNat
  <2> QED
    BY <1>1, <1>5, <2>1, <2>2 DEF Balanced, One
<1> QED
  BY <1>3, <1>4, <1>5 DEF Stream

(* The camera is announced: SCREEN_SHARE_START is sent.                    *)
LEMMA StreamStart ==
  ASSUME NEW s \in Client, NEW q \in Seq(Replies), NEW v \in View, NEW kept,
         Stream(s, q, v, kept), ~Announced(s),
         NEW t, t.wire = Append(s.wire, Msg("start")), t.stops = s.stops,
         Announced(t), Shown(t) = 0
  PROVE  Stream(t, q, v, kept)
<1>1. s.wire \in Seq(Requests) /\ s.stops \in Nat
  BY ClientFields
<1>2. Msg("start") \in Requests /\ Msg("start").type = "start"
  BY DEF Msg, Requests
<1>3. Described(t, v) /\ Ended(t, v)
  BY DEF Described, Ended
<1>4. Told(t, v)
  <2>1. Msg("start") \in Start
    BY <1>2 DEF Start
  <2> QED
    BY <1>1, <1>2, <2>1, AfterSetting DEF Told
<1>5. ASSUME Balanced(s, q, v) PROVE Balanced(t, q, v)
  <2>1. Count(t.wire, "start") = Count(s.wire, "start") + 1
    BY <1>1, <1>2, CountAppend DEF Mark
  <2>2. Count(s.wire, "start") \in Nat /\ Count(q, "stopped") \in Nat
    BY <1>1, CountIsNat
  <2> QED
    BY <1>1, <1>5, <2>1, <2>2 DEF Balanced, One
<1> QED
  BY <1>3, <1>4, <1>5 DEF Stream

(* Any other request: a join of another channel while the camera is        *)
(* announced, anything but a start while it is not, and only what is shown *)
(* is described.                                                           *)
LEMMA StreamAsks ==
  ASSUME NEW s \in Client, NEW q \in Seq(Replies), NEW v \in View, NEW kept,
         Stream(s, q, v, kept), NEW m \in NoStart,
         Announced(s) => m \in Staying(s.channel),
         NEW t, t.wire = Append(s.wire, m), t.stops = s.stops,
         Announced(t) = Announced(s), Announced(t) => t.channel = s.channel,
         \/ Shown(t) = 0
         \/ m \in Update(Shown(t))
         \/ Shown(t) = Shown(s) /\ m \in Describing(Shown(s))
  PROVE  Stream(t, q, v, kept)
<1>1. s.wire \in Seq(Requests) /\ s.stops \in Nat /\ m \in Requests /\ m.type # "start"
  BY ClientFields DEF NoStart
<1>v. v.published \in BOOLEAN
  BY DEF View
<1>2. Told(t, v)
  <2> SUFFICES ASSUME Announced(t) PROVE Told(t, v)
    BY DEF Told
  <2> DEFINE base == v.channel = s.channel => v.published
  <2>1. After(s.wire, Staying(s.channel), Start, base) /\ base \in BOOLEAN
    BY DEF Stream, Told
  <2>2. t.channel = s.channel /\ m \in Staying(s.channel)
    OBVIOUS
  <2> HIDE DEF base
  <2>3. After(t.wire, Staying(s.channel), Start, base)
    BY <1>1, <2>1, <2>2, AfterPassing
  <2> QED
    BY <2>2, <2>3 DEF Told, base
<1>3. Described(t, v)
  <2> DEFINE c == Shown(t)
             base == v.published => v.described = c
  <2>1. CASE m \in Update(c)
    BY <1>1, <2>1, AfterSetting DEF Described
  <2>2. CASE c = Shown(s) /\ c # 0 /\ m \in Describing(c)
    <3>1. After(s.wire, Describing(c), Update(c), base) /\ base \in BOOLEAN
      BY <2>2 DEF Stream, Described
    <3> HIDE DEF base, c
    <3>2. After(t.wire, Describing(c), Update(c), base)
      BY <1>1, <2>2, <3>1, AfterPassing
    <3> QED
      BY <3>2 DEF Described, base, c
  <2>3. CASE c = 0
    BY <2>3 DEF Described
  <2> QED
    BY <2>1, <2>2, <2>3
<1>4. ASSUME Ended(s, v) PROVE Ended(t, v)
  <2> SUFFICES ASSUME ~Announced(s) PROVE Ended(t, v)
    BY DEF Ended
  <2> DEFINE base == ~v.published
  <2>1. After(s.wire, NoStart, Ending, base) /\ base \in BOOLEAN
    BY <1>4 DEF Ended
  <2> HIDE DEF base
  <2>2. After(t.wire, NoStart, Ending, base)
    BY <1>1, <2>1, AfterPassing
  <2> QED
    BY <2>2 DEF Ended, base
<1>5. ASSUME Balanced(s, q, v) PROVE Balanced(t, q, v)
  <2>1. Count(t.wire, "start") = Count(s.wire, "start") + 0
    BY <1>1, CountAppend DEF Mark
  <2>2. Count(s.wire, "start") \in Nat /\ Count(q, "stopped") \in Nat
    BY <1>1, CountIsNat
  <2> QED
    BY <1>1, <1>5, <2>1, <2>2 DEF Balanced, One
<1> QED
  BY <1>2, <1>3, <1>4, <1>5 DEF Stream
(* The server handles the first request and changes its record as follows. *)
Serves(m, v, u) ==
  \/ m.type = "join" /\ (u = v \/ (u.channel = m.arg /\ ~u.published))
  \/ m.type = "leave" /\ ((u = v /\ v.channel = NoChannel) \/ ~u.published)
  \/ /\ m.type = "start"
     /\ IF v.channel = NoChannel THEN u = v ELSE u.channel = v.channel /\ u.published
  \/ m.type = "stop" /\ u.channel = v.channel /\ ~u.published
  \/ /\ m.type = "update" /\ u.channel = v.channel /\ u.published = v.published
     /\ v.published => u.described = m.arg

LEMMA StreamServed ==
  ASSUME NEW s \in Client, NEW q \in Seq(Replies), NEW v \in View, NEW kept,
         Stream(s, q, v, kept), Announced(s) => s.channel # NoChannel, s.wire # <<>>,
         NEW r \in Seq(Replies), NEW u \in View, Serves(Head(s.wire), v, u),
         Count(r, "stopped") + One(u.published)
           <= Count(q, "stopped") + One(v.published) + Mark(Head(s.wire), "start"),
         NoneLeft(q) => NoneLeft(r),
         NEW t, t.wire = Tail(s.wire), t.stops = s.stops, t.channel = s.channel,
         Announced(t) = Announced(s), Shown(t) = Shown(s)
  PROVE  Stream(t, r, u, kept)
<1> DEFINE m == Head(s.wire)
<1>1. /\ s.wire \in Seq(Requests) /\ s.stops \in Nat /\ m \in Requests
      /\ v.published \in BOOLEAN /\ u.published \in BOOLEAN
  BY ClientFields, Shortened DEF View
<1> HIDE DEF m
<1>2. Told(t, u)
  <2> SUFFICES ASSUME Announced(s) PROVE Told(t, u)
    BY DEF Told
  <2> DEFINE base == v.channel = s.channel => v.published
             next == u.channel = s.channel => u.published
  <2>1. After(s.wire, Staying(s.channel), Start, base)
    BY DEF Stream, Told
  <2>2. s.channel # NoChannel
    OBVIOUS
  <2>3. m \in Staying(s.channel) /\ base => next
    BY DEF Serves, Staying, m
  <2>4. m \in Start => next
    BY <2>2 DEF Serves, Start, m
  <2> HIDE DEF base, next
  <2>5. After(t.wire, Staying(s.channel), Start, next)
    BY <1>1, <2>1, <2>3, <2>4, AfterHead DEF m
  <2> QED
    BY <2>5 DEF Told, next
<1>3. Described(t, u)
  <2> SUFFICES ASSUME Shown(s) # 0 PROVE Described(t, u)
    BY DEF Described
  <2> DEFINE c == Shown(s)
             base == v.published => v.described = c
             next == u.published => u.described = c
  <2>1. After(s.wire, Describing(c), Update(c), base)
    BY DEF Stream, Described
  <2> HIDE DEF c
  <2>2. m \in Describing(c) /\ base => next
    BY DEF Serves, Describing, m
  <2>3. m \in Update(c) => next
    BY DEF Serves, Update, m
  <2> HIDE DEF base, next
  <2>4. After(t.wire, Describing(c), Update(c), next)
    BY <1>1, <2>1, <2>2, <2>3, AfterHead DEF m
  <2> QED
    BY <2>4 DEF Described, next, c
<1>4. u.published => u.channel # NoChannel
  BY DEF Serves, Stream
<1>5. ASSUME Ended(s, v) PROVE Ended(t, u)
  <2> SUFFICES ASSUME ~Announced(s) PROVE Ended(t, u)
    BY DEF Ended
  <2> DEFINE base == ~v.published
             next == ~u.published
  <2>1. After(s.wire, NoStart, Ending, base)
    BY <1>5 DEF Ended
  <2>2. m \in NoStart /\ base => next
    BY DEF Serves, NoStart, m
  <2>3. m \in Ending => next
    BY DEF Serves, Ending, Stream, m
  <2> HIDE DEF base, next
  <2>4. After(t.wire, NoStart, Ending, next)
    BY <1>1, <2>1, <2>2, <2>3, AfterHead DEF m
  <2> QED
    BY <2>4 DEF Ended, next
<1>6. ASSUME Balanced(s, q, v) PROVE Balanced(t, r, u)
  <2>1. Count(t.wire, "start") = Count(s.wire, "start") - Mark(m, "start")
    BY <1>1, CountTail DEF m
  <2>2. /\ Count(s.wire, "start") \in Nat /\ Count(q, "stopped") \in Nat
        /\ Count(r, "stopped") \in Nat /\ Mark(m, "start") \in {0, 1}
    BY <1>1, CountIsNat DEF Mark
  <2>3. One(v.published) \in {0, 1} /\ One(u.published) \in {0, 1} /\ One(Announced(s)) \in {0, 1}
    BY DEF One
  <2>4. Count(r, "stopped") + One(u.published)
           <= Count(q, "stopped") + One(v.published) + Mark(m, "start")
    BY DEF m
  <2>5. Count(q, "stopped") + One(v.published) + Count(s.wire, "start")
          <= s.stops + One(Announced(s))
    BY <1>6 DEF Balanced
  <2> DEFINE a == Count(r, "stopped")
             b == One(u.published)
             c == Count(s.wire, "start")
             d == Count(q, "stopped")
             e == One(v.published)
             k == Mark(m, "start")
             n == s.stops + One(Announced(s))
  <2>6. /\ a \in Nat /\ b \in Nat /\ c \in Nat /\ d \in Nat /\ e \in Nat /\ k \in Nat /\ n \in Nat
        /\ a + b <= d + e + k /\ d + e + c <= n
    BY <1>1, <2>2, <2>3, <2>4, <2>5
  <2>7. Balanced(t, r, u) <=> a + b + (c - k) <= n
    BY <2>1 DEF Balanced
  <2> HIDE DEF a, b, c, d, e, k, n
  <2>8. a + b + (c - k) <= n
    BY <2>6
  <2> QED
    BY <2>7, <2>8
<1> QED
  BY <1>2, <1>3, <1>4, <1>5, <1>6 DEF Stream

LEMMA NoneLeftBehind ==
  ASSUME NEW q \in Seq(Replies), q # <<>>, NoneLeft(q)
  PROVE  NoneLeft(Tail(q)) /\ Head(q).type # "left"
<1>1. /\ Len(q) \in Nat /\ Len(q) >= 1 /\ Len(Tail(q)) = Len(q) - 1 /\ Head(q) = q[1]
      /\ \A i \in 1..Len(q) - 1 : Tail(q)[i] = q[i + 1]
  BY Shortened
<1>2. \A i \in 1..Len(q) - 1 : i + 1 \in 1..Len(q)
  BY <1>1
<1>3. 1 \in 1..Len(q)
  BY <1>1
<1> QED
  BY <1>1, <1>2, <1>3 DEF NoneLeft

(* A message other than SCREEN_SHARE_STOPPED has arrived.                  *)
LEMMA StreamHeard ==
  ASSUME NEW s \in Client, NEW q \in Seq(Replies), NEW v \in View, NEW kept,
         Stream(s, q, v, kept), q # <<>>, Head(q).type # "stopped"
  PROVE  Stream(s, Tail(q), v, kept)
<1>1. Count(Tail(q), "stopped") = Count(q, "stopped") - 0
  BY CountTail DEF Mark
<1>2. Count(q, "stopped") \in Nat
  BY CountIsNat
<1>3. Balanced(s, q, v) => Balanced(s, Tail(q), v)
  BY <1>1, <1>2 DEF Balanced
<1> QED
  BY <1>3, NoneLeftBehind DEF Stream

(* SCREEN_SHARE_STOPPED has: the echo of a stop, or the end of the stream  *)
(* the client shows.                                                       *)
LEMMA StreamEcho ==
  ASSUME NEW s \in Client, NEW q \in Seq(Replies), NEW v \in View, NEW kept,
         Stream(s, q, v, kept), q # <<>>, Head(q).type = "stopped",
         NEW t, t.wire = s.wire, t.channel = s.channel, Announced(t) = Announced(s),
         Shown(t) = Shown(s),
         \/ s.stops > 0 /\ t.stops = s.stops - 1
         \/ s.stops = 0 /\ t.stops = 0 /\ ~Announced(s)
  PROVE  Stream(t, Tail(q), v, kept)
<1>1. s.wire \in Seq(Requests) /\ s.stops \in Nat
  BY ClientFields
<1>2. Told(t, v) /\ Described(t, v) /\ (Ended(s, v) => Ended(t, v))
  BY DEF Stream, Told, Described, Ended
<1>3. ASSUME Balanced(s, q, v) PROVE Balanced(t, Tail(q), v)
  <2>1. Count(Tail(q), "stopped") = Count(q, "stopped") - 1
    BY CountTail DEF Mark
  <2>2. /\ Count(q, "stopped") \in Nat /\ Count(Tail(q), "stopped") \in Nat
        /\ Count(s.wire, "start") \in Nat
    BY <1>1, CountIsNat, Shortened
  <2>3. One(v.published) \in {0, 1} /\ One(Announced(s)) = IF Announced(s) THEN 1 ELSE 0
    BY DEF One
  <2>4. Balanced(s, q, v) /\ t.wire = s.wire /\ Announced(t) = Announced(s)
    BY <1>3
  <2> DEFINE a == Count(q, "stopped")
             b == Count(s.wire, "start")
             x == One(v.published)
             y == One(Announced(s))
  <2>5. /\ a + x + b <= s.stops + y
        /\ Balanced(t, Tail(q), v) <=> a - 1 + x + b <= t.stops + y
    BY <2>1, <2>4 DEF Balanced
  <2>7. a \in Nat /\ b \in Nat /\ x \in {0, 1} /\ y \in {0, 1} /\ t.stops \in Nat
    BY <1>1, <2>2, <2>3
  <2> HIDE DEF a, b, x, y
  <2>8. CASE t.stops = s.stops - 1
    BY <1>1, <2>5, <2>7, <2>8
  <2>9. CASE s.stops = 0 /\ t.stops = 0
    BY <1>1, <2>5, <2>7, <2>9
  <2> QED
    BY <2>8, <2>9
<1> QED
  BY <1>2, <1>3, NoneLeftBehind DEF Stream

LEMMA StreamTakenAway ==
  ASSUME NEW s \in Client, NEW q \in Seq(Replies), NEW v \in View, NEW kept,
         Stream(s, q, v, kept), q # <<>>, Head(q).type = "stopped", s.stops = 0,
         NEW t, t.wire = s.wire, t.stops = 0, ~Announced(t), Shown(t) = 0
  PROVE  Stream(t, Tail(q), v, kept)
<1>1. s.wire \in Seq(Requests)
  BY ClientFields
<1>2. Told(t, v) /\ Described(t, v)
  BY DEF Told, Described
<1>3. ASSUME Balanced(s, q, v) PROVE Balanced(t, Tail(q), v) /\ Ended(t, v)
  <2>1. Count(Tail(q), "stopped") = Count(q, "stopped") - 1
    BY CountTail DEF Mark
  <2>2. /\ Count(q, "stopped") \in Nat /\ Count(Tail(q), "stopped") \in Nat
        /\ Count(s.wire, "start") \in Nat
    BY <1>1, CountIsNat, Shortened
  <2>3. One(v.published) \in {0, 1} /\ One(Announced(s)) \in {0, 1} /\ One(Announced(t)) = 0
    BY DEF One
  <2>4. One(v.published) = 0 /\ Count(s.wire, "start") = 0 /\ Count(Tail(q), "stopped") = 0
    BY <1>3, <2>1, <2>2, <2>3 DEF Balanced
  <2>5. ~v.published
    BY <2>4 DEF One
  <2>6. \A k \in 1..Len(t.wire) : t.wire[k] \in NoStart
    <3>1. \A k \in 1..Len(s.wire) : s.wire[k] \in Requests
      BY <1>1, ElementOfSeq
    <3>2. \A k \in 1..Len(s.wire) : s.wire[k].type # "start"
      BY <1>1, <2>4, CountIsNat
    <3> QED
      BY <3>1, <3>2 DEF NoStart
  <2>7. Ended(t, v)
    BY <1>1, <2>5, <2>6, AfterBase DEF Ended
  <2>8. Balanced(t, Tail(q), v)
    BY <2>3, <2>4 DEF Balanced
  <2> QED
    BY <2>7, <2>8
<1> QED
  BY <1>2, <1>3, NoneLeftBehind DEF Stream
-----------------------------------------------------------------------------
(* The handlers keep the client in order.  Every click pays for at most    *)
(* one session: the one it opens or the one it asks to reopen later.       *)

Flags(s) ==
  /\ s.starting => s.on
  /\ s.restart => s.starting
  /\ ~s.on => s.camera = 0 /\ s.opening = 0
  /\ s.on => s.channel # NoChannel
Args(s) ==
  \A k \in 1..Len(s.wire) : s.wire[k].type = "update" => s.wire[k].arg \in 1..Len(s.sessions)
Budget(s, n) == Len(s.sessions) + One(s.restart) <= n
Good(s, n) == Capture(s) /\ Flags(s) /\ Args(s) /\ Budget(s, n)
Fine(s, n, q, v, kept) ==
  /\ Good(s, n) /\ n \in Nat /\ q \in Seq(Replies) /\ v \in View
  /\ Stream(s, q, v, kept)

LEMMA CaptureSame ==
  ASSUME NEW s, Capture(s), NEW t \in Client, t.sessions = s.sessions, t.tasks = s.tasks,
         t.camera = s.camera, t.opening = s.opening
  PROVE  Capture(t)
BY DEF Capture, Devices, InQueue

LEMMA ArgsKept ==
  ASSUME NEW s \in Client, Args(s), NEW t \in Client, Len(t.sessions) >= Len(s.sessions),
         \/ t.wire = s.wire
         \/ \E m \in Requests :
               t.wire = Append(s.wire, m) /\ (m.type = "update" => m.arg \in 1..Len(t.sessions))
  PROVE  Args(t)
<1>1. s.wire \in Seq(Requests) /\ Len(s.sessions) \in Nat /\ Len(t.sessions) \in Nat
  BY ClientFields
<1>2. CASE t.wire = s.wire
  BY <1>1, <1>2 DEF Args
<1>3. CASE t.wire # s.wire
  <2>1. PICK m \in Requests :
          t.wire = Append(s.wire, m) /\ (m.type = "update" => m.arg \in 1..Len(t.sessions))
    BY <1>3
  <2>2. /\ Len(s.wire) \in Nat /\ Len(t.wire) = Len(s.wire) + 1
        /\ t.wire[Len(s.wire) + 1] = m
        /\ \A k \in 1..Len(s.wire) : t.wire[k] = s.wire[k]
    BY <1>1, <2>1, Appended
  <2>3. \A k \in 1..Len(t.wire) : k \in 1..Len(s.wire) \/ k = Len(s.wire) + 1
    BY <2>2
  <2>4. ASSUME NEW k \in 1..Len(t.wire), t.wire[k].type = "update"
        PROVE  t.wire[k].arg \in 1..Len(t.sessions)
    <3>1. CASE k \in 1..Len(s.wire)
      <4>1. t.wire[k].arg \in 1..Len(s.sessions)
        BY <2>2, <2>4, <3>1 DEF Args
      <4> QED
        BY <1>1, <4>1
    <3>2. CASE k = Len(s.wire) + 1
      BY <2>1, <2>2, <2>4, <3>2
    <3> QED
      BY <2>3, <3>1, <3>2
  <2> QED
    BY <2>4 DEF Args
<1> QED
  BY <1>2, <1>3

(* The camera is off, and nothing but the capture has changed.             *)
WentOff(s, t) ==
  /\ Capture(t) /\ t.camera = 0 /\ t.opening = 0
  /\ ~t.on /\ ~t.starting /\ ~t.restart
  /\ t.channel = s.channel /\ t.pending = s.pending
  /\ Len(t.sessions) = Len(s.sessions)

LEMMA TurnOffTurnsOff ==
  ASSUME NEW s, Capture(s), NEW tell \in BOOLEAN
  PROVE  /\ WentOff(s, TurnOff(s, tell))
         /\ IF tell /\ Announced(s) /\ s.channel # NoChannel
            THEN /\ TurnOff(s, tell).wire = Append(s.wire, Msg("stop"))
                 /\ TurnOff(s, tell).stops = s.stops + 1
            ELSE TurnOff(s, tell).wire = s.wire /\ TurnOff(s, tell).stops = s.stops
<1> DEFINE r == Reset(s)
           c == StopCapture(r)
           off == [c EXCEPT !.on = FALSE, !.watch = FALSE]
           told == [Send(off, Msg("stop")) EXCEPT !.stops = @ + 1]
<1>1. s \in Client
  BY DEF Capture
<1>2. /\ r \in Client /\ r.sessions = s.sessions /\ r.tasks = s.tasks
      /\ r.camera = s.camera /\ r.opening = s.opening /\ ~r.starting /\ ~r.restart
      /\ r.channel = s.channel /\ r.pending = s.pending /\ r.wire = s.wire /\ r.stops = s.stops
  BY <1>1 DEF Client, Reset
<1> HIDE DEF r
<1>3. Capture(r)
  BY <1>2, CaptureSame
<1>4. /\ Capture(c) /\ Keeps(r, c) /\ c.camera = 0 /\ c.opening = 0
      /\ Len(c.sessions) = Len(s.sessions) /\ c \in Client
  BY <1>2, <1>3, StopCaptureStops DEF Capture
<1> HIDE DEF c
<1>5. /\ off \in Client /\ off.sessions = c.sessions /\ off.tasks = c.tasks
      /\ off.camera = 0 /\ off.opening = 0 /\ ~off.on /\ ~off.starting /\ ~off.restart
      /\ off.channel = s.channel /\ off.pending = s.pending
      /\ off.wire = s.wire /\ off.stops = s.stops
  BY <1>2, <1>4 DEF Client, Keeps
<1> HIDE DEF off
<1>6. WentOff(s, off)
  BY <1>4, <1>5, CaptureSame DEF WentOff
<1>7. Append(s.wire, Msg("stop")) \in Seq(Requests)
  BY <1>1, ClientFields, AppendProperties DEF Requests, Msg
<1>8. /\ told \in Client /\ told.sessions = off.sessions /\ told.tasks = off.tasks
      /\ told.camera = 0 /\ told.opening = 0 /\ ~told.on /\ ~told.starting /\ ~told.restart
      /\ told.channel = s.channel /\ told.pending = s.pending
      /\ told.wire = Append(s.wire, Msg("stop")) /\ told.stops = s.stops + 1
  <2>1. told = [off EXCEPT !.wire = Append(s.wire, Msg("stop")), !.stops = s.stops + 1]
    BY <1>5 DEF Client, Send
  <2>2. s.stops + 1 \in Nat
    BY <1>1, ClientFields
  <2> HIDE DEF told
  <2> QED
    BY <1>5, <1>7, <2>1, <2>2 DEF Client
<1> HIDE DEF told
<1>9. WentOff(s, told)
  BY <1>5, <1>6, <1>8, CaptureSame DEF WentOff
<1>10. TurnOff(s, tell) =
         IF tell /\ Announced(s) /\ s.channel # NoChannel THEN told ELSE off
  BY DEF TurnOff, told, off, c, r
<1> QED
  BY <1>5, <1>6, <1>8, <1>9, <1>10

LEMMA FineTurnOff ==
  ASSUME NEW s, NEW n, NEW q, NEW v, NEW kept, Fine(s, n, q, v, kept)
  PROVE  Fine(TurnOff(s, TRUE), n, q, v, kept) /\ WentOff(s, TurnOff(s, TRUE))
<1> DEFINE t == TurnOff(s, TRUE)
<1>1. Capture(s) /\ s \in Client /\ Flags(s)
  BY DEF Fine, Good, Capture
<1>2. WentOff(s, t) /\ t \in Client
  BY <1>1, TurnOffTurnsOff DEF WentOff, Capture
<1>3. IF Announced(s) THEN t.wire = Append(s.wire, Msg("stop")) /\ t.stops = s.stops + 1
      ELSE t.wire = s.wire /\ t.stops = s.stops
  BY <1>1, TurnOffTurnsOff DEF Flags, Announced
<1> HIDE DEF t
<1>4. ~Announced(t) /\ Shown(t) = 0
  BY <1>2 DEF WentOff, Announced, Shown
<1>5. Stream(t, q, v, kept)
  <2>1. CASE Announced(s)
    BY <1>1, <1>3, <1>4, <2>1, StreamStop DEF Fine
  <2>2. CASE ~Announced(s)
    <3>1. Announced(t) = Announced(s)
      BY <1>4, <2>2 DEF Announced
    <3> QED
      BY <1>3, <1>4, <2>2, <3>1, StreamSame DEF Fine
  <2> QED
    BY <2>1, <2>2
<1>6. Args(t)
  <2>1. Msg("stop") \in Requests /\ Msg("stop").type # "update"
    BY DEF Msg, Requests
  <2>2. Len(t.sessions) = Len(s.sessions) /\ Len(s.sessions) \in Nat
    BY <1>1, <1>2, ClientFields DEF WentOff
  <2>3. \/ t.wire = s.wire
        \/ \E m \in Requests :
               t.wire = Append(s.wire, m) /\ (m.type = "update" => m.arg \in 1..Len(t.sessions))
    BY <1>3, <2>1
  <2> QED
    BY <1>1, <1>2, <2>2, <2>3, ArgsKept DEF Fine, Good
<1>7. Flags(t)
  BY <1>2 DEF WentOff, Flags
<1>8. Budget(t, n)
  <2>1. Len(s.sessions) \in Nat
    BY <1>1, ClientFields
  <2>2. Len(s.sessions) + One(s.restart) <= n /\ n \in Nat /\ One(s.restart) \in {0, 1}
    BY DEF Fine, Good, Budget, One
  <2>3. One(t.restart) = 0 /\ Len(t.sessions) = Len(s.sessions)
    BY <1>2 DEF WentOff, One
  <2> QED
    BY <2>1, <2>2, <2>3 DEF Budget
<1> QED
  BY <1>2, <1>5, <1>6, <1>7, <1>8 DEF Fine, Good, WentOff, t
(* Handlers that touch neither the capture nor the stream.                 *)
LEMMA FineSame ==
  ASSUME NEW s, NEW n, NEW q, NEW v, NEW kept, Fine(s, n, q, v, kept),
         NEW t \in Client, t.sessions = s.sessions, t.tasks = s.tasks,
         t.camera = s.camera, t.opening = s.opening, t.wire = s.wire, t.stops = s.stops,
         Announced(t) = Announced(s), Announced(t) => t.channel = s.channel,
         NEW k \in Nat, Flags(t), Budget(t, k)
  PROVE  Fine(t, k, q, v, kept)
<1>1. s \in Client /\ Capture(s) /\ Args(s) /\ Len(s.sessions) \in Nat
  BY ClientFields DEF Fine, Good, Capture
<1>2. Capture(t)
  BY <1>1, CaptureSame
<1>3. Args(t)
  BY <1>1 DEF Args
<1>4. Shown(t) = Shown(s)
  BY DEF Shown
<1>5. Stream(t, q, v, kept)
  BY <1>4, StreamSame DEF Fine
<1> QED
  BY <1>2, <1>3, <1>5 DEF Fine, Good

(* ... and those that ask the server for something else than a start.      *)
LEMMA FineAsks ==
  ASSUME NEW s, NEW n, NEW q, NEW v, NEW kept, Fine(s, n, q, v, kept),
         NEW m \in NoStart, m.type # "update", Announced(s) => m \in Staying(s.channel),
         NEW t \in Client, t.sessions = s.sessions, t.tasks = s.tasks,
         t.camera = s.camera, t.opening = s.opening,
         t.wire = Append(s.wire, m), t.stops = s.stops,
         Announced(t) = Announced(s), t.channel = s.channel,
         NEW k \in Nat, Flags(t), Budget(t, k)
  PROVE  Fine(t, k, q, v, kept)
<1>1. /\ s \in Client /\ Capture(s) /\ Args(s) /\ Len(s.sessions) \in Nat
      /\ m \in Requests /\ m.type # "start"
  BY ClientFields DEF Fine, Good, Capture, NoStart
<1>2. Capture(t)
  BY <1>1, CaptureSame
<1>3. Args(t)
  BY <1>1, ArgsKept
<1>4. Shown(t) = Shown(s)
  BY DEF Shown
<1>5. m \in Describing(Shown(s))
  BY <1>1 DEF Describing
<1>6. Stream(t, q, v, kept)
  BY <1>1, <1>4, <1>5, StreamAsks DEF Fine
<1> QED
  BY <1>2, <1>3, <1>6 DEF Fine, Good

LEMMA FineStopCapture ==
  ASSUME NEW s, NEW n, NEW q, NEW v, NEW kept, Fine(s, n, q, v, kept)
  PROVE  /\ Fine(StopCapture(s), n, q, v, kept) /\ Keeps(s, StopCapture(s))
         /\ StopCapture(s).camera = 0 /\ StopCapture(s).opening = 0
         /\ Len(StopCapture(s).sessions) = Len(s.sessions)
<1> DEFINE t == StopCapture(s)
<1>1. s \in Client /\ Capture(s) /\ Flags(s) /\ Args(s) /\ Budget(s, n)
  BY DEF Fine, Good, Capture
<1>2. /\ Capture(t) /\ Keeps(s, t) /\ t.camera = 0 /\ t.opening = 0
      /\ Len(t.sessions) = Len(s.sessions) /\ t \in Client
  BY <1>1, StopCaptureStops DEF Capture
<1> HIDE DEF t
<1>3. Flags(t) /\ Budget(t, n)
  BY <1>1, <1>2 DEF Flags, Budget, Keeps
<1>4. Args(t)
  BY <1>1, <1>2 DEF Args, Keeps
<1>5. Shown(t) = 0 /\ Announced(t) = Announced(s)
  BY <1>2 DEF Shown, Announced, Keeps
<1>6. Stream(t, q, v, kept)
  BY <1>2, <1>5, StreamSame DEF Fine, Keeps
<1> QED
  BY <1>2, <1>3, <1>4, <1>6 DEF Fine, Good, t

LEMMA FineStartCapture ==
  ASSUME NEW s, NEW n, NEW q, NEW v, NEW kept, Fine(s, n, q, v, kept),
         s.camera = 0, s.opening = 0, s.on, NEW r \in BOOLEAN,
         Len(s.sessions) + 1 + One(s.restart) <= n
  PROVE  /\ Fine(StartCapture(s, r), n, q, v, kept)
         /\ Len(StartCapture(s, r).sessions) = Len(s.sessions) + 1
<1> DEFINE t == StartCapture(s, r)
<1>1. /\ s \in Client /\ Capture(s) /\ Flags(s) /\ Args(s)
      /\ Len(s.sessions) \in Nat /\ n \in Nat
  BY ClientFields DEF Fine, Good, Capture
<1>2. /\ Capture(t) /\ Keeps(s, t) /\ t.camera = 0
      /\ Len(t.sessions) = Len(s.sessions) + 1 /\ t \in Client
  BY <1>1, StartCaptureStarts DEF Capture
<1> HIDE DEF t
<1>3. Flags(t)
  BY <1>1, <1>2 DEF Flags, Keeps
<1>4. Budget(t, n)
  BY <1>1, <1>2 DEF Budget, Keeps
<1>5. Args(t)
  BY <1>1, <1>2, ArgsKept DEF Keeps
<1>6. Shown(t) = 0 /\ Announced(t) = Announced(s)
  BY <1>2 DEF Shown, Announced, Keeps
<1>7. Stream(t, q, v, kept)
  BY <1>2, <1>6, StreamSame DEF Fine, Keeps
<1> QED
  BY <1>2, <1>3, <1>4, <1>5, <1>7 DEF Fine, Good, t

LEMMA FineStopCamera ==
  ASSUME NEW s, NEW n, NEW q, NEW v, NEW kept, Fine(s, n, q, v, kept)
  PROVE  Fine(StopCamera(s, TRUE), n, q, v, kept) /\ WentOff(s, StopCamera(s, TRUE))
<1>1. CASE s.on
  BY <1>1, FineTurnOff DEF StopCamera
<1>2. CASE ~s.on
  <2> DEFINE t == Reset(s)
  <2>1. /\ s \in Client /\ Flags(s) /\ Budget(s, n) /\ n \in Nat /\ Capture(s)
        /\ Len(s.sessions) \in Nat
    BY ClientFields DEF Fine, Good, Capture
  <2>2. /\ t \in Client /\ t.sessions = s.sessions /\ t.tasks = s.tasks
        /\ t.camera = s.camera /\ t.opening = s.opening /\ ~t.starting /\ ~t.restart
        /\ t.channel = s.channel /\ t.pending = s.pending /\ t.wire = s.wire
        /\ t.stops = s.stops /\ t.on = s.on
    BY <2>1 DEF Client, Reset
  <2> HIDE DEF t
  <2>3. Flags(t) /\ ~Announced(t) /\ Announced(t) = Announced(s)
    BY <1>2, <2>1, <2>2 DEF Flags, Announced
  <2>4. Budget(t, n)
    <3>1. One(t.restart) = 0 /\ One(s.restart) \in {0, 1}
      BY <2>2 DEF One
    <3> QED
      BY <2>1, <2>2, <3>1 DEF Budget
  <2>5. Fine(t, n, q, v, kept)
    BY <2>1, <2>2, <2>3, <2>4, FineSame
  <2>6. WentOff(s, t)
    BY <1>2, <2>1, <2>2, <2>5 DEF WentOff, Flags, Fine, Good
  <2> QED
    BY <1>2, <2>5, <2>6 DEF StopCamera, t
<1> QED
  BY <1>1, <1>2

LEMMA FineRestartCapture ==
  ASSUME NEW s, NEW n, NEW q, NEW v, NEW kept, Fine(s, n, q, v, kept),
         ~s.restart, Len(s.sessions) + 1 <= n, NEW ok \in BOOLEAN
  PROVE  /\ Fine(RestartCapture(s, ok), n, q, v, kept)
         /\ Len(RestartCapture(s, ok).sessions) >= Len(s.sessions)
<1> DEFINE c == StopCapture(s)
<1>1. s \in Client /\ Flags(s) /\ Len(s.sessions) \in Nat
  BY ClientFields DEF Fine, Good, Capture
<1>2. CASE s.camera = 0 /\ ~(s.opening # 0 /\ s.sessions[s.opening].restart)
  BY <1>1, <1>2 DEF RestartCapture
<1>3. CASE ~(s.camera = 0 /\ ~(s.opening # 0 /\ s.sessions[s.opening].restart))
  <2>1. s.on
    BY <1>1, <1>3 DEF Flags
  <2>2. /\ Fine(c, n, q, v, kept) /\ Keeps(s, c) /\ c.camera = 0 /\ c.opening = 0
        /\ Len(c.sessions) = Len(s.sessions)
    BY FineStopCapture
  <2>3. RestartCapture(s, ok) = IF ok THEN StartCapture(c, TRUE) ELSE TurnOff(c, TRUE)
    BY <1>3 DEF RestartCapture, CameraFailed
  <2> HIDE DEF c
  <2>4. c.on /\ One(c.restart) = 0
    BY <2>1, <2>2 DEF Keeps, One
  <2>5. Len(c.sessions) + 1 + One(c.restart) <= n
    BY <1>1, <2>2, <2>4
  <2>6. /\ Fine(StartCapture(c, TRUE), n, q, v, kept)
        /\ Len(StartCapture(c, TRUE).sessions) = Len(c.sessions) + 1
    BY <2>2, <2>4, <2>5, FineStartCapture
  <2>7. Fine(TurnOff(c, TRUE), n, q, v, kept) /\ WentOff(c, TurnOff(c, TRUE))
    BY <2>2, FineTurnOff
  <2> DEFINE z == RestartCapture(s, ok)
             x == StartCapture(c, TRUE)
             y == TurnOff(c, TRUE)
  <2>8. z = x \/ z = y
    BY <2>3
  <2>9. Len(x.sessions) = Len(c.sessions) + 1 /\ Len(y.sessions) = Len(c.sessions)
    BY <2>6, <2>7 DEF WentOff
  <2>10. Fine(x, n, q, v, kept) /\ Fine(y, n, q, v, kept)
    BY <2>6, <2>7
  <2> HIDE DEF x, y, z
  <2>11. Fine(z, n, q, v, kept) /\ Len(z.sessions) >= Len(s.sessions)
    BY <1>1, <2>2, <2>8, <2>9, <2>10
  <2> QED
    BY <2>11 DEF z
<1> QED
  BY <1>2, <1>3

LEMMA FineRestartCamera ==
  ASSUME NEW s, NEW n, NEW q, NEW v, NEW kept, Fine(s, n, q, v, kept),
         Len(s.sessions) + 1 <= n, NEW ok \in BOOLEAN
  PROVE  /\ Fine(RestartCamera(s, ok), n, q, v, kept)
         /\ Len(RestartCamera(s, ok).sessions) >= Len(s.sessions)
<1>1. s \in Client /\ Flags(s) /\ Len(s.sessions) \in Nat /\ n \in Nat
  BY ClientFields DEF Fine, Good, Capture
<1>2. CASE ~s.on
  BY <1>1, <1>2 DEF RestartCamera
<1>3. CASE s.on /\ s.starting
  <2> DEFINE t == [s EXCEPT !.restart = TRUE]
  <2>1. /\ t \in Client /\ t.sessions = s.sessions /\ t.tasks = s.tasks
        /\ t.camera = s.camera /\ t.opening = s.opening /\ t.starting = s.starting
        /\ t.channel = s.channel /\ t.wire = s.wire /\ t.stops = s.stops /\ t.on = s.on
        /\ t.restart = TRUE
    BY <1>1 DEF Client
  <2> HIDE DEF t
  <2>2. Flags(t) /\ Announced(t) = Announced(s) /\ One(t.restart) = 1
    BY <1>1, <1>3, <2>1 DEF Flags, Announced, One
  <2>3. Budget(t, n)
    BY <2>1, <2>2 DEF Budget
  <2>4. Fine(t, n, q, v, kept)
    BY <1>1, <2>1, <2>2, <2>3, FineSame
  <2>5. RestartCamera(s, ok) = t
    BY <1>3 DEF RestartCamera, t
  <2> QED
    BY <1>1, <2>1, <2>4, <2>5
<1>4. CASE s.on /\ ~s.starting
  <2>1. ~s.restart
    BY <1>1, <1>4 DEF Flags
  <2>2. RestartCamera(s, ok) = RestartCapture(s, ok)
    BY <1>4 DEF RestartCamera
  <2> QED
    BY <2>1, <2>2, FineRestartCapture
<1> QED
  BY <1>2, <1>3, <1>4

LEMMA FineCameraStarted ==
  ASSUME NEW s, NEW n, NEW q, NEW v, NEW kept, Fine(s, n, q, v, kept),
         Shown(s) = 0, NEW ok \in BOOLEAN
  PROVE  /\ Fine(CameraStarted(s, ok), n, q, v, kept)
         /\ Len(CameraStarted(s, ok).sessions) >= Len(s.sessions)
<1>1. /\ s \in Client /\ Flags(s) /\ Capture(s) /\ Args(s) /\ Budget(s, n)
      /\ Len(s.sessions) \in Nat /\ n \in Nat
  BY ClientFields DEF Fine, Good, Capture
<1>2. CASE ~s.starting
  BY <1>1, <1>2 DEF CameraStarted
<1>3. CASE s.starting
  <2> DEFINE t == [Send([s EXCEPT !.starting = FALSE], Msg("start"))
                     EXCEPT !.preview = TRUE, !.restart = FALSE]
  <2>1. s.on /\ s.channel # NoChannel
    BY <1>1, <1>3 DEF Flags
  <2>2. CameraStarted(s, ok) = IF s.restart THEN RestartCamera(t, ok) ELSE t
    BY <1>1, <1>3, <2>1 DEF CameraStarted, Client
  <2>3. /\ Msg("start") \in Requests /\ Msg("start").type = "start"
        /\ Append(s.wire, Msg("start")) \in Seq(Requests)
    BY <1>1, ClientFields, AppendProperties DEF Requests, Msg
  <2>4. /\ t \in Client /\ t.sessions = s.sessions /\ t.tasks = s.tasks
        /\ t.camera = s.camera /\ t.opening = s.opening /\ ~t.starting /\ ~t.restart
        /\ t.channel = s.channel /\ t.wire = Append(s.wire, Msg("start"))
        /\ t.stops = s.stops /\ t.on = s.on
    <3>1. t = [s EXCEPT !.starting = FALSE, !.wire = Append(s.wire, Msg("start")),
                        !.preview = TRUE, !.restart = FALSE]
      BY <1>1 DEF Send, Client
    <3> HIDE DEF t
    <3> QED
      BY <1>1, <2>3, <3>1 DEF Client
  <2> HIDE DEF t
  <2>5. Flags(t) /\ Announced(t) /\ ~Announced(s) /\ Shown(t) = 0
    BY <1>1, <1>3, <2>1, <2>4 DEF Flags, Announced, Shown
  <2>6. Len(t.sessions) + One(s.restart) <= n /\ Budget(t, n)
    <3>1. One(t.restart) = 0 /\ One(s.restart) \in {0, 1}
      BY <2>4 DEF One
    <3> QED
      BY <1>1, <2>4, <3>1 DEF Budget
  <2>7. Capture(t) /\ Args(t)
    BY <1>1, <2>3, <2>4, CaptureSame, ArgsKept
  <2>8. Stream(t, q, v, kept)
    BY <1>1, <2>4, <2>5, StreamStart DEF Fine
  <2>9. Fine(t, n, q, v, kept)
    BY <2>5, <2>6, <2>7, <2>8 DEF Fine, Good
  <2>10. CASE s.restart
    <3>1. Len(t.sessions) + 1 <= n
      BY <2>6, <2>10 DEF One
    <3> QED
      BY <2>2, <2>4, <2>9, <2>10, <3>1, FineRestartCamera
  <2>11. CASE ~s.restart
    BY <1>1, <2>2, <2>4, <2>9, <2>11
  <2> QED
    BY <2>10, <2>11
<1> QED
  BY <1>2, <1>3
(* After leave_channel with the server told.                               *)
LEMMA FineLeaveChannel ==
  ASSUME NEW s, NEW n, NEW q, NEW v, NEW kept, Fine(s, n, q, v, kept)
  PROVE  /\ Fine(LeaveChannel(s, TRUE), n, q, v, kept)
         /\ Len(LeaveChannel(s, TRUE).sessions) = Len(s.sessions)
<1> DEFINE c == StopCamera(s, TRUE)
           t == [Send(c, Msg("leave")) EXCEPT !.channel = NoChannel, !.watch = FALSE]
           w == [c EXCEPT !.channel = NoChannel, !.watch = FALSE]
<1>1. CASE s.channel = NoChannel
  BY <1>1 DEF LeaveChannel
<1>2. CASE s.channel # NoChannel
  <2>1. Fine(c, n, q, v, kept) /\ WentOff(s, c) /\ c \in Client /\ n \in Nat
    BY FineStopCamera DEF Fine, Good, Capture
  <2>2. LeaveChannel(s, TRUE) = Send(w, Msg("leave"))
    BY <1>2 DEF LeaveChannel
  <2> HIDE DEF c
  <2>3. /\ w \in Client /\ w.sessions = c.sessions /\ w.tasks = c.tasks
        /\ w.camera = c.camera /\ w.opening = c.opening /\ w.on = c.on
        /\ w.starting = c.starting /\ w.restart = c.restart
        /\ w.wire = c.wire /\ w.stops = c.stops
    BY <2>1 DEF Client
  <2> HIDE DEF w
  <2>4. Flags(w) /\ ~Announced(w) /\ Announced(w) = Announced(c)
    BY <2>1, <2>3 DEF WentOff, Flags, Announced
  <2>5. Budget(w, n)
    BY <2>1, <2>3 DEF Budget, Fine, Good
  <2>6. Fine(w, n, q, v, kept)
    BY <2>1, <2>3, <2>4, <2>5, FineSame
  <2> DEFINE u == Send(w, Msg("leave"))
             m == Msg("leave")
  <2>7. m \in NoStart /\ m.type # "update" /\ m \in Requests
    BY DEF NoStart, Msg, Requests
  <2> HIDE DEF m
  <2>8. Append(w.wire, m) \in Seq(Requests)
    BY <2>3, <2>7, ClientFields, AppendProperties
  <2>9. /\ u \in Client /\ u.sessions = w.sessions /\ u.tasks = w.tasks
        /\ u.camera = w.camera /\ u.opening = w.opening /\ u.on = w.on
        /\ u.starting = w.starting /\ u.restart = w.restart /\ u.channel = w.channel
        /\ u.wire = Append(w.wire, m) /\ u.stops = w.stops
    BY <2>3, <2>8 DEF Client, Send, m
  <2> HIDE DEF u
  <2>10. Flags(u) /\ Announced(u) = Announced(w) /\ Budget(u, n)
    BY <2>4, <2>5, <2>9 DEF Flags, Announced, Budget
  <2>11. Fine(u, n, q, v, kept)
    BY <2>1, <2>4, <2>6, <2>7, <2>9, <2>10, FineAsks
  <2> QED
    BY <2>1, <2>2, <2>3, <2>9, <2>11 DEF WentOff, u, m
<1> QED
  BY <1>1, <1>2

LEMMA FineLater ==
  ASSUME NEW s, NEW n, NEW q, NEW v, NEW kept, Fine(s, n, q, v, kept), NEW k \in Nat, n <= k
  PROVE  Fine(s, k, q, v, kept)
<1>1. Len(s.sessions) \in Nat /\ n \in Nat /\ One(s.restart) \in {0, 1}
  BY ClientFields DEF Fine, Good, Capture, One
<1>2. Budget(s, k)
  BY <1>1 DEF Budget, Fine, Good
<1> QED
  BY <1>2 DEF Fine, Good

-----------------------------------------------------------------------------
(* The inductive invariant.                                                *)

CameraInv ==
  /\ Fine(cl, clicks, toClient, srv, ~evicted)
  /\ announcing \in 0..Len(cl.sessions) /\ srv.described \in 0..Len(cl.sessions)
  /\ exists \subseteq Channels /\ evicted \in BOOLEAN /\ clicks <= MaxClicks

LEMMA CameraInvFacts ==
  ASSUME CameraInv
  PROVE  /\ cl \in Client /\ Capture(cl) /\ Flags(cl) /\ Args(cl) /\ Budget(cl, clicks)
         /\ Len(cl.sessions) \in Nat /\ clicks \in Nat /\ clicks <= MaxClicks
         /\ toClient \in Seq(Replies) /\ srv \in View
         /\ Stream(cl, toClient, srv, ~evicted)
BY ClientFields DEF CameraInv, Fine, Good, Capture

(* What is left to show of a step of the main thread.                      *)
LEMMA MainStep ==
  ASSUME CameraInv, Fine(cl', clicks', toClient', srv, ~evicted),
         Len(cl'.sessions) >= Len(cl.sessions), announcing' \in 0..Len(cl'.sessions),
         clicks' <= MaxClicks, UNCHANGED <<srv, exists, evicted>>
  PROVE  CameraInv'
<1>1. Len(cl.sessions) \in Nat /\ Len(cl'.sessions) \in Nat
  BY CameraInvFacts, ClientFields DEF Fine, Good, Capture
<1>2. srv.described \in 0..Len(cl'.sessions)
  BY <1>1 DEF CameraInv
<1> QED
  BY <1>2 DEF CameraInv

LEMMA ClickStep ==
  ASSUME CameraInv, Click, NetUnchanged,
         Fine(cl', clicks + 1, toClient, srv, ~evicted),
         Len(cl'.sessions) >= Len(cl.sessions)
  PROVE  CameraInv'
<1>1. /\ Len(cl.sessions) \in Nat /\ Len(cl'.sessions) \in Nat /\ clicks \in Nat
      /\ MaxClicks \in Nat
  BY CameraInvFacts, ClientFields, MaxClicksIsNat DEF Fine, Good, Capture
<1>2. announcing' = 0 /\ clicks' = clicks + 1 /\ clicks' <= MaxClicks
  BY <1>1 DEF Click, NetUnchanged
<1>3. UNCHANGED <<srv, exists, evicted>> /\ toClient' = toClient
  BY DEF NetUnchanged
<1>4. announcing' \in 0..Len(cl'.sessions)
  BY <1>1, <1>2
<1> QED
  BY <1>2, <1>3, <1>4, MainStep

LEMMA InitKeeps == CameraInit => CameraInv
<1> SUFFICES ASSUME CameraInit PROVE CameraInv
  OBVIOUS
<1>1. /\ cl \in Client /\ cl.sessions = <<>> /\ cl.tasks = <<>> /\ cl.wire = <<>>
      /\ cl.camera = 0 /\ cl.opening = 0 /\ ~cl.on /\ ~cl.starting /\ ~cl.restart
      /\ cl.stops = 0
  <2>1. <<>> \in Seq(Session) /\ <<>> \in Seq(Tasks) /\ <<>> \in Seq(Requests)
    BY EmptySeq
  <2> QED
    BY <2>1 DEF CameraInit, Client
<1>2. /\ srv \in View /\ ~srv.published /\ srv.described = 0 /\ toClient = <<>>
      /\ toClient \in Seq(Replies) /\ clicks = 0 /\ exists = Channels /\ announcing = 0
      /\ evicted = FALSE
  BY EmptySeq DEF CameraInit, View
<1>3. Len(<<>>) = 0 /\ 1..0 = {}
  BY EmptySeq
<1>4. InQueue(cl)
  BY <1>1, <1>3 DEF InQueue, Queue, TasksKnown, OpensQueued, QueuedOpens, QueuedLast, OpensInOrder,
                    ClosedFirst, OthersClose, OwnedKept, OneOpen
<1>5. Capture(cl)
  BY <1>1, <1>3, <1>4 DEF Capture, Devices
<1>6. Flags(cl) /\ Args(cl) /\ Budget(cl, 0)
  BY <1>1, <1>3 DEF Flags, Args, Budget, One
<1>7. Stream(cl, toClient, srv, ~evicted)
  <2>1. ~Announced(cl) /\ Shown(cl) = 0
    BY <1>1 DEF Announced, Shown
  <2>2. Told(cl, srv) /\ Described(cl, srv)
    BY <2>1 DEF Told, Described
  <2>3. Ended(cl, srv)
    BY <1>1, <1>2, <1>3, EmptySeq, AfterBase DEF Ended
  <2>4. Balanced(cl, toClient, srv)
    <3>1. Count(toClient, "stopped") = 0 /\ Count(cl.wire, "start") = 0
      BY <1>1, <1>2, CountNone
    <3> QED
      BY <1>1, <1>2, <2>1, <3>1 DEF Balanced, One
  <2>5. NoneLeft(toClient)
    BY <1>2, <1>3 DEF NoneLeft
  <2> QED
    BY <1>2, <2>2, <2>3, <2>4, <2>5 DEF Stream
<1> DEFINE kept == ~evicted
<1>8. Fine(cl, clicks, toClient, srv, kept)
  <2> HIDE DEF kept
  <2>1. Stream(cl, toClient, srv, kept)
    BY <1>7 DEF kept
  <2> QED
    BY <1>1, <1>2, <1>5, <1>6, <2>1 DEF Fine, Good
<1> HIDE DEF kept
<1>9. evicted \in BOOLEAN /\ exists \subseteq Channels /\ clicks <= MaxClicks
  <2>1. evicted \in BOOLEAN
    BY <1>2, Zenon
  <2>2. exists \subseteq Channels /\ clicks <= MaxClicks
    BY <1>2, MaxClicksIsNat, SMT
  <2> QED
    BY <2>1, <2>2
<1>10. announcing \in 0..Len(cl.sessions) /\ srv.described \in 0..Len(cl.sessions)
  BY <1>1, <1>2, <1>3
<1> QED
  BY <1>8, <1>9, <1>10 DEF CameraInv, kept

-----------------------------------------------------------------------------
(* Clicks.                                                                 *)

LEMMA FineUp ==
  ASSUME NEW s, NEW n, NEW q, NEW v, NEW kept, Fine(s, n, q, v, kept),
         ~s.on, s.channel # NoChannel, NEW t, t = [s EXCEPT !.on = TRUE, !.starting = TRUE]
  PROVE  /\ Fine(t, n, q, v, kept) /\ t.on /\ ~t.restart /\ t.sessions = s.sessions
         /\ t.camera = 0 /\ t.opening = 0
<1>1. s \in Client /\ Flags(s) /\ Budget(s, n) /\ n \in Nat
  BY DEF Fine, Good, Capture
<1>2. /\ t \in Client /\ t.sessions = s.sessions /\ t.tasks = s.tasks
      /\ t.camera = s.camera /\ t.opening = s.opening /\ t.on /\ t.starting
      /\ t.channel = s.channel /\ t.restart = s.restart /\ t.wire = s.wire
      /\ t.stops = s.stops
  BY <1>1 DEF Client
<1>3. Flags(t) /\ ~Announced(t) /\ Announced(t) = Announced(s)
  BY <1>1, <1>2 DEF Flags, Announced
<1>4. Budget(t, n)
  BY <1>1, <1>2 DEF Budget
<1>5. Fine(t, n, q, v, kept)
  BY <1>1, <1>2, <1>3, <1>4, FineSame
<1> QED
  BY <1>1, <1>2, <1>5 DEF Flags

LEMMA ToggleOnKeeps == ASSUME CameraInv, ToggleOn PROVE CameraInv'
<1> DEFINE up == [cl EXCEPT !.on = TRUE, !.starting = TRUE]
           kept == ~evicted
<1>1. PICK ok \in BOOLEAN :
        cl' = IF ok /\ cl.camera = 0 /\ cl.opening = 0
              THEN StartCapture(up, FALSE) ELSE CameraFailed(up)
  BY DEF ToggleOn
<1>2. Click /\ NetUnchanged /\ ~cl.on /\ cl.channel # NoChannel
  BY DEF ToggleOn
<1>3. /\ Fine(cl, clicks, toClient, srv, kept) /\ clicks \in Nat
      /\ Len(cl.sessions) \in Nat /\ Budget(cl, clicks)
  BY CameraInvFacts DEF CameraInv
<1> HIDE DEF kept, up
<1>4. /\ Fine(up, clicks, toClient, srv, kept) /\ up.on /\ ~up.restart
      /\ up.sessions = cl.sessions /\ up.camera = 0 /\ up.opening = 0
  BY <1>2, <1>3, FineUp DEF up
<1>5. Fine(up, clicks + 1, toClient, srv, kept)
  BY <1>3, <1>4, FineLater
<1>6. Len(up.sessions) + 1 + One(up.restart) <= clicks + 1
  <2>1. One(up.restart) = 0 /\ One(cl.restart) \in {0, 1}
    BY <1>4 DEF One
  <2> QED
    BY <1>3, <1>4, <2>1 DEF Budget
<1>7. /\ Fine(StartCapture(up, FALSE), clicks + 1, toClient, srv, kept)
      /\ Len(StartCapture(up, FALSE).sessions) = Len(up.sessions) + 1
  BY <1>4, <1>5, <1>6, FineStartCapture
<1>8. /\ Fine(CameraFailed(up), clicks + 1, toClient, srv, kept)
      /\ Len(CameraFailed(up).sessions) = Len(up.sessions)
  BY <1>5, FineTurnOff DEF CameraFailed, WentOff
<1> DEFINE x == StartCapture(up, FALSE)
           y == CameraFailed(up)
<1>a. cl' = x \/ cl' = y
  BY <1>1 DEF up
<1>b. Len(x.sessions) = Len(up.sessions) + 1 /\ Len(y.sessions) = Len(up.sessions)
  BY <1>7, <1>8
<1>c. Fine(x, clicks + 1, toClient, srv, kept) /\ Fine(y, clicks + 1, toClient, srv, kept)
  BY <1>7, <1>8
<1> HIDE DEF x, y
<1>9. Fine(cl', clicks + 1, toClient, srv, kept) /\ Len(cl'.sessions) >= Len(cl.sessions)
  BY <1>3, <1>4, <1>a, <1>b, <1>c
<1> QED
  BY <1>2, <1>9, ClickStep DEF kept

LEMMA OtherClicksKeep ==
  ASSUME CameraInv, ToggleOff \/ SelectCamera \/ ClickLeave PROVE CameraInv'
<1> DEFINE kept == ~evicted
<1>1. /\ Click /\ NetUnchanged
      /\ Fine(cl, clicks, toClient, srv, kept) /\ clicks \in Nat
      /\ Len(cl.sessions) \in Nat /\ Budget(cl, clicks)
  BY CameraInvFacts DEF CameraInv, ToggleOff, SelectCamera, ClickLeave
<1> HIDE DEF kept
<1>2. Fine(cl, clicks + 1, toClient, srv, kept)
  BY <1>1, FineLater
<1>3. CASE ToggleOff
  <2>1. cl' = StopCamera(cl, TRUE)
    BY <1>3 DEF ToggleOff
  <2>2. Fine(cl', clicks + 1, toClient, srv, kept) /\ Len(cl'.sessions) = Len(cl.sessions)
    BY <1>2, <2>1, FineStopCamera DEF WentOff
  <2> QED
    BY <1>1, <2>2, ClickStep DEF kept
<1>4. CASE SelectCamera
  <2>1. PICK ok \in BOOLEAN : cl' = RestartCamera(cl, ok)
    BY <1>4 DEF SelectCamera
  <2>2. Len(cl.sessions) + 1 <= clicks + 1
    <3>1. One(cl.restart) \in {0, 1}
      BY DEF One
    <3> QED
      BY <1>1, <3>1 DEF Budget
  <2>3. Fine(cl', clicks + 1, toClient, srv, kept) /\ Len(cl'.sessions) >= Len(cl.sessions)
    BY <1>2, <2>1, <2>2, FineRestartCamera
  <2> QED
    BY <1>1, <2>3, ClickStep DEF kept
<1>5. CASE ClickLeave
  <2>1. cl' = LeaveChannel(cl, TRUE)
    BY <1>5 DEF ClickLeave
  <2>2. Fine(cl', clicks + 1, toClient, srv, kept) /\ Len(cl'.sessions) = Len(cl.sessions)
    BY <1>2, <2>1, FineLeaveChannel
  <2> QED
    BY <1>1, <2>2, ClickStep DEF kept
<1> QED
  BY <1>3, <1>4, <1>5

LEMMA JoinChannelKeeps ==
  ASSUME CameraInv, NEW c \in Channels, JoinChannel(c) PROVE CameraInv'
<1> DEFINE kept == ~evicted
           m == [type |-> "join", arg |-> c]
<1>1. /\ Click /\ NetUnchanged /\ c # cl.channel
      /\ cl' = [Send(cl, m) EXCEPT !.pending = c]
  BY DEF JoinChannel
<1>2. /\ Fine(cl, clicks, toClient, srv, kept) /\ clicks \in Nat /\ cl \in Client
      /\ Len(cl.sessions) \in Nat /\ Budget(cl, clicks) /\ Flags(cl)
  BY CameraInvFacts DEF CameraInv
<1>3. m \in NoStart /\ m.type # "update" /\ m \in Staying(cl.channel) /\ m \in Requests
  BY <1>1 DEF NoStart, Staying, Requests
<1> HIDE DEF kept, m
<1>4. Append(cl.wire, m) \in Seq(Requests)
  BY <1>2, <1>3, ClientFields, AppendProperties
<1>5. /\ cl' \in Client /\ cl'.sessions = cl.sessions /\ cl'.tasks = cl.tasks
      /\ cl'.camera = cl.camera /\ cl'.opening = cl.opening /\ cl'.on = cl.on
      /\ cl'.starting = cl.starting /\ cl'.restart = cl.restart /\ cl'.channel = cl.channel
      /\ cl'.wire = Append(cl.wire, m) /\ cl'.stops = cl.stops
  BY <1>1, <1>2, <1>4 DEF Client, Send
<1>6. Fine(cl, clicks + 1, toClient, srv, kept) /\ clicks + 1 \in Nat
  BY <1>2, FineLater
<1>7. Flags(cl') /\ Announced(cl') = Announced(cl)
  BY <1>2, <1>5 DEF Flags, Announced
<1>8. Budget(cl', clicks + 1)
  BY <1>5, <1>6 DEF Budget, Fine, Good
<1>9. Fine(cl', clicks + 1, toClient, srv, kept)
  BY <1>3, <1>5, <1>6, <1>7, <1>8, FineAsks
<1>10. Len(cl'.sessions) >= Len(cl.sessions)
  BY <1>2, <1>5
<1> QED
  BY <1>1, <1>9, <1>10, ClickStep DEF kept
-----------------------------------------------------------------------------
(* Polls, the camera thread and the capture worker.                        *)

(* A step that changes one session.                                        *)
LEMMA FineSession ==
  ASSUME NEW s, NEW n, NEW q, NEW v, NEW kept, Fine(s, n, q, v, kept),
         NEW id \in 1..Len(s.sessions), NEW x \in Session,
         x.enc # "none" => x.st = "open",
         id = s.camera => x.st = "open",
         id = s.opening => x.enc = "none" /\ ~x.live,
         x.enc = "running" => s.sessions[id].enc = "running",
         NEW t \in Client, Len(t.sessions) = Len(s.sessions), t.sessions[id] = x,
         \A j \in 1..Len(s.sessions) : j # id => t.sessions[j] = s.sessions[j],
         t.camera = s.camera, t.opening = s.opening, t.wire = s.wire, t.stops = s.stops,
         t.channel = s.channel, t.on = s.on, t.starting = s.starting, t.restart = s.restart,
         InQueue(t)
  PROVE  Fine(t, n, q, v, kept)
<1>1. /\ s \in Client /\ Devices(s) /\ Flags(s) /\ Args(s) /\ Budget(s, n)
      /\ Len(s.sessions) \in Nat /\ s.sessions \in Seq(Session)
  BY ClientFields DEF Fine, Good, Capture
<1>2. \A j \in 1..Len(s.sessions) : t.sessions[j] = IF j = id THEN x ELSE s.sessions[j]
  OBVIOUS
<1>3. Devices(t)
  <2>1. /\ t.camera \in 0..Len(t.sessions) /\ t.opening \in 0..Len(t.sessions)
        /\ t.camera = 0 \/ t.opening = 0
    BY <1>1 DEF Devices
  <2>2. t.camera # 0 => t.sessions[t.camera].st = "open"
    BY <1>1, <1>2 DEF Devices
  <2>3. t.opening # 0 => t.sessions[t.opening].enc = "none" /\ ~t.sessions[t.opening].live
    BY <1>1, <1>2 DEF Devices
  <2>4. \A j \in 1..Len(t.sessions) : t.sessions[j].enc # "none" => t.sessions[j].st = "open"
    BY <1>1, <1>2 DEF Devices
  <2> QED
    BY <2>1, <2>2, <2>3, <2>4 DEF Devices
<1>4. Flags(t) /\ Args(t) /\ Budget(t, n) /\ Announced(t) = Announced(s)
  BY <1>1 DEF Flags, Args, Budget, Announced
<1>5. Shown(t) \in {0, Shown(s)}
  BY <1>1 DEF Shown, Devices
<1>6. Stream(t, q, v, kept)
  BY <1>4, <1>5, StreamSame DEF Fine
<1> QED
  BY <1>3, <1>4, <1>6 DEF Fine, Good, Capture

LEMMA ThreadStep ==
  ASSUME CameraInv, OthersUnchanged, Fine(cl', clicks, toClient, srv, ~evicted),
         Len(cl'.sessions) = Len(cl.sessions)
  PROVE  CameraInv'
BY DEF CameraInv, OthersUnchanged

LEMMA PollOpenFailsKeeps == ASSUME CameraInv, PollOpenFails PROVE CameraInv'
<1> DEFINE id == cl.opening
           t == [Post(cl, "close", id) EXCEPT !.opening = 0]
           ts == Append(cl.tasks, [op |-> "close", id |-> id])
           kept == ~evicted
<1>1. /\ cl' = CameraFailed(t) /\ announcing = 0 /\ announcing' = 0 /\ id # 0
      /\ UNCHANGED <<toClient, srv, exists, evicted, clicks>>
  BY DEF PollOpenFails, PollSees, PollUnchanged
<1>2. /\ cl \in Client /\ Devices(cl) /\ Capture(cl) /\ Args(cl) /\ Budget(cl, clicks)
      /\ Flags(cl) /\ Len(cl.sessions) \in Nat /\ cl.tasks \in Seq(Tasks)
      /\ Stream(cl, toClient, srv, kept) /\ Fine(cl, clicks, toClient, srv, kept)
      /\ clicks \in Nat /\ clicks <= MaxClicks
  BY CameraInvFacts, ClientFields DEF Capture, CameraInv
<1>3. cl.camera = 0 /\ id \in 1..Len(cl.sessions)
  BY <1>1, <1>2 DEF Devices
<1>4. ts \in Seq(Tasks)
  BY <1>2, <1>3, AppendProperties DEF Tasks
<1>5. /\ t \in Client /\ t.sessions = cl.sessions /\ t.tasks = ts /\ t.camera = 0
      /\ t.opening = 0 /\ Keeps(cl, t)
  <2>1. t = [cl EXCEPT !.tasks = ts, !.opening = 0]
    BY <1>2 DEF Post, Client
  <2> HIDE DEF t, ts
  <2> QED
    BY <1>2, <1>3, <1>4, <2>1 DEF Client, Keeps
<1> HIDE DEF t, kept
<1>6. Capture(t)
  BY <1>1, <1>2, <1>5, CaptureLetGo
<1>7. Flags(t) /\ Args(t) /\ Budget(t, clicks) /\ Announced(t) = Announced(cl) /\ Shown(t) = 0
  BY <1>2, <1>5 DEF Flags, Args, Budget, Announced, Shown, Keeps
<1>8. Stream(t, toClient, srv, kept)
  BY <1>2, <1>5, <1>7, StreamSame DEF Keeps
<1>9. Fine(t, clicks, toClient, srv, kept)
  BY <1>2, <1>6, <1>7, <1>8 DEF Fine, Good
<1>10. Fine(cl', clicks, toClient, srv, kept) /\ Len(cl'.sessions) = Len(cl.sessions)
  BY <1>1, <1>5, <1>9, FineTurnOff DEF CameraFailed, WentOff
<1> QED
  BY <1>1, <1>2, <1>10, MainStep DEF kept

LEMMA PollFailedKeeps == ASSUME CameraInv, PollFailed PROVE CameraInv'
<1> DEFINE kept == ~evicted
<1>1. /\ cl' = TurnOff(cl, TRUE) /\ announcing = 0 /\ announcing' = 0
      /\ UNCHANGED <<toClient, srv, exists, evicted, clicks>>
  BY DEF PollFailed, PollUnchanged, CameraFailed
<1>2. /\ Len(cl.sessions) \in Nat /\ Fine(cl, clicks, toClient, srv, kept)
      /\ clicks <= MaxClicks
  BY CameraInvFacts DEF CameraInv
<1> HIDE DEF kept
<1>3. Fine(cl', clicks, toClient, srv, kept) /\ Len(cl'.sessions) = Len(cl.sessions)
  BY <1>1, <1>2, FineTurnOff DEF WentOff
<1>4. announcing' \in 0..Len(cl'.sessions) /\ Len(cl'.sessions) >= Len(cl.sessions)
  <2>1. announcing' = 0
    BY <1>1
  <2>2. Len(cl'.sessions) = Len(cl.sessions) /\ Len(cl.sessions) \in Nat
    BY <1>2, <1>3
  <2> QED
    BY <2>1, <2>2
<1>5. Fine(cl', clicks', toClient', srv, ~evicted) /\ clicks' <= MaxClicks
  BY <1>1, <1>2, <1>3 DEF kept
<1> QED
  BY <1>1, <1>4, <1>5, MainStep

LEMMA PollPublishKeeps == ASSUME CameraInv, PollPublish PROVE CameraInv'
<1> DEFINE kept == ~evicted
           id == cl.opening
           up == [cl EXCEPT !.camera = id, !.opening = 0]
<1>1. PICK ok \in BOOLEAN : cl' = IF Opening.restart THEN up ELSE CameraStarted(up, ok)
  BY DEF PollPublish
<1>2. /\ announcing' = id /\ id # 0 /\ cl.sessions[id].st = "open"
      /\ UNCHANGED <<toClient, srv, exists, evicted, clicks>>
  BY DEF PollPublish, PollSees, PollUnchanged, Opening
<1>3. /\ cl \in Client /\ Devices(cl) /\ Capture(cl) /\ Args(cl) /\ Budget(cl, clicks)
      /\ Flags(cl) /\ Len(cl.sessions) \in Nat
      /\ Stream(cl, toClient, srv, kept) /\ Fine(cl, clicks, toClient, srv, kept)
      /\ clicks \in Nat /\ clicks <= MaxClicks
  BY CameraInvFacts DEF Capture, CameraInv
<1>4. id \in 1..Len(cl.sessions) /\ cl.sessions[id].enc = "none" /\ cl.camera = 0
  BY <1>2, <1>3 DEF Devices
<1>5. /\ up \in Client /\ up.sessions = cl.sessions /\ up.tasks = cl.tasks /\ up.camera = id
      /\ up.opening = 0 /\ Keeps(cl, up)
  BY <1>3, <1>4 DEF Client, Keeps
<1> HIDE DEF up, kept
<1>6. InQueue(up)
  <2>1. InQueue(cl)
    BY <1>3 DEF Capture
  <2>2. {cl.camera, cl.opening} = {up.camera, up.opening}
    BY <1>4, <1>5
  <2> QED
    BY <1>5, <2>1, <2>2 DEF InQueue
<1>7. Capture(up)
  BY <1>2, <1>3, <1>4, <1>5, <1>6 DEF Capture, Devices
<1>8. /\ Flags(up) /\ Args(up) /\ Budget(up, clicks) /\ Announced(up) = Announced(cl)
      /\ Shown(up) = 0
  BY <1>2, <1>3, <1>4, <1>5 DEF Flags, Args, Budget, Announced, Shown, Keeps
<1>9. Stream(up, toClient, srv, kept)
  BY <1>3, <1>5, <1>8, StreamSame DEF Keeps
<1>10. Fine(up, clicks, toClient, srv, kept)
  BY <1>3, <1>7, <1>8, <1>9 DEF Fine, Good
<1> DEFINE c == CameraStarted(up, ok)
<1>11. Fine(c, clicks, toClient, srv, kept) /\ Len(c.sessions) >= Len(up.sessions)
  BY <1>8, <1>10, FineCameraStarted
<1>12. cl' = up \/ cl' = c
  BY <1>1 DEF up
<1> HIDE DEF c
<1>13. Fine(cl', clicks, toClient, srv, kept) /\ Len(cl'.sessions) >= Len(cl.sessions)
  BY <1>3, <1>5, <1>10, <1>11, <1>12
<1>14. announcing' \in 0..Len(cl'.sessions)
  <2>1. Len(cl'.sessions) \in Nat
    BY <1>13, ClientFields DEF Fine, Good, Capture
  <2> QED
    BY <1>2, <1>3, <1>4, <1>13, <2>1
<1> QED
  BY <1>2, <1>3, <1>13, <1>14, MainStep DEF kept

LEMMA PollLiveKeeps == ASSUME CameraInv, PollLive PROVE CameraInv'
<1> DEFINE kept == ~evicted
           id == announcing
           x == [cl.sessions[id] EXCEPT !.live = TRUE]
<1>1. /\ announcing # 0 /\ announcing' = 0 /\ UNCHANGED <<toClient, srv, exists, evicted, clicks>>
      /\ cl' = IF cl.camera = id THEN [cl EXCEPT !.sessions[id].live = TRUE] ELSE cl
  BY DEF PollLive, PollUnchanged
<1>2. /\ cl \in Client /\ Devices(cl) /\ Capture(cl) /\ cl.sessions \in Seq(Session)
      /\ Len(cl.sessions) \in Nat /\ Fine(cl, clicks, toClient, srv, kept)
      /\ clicks \in Nat /\ clicks <= MaxClicks
  BY CameraInvFacts, ClientFields DEF Capture, CameraInv
<1> HIDE DEF kept
<1>3. CASE cl.camera # id
  BY <1>1, <1>2, <1>3, MainStep DEF kept
<1>4. CASE cl.camera = id
  <2>1. id \in 1..Len(cl.sessions) /\ cl.opening = 0 /\ cl.sessions[id] \in Session
        /\ cl.sessions[id].st = "open"
    BY <1>1, <1>2, <1>4, ElementOfSeq DEF Devices
  <2>2. x \in Session /\ x.st = cl.sessions[id].st /\ x.enc = cl.sessions[id].enc
    BY <2>1 DEF Session
  <2>3. cl' = [cl EXCEPT !.sessions = [cl.sessions EXCEPT ![id] = x]]
    BY <1>1, <1>4
  <2> HIDE DEF x
  <2>4. [cl.sessions EXCEPT ![id] = x] \in Seq(Session)
    BY <1>2, <2>1, <2>2, Replaced
  <2>5. /\ cl' \in Client /\ cl'.sessions = [cl.sessions EXCEPT ![id] = x]
        /\ cl'.tasks = cl.tasks /\ cl'.camera = cl.camera /\ cl'.opening = cl.opening
        /\ cl'.wire = cl.wire /\ cl'.stops = cl.stops /\ cl'.channel = cl.channel
        /\ cl'.on = cl.on /\ cl'.starting = cl.starting /\ cl'.restart = cl.restart
    BY <1>2, <2>3, <2>4 DEF Client
  <2>6. /\ Len(cl'.sessions) = Len(cl.sessions) /\ cl'.sessions[id] = x
        /\ \A j \in 1..Len(cl.sessions) : j # id => cl'.sessions[j] = cl.sessions[j]
    BY <1>2, <2>1, <2>2, <2>5, Replaced
  <2>7. InQueue(cl')
    <3>1. \A j \in 1..Len(cl.sessions) : cl'.sessions[j].st = cl.sessions[j].st
      BY <2>2, <2>6
    <3> QED
      BY <1>2, <2>5, <2>6, <3>1, SameInQueue DEF Capture
  <2>8. id # cl.opening /\ x.st = "open"
    BY <1>1, <2>1, <2>2
  <2>9. Fine(cl', clicks, toClient, srv, kept)
    BY <1>2, <2>1, <2>2, <2>5, <2>6, <2>7, <2>8, FineSession
  <2> QED
    BY <1>1, <1>2, <2>6, <2>9, MainStep DEF kept
<1> QED
  BY <1>3, <1>4
(* The camera thread runs its first task.                                  *)
LEMMA OpenTaskKeeps == ASSUME CameraInv, OpenTask PROVE CameraInv'
<1> DEFINE kept == ~evicted
           id == Head(cl.tasks).id
<1>1. /\ cl.tasks # <<>> /\ Head(cl.tasks).op = "open" /\ OthersUnchanged
      /\ \E st \in {"open", "refused"} :
           cl' = [cl EXCEPT !.tasks = Tail(@), !.sessions[id].st = st]
  BY DEF OpenTask
<1>2. /\ cl \in Client /\ Devices(cl) /\ Capture(cl) /\ cl.sessions \in Seq(Session)
      /\ cl.tasks \in Seq(Tasks) /\ Fine(cl, clicks, toClient, srv, kept)
      /\ Queue(cl.sessions, cl.tasks, {cl.camera, cl.opening})
  BY CameraInvFacts, ClientFields DEF Capture, CameraInv, InQueue
<1> HIDE DEF kept
<1>3. PICK st \in {"open", "refused"} :
        cl' = [cl EXCEPT !.tasks = Tail(@), !.sessions[id].st = st]
  BY <1>1
<1> DEFINE x == [cl.sessions[id] EXCEPT !.st = st]
           ss == [cl.sessions EXCEPT ![id] = x]
<1>4. id \in 1..Len(cl.sessions) /\ cl.sessions[id].st = "queued"
  <2>1. NewSession("refused", FALSE) \in Session /\ NewSession("refused", FALSE).st = "refused"
    BY DEF NewSession, Session
  <2> QED
    BY <1>1, <1>2, <2>1, QueueOpenHead
<1>5. cl.sessions[id] \in Session /\ cl.sessions[id].enc = "none"
  BY <1>2, <1>4, ElementOfSeq DEF Devices
<1>6. /\ x \in Session /\ x.st = st /\ x.enc = "none" /\ x.live = cl.sessions[id].live
  BY <1>5 DEF Session
<1>7. cl' = [cl EXCEPT !.tasks = Tail(cl.tasks), !.sessions = ss]
  BY <1>3
<1> HIDE DEF x
<1>8. Queue(ss, Tail(cl.tasks), {cl.camera, cl.opening})
  BY <1>1, <1>2, <1>6, QueueOpenHead
<1>9. /\ ss \in Seq(Session) /\ Len(ss) = Len(cl.sessions) /\ ss[id] = x
      /\ \A j \in 1..Len(cl.sessions) : j # id => ss[j] = cl.sessions[j]
  BY <1>2, <1>4, <1>6, Replaced
<1>10. Tail(cl.tasks) \in Seq(Tasks)
  BY <1>1, <1>2, Shortened
<1> HIDE DEF ss, id
<1>11. /\ cl' \in Client /\ cl'.sessions = ss /\ cl'.tasks = Tail(cl.tasks)
       /\ cl'.camera = cl.camera /\ cl'.opening = cl.opening /\ cl'.wire = cl.wire
       /\ cl'.stops = cl.stops /\ cl'.channel = cl.channel
       /\ cl'.on = cl.on /\ cl'.starting = cl.starting /\ cl'.restart = cl.restart
  BY <1>2, <1>7, <1>9, <1>10 DEF Client
<1>12. InQueue(cl')
  BY <1>8, <1>11 DEF InQueue
<1>13. /\ id # cl.camera
       /\ (id = cl.opening => ~x.live) /\ x.enc # "running"
  BY <1>2, <1>4, <1>6 DEF Devices
<1>14. Fine(cl', clicks, toClient, srv, kept)
  BY <1>2, <1>4, <1>6, <1>9, <1>11, <1>12, <1>13, FineSession
<1> QED
  BY <1>1, <1>9, <1>11, <1>14, ThreadStep DEF kept

LEMMA CloseTaskKeeps == ASSUME CameraInv, CloseTask PROVE CameraInv'
<1> DEFINE kept == ~evicted
           id == Head(cl.tasks).id
           x == NewSession("closed", FALSE)
           ss == [cl.sessions EXCEPT ![id] = x]
<1>1. /\ cl.tasks # <<>> /\ Head(cl.tasks).op = "close" /\ OthersUnchanged
      /\ cl' = [cl EXCEPT !.tasks = Tail(cl.tasks), !.sessions = ss]
  BY DEF CloseTask
<1>2. /\ cl \in Client /\ Devices(cl) /\ Capture(cl) /\ cl.sessions \in Seq(Session)
      /\ cl.tasks \in Seq(Tasks) /\ Fine(cl, clicks, toClient, srv, kept)
      /\ Queue(cl.sessions, cl.tasks, {cl.camera, cl.opening})
  BY CameraInvFacts, ClientFields DEF Capture, CameraInv, InQueue
<1> HIDE DEF kept
<1>3. x \in Session /\ x.st = "closed" /\ x.enc = "none" /\ ~x.live
  BY DEF NewSession, Session
<1> HIDE DEF x
<1>4. /\ id \in 1..Len(cl.sessions) /\ id \notin {cl.camera, cl.opening}
      /\ Queue(ss, Tail(cl.tasks), {cl.camera, cl.opening})
  BY <1>1, <1>2, <1>3, QueueCloseHead
<1>5. /\ ss \in Seq(Session) /\ Len(ss) = Len(cl.sessions) /\ ss[id] = x
      /\ \A j \in 1..Len(cl.sessions) : j # id => ss[j] = cl.sessions[j]
  BY <1>2, <1>3, <1>4, Replaced
<1>6. Tail(cl.tasks) \in Seq(Tasks)
  BY <1>1, <1>2, Shortened
<1> HIDE DEF ss, id
<1>7. /\ cl' \in Client /\ cl'.sessions = ss /\ cl'.tasks = Tail(cl.tasks)
      /\ cl'.camera = cl.camera /\ cl'.opening = cl.opening /\ cl'.wire = cl.wire
      /\ cl'.stops = cl.stops /\ cl'.channel = cl.channel
      /\ cl'.on = cl.on /\ cl'.starting = cl.starting /\ cl'.restart = cl.restart
  BY <1>1, <1>2, <1>5, <1>6 DEF Client
<1>8. InQueue(cl')
  BY <1>4, <1>7 DEF InQueue
<1>9. Fine(cl', clicks, toClient, srv, kept)
  BY <1>2, <1>3, <1>4, <1>5, <1>7, <1>8, FineSession
<1> QED
  BY <1>1, <1>5, <1>7, <1>9, ThreadStep DEF kept

(* The worker's first picture, its failure and the start of its encoder:   *)
(* one session changes and stays open.                                     *)
LEMMA WorkerStep ==
  ASSUME CameraInv, OthersUnchanged,
         NEW id \in 1..Len(cl.sessions), NEW x \in Session,
         cl.sessions[id].st = "open", x.st = "open",
         id = cl.opening => x.enc = "none" /\ ~x.live,
         x.enc = "running" => cl.sessions[id].enc = "running",
         cl' = [cl EXCEPT !.sessions = [cl.sessions EXCEPT ![id] = x]]
  PROVE  CameraInv'
<1> DEFINE kept == ~evicted
           ss == [cl.sessions EXCEPT ![id] = x]
<1>1. /\ cl \in Client /\ Capture(cl) /\ cl.sessions \in Seq(Session)
      /\ Fine(cl, clicks, toClient, srv, kept) /\ InQueue(cl)
  BY CameraInvFacts, ClientFields DEF Capture, CameraInv
<1> HIDE DEF kept
<1>2. /\ ss \in Seq(Session) /\ Len(ss) = Len(cl.sessions) /\ ss[id] = x
      /\ \A j \in 1..Len(cl.sessions) : j # id => ss[j] = cl.sessions[j]
  BY <1>1, Replaced
<1>s. cl' = [cl EXCEPT !.sessions = ss]
  OBVIOUS
<1> HIDE DEF ss
<1>3. /\ cl' \in Client /\ cl'.sessions = ss /\ cl'.tasks = cl.tasks
      /\ cl'.camera = cl.camera /\ cl'.opening = cl.opening /\ cl'.wire = cl.wire
      /\ cl'.stops = cl.stops /\ cl'.channel = cl.channel
      /\ cl'.on = cl.on /\ cl'.starting = cl.starting /\ cl'.restart = cl.restart
  BY <1>1, <1>2, <1>s DEF Client
<1>4. \A j \in 1..Len(cl.sessions) : cl'.sessions[j].st = cl.sessions[j].st
  BY <1>2, <1>3
<1>5. InQueue(cl')
  BY <1>1, <1>2, <1>3, <1>4, SameInQueue
<1>6. Len(cl'.sessions) = Len(cl.sessions) /\ cl'.sessions[id] = x
  BY <1>2, <1>3
<1>7. \A j \in 1..Len(cl.sessions) : j # id => cl'.sessions[j] = cl.sessions[j]
  BY <1>2, <1>3
<1>8. Fine(cl', clicks, toClient, srv, kept)
  BY ZenonT(30), <1>1, <1>3, <1>5, <1>6, <1>7, FineSession
<1> QED
  BY <1>6, <1>8, ThreadStep DEF kept

LEMMA WorkerKeeps ==
  ASSUME CameraInv, NEW id \in Ids,
         WorkerFrame(id) \/ WorkerFails(id) \/ WorkerSeesLive(id)
  PROVE  CameraInv'
<1> DEFINE y == cl.sessions[id]
<1>1. /\ OthersUnchanged /\ y.st = "open" /\ id \in 1..Len(cl.sessions)
  BY CameraInvFacts, MaxClicksIsNat
     DEF WorkerFrame, WorkerFails, WorkerSeesLive, Made, Ids
<1>2. /\ cl \in Client /\ Devices(cl) /\ cl.sessions \in Seq(Session) /\ y \in Session
  BY <1>1, CameraInvFacts, ClientFields, ElementOfSeq DEF Capture
<1>3. id = cl.opening => y.enc = "none" /\ ~y.live
  BY <1>1, <1>2 DEF Devices
<1>4. CASE WorkerFrame(id)
  <2> DEFINE x == [y EXCEPT !.frame = TRUE]
  <2>1. cl' = [cl EXCEPT !.sessions = [cl.sessions EXCEPT ![id] = x]]
    BY <1>4 DEF WorkerFrame
  <2>2. x \in Session /\ x.st = y.st /\ x.enc = y.enc /\ x.live = y.live
    BY <1>2 DEF Session
  <2> HIDE DEF x
  <2> QED
    BY <1>1, <1>3, <2>1, <2>2, WorkerStep
<1>5. CASE WorkerFails(id)
  <2> DEFINE x == [y EXCEPT !.failed = TRUE]
  <2>1. cl' = [cl EXCEPT !.sessions = [cl.sessions EXCEPT ![id] = x]]
    BY <1>5 DEF WorkerFails
  <2>2. x \in Session /\ x.st = y.st /\ x.enc = y.enc /\ x.live = y.live
    BY <1>2 DEF Session
  <2> HIDE DEF x
  <2> QED
    BY <1>1, <1>3, <2>1, <2>2, WorkerStep
<1>6. CASE WorkerSeesLive(id)
  <2> DEFINE x == [y EXCEPT !.enc = "creating"]
  <2>1. cl' = [cl EXCEPT !.sessions = [cl.sessions EXCEPT ![id] = x]] /\ y.live
    BY <1>6 DEF WorkerSeesLive
  <2>2. x \in Session /\ x.st = y.st /\ x.enc = "creating"
    BY <1>2 DEF Session
  <2>3. id # cl.opening
    BY <1>3, <2>1
  <2> HIDE DEF x
  <2> QED
    BY <1>1, <2>1, <2>2, <2>3, WorkerStep
<1> QED
  BY <1>4, <1>5, <1>6

(* The encoder is there and is reported: by the session that is shown, as  *)
(* no other one has the device.                                            *)
LEMMA WorkerUpdatesKeeps ==
  ASSUME CameraInv, NEW id \in Ids, WorkerUpdates(id) PROVE CameraInv'
<1> DEFINE y == cl.sessions[id]
           x == [y EXCEPT !.enc = "running"]
           ss == [cl.sessions EXCEPT ![id] = x]
           m == [type |-> "update", arg |-> id]
           kept == ~evicted
<1>1. /\ OthersUnchanged /\ y.enc = "creating" /\ id \in 1..Len(cl.sessions) /\ id \in Nat
      /\ cl' = [Send(cl, m) EXCEPT !.sessions[id].enc = "running"]
  BY CameraInvFacts, MaxClicksIsNat DEF WorkerUpdates, Made, Ids
<1>2. /\ cl \in Client /\ Devices(cl) /\ cl.sessions \in Seq(Session) /\ y \in Session
      /\ cl.wire \in Seq(Requests) /\ InQueue(cl) /\ Flags(cl) /\ Args(cl)
      /\ Budget(cl, clicks) /\ Fine(cl, clicks, toClient, srv, kept) /\ Len(cl.sessions) \in Nat
  BY <1>1, CameraInvFacts, ClientFields, ElementOfSeq DEF Capture, CameraInv
<1> HIDE DEF kept
<1>3. y.st = "open"
  BY <1>1, <1>2 DEF Devices
<1>4. x \in Session /\ x.st = "open" /\ x.enc = "running"
  BY <1>2, <1>3 DEF Session
<1>5. cl' = [cl EXCEPT !.wire = Append(cl.wire, m), !.sessions = ss]
  BY <1>1, <1>2 DEF Send, Client
<1> HIDE DEF x
<1>6. /\ ss \in Seq(Session) /\ Len(ss) = Len(cl.sessions) /\ ss[id] = x
      /\ \A j \in 1..Len(cl.sessions) : j # id => ss[j] = cl.sessions[j]
  BY <1>1, <1>2, <1>4, Replaced
<1>7. m \in Requests /\ m.type = "update" /\ m.arg = id
  BY <1>1 DEF Requests
<1> HIDE DEF ss, m, y
<1>8. Append(cl.wire, m) \in Seq(Requests)
  BY <1>2, <1>7, AppendProperties
<1>9. /\ cl' \in Client /\ cl'.sessions = ss /\ cl'.tasks = cl.tasks
      /\ cl'.camera = cl.camera /\ cl'.opening = cl.opening
      /\ cl'.wire = Append(cl.wire, m)
      /\ cl'.stops = cl.stops /\ cl'.channel = cl.channel
      /\ cl'.on = cl.on /\ cl'.starting = cl.starting /\ cl'.restart = cl.restart
  BY <1>2, <1>5, <1>6, <1>8 DEF Client
<1>10. \A j \in 1..Len(cl.sessions) : cl'.sessions[j].st = cl.sessions[j].st
  BY <1>3, <1>4, <1>6, <1>9 DEF y
<1>11. InQueue(cl')
  BY <1>2, <1>6, <1>9, <1>10, SameInQueue
<1>12. id # cl.opening
  BY <1>1, <1>2 DEF Devices, y
<1>13. Devices(cl')
  <2>1. /\ cl.camera # 0 => cl'.sessions[cl.camera].st = "open"
        /\ cl.opening # 0 => /\ cl'.sessions[cl.opening].enc = "none"
                             /\ ~cl'.sessions[cl.opening].live
    BY <1>2, <1>4, <1>6, <1>9, <1>12 DEF Devices
  <2>2. \A j \in 1..Len(cl.sessions) : cl'.sessions[j].enc # "none" => cl'.sessions[j].st = "open"
    BY <1>2, <1>4, <1>6, <1>9 DEF Devices
  <2>3. Len(cl'.sessions) = Len(cl.sessions)
    BY <1>6, <1>9
  <2> QED
    BY <1>2, <1>9, <2>1, <2>2, <2>3 DEF Devices
<1>14. /\ Flags(cl') /\ Budget(cl', clicks) /\ Announced(cl') = Announced(cl)
  BY <1>2, <1>6, <1>9 DEF Flags, Budget, Announced
<1>15. Args(cl')
  <2>1. Len(cl'.sessions) = Len(cl.sessions) /\ m.arg \in 1..Len(cl'.sessions)
    BY <1>1, <1>6, <1>7, <1>9
  <2> QED
    BY <1>2, <1>7, <1>9, <2>1, ArgsKept
<1>16. Shown(cl') \in {0, id}
  <2> SUFFICES ASSUME cl.camera # 0, cl.camera # id PROVE FALSE
    BY <1>9 DEF Shown
  <2>1. cl.camera \in 1..Len(cl.sessions) /\ cl.sessions[cl.camera].st = "open"
    BY <1>2 DEF Devices
  <2>2. OneOpen(cl.sessions)
    BY <1>2 DEF InQueue, Queue
  <2> QED
    BY <1>1, <1>3, <2>1, <2>2 DEF OneOpen, y
<1>17. Stream(cl', toClient, srv, kept)
  <2>1. m \in NoStart /\ m \in Staying(cl.channel)
    BY <1>7 DEF NoStart, Staying
  <2>2. Shown(cl') = 0 \/ m \in Update(Shown(cl'))
    BY <1>7, <1>16 DEF Update
  <2>3. /\ toClient \in Seq(Replies) /\ srv \in View /\ Stream(cl, toClient, srv, kept)
    BY <1>2 DEF Fine
  <2> QED
    BY <1>2, <1>9, <1>14, <2>1, <2>2, <2>3, StreamAsks
<1>18. Fine(cl', clicks, toClient, srv, kept)
  BY <1>2, <1>9, <1>11, <1>13, <1>14, <1>15, <1>17 DEF Fine, Good, Capture
<1> QED
  BY <1>1, <1>6, <1>9, <1>18, ThreadStep DEF kept
-----------------------------------------------------------------------------
(* The client receives.                                                    *)

LEMMA ReceiveStep ==
  ASSUME CameraInv, Received, announcing = 0,
         Fine(cl', clicks, Tail(toClient), srv, ~evicted),
         Len(cl'.sessions) = Len(cl.sessions)
  PROVE  CameraInv'
<1>1. /\ toClient' = Tail(toClient) /\ UNCHANGED <<srv, exists, evicted, clicks>> /\ announcing' = announcing
  BY DEF Received
<1> QED
  BY <1>1 DEF CameraInv

LEMMA FineHeard ==
  ASSUME NEW s, NEW n, NEW q, NEW v, NEW kept, Fine(s, n, q, v, kept),
         q # <<>>, Head(q).type # "stopped"
  PROVE  Fine(s, n, Tail(q), v, kept)
<1>1. s \in Client /\ Tail(q) \in Seq(Replies)
  BY Shortened DEF Fine, Good, Capture
<1>2. Stream(s, Tail(q), v, kept)
  BY <1>1, StreamHeard DEF Fine
<1> QED
  BY <1>1, <1>2 DEF Fine

(* The main thread gives up the camera without telling the server.         *)
LEMMA SilentStop ==
  ASSUME NEW s, Capture(s), Flags(s)
  PROVE  /\ WentOff(s, StopCamera(s, FALSE)) /\ StopCamera(s, FALSE).wire = s.wire
         /\ StopCamera(s, FALSE).stops = s.stops
<1>1. CASE s.on
  <2>1. StopCamera(s, FALSE) = TurnOff(s, FALSE)
    BY <1>1 DEF StopCamera
  <2> QED
    BY <2>1, TurnOffTurnsOff
<1>2. CASE ~s.on
  <2> DEFINE t == Reset(s)
  <2>1. /\ t \in Client /\ t.sessions = s.sessions /\ t.tasks = s.tasks
        /\ t.camera = s.camera /\ t.opening = s.opening /\ ~t.starting /\ ~t.restart
        /\ t.channel = s.channel /\ t.pending = s.pending /\ t.wire = s.wire
        /\ t.stops = s.stops /\ t.on = s.on
    BY DEF Client, Reset, Capture
  <2> HIDE DEF t
  <2>2. WentOff(s, t)
    BY <1>2, <2>1, CaptureSame DEF WentOff, Flags
  <2>3. StopCamera(s, FALSE) = t
    BY <1>2 DEF StopCamera, t
  <2> QED
    BY <2>1, <2>2, <2>3
<1> QED
  BY <1>1, <1>2

(* The client is off and outside of a channel or moved to another.         *)
LEMMA FineOff ==
  ASSUME NEW t \in Client, Capture(t), ~t.on, ~t.starting, ~t.restart, t.camera = 0, t.opening = 0,
         Args(t), NEW n \in Nat, Len(t.sessions) <= n,
         NEW q \in Seq(Replies), NEW v \in View, NEW kept,
         v.published => v.channel # NoChannel,
         kept => Ended(t, v) /\ Balanced(t, q, v) /\ NoneLeft(q)
  PROVE  Fine(t, n, q, v, kept)
<1>1. Len(t.sessions) \in Nat
  BY ClientFields
<1>2. Flags(t)
  BY DEF Flags
<1>3. Budget(t, n)
  BY <1>1 DEF Budget, One
<1>4. Told(t, v) /\ Described(t, v)
  BY DEF Told, Described, Announced, Shown
<1> QED
  BY <1>2, <1>3, <1>4 DEF Fine, Good, Stream

LEMMA ReceiveListKeeps == ASSUME CameraInv, ReceiveList PROVE CameraInv'
<1> DEFINE kept == ~evicted
           c == Head(toClient).arg
           off == StopCamera(cl, TRUE)
           t1 == [cl EXCEPT !.pending = NoChannel]
           t2 == [off EXCEPT !.pending = NoChannel, !.channel = c, !.watch = FALSE]
           q == Tail(toClient)
<1>1. /\ Received /\ announcing = 0 /\ toClient # <<>> /\ Head(toClient).type = "list"
      /\ cl' = IF cl.pending # c THEN cl ELSE IF cl.channel = c THEN t1 ELSE t2
  BY DEF ReceiveList, Receives
<1>2. /\ cl \in Client /\ Flags(cl) /\ Budget(cl, clicks) /\ clicks \in Nat
      /\ Fine(cl, clicks, toClient, srv, kept) /\ Len(cl.sessions) \in Nat
      /\ toClient \in Seq(Replies)
  BY CameraInvFacts DEF CameraInv
<1>3. c \in Channels
  <2>1. Head(toClient) \in Replies
    BY <1>1, <1>2, Shortened
  <2> QED
    BY <1>1, <2>1 DEF Replies
<1> HIDE DEF kept, c, q
<1>4. Fine(cl, clicks, q, srv, kept)
  BY <1>1, <1>2, FineHeard DEF q
<1>5. Fine(t1, clicks, q, srv, kept) /\ Len(t1.sessions) = Len(cl.sessions)
  <2>1. /\ t1 \in Client /\ t1.sessions = cl.sessions /\ t1.tasks = cl.tasks
        /\ t1.camera = cl.camera /\ t1.opening = cl.opening /\ t1.wire = cl.wire
        /\ t1.stops = cl.stops /\ t1.channel = cl.channel
        /\ t1.on = cl.on /\ t1.starting = cl.starting /\ t1.restart = cl.restart
    BY <1>2 DEF Client
  <2> HIDE DEF t1
  <2>2. Flags(t1) /\ Budget(t1, clicks) /\ Announced(t1) = Announced(cl)
    BY <1>2, <2>1 DEF Flags, Budget, Announced
  <2> QED
    BY <1>2, <1>4, <2>1, <2>2, FineSame
<1>6. Fine(t2, clicks, q, srv, kept) /\ Len(t2.sessions) = Len(cl.sessions)
  <2>1. Fine(off, clicks, q, srv, kept) /\ WentOff(cl, off) /\ off \in Client
    BY <1>4, FineStopCamera DEF Fine, Good, Capture
  <2> HIDE DEF off
  <2>2. /\ t2 \in Client /\ t2.sessions = off.sessions /\ t2.tasks = off.tasks
        /\ t2.camera = off.camera /\ t2.opening = off.opening /\ t2.wire = off.wire
        /\ t2.stops = off.stops /\ t2.on = off.on /\ t2.starting = off.starting
        /\ t2.restart = off.restart
    BY <1>3, <2>1 DEF Client
  <2> HIDE DEF t2
  <2>3. Flags(t2) /\ ~Announced(t2) /\ Announced(t2) = Announced(off)
    BY <2>1, <2>2 DEF Flags, Announced, WentOff
  <2>4. Budget(t2, clicks)
    BY <2>1, <2>2 DEF Budget, Fine, Good
  <2> QED
    BY <1>2, <2>1, <2>2, <2>3, <2>4, FineSame DEF WentOff
<1> HIDE DEF t1, t2
<1>7. Fine(cl', clicks, q, srv, kept) /\ Len(cl'.sessions) = Len(cl.sessions)
  BY <1>1, <1>4, <1>5, <1>6
<1> QED
  BY <1>1, <1>7, ReceiveStep DEF kept, q

LEMMA ReceiveStartedKeeps == ASSUME CameraInv, ReceiveStarted PROVE CameraInv'
<1> DEFINE kept == ~evicted
           t == [cl EXCEPT !.preview = FALSE, !.watch = TRUE]
           q == Tail(toClient)
<1>1. /\ Received /\ announcing = 0 /\ toClient # <<>> /\ Head(toClient).type = "started"
      /\ cl' = t \/ cl' = cl
  BY DEF ReceiveStarted, Receives
<1>2. /\ cl \in Client /\ Flags(cl) /\ Budget(cl, clicks) /\ clicks \in Nat
      /\ Fine(cl, clicks, toClient, srv, kept)
  BY CameraInvFacts DEF CameraInv
<1> HIDE DEF kept, q
<1>3. Fine(cl, clicks, q, srv, kept)
  BY <1>1, <1>2, FineHeard DEF q
<1>4. /\ t \in Client /\ t.sessions = cl.sessions /\ t.tasks = cl.tasks
      /\ t.camera = cl.camera /\ t.opening = cl.opening /\ t.wire = cl.wire
      /\ t.stops = cl.stops /\ t.channel = cl.channel
      /\ t.on = cl.on /\ t.starting = cl.starting /\ t.restart = cl.restart
  BY <1>2 DEF Client
<1> HIDE DEF t
<1>5. Flags(t) /\ Budget(t, clicks) /\ Announced(t) = Announced(cl)
  BY <1>2, <1>4 DEF Flags, Budget, Announced
<1>6. Fine(t, clicks, q, srv, kept)
  BY <1>2, <1>3, <1>4, <1>5, FineSame
<1>7. Fine(cl', clicks, q, srv, kept) /\ Len(cl'.sessions) = Len(cl.sessions)
  BY <1>1, <1>3, <1>4, <1>6
<1> QED
  BY <1>1, <1>7, ReceiveStep DEF kept, q

LEMMA ReceiveErrorKeeps == ASSUME CameraInv, ReceiveError PROVE CameraInv'
<1> DEFINE kept == ~evicted
           q == Tail(toClient)
<1>1. /\ Received /\ announcing = 0 /\ toClient # <<>> /\ Head(toClient).type = "error"
      /\ cl' = cl
  BY DEF ReceiveError, Receives
<1>2. Fine(cl, clicks, toClient, srv, kept)
  BY DEF CameraInv
<1> HIDE DEF kept, q
<1>3. Fine(cl', clicks, q, srv, kept)
  BY <1>1, <1>2, FineHeard DEF q
<1> QED
  BY <1>1, <1>3, ReceiveStep DEF kept, q

(* on_screen_share_stopped: while stops are awaited it is their echo, and  *)
(* with none awaited the server has ended the stream that is shown.        *)
LEMMA ReceiveStoppedKeeps == ASSUME CameraInv, ReceiveStopped PROVE CameraInv'
<1> DEFINE kept == ~evicted
           q == Tail(toClient)
           c == StopCapture(cl)
           echo == [cl EXCEPT !.watch = FALSE, !.stops = @ - 1]
           taken == [c EXCEPT !.watch = FALSE, !.preview = FALSE, !.on = FALSE]
           other == [cl EXCEPT !.watch = FALSE]
<1>1. /\ Received /\ announcing = 0 /\ toClient # <<>> /\ Head(toClient).type = "stopped"
      /\ cl' = IF cl.stops > 0 THEN echo ELSE IF Announced(cl) THEN taken ELSE other
  BY DEF ReceiveStopped, Receives
<1>2. /\ cl \in Client /\ Capture(cl) /\ Flags(cl) /\ Args(cl) /\ Budget(cl, clicks)
      /\ clicks \in Nat /\ Len(cl.sessions) \in Nat /\ toClient \in Seq(Replies)
      /\ srv \in View /\ Stream(cl, toClient, srv, kept) /\ cl.stops \in Nat
  BY CameraInvFacts, ClientFields
<1>3. q \in Seq(Replies)
  BY <1>1, <1>2, Shortened
<1> HIDE DEF kept
<1>4. CASE cl.stops > 0
  <2>1. /\ cl' \in Client /\ cl'.sessions = cl.sessions /\ cl'.tasks = cl.tasks
        /\ cl'.camera = cl.camera /\ cl'.opening = cl.opening /\ cl'.wire = cl.wire
        /\ cl'.stops = cl.stops - 1 /\ cl'.channel = cl.channel
        /\ cl'.on = cl.on /\ cl'.starting = cl.starting /\ cl'.restart = cl.restart
    <3>1. cl' = echo /\ cl.stops - 1 \in Nat
      BY <1>1, <1>2, <1>4
    <3> QED
      BY <1>2, <3>1 DEF Client
  <2>2. /\ Capture(cl') /\ Flags(cl') /\ Args(cl') /\ Budget(cl', clicks)
        /\ Announced(cl') = Announced(cl) /\ Shown(cl') = Shown(cl)
    BY <1>2, <2>1, CaptureSame DEF Flags, Args, Budget, Announced, Shown
  <2>3. Stream(cl', q, srv, kept)
    BY <1>1, <1>2, <1>4, <2>1, <2>2, StreamEcho
  <2>4. Fine(cl', clicks, q, srv, kept)
    BY <1>2, <1>3, <2>2, <2>3 DEF Fine, Good
  <2> QED
    BY <1>1, <2>1, <2>4, ReceiveStep DEF kept
<1>5. CASE cl.stops = 0 /\ ~Announced(cl)
  <2>1. /\ cl' \in Client /\ cl'.sessions = cl.sessions /\ cl'.tasks = cl.tasks
        /\ cl'.camera = cl.camera /\ cl'.opening = cl.opening /\ cl'.wire = cl.wire
        /\ cl'.stops = 0 /\ cl'.channel = cl.channel
        /\ cl'.on = cl.on /\ cl'.starting = cl.starting /\ cl'.restart = cl.restart
    <3>1. cl' = other
      BY <1>1, <1>5
    <3> QED
      BY <1>2, <1>5, <3>1 DEF Client
  <2>2. /\ Capture(cl') /\ Flags(cl') /\ Args(cl') /\ Budget(cl', clicks)
        /\ Announced(cl') = Announced(cl) /\ Shown(cl') = Shown(cl)
    BY <1>2, <2>1, CaptureSame DEF Flags, Args, Budget, Announced, Shown
  <2>3. Stream(cl', q, srv, kept)
    BY <1>1, <1>2, <1>5, <2>1, <2>2, StreamEcho
  <2>4. Fine(cl', clicks, q, srv, kept)
    BY <1>2, <1>3, <2>2, <2>3 DEF Fine, Good
  <2> QED
    BY <1>1, <2>1, <2>4, ReceiveStep DEF kept
<1>6. CASE cl.stops = 0 /\ Announced(cl)
  <2>1. /\ Capture(c) /\ Keeps(cl, c) /\ c.camera = 0 /\ c.opening = 0
        /\ Len(c.sessions) = Len(cl.sessions) /\ c \in Client
    BY <1>2, StopCaptureStops DEF Capture
  <2>2. cl' = taken
    BY <1>1, <1>6
  <2> HIDE DEF c
  <2>3. /\ cl' \in Client /\ cl'.sessions = c.sessions /\ cl'.tasks = c.tasks
        /\ cl'.camera = 0 /\ cl'.opening = 0 /\ cl'.wire = cl.wire /\ cl'.stops = 0
        /\ ~cl'.on /\ cl'.starting = cl.starting /\ cl'.restart = cl.restart
    BY <1>2, <1>6, <2>1, <2>2 DEF Client, Keeps
  <2>4. ~cl'.starting /\ ~cl'.restart
    BY <1>2, <1>6, <2>3 DEF Announced, Flags
  <2>5. Capture(cl')
    BY <2>1, <2>3, CaptureSame
  <2>6. Flags(cl') /\ ~Announced(cl') /\ Shown(cl') = 0
    BY <2>3, <2>4 DEF Flags, Announced, Shown
  <2>7. Args(cl')
    BY <1>2, <2>1, <2>3 DEF Args
  <2>8. Budget(cl', clicks)
    BY <1>2, <2>1, <2>3 DEF Budget
  <2>9. Stream(cl', q, srv, kept)
    BY <1>1, <1>2, <1>6, <2>3, <2>6, StreamTakenAway
  <2>10. Fine(cl', clicks, q, srv, kept)
    BY <1>2, <1>3, <2>5, <2>6, <2>7, <2>8, <2>9 DEF Fine, Good
  <2> QED
    BY <1>1, <2>1, <2>3, <2>10, ReceiveStep DEF kept
<1> QED
  BY <1>2, <1>4, <1>5, <1>6

(* A deletion took us out: the camera goes off without a word.             *)
LEMMA ReceiveLeftKeeps == ASSUME CameraInv, ReceiveLeft PROVE CameraInv'
<1> DEFINE kept == ~evicted
           q == Tail(toClient)
           off == StopCamera(cl, FALSE)
           t == [off EXCEPT !.channel = NoChannel, !.watch = FALSE]
<1>1. /\ Received /\ announcing = 0 /\ toClient # <<>> /\ Head(toClient).type = "left"
      /\ cl' = IF Head(toClient).arg = cl.channel THEN LeaveChannel(cl, FALSE) ELSE cl
  BY DEF ReceiveLeft, Receives
<1>2. /\ cl \in Client /\ Capture(cl) /\ Flags(cl) /\ Args(cl) /\ Budget(cl, clicks)
      /\ clicks \in Nat /\ Len(cl.sessions) \in Nat /\ toClient \in Seq(Replies)
      /\ srv \in View /\ Stream(cl, toClient, srv, kept)
      /\ Fine(cl, clicks, toClient, srv, kept)
  BY CameraInvFacts DEF CameraInv
<1>3. Head(toClient).arg \in Channels
  <2>1. Head(toClient) \in Replies
    BY <1>1, <1>2, Shortened
  <2> QED
    BY <1>1, <2>1 DEF Replies
<1> HIDE DEF kept
<1>4. ~kept
  BY <1>1, <1>2, NoneLeftBehind DEF Stream
<1>5. q \in Seq(Replies)
  BY <1>1, <1>2, Shortened
<1>6. Fine(cl, clicks, q, srv, kept)
  BY <1>1, <1>2, FineHeard
<1>7. CASE Head(toClient).arg = cl.channel
  <2>1. cl' = t
    BY <1>1, <1>3, <1>7, NoChannelIsNone DEF LeaveChannel
  <2>2. WentOff(cl, off) /\ off.wire = cl.wire /\ off \in Client
    BY <1>2, SilentStop DEF WentOff, Capture
  <2> HIDE DEF off
  <2>3. /\ cl' \in Client /\ cl'.sessions = off.sessions /\ cl'.tasks = off.tasks
        /\ cl'.camera = 0 /\ cl'.opening = 0 /\ cl'.wire = cl.wire
        /\ ~cl'.on /\ ~cl'.starting /\ ~cl'.restart
    BY <2>1, <2>2 DEF Client, WentOff
  <2>4. Capture(cl') /\ Len(cl'.sessions) = Len(cl.sessions)
    BY <2>2, <2>3, CaptureSame DEF WentOff
  <2>5. Args(cl')
    BY <1>2, <2>3, <2>4 DEF Args
  <2>6. Len(cl'.sessions) <= clicks
    <3>1. One(cl.restart) \in {0, 1}
      BY DEF One
    <3> QED
      BY <1>2, <2>4, <3>1 DEF Budget
  <2>7. srv.published => srv.channel # NoChannel
    BY <1>2 DEF Stream
  <2>8. Fine(cl', clicks, q, srv, kept)
    BY <1>2, <1>4, <1>5, <2>3, <2>4, <2>5, <2>6, <2>7, FineOff
  <2> QED
    BY <1>1, <2>4, <2>8, ReceiveStep DEF kept
<1>8. CASE Head(toClient).arg # cl.channel
  BY <1>1, <1>6, <1>8, ReceiveStep DEF kept
<1> QED
  BY <1>7, <1>8
-----------------------------------------------------------------------------
(* The server handles a request, deletes a channel or loses the connection.*)

LEMMA Replied ==
  ASSUME NEW q \in Seq(Replies), NEW e \in Replies
  PROVE  /\ Append(q, e) \in Seq(Replies)
         /\ Count(Append(q, e), "stopped") = Count(q, "stopped") + Mark(e, "stopped")
         /\ NoneLeft(q) /\ e.type # "left" => NoneLeft(Append(q, e))
<1>1. /\ Append(q, e) \in Seq(Replies) /\ Len(q) \in Nat
      /\ Len(Append(q, e)) = Len(q) + 1
      /\ \A i \in 1..Len(q) : Append(q, e)[i] = q[i]
      /\ Append(q, e)[Len(q) + 1] = e
  BY Appended
<1>2. NoneLeft(q) /\ e.type # "left" => NoneLeft(Append(q, e))
  <2> SUFFICES ASSUME NoneLeft(q), e.type # "left", NEW k \in 1..Len(Append(q, e))
               PROVE  Append(q, e)[k].type # "left"
    BY DEF NoneLeft
  <2>1. CASE k \in 1..Len(q)
    BY <1>1, <2>1 DEF NoneLeft
  <2>2. CASE k = Len(q) + 1
    BY <1>1, <2>2
  <2> QED
    BY <1>1, <2>1, <2>2
<1> QED
  BY <1>1, <1>2, CountAppend

LEMMA RepliedStopped ==
  ASSUME NEW q \in Seq(Replies), srv \in View
  PROVE  /\ q \o StoppedMsgs \in Seq(Replies)
         /\ Count(q \o StoppedMsgs, "stopped") = Count(q, "stopped") + One(srv.published)
         /\ NoneLeft(q) => NoneLeft(q \o StoppedMsgs)
<1>1. CASE srv.published
  <2>1. Msg("stopped") \in Replies /\ Msg("stopped").type = "stopped"
    BY DEF Msg, Replies
  <2>2. q \o StoppedMsgs = Append(q, Msg("stopped"))
    BY <1>1, <2>1, AppendIsConcat DEF StoppedMsgs
  <2>3. One(srv.published) = 1 /\ Mark(Msg("stopped"), "stopped") = 1
    BY <1>1, <2>1 DEF One, Mark
  <2> QED
    BY <2>1, <2>2, <2>3, Replied
<1>2. CASE ~srv.published
  <2>1. q \o StoppedMsgs = q
    BY <1>2, ConcatEmptySeq DEF StoppedMsgs
  <2>2. One(srv.published) = 0 /\ Count(q, "stopped") \in Nat
    BY <1>2, CountIsNat DEF One
  <2> QED
    BY <2>1, <2>2
<1> QED
  BY <1>1, <1>2

LEMMA ServeStep ==
  ASSUME CameraInv, cl.wire # <<>>, Handled, toClient' \in Seq(Replies), srv' \in View,
         Serves(Head(cl.wire), srv, srv'), srv'.described \in 0..Len(cl.sessions),
         Count(toClient', "stopped") + One(srv'.published)
           <= Count(toClient, "stopped") + One(srv.published) + Mark(Head(cl.wire), "start"),
         NoneLeft(toClient) => NoneLeft(toClient')
  PROVE  CameraInv'
<1> DEFINE kept == ~evicted
<1>1. /\ cl' = [cl EXCEPT !.wire = Tail(cl.wire)]
      /\ UNCHANGED <<announcing, exists, evicted, clicks>>
  BY DEF Handled
<1>2. /\ cl \in Client /\ Capture(cl) /\ Flags(cl) /\ Args(cl) /\ Budget(cl, clicks)
      /\ clicks \in Nat /\ Len(cl.sessions) \in Nat /\ toClient \in Seq(Replies)
      /\ srv \in View /\ Stream(cl, toClient, srv, kept) /\ cl.wire \in Seq(Requests)
      /\ exists \subseteq Channels /\ evicted \in BOOLEAN /\ clicks <= MaxClicks
      /\ announcing \in 0..Len(cl.sessions)
  BY CameraInvFacts, ClientFields DEF CameraInv
<1> HIDE DEF kept
<1>3. /\ Tail(cl.wire) \in Seq(Requests) /\ Len(cl.wire) \in Nat
      /\ Len(Tail(cl.wire)) = Len(cl.wire) - 1
      /\ \A i \in 1..Len(cl.wire) - 1 : Tail(cl.wire)[i] = cl.wire[i + 1]
  BY <1>2, Shortened
<1>4. /\ cl' \in Client /\ cl'.sessions = cl.sessions /\ cl'.tasks = cl.tasks
      /\ cl'.camera = cl.camera /\ cl'.opening = cl.opening /\ cl'.wire = Tail(cl.wire)
      /\ cl'.stops = cl.stops /\ cl'.channel = cl.channel
      /\ cl'.on = cl.on /\ cl'.starting = cl.starting /\ cl'.restart = cl.restart
  BY <1>1, <1>2, <1>3 DEF Client
<1>5. /\ Capture(cl') /\ Flags(cl') /\ Budget(cl', clicks)
      /\ Announced(cl') = Announced(cl) /\ Shown(cl') = Shown(cl)
  BY <1>2, <1>4, CaptureSame DEF Flags, Budget, Announced, Shown
<1>6. Args(cl')
  <2> SUFFICES ASSUME NEW k \in 1..Len(Tail(cl.wire)), Tail(cl.wire)[k].type = "update"
               PROVE  Tail(cl.wire)[k].arg \in 1..Len(cl.sessions)
    BY <1>4 DEF Args
  <2>1. k + 1 \in 1..Len(cl.wire) /\ Tail(cl.wire)[k] = cl.wire[k + 1]
    BY <1>3
  <2> QED
    BY <1>2, <2>1 DEF Args
<1>7. Announced(cl) => cl.channel # NoChannel
  BY <1>2 DEF Flags, Announced
<1>8. Stream(cl', toClient', srv', kept)
  BY <1>2, <1>4, <1>5, <1>7, StreamServed
<1>9. Fine(cl', clicks, toClient', srv', kept)
  BY <1>2, <1>5, <1>6, <1>8 DEF Fine, Good
<1> QED
  BY <1>1, <1>2, <1>4, <1>9 DEF CameraInv, kept

LEMMA ServerRefusesJoinKeeps == ASSUME CameraInv, ServerRefusesJoin PROVE CameraInv'
<1>1. /\ cl.wire # <<>> /\ Head(cl.wire).type = "join" /\ Handled
      /\ toClient' = Append(toClient, Msg("error")) /\ srv' = srv
  BY DEF ServerRefusesJoin, Handles
<1>2. toClient \in Seq(Replies) /\ srv \in View /\ srv.described \in 0..Len(cl.sessions)
  BY CameraInvFacts DEF CameraInv
<1>3. Msg("error") \in Replies /\ Msg("error").type = "error"
  BY DEF Msg, Replies
<1>4. /\ toClient' \in Seq(Replies)
      /\ Count(toClient', "stopped") = Count(toClient, "stopped") + 0
      /\ NoneLeft(toClient) => NoneLeft(toClient')
  BY <1>1, <1>2, <1>3, Replied DEF Mark
<1>5. Serves(Head(cl.wire), srv, srv')
  BY <1>1 DEF Serves
<1>6. Mark(Head(cl.wire), "start") = 0 /\ Count(toClient, "stopped") \in Nat
      /\ One(srv.published) \in {0, 1}
  BY <1>1, <1>2, CountIsNat DEF Mark, One
<1>7. Count(toClient', "stopped") + One(srv'.published)
        <= Count(toClient, "stopped") + One(srv.published) + Mark(Head(cl.wire), "start")
  BY <1>1, <1>4, <1>6
<1> QED
  BY <1>1, <1>2, <1>4, <1>5, <1>7, ServeStep

LEMMA ServerJoinsKeeps == ASSUME CameraInv, ServerJoins PROVE CameraInv'
<1> DEFINE c == Head(cl.wire).arg
           list == [type |-> "list", arg |-> c]
<1>1. /\ cl.wire # <<>> /\ Head(cl.wire).type = "join" /\ Handled /\ c \in exists
  BY DEF ServerJoins, Handles
<1>2. /\ toClient \in Seq(Replies) /\ srv \in View /\ srv.described \in 0..Len(cl.sessions)
      /\ Len(cl.sessions) \in Nat /\ c \in Channels
  BY <1>1, CameraInvFacts DEF CameraInv
<1>3. list \in Replies /\ list.type = "list"
  BY <1>2 DEF Replies
<1>4. Mark(Head(cl.wire), "start") = 0 /\ Count(toClient, "stopped") \in Nat
      /\ One(srv.published) \in {0, 1} /\ Mark(list, "stopped") = 0
  BY <1>1, <1>2, <1>3, CountIsNat DEF Mark, One
<1> HIDE DEF list
<1>5. CASE c = srv.channel
  <2>1. /\ toClient' = Append(toClient, list) \o
                          IF srv.published THEN <<Msg("started")>> ELSE <<>>
        /\ srv' = srv
    BY <1>5 DEF ServerJoins, list
  <2> DEFINE q == Append(toClient, list)
  <2>2. /\ q \in Seq(Replies) /\ Count(q, "stopped") = Count(toClient, "stopped") + 0
        /\ NoneLeft(toClient) => NoneLeft(q)
    BY <1>2, <1>3, <1>4, Replied
  <2> HIDE DEF q
  <2>3. Msg("started") \in Replies /\ Msg("started").type = "started"
    BY DEF Msg, Replies
  <2>4. toClient' = q \/ toClient' = Append(q, Msg("started"))
    <3>1. q \o <<>> = q /\ q \o <<Msg("started")>> = Append(q, Msg("started"))
      BY <2>2, <2>3, AppendIsConcat, ConcatEmptySeq
    <3> QED
      BY <2>1, <3>1 DEF q
  <2>5. /\ Append(q, Msg("started")) \in Seq(Replies)
        /\ Count(Append(q, Msg("started")), "stopped") = Count(q, "stopped") + 0
        /\ NoneLeft(q) => NoneLeft(Append(q, Msg("started")))
    BY <2>2, <2>3, Replied DEF Mark
  <2>6. /\ toClient' \in Seq(Replies) /\ Count(toClient', "stopped") = Count(toClient, "stopped")
        /\ NoneLeft(toClient) => NoneLeft(toClient')
    <3>1. CASE toClient' = q
      BY <1>4, <2>2, <3>1
    <3>2. CASE toClient' = Append(q, Msg("started"))
      BY <1>4, <2>2, <2>5, <3>2
    <3> QED
      BY <2>4, <3>1, <3>2
  <2>7. Serves(Head(cl.wire), srv, srv')
    BY <1>1, <2>1 DEF Serves
  <2>8. Count(toClient', "stopped") + One(srv'.published)
          <= Count(toClient, "stopped") + One(srv.published) + Mark(Head(cl.wire), "start")
    BY <1>4, <2>1, <2>6
  <2> QED
    BY <1>1, <1>2, <2>1, <2>6, <2>7, <2>8, ServeStep
<1>6. CASE c # srv.channel
  <2>1. /\ toClient' = Append(toClient \o StoppedMsgs, list)
        /\ srv' = NotPublished(c)
    BY <1>6 DEF ServerJoins, list
  <2> DEFINE q == toClient \o StoppedMsgs
  <2>2. /\ q \in Seq(Replies)
        /\ Count(q, "stopped") = Count(toClient, "stopped") + One(srv.published)
        /\ NoneLeft(toClient) => NoneLeft(q)
    BY <1>2, RepliedStopped
  <2> HIDE DEF q
  <2>3. /\ toClient' \in Seq(Replies)
        /\ Count(toClient', "stopped") = Count(q, "stopped") + 0
        /\ NoneLeft(q) => NoneLeft(toClient')
    BY <1>3, <1>4, <2>1, <2>2, Replied DEF q
  <2>4. /\ srv' \in View /\ ~srv'.published /\ srv'.channel = c
        /\ srv'.described = srv.described
    BY <1>2, <2>1 DEF NotPublished, View
  <2>5. Serves(Head(cl.wire), srv, srv')
    BY <1>1, <2>4 DEF Serves
  <2>6. One(srv'.published) = 0
    BY <2>4 DEF One
  <2>7. Count(toClient', "stopped") + One(srv'.published)
          <= Count(toClient, "stopped") + One(srv.published) + Mark(Head(cl.wire), "start")
    BY <1>4, <2>2, <2>3, <2>6
  <2> QED
    BY <1>1, <1>2, <2>2, <2>3, <2>4, <2>5, <2>7, ServeStep
<1> QED
  BY <1>5, <1>6

(* The requests that end the stream, with a notice if it was published.    *)
LEMMA ServeEnding ==
  ASSUME CameraInv, cl.wire # <<>>, Handled, Head(cl.wire).type \in {"leave", "stop"},
         toClient' = toClient \o StoppedMsgs, srv' \in View, ~srv'.published,
         Head(cl.wire).type = "stop" => srv'.channel = srv.channel,
         srv'.described = srv.described
  PROVE  CameraInv'
<1>1. /\ toClient \in Seq(Replies) /\ srv \in View /\ srv.described \in 0..Len(cl.sessions)
  BY CameraInvFacts DEF CameraInv
<1>2. /\ toClient' \in Seq(Replies)
      /\ Count(toClient', "stopped") = Count(toClient, "stopped") + One(srv.published)
      /\ NoneLeft(toClient) => NoneLeft(toClient')
  BY <1>1, RepliedStopped
<1>3. /\ Mark(Head(cl.wire), "start") = 0 /\ Count(toClient, "stopped") \in Nat
      /\ One(srv.published) \in {0, 1} /\ One(srv'.published) = 0
  BY <1>1, CountIsNat DEF Mark, One
<1>4. Count(toClient', "stopped") + One(srv'.published)
        <= Count(toClient, "stopped") + One(srv.published) + Mark(Head(cl.wire), "start")
  BY <1>2, <1>3
<1>5. Serves(Head(cl.wire), srv, srv')
  BY DEF Serves
<1> QED
  BY <1>1, <1>2, <1>4, <1>5, ServeStep

(* The requests that leave the queue to the client as it is.               *)
LEMMA ServeQuietly ==
  ASSUME CameraInv, cl.wire # <<>>, Handled, toClient' = toClient, srv' \in View,
         srv'.published = srv.published, Serves(Head(cl.wire), srv, srv'),
         srv'.described \in 0..Len(cl.sessions)
  PROVE  CameraInv'
<1>1. toClient \in Seq(Replies)
  BY CameraInvFacts
<1>2. /\ Mark(Head(cl.wire), "start") \in {0, 1} /\ Count(toClient, "stopped") \in Nat
      /\ One(srv.published) \in {0, 1}
  BY <1>1, CountIsNat DEF Mark, One
<1>3. Count(toClient', "stopped") + One(srv'.published)
        <= Count(toClient, "stopped") + One(srv.published) + Mark(Head(cl.wire), "start")
  BY <1>2
<1> QED
  BY <1>1, <1>3, ServeStep

LEMMA ServerLeavesKeeps == ASSUME CameraInv, ServerLeaves PROVE CameraInv'
<1>1. /\ cl.wire # <<>> /\ Head(cl.wire).type = "leave" /\ Handled
  BY DEF ServerLeaves, Handles
<1>2. srv \in View /\ srv.described \in 0..Len(cl.sessions)
  BY CameraInvFacts DEF CameraInv
<1>3. CASE srv.channel = NoChannel
  <2>1. srv' = srv /\ toClient' = toClient
    BY <1>3 DEF ServerLeaves
  <2>2. Serves(Head(cl.wire), srv, srv')
    BY <1>1, <1>3, <2>1 DEF Serves
  <2> QED
    BY <1>1, <1>2, <2>1, <2>2, ServeQuietly
<1>4. CASE srv.channel # NoChannel
  <2>1. srv' = NotPublished(NoChannel) /\ toClient' = toClient \o StoppedMsgs
    BY <1>4 DEF ServerLeaves
  <2>2. srv' \in View /\ ~srv'.published /\ srv'.described = srv.described
    BY <1>2, <2>1 DEF NotPublished, View
  <2> QED
    BY <1>1, <2>1, <2>2, ServeEnding
<1> QED
  BY <1>3, <1>4

LEMMA ServerStopsKeeps == ASSUME CameraInv, ServerStops PROVE CameraInv'
<1>1. /\ cl.wire # <<>> /\ Head(cl.wire).type = "stop" /\ Handled
      /\ toClient' = toClient \o StoppedMsgs /\ srv' = [srv EXCEPT !.published = FALSE]
  BY DEF ServerStops, Handles
<1>2. srv \in View
  BY CameraInvFacts
<1>3. /\ srv' \in View /\ ~srv'.published /\ srv'.described = srv.described
      /\ srv'.channel = srv.channel
  BY <1>1, <1>2 DEF View
<1> QED
  BY <1>1, <1>3, ServeEnding

LEMMA ServerUpdatesKeeps == ASSUME CameraInv, ServerUpdates PROVE CameraInv'
<1> DEFINE m == Head(cl.wire)
<1>1. /\ cl.wire # <<>> /\ m.type = "update" /\ Handled /\ toClient' = toClient
      /\ srv' = IF srv.published THEN [srv EXCEPT !.described = m.arg] ELSE srv
  BY DEF ServerUpdates, Handles
<1>2. /\ srv \in View /\ srv.described \in 0..Len(cl.sessions) /\ Args(cl)
      /\ Len(cl.sessions) \in Nat /\ cl.wire \in Seq(Requests)
  BY CameraInvFacts, ClientFields DEF CameraInv
<1>3. m.arg \in 1..Len(cl.sessions)
  <2>1. m = cl.wire[1] /\ 1 \in 1..Len(cl.wire)
    BY <1>1, <1>2, Shortened
  <2> QED
    BY <1>1, <1>2, <2>1 DEF Args
<1> HIDE DEF m
<1>4. /\ srv' \in View /\ srv'.published = srv.published /\ srv'.channel = srv.channel
      /\ srv'.described \in 0..Len(cl.sessions)
      /\ srv.published => srv'.described = m.arg
  BY <1>1, <1>2, <1>3 DEF View
<1>5. Serves(m, srv, srv')
  BY <1>1, <1>4 DEF Serves
<1> QED
  BY <1>1, <1>4, <1>5, ServeQuietly DEF m

LEMMA ServerStartsKeeps == ASSUME CameraInv, ServerStarts PROVE CameraInv'
<1>1. /\ cl.wire # <<>> /\ Head(cl.wire).type = "start" /\ Handled
  BY DEF ServerStarts, Handles
<1>2. /\ srv \in View /\ srv.described \in 0..Len(cl.sessions)
      /\ toClient \in Seq(Replies) /\ Len(cl.sessions) \in Nat
  BY CameraInvFacts DEF CameraInv
<1>3. CASE srv.channel = NoChannel
  <2>1. srv' = srv /\ toClient' = toClient
    BY <1>3 DEF ServerStarts
  <2>2. Serves(Head(cl.wire), srv, srv')
    <3> DEFINE m == Head(cl.wire)
    <3>1. m.type = "start" /\ srv' = srv /\ srv.channel = NoChannel
      BY <1>1, <1>3, <2>1
    <3> HIDE DEF m
    <3>2. Serves(m, srv, srv')
      BY <3>1 DEF Serves
    <3> QED
      BY <3>2 DEF m
  <2> QED
    BY <1>1, <1>2, <2>1, <2>2, ServeQuietly
<1>4. CASE srv.channel # NoChannel
  <2>1. /\ toClient' = Append(toClient, Msg("started"))
        /\ srv' = [srv EXCEPT !.published = TRUE, !.described = 0]
    BY <1>4 DEF ServerStarts
  <2>2. Msg("started") \in Replies /\ Msg("started").type = "started"
    BY DEF Msg, Replies
  <2>3. /\ toClient' \in Seq(Replies)
        /\ Count(toClient', "stopped") = Count(toClient, "stopped") + 0
        /\ NoneLeft(toClient) => NoneLeft(toClient')
    BY <1>2, <2>1, <2>2, Replied DEF Mark
  <2>4. /\ srv' \in View /\ srv'.published /\ srv'.channel = srv.channel
        /\ srv'.described = 0
    BY <1>2, <2>1 DEF View
  <2>5. Serves(Head(cl.wire), srv, srv')
    BY <1>1, <1>4, <2>4 DEF Serves
  <2>6. /\ Mark(Head(cl.wire), "start") = 1 /\ Count(toClient, "stopped") \in Nat
        /\ One(srv.published) \in {0, 1} /\ One(srv'.published) = 1
    BY <1>1, <1>2, <2>4, CountIsNat DEF Mark, One
  <2>7. Count(toClient', "stopped") + One(srv'.published)
          <= Count(toClient, "stopped") + One(srv.published) + Mark(Head(cl.wire), "start")
    BY <2>3, <2>6
  <2>8. srv'.described \in 0..Len(cl.sessions)
    BY <1>2, <2>4
  <2> QED
    BY <1>1, <2>3, <2>4, <2>5, <2>7, <2>8, ServeStep
<1> QED
  BY <1>3, <1>4
LEMMA AfterWeaker ==
  ASSUME NEW w, NEW P, NEW Q, NEW base, NEW next, After(w, P, Q, base), base => next
  PROVE  After(w, P, Q, next)
BY DEF After

LEMMA AfterEmpty ==
  ASSUME NEW P, NEW Q, NEW base, After(<<>>, P, Q, base)
  PROVE  base
<1>1. Len(<<>>) = 0
  BY EmptySeq
<1>2. PICK i \in 0..0 : IF i = 0 THEN base ELSE (<<>>)[i] \in Q
  BY <1>1 DEF After
<1> QED
  BY <1>2

(* Carried out or refused, a deletion takes the user out of its channel.   *)
LEMMA MovesMembersOutKeeps ==
  ASSUME CameraInv, NEW c \in Channels, MovesMembersOut(c), exists' \subseteq exists
  PROVE  CameraInv'
<1> DEFINE kept == ~evicted
<1>1. /\ clicks < MaxClicks /\ clicks' = clicks + 1
      /\ cl' = cl /\ announcing' = announcing
  BY DEF MovesMembersOut
<1>2. /\ cl \in Client /\ Flags(cl) /\ clicks \in Nat /\ toClient \in Seq(Replies)
      /\ srv \in View /\ Stream(cl, toClient, srv, kept) /\ MaxClicks \in Nat
      /\ Fine(cl, clicks, toClient, srv, kept)
      /\ announcing \in 0..Len(cl.sessions) /\ srv.described \in 0..Len(cl.sessions)
      /\ exists \subseteq Channels /\ evicted \in BOOLEAN
  BY CameraInvFacts, MaxClicksIsNat DEF CameraInv
<1> HIDE DEF kept
<1>3. exists' \subseteq Channels
  BY <1>2
<1>4. /\ toClient' \in Seq(Replies) /\ srv' \in View /\ srv'.described = srv.described
      /\ Stream(cl, toClient', srv', ~evicted') /\ evicted' \in BOOLEAN
  <2>1. CASE srv.channel = c
    <3>1. /\ toClient' = Append(toClient \o StoppedMsgs, [type |-> "left", arg |-> c])
          /\ srv' = NotPublished(NoChannel) /\ evicted'
          /\ evicted' \in BOOLEAN
      BY <2>1 DEF MovesMembersOut
    <3>2. [type |-> "left", arg |-> c] \in Replies
      BY DEF Replies
    <3>3. toClient' \in Seq(Replies)
      BY <1>2, <3>1, <3>2, RepliedStopped, AppendProperties
    <3>4. /\ srv' \in View /\ srv'.described = srv.described /\ ~srv'.published
          /\ srv'.channel = NoChannel
      BY <1>2, <3>1 DEF NotPublished, View
    <3>5. Told(cl, srv')
      <4> SUFFICES ASSUME Announced(cl) PROVE Told(cl, srv')
        BY DEF Told
      <4>1. After(cl.wire, Staying(cl.channel), Start, srv.channel = cl.channel => srv.published)
        BY <1>2 DEF Stream, Told
      <4>2. srv'.channel # cl.channel
        BY <1>2, <3>4 DEF Flags, Announced
      <4> QED
        BY <4>1, <4>2, AfterWeaker DEF Told
    <3>6. Described(cl, srv')
      <4> SUFFICES ASSUME Shown(cl) # 0 PROVE Described(cl, srv')
        BY DEF Described
      <4>1. After(cl.wire, Describing(Shown(cl)), Update(Shown(cl)),
                  srv.published => srv.described = Shown(cl))
        BY <1>2 DEF Stream, Described
      <4> QED
        BY <3>4, <4>1, AfterWeaker DEF Described
    <3> QED
      BY <3>1, <3>3, <3>4, <3>5, <3>6 DEF Stream
  <2>2. CASE srv.channel # c
    <3>1. toClient' = toClient /\ srv' = srv /\ evicted' = evicted
      BY <2>2 DEF MovesMembersOut
    <3> QED
      BY <1>2, <3>1 DEF kept
  <2> QED
    BY <2>1, <2>2
<1>5. Fine(cl, clicks + 1, toClient, srv, kept)
  BY <1>2, FineLater
<1>6. Stream(cl', toClient', srv', ~evicted')
  BY <1>1, <1>4 DEF Stream
<1>7. Fine(cl', clicks', toClient', srv', ~evicted')
  BY <1>1, <1>4, <1>5, <1>6 DEF Fine
<1> QED
  BY <1>1, <1>2, <1>3, <1>4, <1>7 DEF CameraInv

LEMMA ServerDeletesKeeps ==
  ASSUME CameraInv, NEW c \in Channels, ServerDeletes(c) \/ ServerDeleteFails(c)
  PROVE  CameraInv'
BY MovesMembersOutKeeps DEF ServerDeletes, ServerDeleteFails

LEMMA ConnectionLostKeeps == ASSUME CameraInv, ConnectionLost PROVE CameraInv'
<1> DEFINE off == StopCamera(cl, FALSE)
<1>1. /\ clicks < MaxClicks /\ clicks' = clicks + 1 /\ announcing = 0 /\ toClient' = <<>>
      /\ cl' = [off EXCEPT !.channel = NoChannel, !.pending = NoChannel, !.stops = 0,
                          !.watch = FALSE, !.wire = <<>>]
      /\ srv' = [channel |-> NoChannel, published |-> FALSE, described |-> 0]
      /\ announcing' = 0 /\ exists' = exists /\ evicted' = FALSE
  BY DEF ConnectionLost
<1>2. /\ Capture(cl) /\ Flags(cl) /\ Budget(cl, clicks) /\ clicks \in Nat
      /\ Len(cl.sessions) \in Nat /\ MaxClicks \in Nat /\ exists \subseteq Channels
  BY CameraInvFacts, MaxClicksIsNat DEF CameraInv
<1>3. WentOff(cl, off) /\ off \in Client
  BY <1>2, SilentStop DEF WentOff, Capture
<1> HIDE DEF off
<1>4. <<>> \in Seq(Requests) /\ <<>> \in Seq(Replies) /\ Len(<<>>) = 0 /\ 1..0 = {}
  BY EmptySeq
<1>5. /\ cl' \in Client /\ cl'.sessions = off.sessions /\ cl'.tasks = off.tasks
      /\ cl'.camera = 0 /\ cl'.opening = 0 /\ cl'.wire = <<>> /\ cl'.stops = 0
      /\ ~cl'.on /\ ~cl'.starting /\ ~cl'.restart
  BY <1>1, <1>3, <1>4 DEF Client, WentOff
<1>6. Capture(cl') /\ Len(cl'.sessions) = Len(cl.sessions)
  BY <1>3, <1>5, CaptureSame DEF WentOff
<1>7. Args(cl')
  BY <1>4, <1>5 DEF Args
<1>8. Len(cl'.sessions) <= clicks + 1 /\ clicks + 1 \in Nat
  <2>1. One(cl.restart) \in {0, 1}
    BY DEF One
  <2> QED
    BY <1>2, <1>6, <2>1 DEF Budget
<1>9. srv' \in View /\ ~srv'.published /\ srv'.described = 0
  BY <1>1 DEF View
<1>10. Ended(cl', srv')
  <2>1. \A k \in 1..Len(cl'.wire) : cl'.wire[k] \in NoStart
    BY <1>4, <1>5
  <2> QED
    BY <1>4, <1>5, <1>9, <2>1, AfterBase DEF Ended
<1>11. Balanced(cl', <<>>, srv')
  <2>1. Count(<<>>, "stopped") = 0 /\ Count(cl'.wire, "start") = 0
    BY <1>5, CountNone
  <2>2. One(srv'.published) = 0 /\ One(Announced(cl')) = 0
    BY <1>5, <1>9 DEF One, Announced
  <2> QED
    BY <1>5, <2>1, <2>2 DEF Balanced
<1>12. NoneLeft(<<>>)
  BY <1>4 DEF NoneLeft
<1> DEFINE kept == ~evicted'
<1>13. Fine(cl', clicks + 1, <<>>, srv', kept)
  <2> HIDE DEF kept
  <2> QED
    BY <1>4, <1>5, <1>6, <1>7, <1>8, <1>9, <1>10, <1>11, <1>12, FineOff
<1>14. announcing' \in 0..Len(cl'.sessions) /\ srv'.described \in 0..Len(cl'.sessions)
  BY <1>1, <1>2, <1>6, <1>9
<1>15. /\ exists' \subseteq Channels /\ evicted' \in BOOLEAN /\ clicks' <= MaxClicks
       /\ clicks' = clicks + 1 /\ toClient' = <<>>
  <2>1. evicted' \in BOOLEAN
    BY <1>1, Zenon
  <2>2. exists' \subseteq Channels /\ clicks' = clicks + 1 /\ toClient' = <<>>
    BY <1>1, <1>2
  <2>3. clicks' <= MaxClicks
    <3>1. clicks < MaxClicks
      BY <1>1
    <3> QED
      BY <1>2, <2>2, <3>1
  <2> QED
    BY <2>1, <2>2, <2>3
<1>16. Fine(cl', clicks', toClient', srv', kept)
  <2> HIDE DEF kept
  <2> QED
    BY <1>13, <1>15
<1> QED
  BY <1>14, <1>15, <1>16 DEF CameraInv

LEMMA CameraStep == CameraInv /\ [CameraNext]_cameraVars => CameraInv'
<1> SUFFICES ASSUME CameraInv, [CameraNext]_cameraVars PROVE CameraInv'
  OBVIOUS
<1>1. CASE ToggleOn \/ ToggleOff \/ SelectCamera \/ ClickLeave
  BY <1>1, ToggleOnKeeps, OtherClicksKeep
<1>2. ASSUME NEW c \in Channels, JoinChannel(c) \/ ServerDeletes(c) \/ ServerDeleteFails(c)
      PROVE  CameraInv'
  BY <1>2, JoinChannelKeeps, ServerDeletesKeeps
<1>3. CASE Poll
  BY <1>3, PollOpenFailsKeeps, PollPublishKeeps, PollLiveKeeps, PollFailedKeeps DEF Poll
<1>4. CASE CameraTask
  BY <1>4, OpenTaskKeeps, CloseTaskKeeps DEF CameraTask
<1>5. CASE Receive
  BY <1>5, ReceiveListKeeps, ReceiveStartedKeeps, ReceiveStoppedKeeps, ReceiveLeftKeeps,
     ReceiveErrorKeeps DEF Receive
<1>6. CASE Serve
  BY <1>6, ServerRefusesJoinKeeps, ServerJoinsKeeps, ServerLeavesKeeps, ServerStartsKeeps,
     ServerStopsKeeps, ServerUpdatesKeeps DEF Serve
<1>7. CASE ConnectionLost
  BY <1>7, ConnectionLostKeeps
<1>8. ASSUME NEW id \in Ids, Worker(id) PROVE CameraInv'
  BY <1>8, WorkerKeeps, WorkerUpdatesKeeps DEF Worker
<1>9. CASE UNCHANGED cameraVars
  BY <1>9 DEF cameraVars, CameraInv
<1> QED
  BY <1>1, <1>2, <1>3, <1>4, <1>5, <1>6, <1>7, <1>8, <1>9 DEF CameraNext

LEMMA CameraInvHolds == CameraSpec => []CameraInv
BY InitKeeps, CameraStep, PTL DEF CameraSpec

(* Whatever is clicked while the camera thread lags behind, the state of   *)
(* the camera is consistent on both threads and at most one capture        *)
(* session has the device (start_camera_capture, stop_camera_capture,      *)
(* restart_camera_capture and the task queue of the camera thread).        *)
THEOREM CaptureIsDisciplined == CameraSpec => []CaptureDiscipline
<1>1. ASSUME CameraInv PROVE CaptureDiscipline
  <2>1. /\ cl \in Client /\ Devices(cl) /\ InQueue(cl) /\ Flags(cl) /\ Budget(cl, clicks)
        /\ Len(cl.sessions) \in Nat /\ clicks \in Nat /\ clicks <= MaxClicks
        /\ toClient \in Seq(Replies) /\ srv \in View /\ MaxClicks \in Nat
    BY <1>1, CameraInvFacts, MaxClicksIsNat DEF Capture
  <2>2. /\ announcing \in 0..Len(cl.sessions) /\ srv.described \in 0..Len(cl.sessions)
        /\ exists \subseteq Channels /\ evicted \in BOOLEAN
    BY <1>1 DEF CameraInv
  <2>3. srv \in [channel : Channels \cup {NoChannel}, published : BOOLEAN,
                described : 0..Len(cl.sessions)]
    BY <2>1, <2>2 DEF View
  <2>4. Len(cl.sessions) <= MaxClicks
    <3>1. One(cl.restart) \in {0, 1}
      BY DEF One
    <3> QED
      BY <2>1, <3>1 DEF Budget
  <2>5. CameraTypeOK
    BY <2>1, <2>2, <2>3, <2>4 DEF CameraTypeOK, Devices, Flags
  <2>6. DeviceExclusive
    BY <2>1 DEF DeviceExclusive, InQueue, Queue, OneOpen
  <2> QED
    BY <2>5, <2>6 DEF CaptureDiscipline
<1> QED
  BY <1>1, CameraInvHolds, PTL

(* Once everything in flight has arrived the server publishes the camera   *)
(* the client shows as live, and, unless a deletion took the user out of a *)
(* channel (ServerDeletes, or ServerDeleteFails), nothing else             *)
(* (on_screen_share_stopped's counting of its own stops, stop_camera,      *)
(* on_channel_user_list and the server's video handlers).                  *)
THEOREM CameraAlwaysAgrees == CameraSpec => []CameraAgrees
<1>1. ASSUME CameraInv PROVE CameraAgrees
  <2> SUFFICES ASSUME Settled
               PROVE  /\ Announced(cl) => srv.published
                      /\ srv.published /\ ~evicted => Announced(cl)
    BY DEF CameraAgrees
  <2>1. Stream(cl, toClient, srv, ~evicted) /\ cl.wire = <<>> /\ srv.channel = cl.channel
    BY <1>1 DEF CameraInv, Fine, Settled
  <2>2. ASSUME Announced(cl) PROVE srv.published
    <3> DEFINE base == srv.channel = cl.channel => srv.published
    <3>1. After(<<>>, Staying(cl.channel), Start, base)
      BY <2>1, <2>2 DEF Stream, Told
    <3> HIDE DEF base
    <3>2. base
      BY <3>1, AfterEmpty
    <3> QED
      BY <2>1, <3>2 DEF base
  <2>3. ASSUME ~evicted, ~Announced(cl) PROVE ~srv.published
    <3> DEFINE base == ~srv.published
    <3>1. After(<<>>, NoStart, Ending, base)
      BY <2>1, <2>3 DEF Stream, Ended
    <3> HIDE DEF base
    <3>2. base
      BY <3>1, AfterEmpty
    <3> QED
      BY <3>2 DEF base
  <2> QED
    BY <2>2, <2>3
<1> QED
  BY <1>1, CameraInvHolds, PTL

(* Once everything in flight has arrived the server describes the stream   *)
(* by the encoder that produces it (send_video_stream_update after         *)
(* camera_started, and the session a restart replaced says nothing more).  *)
THEOREM StreamAlwaysDescribed == CameraSpec => []StreamDescribed
<1>1. ASSUME CameraInv PROVE StreamDescribed
  <2> SUFFICES ASSUME Settled, srv.published, cl.camera # 0,
                      cl.sessions[cl.camera].enc = "running"
               PROVE  srv.described = cl.camera
    BY DEF StreamDescribed
  <2>1. Stream(cl, toClient, srv, ~evicted) /\ cl.wire = <<>>
    BY <1>1 DEF CameraInv, Fine, Settled
  <2>2. Shown(cl) = cl.camera
    BY DEF Shown
  <2> DEFINE base == srv.published => srv.described = cl.camera
  <2>3. After(<<>>, Describing(cl.camera), Update(cl.camera), base)
    BY <2>1, <2>2 DEF Stream, Described
  <2> HIDE DEF base
  <2>4. base
    BY <2>3, AfterEmpty
  <2> QED
    BY <2>4 DEF base
<1> QED
  BY <1>1, CameraInvHolds, PTL
=============================================================================
