---------------------- MODULE VideoFrameReorderProofs ----------------------
(***************************************************************************)
(* Proofs about the reorder buffer (VideoFrameReorder) and about the       *)
(* router that owns one per stream (VideoReceiveRouter), for every         *)
(* sequence width, every bound and every configuration: what the buffer    *)
(* keeps and gives out, and that the decoder behind the router is handed   *)
(* an unbroken chain across close and reopen.                              *)
(***************************************************************************)
EXTENDS VideoFrameReorder, VideoReceiveRouter, SequenceTheorems, SumTheorems

LEMMA DistanceRange ==
    ASSUME NEW a \in FrameSeq, NEW b \in FrameSeq
    PROVE  /\ Distance(a, b) \in (-Half) .. (Half - 1)
           /\ Newer(a, b) \in BOOLEAN
           /\ Newer(a, b) <=> Distance(a, b) \in 1 .. (Half - 1)
BY ReorderAssumption DEF FrameSeq, Distance, SeqMod, Newer

LEMMA PlusProperties ==
    ASSUME NEW s \in FrameSeq, NEW n \in 0 .. Half
    PROVE  /\ Plus(s, n) \in FrameSeq
           /\ n < Half => Distance(Plus(s, n), s) = n
           /\ n = Half => Distance(Plus(s, n), s) = -Half
BY ReorderAssumption DEF FrameSeq, Distance, SeqMod, Plus

\* The successor of a run of length n is not in the run, and what lies beyond
\* it is still newer than the end of the run.
LEMMA BeyondRun ==
    ASSUME NEW s \in FrameSeq, NEW t \in FrameSeq, NEW n \in 0 .. (Half - 1),
           Newer(t, s), \A i \in 1 .. n : t # Plus(s, i)
    PROVE  Newer(t, Plus(s, n))
<1> DEFINE d == Distance(t, s)
<1>1. d \in 1 .. (Half - 1)
    BY DistanceRange
<1>2. t = Plus(s, d)
    BY <1>1, ReorderAssumption DEF FrameSeq, Distance, SeqMod, Plus
<1>3. d > n
    BY <1>1, <1>2
<1> QED
    BY <1>1, <1>3, <1>2, ReorderAssumption DEF FrameSeq, Distance, SeqMod, Plus, Newer

LEMMA PlusPlus ==
    ASSUME NEW s \in FrameSeq, NEW n \in 0 .. Half
    PROVE  Next1(Plus(s, n)) = Plus(s, n + 1)
BY ReorderAssumption DEF FrameSeq, SeqMod, Plus, Next1

-----------------------------------------------------------------------------
(* The inductive invariant, as a predicate of a buffer.                    *)

Typed(b) ==
    /\ b \in Buffer({b.held_bytes}, {b.aborted})
    /\ \A g, h \in b.held : g.seq = h.seq => g = h

Beyond(b) ==
    b.have_last => \A h \in b.held : Newer(h.seq, b.last) /\ h.seq # Next1(b.last)

Quiet(b) == b.have_last /\ b.awaiting /\ ~b.loss_reported => b.inflight

Ahead(b) == b.have_last /\ b.inflight => Newer(b.inflight_seq, b.last)

IInv(b) == Typed(b) /\ Beyond(b) /\ Quiet(b) /\ Ahead(b)

\* What holds while the baseline has moved and drain() has not run yet.
Moved(b) ==
    /\ Typed(b)
    /\ b.have_last /\ ~b.awaiting
    /\ \A h \in b.held : Newer(h.seq, b.last)
    /\ Ahead(b)

\* b and c agree on everything the invariant relates, apart from recovery.
SameFrames(b, c) ==
    /\ c.have_last = b.have_last /\ c.last = b.last /\ c.held = b.held
    /\ c.inflight = b.inflight /\ c.inflight_seq = b.inflight_seq

LEMMA ReportLossProperties ==
    ASSUME NEW b, Typed(b)
    PROVE  /\ Typed(ReportLoss(b))
           /\ SameFrames(b, ReportLoss(b))
           /\ ReportLoss(b).awaiting = b.awaiting
           /\ b.awaiting => ReportLoss(b).loss_reported
<1>1. b.last \in FrameSeq
    BY DEF Typed, Buffer
<1>2. Next1(b.last) \in FrameSeq
    BY <1>1, PlusProperties, ReorderAssumption DEF Next1
<1>3. CASE b.loss_reported \/ ~b.awaiting
    <2>1. ReportLoss(b) = b
        BY <1>3 DEF ReportLoss
    <2> QED
        BY <1>3, <2>1 DEF SameFrames
<1>4. CASE ~b.loss_reported /\ b.awaiting
    <2> DEFINE c == [b EXCEPT !.loss_reported = TRUE, !.lost = Append(@, Next1(b.last))]
    <2>1. ReportLoss(b) = c
        BY <1>4 DEF ReportLoss
    <2>2. Typed(c)
        <3>1. Append(b.lost, Next1(b.last)) \in Seq(FrameSeq)
            BY <1>2 DEF Typed, Buffer
        <3> QED
            BY <3>1 DEF Typed, Buffer
    <2>3. SameFrames(b, c) /\ c.awaiting = b.awaiting /\ c.loss_reported
        BY DEF SameFrames, Typed, Buffer
    <2> QED
        BY <2>1, <2>2, <2>3
<1> QED
    BY <1>3, <1>4

LEMMA RequireKeyframeProperties ==
    ASSUME NEW b, Typed(b), Quiet(b)
    PROVE  LET c == RequireKeyframe(b)
           IN  Typed(c) /\ SameFrames(b, c) /\ c.awaiting /\ Quiet(c)
<1> DEFINE a == [b EXCEPT !.awaiting = TRUE, !.loss_reported = FALSE]
<1>1. Typed(a) /\ SameFrames(b, a) /\ a.awaiting
    BY DEF Typed, Buffer, SameFrames
<1>2. CASE b.awaiting
    <2>1. RequireKeyframe(b) = b
        BY <1>2 DEF RequireKeyframe
    <2> QED
        BY <1>2, <2>1 DEF SameFrames
<1>3. CASE ~b.awaiting /\ KeyframeInFlight(b)
    <2>1. RequireKeyframe(b) = a /\ b.inflight
        BY <1>3 DEF RequireKeyframe, KeyframeInFlight
    <2> HIDE DEF a
    <2> QED
        BY <1>1, <2>1 DEF Quiet, SameFrames
<1>4. CASE ~b.awaiting /\ ~KeyframeInFlight(b)
    <2>1. RequireKeyframe(b) = ReportLoss(a)
        BY <1>4 DEF RequireKeyframe
    <2> HIDE DEF a
    <2> QED
        BY <1>1, <2>1, ReportLossProperties DEF Quiet, SameFrames
<1> QED
    BY <1>2, <1>3, <1>4 DEF Typed, Buffer

HeldFrame == [seq : FrameSeq, size : Sizes, age : 0 .. HoldCeiling]

LEMMA CeilingType == HoldCeiling \in Nat /\ TrustCeiling \in Nat
<1>1. HoldCeiling \in Nat
    BY ReorderAssumption DEF HoldCeiling
<1>2. TrustHolds * HoldCeiling \in Nat
    BY <1>1, ReorderAssumption
<1> QED
    BY <1>1, <1>2, ReorderAssumption DEF TrustCeiling, AtLeast

LEMMA EarliestAgeType ==
    ASSUME NEW held \in SUBSET HeldFrame
    PROVE  EarliestAge(held) \in 0 .. HoldCeiling
<1>1. CASE held = {}
    BY <1>1, CeilingType DEF EarliestAge
<1>2. CASE held # {}
    <2> DEFINE T == {x \in Nat : \E h \in held : x = HoldCeiling - h.age}
    <2>1. \A h \in held : h.age \in 0 .. HoldCeiling
        BY DEF HeldFrame
    <2>2. T \subseteq Nat /\ T # {}
        BY <1>2, <2>1, CeilingType
    <2>3. PICK x \in T : \A y \in T : x <= y
        BY <2>2, LeastNatural
    <2>4. PICK g \in held : x = HoldCeiling - g.age
        BY <2>3
    <2>5. \A h \in held : h.age <= g.age
        <3> TAKE h \in held
        <3>1. HoldCeiling - h.age \in T
            BY <2>1, CeilingType
        <3> QED
            BY <3>1, <2>1, <2>3, <2>4, CeilingType
    <2>6. \E a \in {h.age : h \in held} : \A h \in held : h.age <= a
        BY <2>5
    <2> QED
        BY <2>1, <2>6, <1>2 DEF EarliestAge
<1> QED
    BY <1>1, <1>2

LEMMA HeldType ==
    ASSUME NEW b, Typed(b)
    PROVE  /\ b.held \in SUBSET HeldFrame
           /\ b.last \in FrameSeq /\ b.inflight_seq \in FrameSeq
           /\ b.have_last \in BOOLEAN /\ b.awaiting \in BOOLEAN
           /\ b.loss_reported \in BOOLEAN /\ b.inflight \in BOOLEAN
           /\ b.rtt \in Rtts
BY DEF Typed, Buffer, HeldFrame

\* Replacing the held frames by some of them keeps the type.
LEMMA SubsetHeldTyped ==
    ASSUME NEW b, Typed(b), NEW kept \in SUBSET b.held, NEW bytes
    PROVE  Typed([b EXCEPT !.held = kept, !.held_bytes = bytes,
                           !.gap_age = EarliestAge(kept)])
<1>1. kept \in SUBSET HeldFrame
    BY HeldType
<1>2. EarliestAge(kept) \in 0 .. HoldCeiling
    BY <1>1, EarliestAgeType
<1> QED
    BY <1>1, <1>2 DEF Typed, Buffer, HeldFrame

LEMMA ForgetInflightProperties ==
    ASSUME NEW b, Typed(b), NEW seq
    PROVE  LET c == ForgetInflightThrough(b, seq)
           IN  /\ Typed(c)
               /\ c.have_last = b.have_last /\ c.last = b.last /\ c.held = b.held
               /\ c.awaiting = b.awaiting /\ c.loss_reported = b.loss_reported
               /\ c.inflight => /\ b.inflight /\ c.inflight_seq = b.inflight_seq
                               /\ Newer(b.inflight_seq, seq)
<1> DEFINE a == [b EXCEPT !.inflight = FALSE, !.inflight_seq = 0, !.inflight_age = 0]
<1>0. 0 \in FrameSeq /\ 0 \in 0 .. TrustCeiling
    BY CeilingType, ReorderAssumption DEF FrameSeq, SeqMod
<1>1. Typed(a)
    BY <1>0 DEF Typed, Buffer
<1>2. CASE b.inflight /\ ~Newer(b.inflight_seq, seq)
    <2>1. ForgetInflightThrough(b, seq) = a
        BY <1>2 DEF ForgetInflightThrough, ForgetInflight
    <2>2. /\ a.have_last = b.have_last /\ a.last = b.last /\ a.held = b.held
          /\ a.awaiting = b.awaiting /\ a.loss_reported = b.loss_reported
          /\ ~a.inflight
        BY DEF Typed, Buffer
    <2> HIDE DEF a
    <2> QED
        BY <1>1, <2>1, <2>2
<1>3. CASE ~(b.inflight /\ ~Newer(b.inflight_seq, seq))
    <2>1. ForgetInflightThrough(b, seq) = b
        BY <1>3 DEF ForgetInflightThrough
    <2> QED
        BY <1>3, <2>1
<1> QED
    BY <1>2, <1>3

-----------------------------------------------------------------------------
(* drain(): the run behind the baseline is well defined, because held      *)
(* frames lie within half of the sequence space.                           *)

LEMMA RunLengthProperties ==
    ASSUME NEW held \in SUBSET HeldFrame, NEW last \in FrameSeq,
           \A h \in held : Newer(h.seq, last)
    PROVE  LET n == RunLength(held, last)
           IN  /\ n \in 0 .. (Half - 1)
               /\ Plus(last, n + 1) \notin HeldSeqs(held)
<1> DEFINE P(n) == /\ Plus(last, n + 1) \notin HeldSeqs(held)
                   /\ \A i \in 1 .. n : Plus(last, i) \in HeldSeqs(held)
           T == {n \in Nat : Plus(last, n + 1) \notin HeldSeqs(held)}
<1>1. Plus(last, Half) \notin HeldSeqs(held)
    <2>1. ~Newer(Plus(last, Half), last)
        BY PlusProperties, ReorderAssumption DEF Newer
    <2> QED
        BY <2>1 DEF HeldSeqs
<1>2. Half - 1 \in T
    BY <1>1, ReorderAssumption
<1>3. PICK n \in T : \A m \in T : n <= m
    BY <1>2, LeastNatural
<1>4. n \in 0 .. (Half - 1) /\ n \in 0 .. Half
    BY <1>2, <1>3, ReorderAssumption
<1>5. ASSUME NEW i \in 1 .. n
      PROVE  Plus(last, i) \in HeldSeqs(held)
    <2>1. i - 1 \in Nat /\ i - 1 \notin T
        BY <1>3, <1>4, <1>5
    <2>2. (i - 1) + 1 = i
        BY <1>5
    <2> QED
        BY <2>1, <2>2
<1>6. P(n)
    BY <1>3, <1>5
<1>7. RunLength(held, last) = CHOOSE m \in 0 .. Half : P(m)
    BY DEF RunLength
<1> HIDE DEF P
<1>8. RunLength(held, last) \in 0 .. Half /\ P(RunLength(held, last))
    BY <1>4, <1>6, <1>7
<1>9. RunLength(held, last) # Half
    <2>1. SUFFICES ASSUME RunLength(held, last) = Half PROVE FALSE
        OBVIOUS
    <2>2. Half \in 1 .. Half
        BY ReorderAssumption
    <2> QED
        BY <1>1, <1>8, <2>1, <2>2 DEF P
<1> QED
    BY <1>8, <1>9, ReorderAssumption DEF P

LEMMA RunType ==
    ASSUME NEW n \in Nat, NEW s \in FrameSeq, n <= Half,
           NEW out \in Seq([seq : FrameSeq, key : BOOLEAN])
    PROVE  out \o [i \in 1 .. n |-> [seq |-> Plus(s, i), key |-> FALSE]]
             \in Seq([seq : FrameSeq, key : BOOLEAN])
<1> DEFINE run == [i \in 1 .. n |-> [seq |-> Plus(s, i), key |-> FALSE]]
           Out == [seq : FrameSeq, key : BOOLEAN]
<1>1. \A i \in 1 .. n : Plus(s, i) \in FrameSeq
    BY PlusProperties, ReorderAssumption
<1>2. run \in [1 .. n -> Out]
    BY <1>1
<1>3. run \in Seq(Out)
    BY <1>2, SeqDef
<1> HIDE DEF run, Out
<1>4. out \in Seq(Out)
    BY DEF Out
<1> QED
    BY <1>3, <1>4, ConcatProperties DEF run, Out

LEMMA DrainProperties ==
    ASSUME NEW b, Moved(b)
    PROVE  IInv(Drain(b)) /\ Drain(b).have_last
<1> DEFINE n == RunLength(b.held, b.last)
           newest == Plus(b.last, n)
           run == {h \in b.held : \E i \in 1 .. n : h.seq = Plus(b.last, i)}
           ab == StillAhead(b.aborted, newest)
           out == b.delivered \o
                    [i \in 1 .. n |-> [seq |-> Plus(b.last, i), key |-> FALSE]]
           by == b.held_bytes - Bytes(run)
           d == [b EXCEPT !.last = newest, !.held = @ \ run,
                          !.held_bytes = @ - Bytes(run),
                          !.gap_age = EarliestAge(b.held \ run),
                          !.aborted = StillAhead(@, newest),
                          !.delivered = @ \o
                            [i \in 1 .. n |-> [seq |-> Plus(b.last, i), key |-> FALSE]]]
           e == ForgetInflightThrough(d, newest)
<1>1. /\ b.held \in SUBSET HeldFrame /\ b.last \in FrameSeq
      /\ b.inflight_seq \in FrameSeq
      /\ b.delivered \in Seq([seq : FrameSeq, key : BOOLEAN])
    BY HeldType DEF Moved, Typed, Buffer
<1>2. /\ n \in 0 .. (Half - 1)
      /\ Plus(b.last, n + 1) \notin HeldSeqs(b.held)
    BY <1>1, RunLengthProperties DEF Moved
<1>3. newest \in FrameSeq
    BY <1>1, <1>2, PlusProperties, ReorderAssumption
<1>4. EarliestAge(b.held \ run) \in 0 .. HoldCeiling
    BY <1>1, EarliestAgeType
<1>5. out \in Seq([seq : FrameSeq, key : BOOLEAN])
    <2>1. n \in Nat /\ n <= Half
        BY <1>2, ReorderAssumption
    <2> HIDE DEF n
    <2> QED
        BY <1>1, <2>1, RunType, Zenon
<1>6. \A h \in b.held \ run : Newer(h.seq, newest) /\ h.seq # Next1(newest)
    <2> TAKE h \in b.held \ run
    <2>1. h.seq \in FrameSeq /\ Newer(h.seq, b.last)
        BY <1>1 DEF HeldFrame, Moved
    <2>2. Newer(h.seq, newest)
        BY <1>1, <1>2, <2>1, BeyondRun
    <2>3. h.seq # Plus(b.last, n + 1)
        BY <1>2 DEF HeldSeqs
    <2> QED
        BY <1>1, <1>2, <2>2, <2>3, PlusPlus, ReorderAssumption
<1>7. d = [b EXCEPT !.last = newest, !.held = b.held \ run, !.held_bytes = by,
                    !.gap_age = EarliestAge(b.held \ run), !.aborted = ab,
                    !.delivered = out]
    OBVIOUS
<1> HIDE DEF n, newest, run, ab, out, by, d
<1>8. Typed(d)
    BY <1>3, <1>4, <1>5, <1>7 DEF Moved, Typed, Buffer
<1>9. /\ d.have_last /\ ~d.awaiting /\ d.last = newest /\ d.held = b.held \ run
    BY <1>7 DEF Moved, Typed, Buffer
<1>10. /\ Typed(e) /\ e.have_last /\ ~e.awaiting
       /\ e.last = newest /\ e.held = b.held \ run
       /\ e.inflight => Newer(e.inflight_seq, newest)
    BY <1>8, <1>9, ForgetInflightProperties
<1>11. IInv(e)
    BY <1>6, <1>10 DEF IInv, Beyond, Quiet, Ahead
<1>12. Drain(b) = IF NextIsAborted(e) THEN RequireKeyframe(e) ELSE e
    BY DEF Drain, d, run, newest, n
<1> HIDE DEF e
<1>13. LET c == RequireKeyframe(e) IN Typed(c) /\ SameFrames(e, c) /\ Quiet(c)
    BY <1>11, RequireKeyframeProperties DEF IInv
<1>14. IInv(RequireKeyframe(e)) /\ RequireKeyframe(e).have_last
    BY <1>10, <1>11, <1>13 DEF IInv, Beyond, Ahead, SameFrames
<1> QED
    BY <1>10, <1>11, <1>12, <1>14

-----------------------------------------------------------------------------
(* The public methods preserve the invariant.                              *)

LEMMA ResumeProperties ==
    ASSUME NEW b, IInv(b), NEW f \in Frame, NEW surviving \in SUBSET b.held,
           \A h \in surviving : Newer(h.seq, f.seq)
    PROVE  IInv(Resume(b, f, surviving))
<1> DEFINE c == [b EXCEPT !.have_last = TRUE, !.awaiting = FALSE, !.loss_reported = FALSE,
                      !.last = f.seq,
                      !.held = surviving,
                      !.held_bytes = @ - Bytes(b.held \ surviving),
                      !.delivered = Append(@, [seq |-> f.seq, key |-> f.key])]
           d == ForgetInflightThrough(c, f.seq)
<1>1. Append(b.delivered, [seq |-> f.seq, key |-> f.key])
        \in Seq([seq : FrameSeq, key : BOOLEAN])
    BY DEF IInv, Typed, Buffer, Frame
<1>2. f.seq \in FrameSeq
    BY DEF Frame
<1>3. Typed(c)
    <2> DEFINE out == Append(b.delivered, [seq |-> f.seq, key |-> f.key])
               by == b.held_bytes - Bytes(b.held \ surviving)
    <2>1. c = [b EXCEPT !.have_last = TRUE, !.awaiting = FALSE, !.loss_reported = FALSE,
                        !.last = f.seq, !.held = surviving, !.held_bytes = by,
                        !.delivered = out]
        OBVIOUS
    <2> HIDE DEF c, out, by
    <2>2. out \in Seq([seq : FrameSeq, key : BOOLEAN])
        BY <1>1 DEF out
    <2> QED
        BY ZenonT(30), <1>2, <2>1, <2>2 DEF IInv, Typed, Buffer
<1>4. c.have_last /\ ~c.awaiting /\ c.last = f.seq /\ c.held = surviving
    BY DEF IInv, Typed, Buffer
<1>5. Resume(b, f, surviving) = Drain(d)
    BY DEF Resume
<1> HIDE DEF c
<1>6. Moved(d)
    BY <1>3, <1>4, ForgetInflightProperties DEF Moved, Ahead
<1> QED
    BY <1>5, <1>6, DrainProperties

LEMMA FreshProperties ==
    ASSUME NEW b, IInv(b)
    PROVE  IInv(Fresh(b)) /\ SameFrames(b, Fresh(b)) /\ Fresh(b).awaiting = b.awaiting
<1>1. Typed(Fresh(b))
    <2> DEFINE none == <<>>
    <2>1. none \in Seq([seq : FrameSeq, key : BOOLEAN]) /\ none \in Seq(FrameSeq)
        OBVIOUS
    <2>2. Fresh(b) = [b EXCEPT !.delivered = none, !.lost = none]
        BY DEF Fresh
    <2> HIDE DEF none
    <2> QED
        BY <2>1, <2>2 DEF IInv, Typed, Buffer
<1>2. /\ SameFrames(b, Fresh(b)) /\ Fresh(b).awaiting = b.awaiting
      /\ Fresh(b).loss_reported = b.loss_reported
    BY DEF Fresh, SameFrames
<1> QED
    BY <1>1, <1>2 DEF IInv, Beyond, Quiet, Ahead, SameFrames

\* Dropping held frames keeps the invariant.
LEMMA SubsetHeldInv ==
    ASSUME NEW b, IInv(b), NEW kept \in SUBSET b.held, NEW bytes, NEW c,
           c = [b EXCEPT !.held = kept, !.held_bytes = bytes,
                         !.gap_age = EarliestAge(kept)]
    PROVE  IInv(c)
<1>1. Typed(c)
    BY SubsetHeldTyped DEF IInv
<1>2. /\ c.held = kept /\ c.have_last = b.have_last /\ c.last = b.last
      /\ c.inflight = b.inflight /\ c.inflight_seq = b.inflight_seq
      /\ c.awaiting = b.awaiting /\ c.loss_reported = b.loss_reported
    BY DEF IInv, Typed, Buffer
<1> QED
    BY <1>1, <1>2 DEF IInv, Beyond, Quiet, Ahead

LEMMA BoundHeldProperties ==
    ASSUME NEW b, IInv(b)
    PROVE  IInv(BoundHeld(b))
<1> DEFINE key(h) == Distance(h.seq, b.last)
           kept == IF b.have_last
                   THEN {h \in b.held : Fits({g \in b.held : key(g) <= key(h)})}
                   ELSE {h \in b.held : Fits({g \in b.held : key(g) >= key(h)})}
           bytes == b.held_bytes - Bytes(b.held \ kept)
<1>1. BoundHeld(b) = [b EXCEPT !.held = kept, !.held_bytes = bytes,
                               !.gap_age = EarliestAge(kept)]
    BY DEF BoundHeld
<1>2. kept \in SUBSET b.held
    <2>1. CASE b.have_last
        BY <2>1
    <2>2. CASE ~b.have_last
        BY <2>2
    <2> QED
        BY <2>1, <2>2
<1> HIDE DEF kept, bytes
<1> QED
    BY <1>1, <1>2, SubsetHeldInv

LEMMA RequireKeyframeInv ==
    ASSUME NEW b, IInv(b)
    PROVE  IInv(RequireKeyframe(b))
BY RequireKeyframeProperties DEF IInv, Beyond, Ahead, SameFrames

LEMMA ReportLossInv ==
    ASSUME NEW b, Typed(b), Beyond(b), Ahead(b), b.awaiting
    PROVE  IInv(ReportLoss(b))
BY ReportLossProperties DEF IInv, Beyond, Ahead, Quiet, SameFrames

LEMMA HoldInv ==
    ASSUME NEW b, IInv(b), NEW f \in Frame, f.seq \notin HeldSeqs(b.held),
           b.have_last => Newer(f.seq, b.last) /\ f.seq # Next1(b.last)
    PROVE  IInv(Hold(b, f))
<1> DEFINE new == [seq |-> f.seq, size |-> f.size, age |-> 0]
           by == b.held_bytes + f.size
           c == [b EXCEPT !.held = b.held \cup {new}, !.held_bytes = by]
<1>1. Hold(b, f) = c
    BY DEF Hold
<1>2. new \in HeldFrame /\ new.seq = f.seq
    BY CeilingType DEF Frame, HeldFrame
<1>3. \A h \in b.held : h.seq # f.seq
    BY DEF HeldSeqs
<1> HIDE DEF new, by
<1>4. /\ c.held = b.held \cup {new} /\ c.have_last = b.have_last /\ c.last = b.last
      /\ c.inflight = b.inflight /\ c.inflight_seq = b.inflight_seq
      /\ c.awaiting = b.awaiting /\ c.loss_reported = b.loss_reported
    BY DEF IInv, Typed, Buffer
<1>5. c \in Buffer({c.held_bytes}, {c.aborted})
    BY <1>2 DEF IInv, Typed, Buffer, HeldFrame
<1>6. \A g, h \in c.held : g.seq = h.seq => g = h
    BY <1>2, <1>3, <1>4 DEF IInv, Typed
<1> HIDE DEF c
<1>7. Typed(c)
    BY <1>5, <1>6 DEF Typed
<1> QED
    BY <1>1, <1>2, <1>4, <1>7 DEF IInv, Beyond, Quiet, Ahead

LEMMA StartupDeltaInv ==
    ASSUME NEW b, IInv(b), ~b.have_last, NEW f \in Frame
    PROVE  IInv(StartupDelta(b, f))
<1> DEFINE a == IF b.held = {} THEN [b EXCEPT !.last = f.seq] ELSE b
<1>1. IInv(a) /\ ~a.have_last /\ a.held = b.held
    <2>1. CASE b.held = {}
        <3> DEFINE c == [b EXCEPT !.last = f.seq]
        <3>1. f.seq \in FrameSeq
            BY DEF Frame
        <3>2. Typed(c)
            BY <3>1 DEF IInv, Typed, Buffer
        <3>3. ~c.have_last /\ c.held = b.held
            BY DEF IInv, Typed, Buffer
        <3>4. a = c
            BY <2>1
        <3> HIDE DEF c, a
        <3> QED
            BY <3>2, <3>3, <3>4 DEF IInv, Beyond, Quiet, Ahead
    <2>2. CASE b.held # {}
        BY <2>2
    <2> QED
        BY <2>1, <2>2
<1>2. StartupDelta(b, f) = IF f.seq \in HeldSeqs(b.held) THEN a ELSE BoundHeld(Hold(a, f))
    BY DEF StartupDelta
<1> HIDE DEF a
<1>3. f.seq \notin HeldSeqs(b.held) => IInv(BoundHeld(Hold(a, f)))
    BY <1>1, HoldInv, BoundHeldProperties
<1> QED
    BY <1>1, <1>2, <1>3

LEMMA GapDeltaInv ==
    ASSUME NEW b, IInv(b), NEW f \in Frame,
           Newer(f.seq, b.last), f.seq # Next1(b.last)
    PROVE  IInv(GapDelta(b, f))
<1> DEFINE a == IF b.held = {} THEN [b EXCEPT !.gap_age = 0] ELSE b
           h == Hold(a, f)
<1>1. /\ IInv(a) /\ a.have_last = b.have_last /\ a.last = b.last /\ a.held = b.held
    <2>1. CASE b.held = {}
        <3> DEFINE c == [b EXCEPT !.gap_age = 0]
        <3>1. 0 \in 0 .. HoldCeiling
            BY CeilingType
        <3>2. Typed(c)
            BY <3>1 DEF IInv, Typed, Buffer
        <3>3. /\ c.held = b.held /\ c.have_last = b.have_last /\ c.last = b.last
              /\ c.inflight = b.inflight /\ c.inflight_seq = b.inflight_seq
              /\ c.awaiting = b.awaiting /\ c.loss_reported = b.loss_reported
            BY DEF IInv, Typed, Buffer
        <3>4. a = c
            BY <2>1
        <3> HIDE DEF c, a
        <3> QED
            BY <3>2, <3>3, <3>4 DEF IInv, Beyond, Quiet, Ahead
    <2>2. CASE b.held # {}
        BY <2>2
    <2> QED
        BY <2>1, <2>2
<1>2. CASE f.seq \in HeldSeqs(b.held)
    BY <1>2 DEF GapDelta
<1>3. CASE f.seq \notin HeldSeqs(b.held)
    <2>1. GapDelta(b, f) =
            IF Cardinality(h.held) > HeldLimit \/ h.held_bytes > MaxBytes
            THEN BoundHeld(RequireKeyframe(h))
            ELSE IF NextIsAborted(h) THEN RequireKeyframe(h) ELSE h
        BY <1>3 DEF GapDelta
    <2> HIDE DEF a
    <2>2. IInv(h)
        BY <1>1, <1>3, HoldInv
    <2> HIDE DEF h
    <2>3. IInv(RequireKeyframe(h)) /\ IInv(BoundHeld(RequireKeyframe(h)))
        BY <2>2, RequireKeyframeInv, BoundHeldProperties
    <2> QED
        BY <2>1, <2>2, <2>3
<1> QED
    BY <1>2, <1>3

LEMMA OnFrameInv ==
    ASSUME NEW b0, IInv(b0), NEW f \in Frame
    PROVE  IInv(OnFrame(b0, f))
<1> DEFINE b == Fresh(b0)
<1>1. IInv(b) /\ b.have_last \in BOOLEAN /\ b.last \in FrameSeq
    BY FreshProperties, HeldType DEF IInv
<1>f. f.seq \in FrameSeq /\ f.key \in BOOLEAN
    BY DEF Frame
<1>2. OnFrame(b0, f) =
        CASE Stale(b, f)                                       -> b
          [] ~b.have_last /\ ~f.key                            -> StartupDelta(b, f)
          [] ~b.have_last /\ f.key                             -> FirstKeyframe(b, f)
          [] b.have_last /\ f.seq = Next1(b.last)              -> Resume(b, f, b.held)
          [] OTHER -> IF f.key THEN GapKeyframe(b, f) ELSE GapDelta(b, f)
    BY DEF OnFrame
<1>s. Stale(b, f) <=> b.have_last /\ ~Newer(f.seq, b.last)
    BY DEF Stale
<1> HIDE DEF b
<1>3. Newer(Next1(b.last), b.last)
    BY <1>1, PlusProperties, ReorderAssumption DEF Next1, Newer
<1>4. CASE b.have_last /\ ~Newer(f.seq, b.last)
    BY <1>1, <1>s, <1>2, <1>3, <1>4
<1>5. CASE ~b.have_last /\ ~f.key
    BY <1>1, <1>s, <1>2, <1>5, StartupDeltaInv
<1>6. CASE ~b.have_last /\ f.key
    <2> DEFINE c == [b EXCEPT !.aborted = <<>>]
               keep == {h \in b.held : Newer(h.seq, f.seq)}
    <2>1. OnFrame(b0, f) = Resume(c, f, keep)
        BY <1>2, <1>s, <1>6 DEF FirstKeyframe
    <2>2. Typed(c) /\ c.held = b.held /\ c.have_last = b.have_last
        BY <1>1 DEF IInv, Typed, Buffer
    <2>3. keep \in SUBSET b.held /\ \A h \in keep : Newer(h.seq, f.seq)
        OBVIOUS
    <2> HIDE DEF c, keep
    <2>4. IInv(c)
        BY <1>6, <2>2 DEF IInv, Beyond, Quiet, Ahead
    <2> QED
        BY <2>1, <2>2, <2>3, <2>4, ResumeProperties
<1>7. CASE b.have_last /\ f.seq = Next1(b.last)
    <2>1. OnFrame(b0, f) = Resume(b, f, b.held)
        BY <1>2, <1>s, <1>3, <1>7
    <2>2. \A h \in b.held : Newer(h.seq, f.seq)
        <3> TAKE h \in b.held
        <3>1. h.seq \in FrameSeq /\ Newer(h.seq, b.last) /\ h.seq # Next1(b.last)
            BY <1>1, <1>7, HeldType DEF IInv, Beyond, HeldFrame
        <3>2. \A i \in 1 .. 1 : h.seq # Plus(b.last, i)
            BY <3>1 DEF Next1
        <3> QED
            BY <1>1, <1>7, <3>1, <3>2, BeyondRun, ReorderAssumption DEF Next1
    <2> QED
        BY <1>1, <2>1, <2>2, ResumeProperties
<1>8. CASE b.have_last /\ Newer(f.seq, b.last) /\ f.seq # Next1(b.last) /\ f.key
    <2> DEFINE keep == {h \in b.held : Distance(h.seq, b.last) > Distance(f.seq, b.last)}
    <2>1. OnFrame(b0, f) = Resume(b, f, keep)
        BY <1>2, <1>s, <1>8 DEF GapKeyframe
    <2>2. \A h \in keep : Newer(h.seq, f.seq)
        <3> TAKE h \in keep
        <3>1. h.seq \in FrameSeq /\ Distance(h.seq, b.last) > Distance(f.seq, b.last)
            BY <1>1, HeldType DEF IInv, HeldFrame
        <3> QED
            BY <1>1, <1>f, <1>8, <3>1, ReorderAssumption
            DEF Distance, Newer, FrameSeq, SeqMod
    <2> QED
        BY <1>1, <2>1, <2>2, ResumeProperties
<1>9. CASE b.have_last /\ Newer(f.seq, b.last) /\ f.seq # Next1(b.last) /\ ~f.key
    <2>1. OnFrame(b0, f) = GapDelta(b, f)
        BY <1>2, <1>s, <1>9
    <2> QED
        BY <1>1, <1>9, <2>1, GapDeltaInv
<1> QED
    BY <1>1, <1>f, <1>4, <1>5, <1>6, <1>7, <1>8, <1>9

LEMMA OnFrameStartedInv ==
    ASSUME NEW b0, IInv(b0), NEW f \in [seq : FrameSeq, key : BOOLEAN]
    PROVE  IInv(OnFrameStarted(b0, f))
<1> DEFINE b == Fresh(b0)
           c == [b EXCEPT !.inflight = TRUE, !.inflight_seq = f.seq, !.inflight_age = 0]
<1>1. IInv(b)
    BY FreshProperties
<1>2. OnFrameStarted(b0, f) =
        IF \/ ~f.key
           \/ Stale(b, f)
           \/ b.inflight /\ ~Newer(f.seq, b.inflight_seq)
        THEN b ELSE c
    BY DEF OnFrameStarted
<1> HIDE DEF b
<1>3. 0 \in 0 .. TrustCeiling /\ f.seq \in FrameSeq
    BY CeilingType
<1>4. Typed(c)
    BY <1>1, <1>3 DEF IInv, Typed, Buffer
<1>5. /\ c.held = b.held /\ c.have_last = b.have_last /\ c.last = b.last
      /\ c.inflight /\ c.inflight_seq = f.seq
    BY <1>1 DEF IInv, Typed, Buffer
<1> HIDE DEF c
<1>6. (b.have_last => Newer(f.seq, b.last)) => IInv(c)
    BY <1>1, <1>4, <1>5 DEF IInv, Beyond, Quiet, Ahead
<1> QED
    BY <1>1, <1>2, <1>6 DEF Stale

LEMMA OnFrameAbortedInv ==
    ASSUME NEW b0, IInv(b0), NEW seq \in FrameSeq
    PROVE  IInv(OnFrameAborted(b0, seq))
<1> DEFINE b == Fresh(b0)
           lost_key == b.inflight /\ seq = b.inflight_seq
           c == IF lost_key THEN ForgetInflight(b) ELSE b
           d == IF lost_key /\ c.awaiting THEN ReportLoss(c) ELSE c
           hit == {h \in d.held : h.seq = seq}
           r == RequireKeyframe(c)
           e == [d EXCEPT !.held = @ \ hit, !.held_bytes = @ - Bytes(hit),
                          !.gap_age = EarliestAge(d.held \ hit)]
           g == [d EXCEPT !.aborted =
                    Append(IF Len(@) >= MaxAborted THEN Tail(@) ELSE @, seq)]
<1>1. IInv(b)
    BY FreshProperties
<1>2. OnFrameAborted(b0, seq) =
        IF ~b.have_last THEN c
        ELSE IF seq = Next1(b.last) THEN IF lost_key THEN ReportLoss(r) ELSE r
        ELSE IF ~Newer(seq, b.last) THEN c
        ELSE IF hit # {} THEN e
        ELSE IF seq \in AbortedSet(d) THEN d ELSE g
    BY DEF OnFrameAborted
<1> HIDE DEF b
<1>t. /\ b.have_last \in BOOLEAN /\ b.awaiting \in BOOLEAN /\ b.inflight \in BOOLEAN
      /\ b.last \in FrameSeq /\ b.loss_reported \in BOOLEAN
    BY <1>1, HeldType DEF IInv
\* Forgetting the in-flight keyframe can only break Quiet.
<1>3. /\ Typed(c) /\ Beyond(c) /\ Ahead(c)
      /\ c.have_last = b.have_last /\ c.last = b.last /\ c.awaiting = b.awaiting
      /\ ~lost_key => IInv(c)
    <2>1. CASE lost_key
        <3> DEFINE a == [b EXCEPT !.inflight = FALSE, !.inflight_seq = 0, !.inflight_age = 0]
        <3>0. 0 \in FrameSeq /\ 0 \in 0 .. TrustCeiling
            BY CeilingType, ReorderAssumption DEF FrameSeq, SeqMod
        <3>1. Typed(a)
            BY <1>1, <3>0 DEF IInv, Typed, Buffer
        <3>2. /\ a.held = b.held /\ a.have_last = b.have_last /\ a.last = b.last
              /\ ~a.inflight /\ a.awaiting = b.awaiting
            BY <1>1 DEF IInv, Typed, Buffer
        <3>3. c = a
            BY <2>1 DEF ForgetInflight
        <3> HIDE DEF a, c
        <3> QED
            BY <1>1, <2>1, <3>1, <3>2, <3>3 DEF IInv, Beyond, Ahead
    <2>2. CASE ~lost_key
        <3>1. c = b
            BY <2>2
        <3> HIDE DEF c
        <3> QED
            BY <1>1, <3>1 DEF IInv
    <2> QED
        BY <2>1, <2>2
<1> HIDE DEF c
<1>4. ~b.have_last => IInv(c)
    BY <1>3 DEF IInv, Quiet
<1>5. IInv(d) \/ ~(b.have_last => b.awaiting)
    <2>1. CASE lost_key /\ c.awaiting
        BY <1>3, <2>1, ReportLossInv
    <2>2. CASE ~lost_key
        BY <1>3, <2>2
    <2>3. CASE ~c.awaiting
        BY <1>3, <1>4, <2>3
    <2> QED
        BY <2>1, <2>2, <2>3
\* When the chain is not broken there is nothing to be quiet about.
<1>6. IInv(d)
    <2>1. CASE ~b.awaiting
        <3>1. d = c /\ Quiet(c)
            BY <1>3, <2>1 DEF Quiet
        <3> QED
            BY <1>3, <3>1 DEF IInv
    <2>2. CASE b.awaiting
        BY <1>5, <2>2
    <2> QED
        BY <2>1, <2>2
<1>7. IInv(IF lost_key THEN ReportLoss(r) ELSE r)
    <2>1. CASE ~lost_key
        BY <1>3, <2>1, RequireKeyframeInv
    <2>2. CASE lost_key /\ b.awaiting
        <3>1. r = c
            BY <1>3, <2>2 DEF RequireKeyframe
        <3> QED
            BY <1>3, <2>2, <3>1, ReportLossInv
    <2>3. CASE lost_key /\ ~b.awaiting
        <3>1. IInv(c)
            BY <1>3, <2>3 DEF IInv, Quiet
        <3>2. IInv(r) /\ r.awaiting
            BY <3>1, RequireKeyframeInv, RequireKeyframeProperties DEF IInv
        <3> HIDE DEF r
        <3>3. IInv(ReportLoss(r))
            BY <3>2, ReportLossInv DEF IInv
        <3> QED
            BY <2>3, <3>3
    <2> QED
        BY <2>1, <2>2, <2>3, <1>t
<1> HIDE DEF d, r, lost_key
<1>8. IInv(e)
    <2> DEFINE kept == d.held \ hit
               by == d.held_bytes - Bytes(hit)
    <2>1. e = [d EXCEPT !.held = kept, !.held_bytes = by, !.gap_age = EarliestAge(kept)]
        OBVIOUS
    <2>2. kept \in SUBSET d.held
        OBVIOUS
    <2> HIDE DEF e, kept, by
    <2> QED
        BY <1>6, <2>1, <2>2, SubsetHeldInv
<1>9. IInv(g)
    <2> DEFINE more == Append(IF Len(d.aborted) >= MaxAborted THEN Tail(d.aborted)
                                                             ELSE d.aborted, seq)
    <2>1. g = [d EXCEPT !.aborted = more]
        OBVIOUS
    <2> HIDE DEF more, g
    <2>2. Typed(g)
        BY <1>6, <2>1 DEF IInv, Typed, Buffer
    <2>3. /\ g.held = d.held /\ g.have_last = d.have_last /\ g.last = d.last
          /\ g.inflight = d.inflight /\ g.inflight_seq = d.inflight_seq
          /\ g.awaiting = d.awaiting /\ g.loss_reported = d.loss_reported
        BY <2>1
    <2> QED
        BY <1>6, <2>2, <2>3 DEF IInv, Beyond, Quiet, Ahead
<1> HIDE DEF e, g, hit
<1>10. CASE ~Newer(seq, b.last) /\ b.have_last
    \* An in-flight keyframe is newer than the baseline, so it is not this one.
    <2>1. ~lost_key
        BY <1>1, <1>10 DEF IInv, Ahead, lost_key
    <2>2. IInv(c)
        BY <1>3, <2>1
    <2>3. seq # Next1(b.last)
        BY <1>10, <1>t, PlusProperties, ReorderAssumption DEF Next1, Newer
    <2> QED
        BY <1>2, <1>10, <2>2, <2>3
<1> QED
    BY <1>2, <1>4, <1>6, <1>7, <1>8, <1>9, <1>10

LEMMA PollInv ==
    ASSUME NEW b0, IInv(b0)
    PROVE  IInv(Poll(b0))
<1> DEFINE b == Fresh(b0)
           kept == {h \in b.held : h.age < HoldFor(b.rtt)}
           by == b.held_bytes - Bytes(b.held \ kept)
<1>1. IInv(b)
    BY FreshProperties
<1>2. DropExpired(b) = [b EXCEPT !.held = kept, !.held_bytes = by,
                                 !.gap_age = EarliestAge(kept)]
    BY DEF DropExpired
<1>3. kept \in SUBSET b.held
    OBVIOUS
<1>4. Poll(b0) =
        IF ~b.have_last THEN DropExpired(b)
        ELSE IF b.awaiting
        THEN IF ~b.loss_reported /\ ~KeyframeInFlight(b) THEN ReportLoss(b) ELSE b
        ELSE IF b.held # {} /\ b.gap_age >= HoldFor(b.rtt)
        THEN RequireKeyframe(b) ELSE b
    BY DEF Poll
<1> HIDE DEF b, kept, by
<1>5. IInv(DropExpired(b))
    BY <1>1, <1>2, <1>3, SubsetHeldInv
<1>6. b.awaiting => IInv(ReportLoss(b))
    BY <1>1, ReportLossInv DEF IInv
<1>7. IInv(RequireKeyframe(b))
    BY <1>1, RequireKeyframeInv
<1> QED
    BY <1>1, <1>4, <1>5, <1>6, <1>7

LEMMA SetRttInv ==
    ASSUME NEW b0, IInv(b0), NEW rtt \in Rtts
    PROVE  IInv(SetRtt(b0, rtt))
<1> DEFINE b == Fresh(b0)
           c == [b EXCEPT !.rtt = rtt]
<1>1. IInv(b)
    BY FreshProperties
<1>2. SetRtt(b0, rtt) = c
    BY DEF SetRtt
<1> HIDE DEF b
<1>3. Typed(c)
    BY <1>1 DEF IInv, Typed, Buffer
<1>4. /\ c.held = b.held /\ c.have_last = b.have_last /\ c.last = b.last
      /\ c.inflight = b.inflight /\ c.inflight_seq = b.inflight_seq
      /\ c.awaiting = b.awaiting /\ c.loss_reported = b.loss_reported
    OBVIOUS
<1> HIDE DEF c
<1> QED
    BY <1>1, <1>2, <1>3, <1>4 DEF IInv, Beyond, Quiet, Ahead

LEMMA NewBufferInv ==
    ASSUME NEW rtt \in Rtts
    PROVE  IInv(NewBuffer(rtt))
<1> DEFINE c == NewBuffer(rtt)
           none == <<>>
<1>1. none \in Seq([seq : FrameSeq, key : BOOLEAN]) /\ none \in Seq(FrameSeq)
    OBVIOUS
<1>2. 0 \in FrameSeq /\ 0 \in 0 .. TrustCeiling /\ 0 \in 0 .. HoldCeiling
    BY CeilingType, ReorderAssumption DEF FrameSeq, SeqMod
<1>3. c = [rtt |-> rtt, have_last |-> FALSE, awaiting |-> TRUE, loss_reported |-> FALSE,
           last |-> 0, held |-> {}, gap_age |-> 0, held_bytes |-> 0,
           inflight |-> FALSE, inflight_seq |-> 0, inflight_age |-> 0,
           aborted |-> none, delivered |-> none, lost |-> none]
    BY DEF NewBuffer
<1> HIDE DEF none, c
<1>4. Typed(c) /\ ~c.have_last
    BY <1>1, <1>2, <1>3 DEF Typed, Buffer
<1>5. IInv(c)
    BY <1>4 DEF IInv, Beyond, Quiet, Ahead
<1> QED
    BY <1>5 DEF c

LEMMA ElapseInv ==
    ASSUME NEW b0, IInv(b0)
    PROVE  IInv(Elapse(b0))
<1> DEFINE b == Fresh(b0)
           older(a, cap) == AtMost(a + 1, cap)
           aged == {[h EXCEPT !.age = older(@, HoldCeiling)] : h \in b.held}
           gap == IF b.held = {} THEN b.gap_age ELSE older(b.gap_age, HoldCeiling)
           infl == IF b.inflight THEN older(b.inflight_age, TrustCeiling) ELSE b.inflight_age
           c == [b EXCEPT !.held = aged, !.gap_age = gap, !.inflight_age = infl]
<1>1. IInv(b)
    BY FreshProperties
<1>2. Elapse(b0) = c
    BY DEF Elapse
<1>3. \A cap \in Nat : \A a \in 0 .. cap : older(a, cap) \in 0 .. cap
    BY DEF AtMost
<1> HIDE DEF b, older
<1>4. b.held \in SUBSET HeldFrame /\ b.gap_age \in 0 .. HoldCeiling
      /\ b.inflight_age \in 0 .. TrustCeiling
    BY <1>1, HeldType DEF IInv, Typed, Buffer
<1>5. gap \in 0 .. HoldCeiling /\ infl \in 0 .. TrustCeiling
    BY <1>3, <1>4, CeilingType
<1>6. \A h \in b.held : /\ [h EXCEPT !.age = older(@, HoldCeiling)] \in HeldFrame
                        /\ [h EXCEPT !.age = older(@, HoldCeiling)].seq = h.seq
    BY <1>3, <1>4, CeilingType DEF HeldFrame
<1>7. aged \in SUBSET HeldFrame
    BY <1>6
<1>8. \A x \in aged : \E h \in b.held :
        x = [h EXCEPT !.age = older(@, HoldCeiling)] /\ x.seq = h.seq
    BY <1>6
<1>9. \A g, h \in aged : g.seq = h.seq => g = h
    BY <1>1, <1>8 DEF IInv, Typed
<1> HIDE DEF aged, gap, infl
<1>10. c \in Buffer({c.held_bytes}, {c.aborted})
    BY <1>1, <1>5, <1>7 DEF IInv, Typed, Buffer, HeldFrame
<1>11. /\ c.held = aged /\ c.have_last = b.have_last /\ c.last = b.last
       /\ c.inflight = b.inflight /\ c.inflight_seq = b.inflight_seq
       /\ c.awaiting = b.awaiting /\ c.loss_reported = b.loss_reported
    BY <1>1 DEF IInv, Typed, Buffer
<1> HIDE DEF c
<1>12. Typed(c)
    BY <1>9, <1>10, <1>11 DEF Typed
<1>13. Beyond(c)
    BY <1>1, <1>8, <1>11 DEF IInv, Beyond
<1> QED
    BY <1>1, <1>2, <1>11, <1>12, <1>13 DEF IInv, Quiet, Ahead

-----------------------------------------------------------------------------
(* Whatever frames, aborts, polls, RTT updates and resets reach the buffer *)
(* and however long they take, the inductive invariant holds.              *)
THEOREM Inductive == Spec => []IInv(buf)
<1>1. Init => IInv(buf)
    BY NewBufferInv, ReorderAssumption DEF Init
<1>2. IInv(buf) /\ [Next]_vars => IInv(buf)'
    <2> SUFFICES ASSUME IInv(buf), [Next]_vars PROVE IInv(buf')
        OBVIOUS
    <2>1. CASE FrameStarted
        <3>1. PICK s \in FrameSeq, k \in BOOLEAN :
                buf' = OnFrameStarted(buf, [seq |-> s, key |-> k])
            BY <2>1 DEF FrameStarted
        <3> QED
            BY <3>1, OnFrameStartedInv
    <2>2. CASE FrameArrives
        BY <2>2, OnFrameInv DEF FrameArrives
    <2>3. CASE FrameAborted
        BY <2>3, OnFrameAbortedInv DEF FrameAborted
    <2>4. CASE PollTimer
        BY <2>4, PollInv DEF PollTimer
    <2>5. CASE RttUpdate
        BY <2>5, SetRttInv DEF RttUpdate
    <2>6. CASE ResetBuffer
        BY <2>6, NewBufferInv, HeldType DEF ResetBuffer, Reset, IInv
    <2>7. CASE Tick
        BY <2>7, ElapseInv DEF Tick
    <2>8. CASE UNCHANGED vars
        BY <2>8 DEF vars
    <2> QED
        BY <2>1, <2>2, <2>3, <2>4, <2>5, <2>6, <2>7, <2>8 DEF Next
<1> QED
    BY <1>1, <1>2, PTL DEF Spec

(* The buffer keeps its type under every sequence of calls.                *)
THEOREM TypeCorrect == Spec => []TypeOK
<1>1. IInv(buf) => TypeOK
    BY DEF IInv, Typed, TypeOK
<1> QED
    BY <1>1, Inductive, PTL

(* No decodable frame is ever stuck in the buffer: what is held lies       *)
(* beyond a real gap.                                                      *)
THEOREM HeldFramesAreBeyondGap == Spec => []HeldBeyondGap
<1>1. IInv(buf) => HeldBeyondGap
    BY DEF IInv, Beyond, HeldBeyondGap
<1> QED
    BY <1>1, Inductive, PTL

(* A broken chain that nobody was told about is being repaired by a        *)
(* keyframe that is still on its way.                                      *)
THEOREM SilenceIsJustified == Spec => []QuietOnlyForKeyframe
<1>1. IInv(buf) => QuietOnlyForKeyframe
    BY DEF IInv, Quiet, Ahead, QuietOnlyForKeyframe
<1> QED
    BY <1>1, Inductive, PTL

-----------------------------------------------------------------------------
(* The buffer implements VideoDelivery.  A call is described by what its   *)
(* owner sees of it: the buffer b it starts from has made no callback yet, *)
(* c is what it leaves behind.                                             *)

Out == [seq : FrameSeq, key : BOOLEAN]

Silent(b) == b.delivered = <<>> /\ b.lost = <<>>

SameChain(b, c) ==
    /\ c.have_last = b.have_last /\ (b.have_last => c.last = b.last)
    /\ c.delivered = b.delivered

SameView(b, c) ==
    /\ SameChain(b, c)
    /\ c.awaiting = b.awaiting /\ c.loss_reported = b.loss_reported /\ c.lost = b.lost

TellsOnce(c) == c.lost = IF c.loss_reported THEN <<Next1(c.last)>> ELSE <<>>

Breaks(b, c) == SameChain(b, c) /\ ~b.awaiting /\ c.awaiting /\ TellsOnce(c)

Tells(b, c) ==
    /\ SameChain(b, c) /\ b.awaiting /\ c.awaiting
    /\ ~b.loss_reported /\ c.loss_reported /\ TellsOnce(c)

(* What a call that delivers nothing may do.                               *)
Holds(b, c) == SameView(b, c) \/ (b.have_last /\ (Breaks(b, c) \/ Tells(b, c)))

(* What a call that delivers does.                                         *)
Delivers(b, c) ==
    /\ c.delivered \in Seq(Out) /\ c.delivered # <<>>
    /\ \/ c.delivered[1].key /\ (b.have_last => Newer(c.delivered[1].seq, b.last))
       \/ b.have_last /\ c.delivered[1].seq = Next1(b.last)
    /\ \A i \in 2 .. Len(c.delivered) : c.delivered[i].seq = Next1(c.delivered[i - 1].seq)
    /\ c.have_last /\ c.last = c.delivered[Len(c.delivered)].seq
    /\ c.loss_reported => c.awaiting
    /\ TellsOnce(c)

LEMMA FreshView ==
    ASSUME NEW b, IInv(b)
    PROVE  /\ IInv(Fresh(b)) /\ Silent(Fresh(b))
           /\ Fresh(b).have_last = b.have_last /\ Fresh(b).last = b.last
           /\ Fresh(b).awaiting = b.awaiting /\ Fresh(b).loss_reported = b.loss_reported
<1>1. IInv(Fresh(b))
    BY FreshProperties
<1>2. Silent(Fresh(b))
    BY DEF IInv, Typed, Buffer, Fresh, Silent
<1> QED
    BY <1>1, <1>2 DEF Fresh

LEMMA AppendNone ==
    ASSUME NEW x
    PROVE  Append(<<>>, x) = <<x>>
OBVIOUS

LEMMA ReportLossView ==
    ASSUME NEW b, Typed(b), Silent(b)
    PROVE  /\ b.awaiting /\ ~b.loss_reported => Tells(b, ReportLoss(b))
           /\ ~b.awaiting \/ b.loss_reported => ReportLoss(b) = b
<1>1. CASE b.loss_reported \/ ~b.awaiting
    BY <1>1 DEF ReportLoss
<1>2. CASE ~b.loss_reported /\ b.awaiting
    <2> DEFINE said == Append(b.lost, Next1(b.last))
               c == [b EXCEPT !.loss_reported = TRUE, !.lost = said]
    <2>1. ReportLoss(b) = c
        BY <1>2 DEF ReportLoss
    <2>2. said = <<Next1(b.last)>>
        BY AppendNone DEF Silent
    <2> HIDE DEF said
    <2>3. /\ c.loss_reported /\ c.lost = said /\ c.awaiting = b.awaiting
          /\ c.have_last = b.have_last /\ c.last = b.last /\ c.delivered = b.delivered
        BY DEF Typed, Buffer
    <2> HIDE DEF c
    <2> QED
        BY <1>2, <2>1, <2>2, <2>3 DEF Tells, SameChain, TellsOnce
<1> QED
    BY <1>1, <1>2

LEMMA RequireKeyframeView ==
    ASSUME NEW b, Typed(b), Silent(b)
    PROVE  /\ b.awaiting => RequireKeyframe(b) = b
           /\ ~b.awaiting => Breaks(b, RequireKeyframe(b))
<1> DEFINE a == [b EXCEPT !.awaiting = TRUE, !.loss_reported = FALSE]
<1>1. b.awaiting => RequireKeyframe(b) = b
    BY DEF RequireKeyframe
<1>2. /\ Typed(a) /\ a.awaiting /\ ~a.loss_reported /\ Silent(a)
      /\ a.have_last = b.have_last /\ a.last = b.last /\ a.delivered = b.delivered
    BY DEF Typed, Buffer, Silent
<1>3. ~b.awaiting => RequireKeyframe(b) = a \/ RequireKeyframe(b) = ReportLoss(a)
    BY DEF RequireKeyframe
<1> HIDE DEF a
<1>4. ASSUME ~b.awaiting PROVE Breaks(b, a)
    BY <1>2, <1>4 DEF Breaks, SameChain, TellsOnce, Silent
<1>5. ASSUME ~b.awaiting PROVE Breaks(b, ReportLoss(a))
    <2>1. Tells(a, ReportLoss(a))
        BY <1>2, ReportLossView
    <2> QED
        BY <1>2, <1>5, <2>1 DEF Breaks, Tells, SameChain
<1> QED
    BY <1>1, <1>3, <1>4, <1>5

LEMMA RequireKeyframeHolds ==
    ASSUME NEW b, Typed(b), Silent(b), b.have_last
    PROVE  Holds(b, RequireKeyframe(b))
BY RequireKeyframeView, HeldType DEF Holds, SameView, SameChain

(* Changes the owner does not see.                                         *)
LEMMA HeldView ==
    ASSUME NEW b, Typed(b), NEW kept, NEW bytes, NEW gap, NEW c,
           c = [b EXCEPT !.held = kept, !.held_bytes = bytes, !.gap_age = gap]
    PROVE  SameView(b, c) /\ c.last = b.last
BY DEF Typed, Buffer, SameView, SameChain

LEMMA ViewTransitive ==
    ASSUME NEW a, NEW b, NEW c, SameView(a, b), a.have_last => b.last = a.last
    PROVE  Holds(b, c) => Holds(a, c)
BY DEF SameView, SameChain, Holds, Breaks, Tells, TellsOnce

LEMMA ForgetView ==
    ASSUME NEW b, Typed(b), NEW seq
    PROVE  /\ SameView(b, ForgetInflight(b)) /\ ForgetInflight(b).last = b.last
           /\ Typed(ForgetInflight(b)) /\ ForgetInflight(b).held = b.held
           /\ SameView(b, ForgetInflightThrough(b, seq))
           /\ ForgetInflightThrough(b, seq).last = b.last
<1> DEFINE a == [b EXCEPT !.inflight = FALSE, !.inflight_seq = 0, !.inflight_age = 0]
<1>1. 0 \in FrameSeq /\ 0 \in 0 .. TrustCeiling
    BY CeilingType, ReorderAssumption DEF FrameSeq, SeqMod
<1>2. Typed(a) /\ SameView(b, a) /\ a.last = b.last /\ a.held = b.held
    BY <1>1 DEF Typed, Buffer, SameView, SameChain
<1>3. ForgetInflight(b) = a
    BY DEF ForgetInflight
<1> HIDE DEF a
<1>4. SameView(b, b)
    BY DEF SameView, SameChain
<1> QED
    BY <1>2, <1>3, <1>4 DEF ForgetInflightThrough

LEMMA HoldView ==
    ASSUME NEW b, Typed(b), NEW f
    PROVE  SameView(b, Hold(b, f)) /\ Hold(b, f).last = b.last
BY DEF Typed, Buffer, Hold, SameView, SameChain

LEMMA BoundHeldView ==
    ASSUME NEW b, Typed(b)
    PROVE  SameView(b, BoundHeld(b)) /\ BoundHeld(b).last = b.last
<1> DEFINE key(h) == Distance(h.seq, b.last)
           kept == IF b.have_last
                   THEN {h \in b.held : Fits({g \in b.held : key(g) <= key(h)})}
                   ELSE {h \in b.held : Fits({g \in b.held : key(g) >= key(h)})}
           bytes == b.held_bytes - Bytes(b.held \ kept)
           gap == EarliestAge(kept)
           c == [b EXCEPT !.held = kept, !.held_bytes = bytes, !.gap_age = gap]
<1>1. BoundHeld(b) = c
    BY DEF BoundHeld
<1> HIDE DEF kept, bytes, gap
<1>2. SameView(b, c) /\ c.last = b.last
    BY DEF Typed, Buffer, SameView, SameChain
<1> QED
    BY <1>1, <1>2

LEMMA HoldsThenBound ==
    ASSUME NEW a, NEW b, Typed(b), Holds(a, b)
    PROVE  Holds(a, BoundHeld(b))
BY BoundHeldView DEF SameView, SameChain, Holds, Breaks, Tells, TellsOnce

LEMMA StartupDeltaView ==
    ASSUME NEW b, IInv(b), ~b.have_last, NEW f \in Frame
    PROVE  SameView(b, StartupDelta(b, f))
<1> DEFINE a == IF b.held = {} THEN [b EXCEPT !.last = f.seq] ELSE b
<1>1. Typed(a) /\ SameView(b, a)
    <2>1. CASE b.held = {}
        <3>1. f.seq \in FrameSeq /\ a = [b EXCEPT !.last = f.seq]
            BY <2>1 DEF Frame
        <3> QED
            BY <3>1 DEF IInv, Typed, Buffer, SameView, SameChain
    <2>2. CASE b.held # {}
        BY <2>2 DEF IInv, SameView, SameChain
    <2> QED
        BY <2>1, <2>2
<1>2. StartupDelta(b, f) = IF f.seq \in HeldSeqs(b.held) THEN a ELSE BoundHeld(Hold(a, f))
    BY DEF StartupDelta
<1>3. IInv(a) /\ ~a.have_last /\ a.held = b.held
    <2>1. ~a.have_last /\ a.held = b.held
        <3>1. CASE b.held = {}
            BY <3>1 DEF IInv, Typed, Buffer
        <3>2. CASE b.held # {}
            BY <3>2
        <3> QED
            BY <3>1, <3>2
    <2> HIDE DEF a
    <2> QED
        BY <1>1, <2>1 DEF IInv, Beyond, Quiet, Ahead
<1> HIDE DEF a
<1>4. CASE f.seq \in HeldSeqs(b.held)
    BY <1>1, <1>2, <1>4
<1>5. CASE f.seq \notin HeldSeqs(b.held)
    <2>1. IInv(Hold(a, f))
        BY <1>3, <1>5, HoldInv
    <2>2. SameView(a, Hold(a, f)) /\ SameView(Hold(a, f), BoundHeld(Hold(a, f)))
        BY <1>1, <2>1, HoldView, BoundHeldView DEF IInv
    <2> QED
        BY <1>1, <1>2, <1>5, <2>2 DEF SameView, SameChain
<1> QED
    BY <1>4, <1>5

LEMMA GapDeltaView ==
    ASSUME NEW b, IInv(b), Silent(b), NEW f \in Frame, b.have_last,
           Newer(f.seq, b.last), f.seq # Next1(b.last)
    PROVE  Holds(b, GapDelta(b, f))
<1> DEFINE a == IF b.held = {} THEN [b EXCEPT !.gap_age = 0] ELSE b
           h == Hold(a, f)
<1>1. GapDelta(b, f) =
        IF f.seq \in HeldSeqs(b.held) THEN b
        ELSE IF Cardinality(h.held) > HeldLimit \/ h.held_bytes > MaxBytes
             THEN BoundHeld(RequireKeyframe(h))
             ELSE IF NextIsAborted(h) THEN RequireKeyframe(h) ELSE h
    BY DEF GapDelta
<1>2. IInv(a) /\ SameView(b, a) /\ a.last = b.last /\ a.held = b.held
    <2>1. CASE b.held = {}
        <3> DEFINE c == [b EXCEPT !.gap_age = 0]
        <3>1. 0 \in 0 .. HoldCeiling
            BY CeilingType
        <3>2. /\ Typed(c) /\ SameView(b, c) /\ c.last = b.last /\ c.held = b.held
              /\ c.inflight = b.inflight /\ c.inflight_seq = b.inflight_seq
            BY <3>1 DEF IInv, Typed, Buffer, SameView, SameChain
        <3>3. a = c
            BY <2>1
        <3> HIDE DEF a, c
        <3> QED
            BY <3>2, <3>3 DEF IInv, Beyond, Quiet, Ahead, SameView, SameChain
    <2>2. CASE b.held # {}
        BY <2>2 DEF SameView, SameChain
    <2> QED
        BY <2>1, <2>2
<1> HIDE DEF a
<1>3. CASE f.seq \in HeldSeqs(b.held)
    BY <1>1, <1>3 DEF Holds, SameView, SameChain
<1>4. CASE f.seq \notin HeldSeqs(b.held)
    <2>1. IInv(h)
        BY <1>2, <1>4, HoldInv DEF SameView, SameChain
    <2>2. SameView(b, h) /\ h.last = b.last /\ Silent(h) /\ h.have_last
        BY <1>2, HoldView DEF IInv, SameView, SameChain, Silent
    <2> HIDE DEF h
    <2>3. Holds(b, h)
        BY <2>2 DEF Holds
    <2>4. Holds(b, RequireKeyframe(h))
        BY <2>1, <2>2, RequireKeyframeHolds, ViewTransitive DEF IInv
    <2>5. Holds(b, BoundHeld(RequireKeyframe(h)))
        BY <2>1, <2>4, RequireKeyframeInv, HoldsThenBound DEF IInv
    <2> QED
        BY <1>1, <1>4, <2>3, <2>4, <2>5
<1> QED
    BY <1>3, <1>4

LEMMA PollView ==
    ASSUME NEW b0, IInv(b0)
    PROVE  Holds(Fresh(b0), Poll(b0))
<1> DEFINE b == Fresh(b0)
           kept == {h \in b.held : h.age < HoldFor(b.rtt)}
           by == b.held_bytes - Bytes(b.held \ kept)
           gap == EarliestAge(kept)
<1>1. IInv(b) /\ Silent(b)
    BY FreshView
<1>2. DropExpired(b) = [b EXCEPT !.held = kept, !.held_bytes = by, !.gap_age = gap]
    BY DEF DropExpired
<1>3. Poll(b0) =
        IF ~b.have_last THEN DropExpired(b)
        ELSE IF b.awaiting
        THEN IF ~b.loss_reported /\ ~KeyframeInFlight(b) THEN ReportLoss(b) ELSE b
        ELSE IF b.held # {} /\ b.gap_age >= HoldFor(b.rtt)
        THEN RequireKeyframe(b) ELSE b
    BY DEF Poll
<1> HIDE DEF b, kept, by, gap
<1>4. SameView(b, DropExpired(b))
    BY <1>1, <1>2, HeldView DEF IInv
<1>5. b.have_last => Holds(b, RequireKeyframe(b))
    BY <1>1, RequireKeyframeHolds DEF IInv
<1>6. b.awaiting /\ ~b.loss_reported => Tells(b, ReportLoss(b))
    BY <1>1, ReportLossView DEF IInv
<1>7. SameView(b, b)
    BY DEF SameView, SameChain
<1>8. Holds(b, Poll(b0))
    BY <1>3, <1>4, <1>5, <1>6, <1>7 DEF Holds
<1> QED
    BY <1>8 DEF b

LEMMA OnFrameAbortedView ==
    ASSUME NEW b0, IInv(b0), NEW seq \in FrameSeq
    PROVE  Holds(Fresh(b0), OnFrameAborted(b0, seq))
<1> DEFINE b == Fresh(b0)
           lost_key == b.inflight /\ seq = b.inflight_seq
           c == IF lost_key THEN ForgetInflight(b) ELSE b
           d == IF lost_key /\ c.awaiting THEN ReportLoss(c) ELSE c
           hit == {h \in d.held : h.seq = seq}
           r == RequireKeyframe(c)
           e == [d EXCEPT !.held = @ \ hit, !.held_bytes = @ - Bytes(hit),
                          !.gap_age = EarliestAge(d.held \ hit)]
           g == [d EXCEPT !.aborted =
                    Append(IF Len(@) >= MaxAborted THEN Tail(@) ELSE @, seq)]
<1>1. IInv(b) /\ Silent(b)
    BY FreshView
<1>2. OnFrameAborted(b0, seq) =
        IF ~b.have_last THEN c
        ELSE IF seq = Next1(b.last) THEN IF lost_key THEN ReportLoss(r) ELSE r
        ELSE IF ~Newer(seq, b.last) THEN c
        ELSE IF hit # {} THEN e
        ELSE IF seq \in AbortedSet(d) THEN d ELSE g
    BY DEF OnFrameAborted
<1> HIDE DEF b
<1>3. Typed(c) /\ Silent(c) /\ SameView(b, c) /\ c.last = b.last
    <2>1. CASE lost_key
        BY <1>1, <2>1, ForgetView DEF IInv, Silent, SameView, SameChain
    <2>2. CASE ~lost_key
        BY <1>1, <2>2 DEF IInv, SameView, SameChain
    <2> QED
        BY <2>1, <2>2
<1> HIDE DEF c, lost_key
<1>4. Typed(d) /\ (b.have_last => Holds(b, d))
    <2>1. Typed(ReportLoss(c)) /\ Holds(c, c)
        BY <1>3, ReportLossProperties DEF Holds, SameView, SameChain
    <2>2. c.have_last => Holds(c, ReportLoss(c))
        BY <1>3, <2>1, ReportLossView, HeldType DEF Holds
    <2>3. c.have_last = b.have_last
        BY <1>3 DEF SameView, SameChain
    <2> QED
        BY <1>3, <2>1, <2>2, <2>3, ViewTransitive
<1>5. b.have_last => Holds(b, r) /\ Holds(b, ReportLoss(r))
    <2> SUFFICES ASSUME b.have_last PROVE Holds(b, r) /\ Holds(b, ReportLoss(r))
        OBVIOUS
    <2>0. c.have_last /\ c.awaiting \in BOOLEAN /\ c.loss_reported \in BOOLEAN
        BY <1>3, HeldType DEF SameView, SameChain
    <2>1. CASE c.awaiting
        <3>1. r = c
            BY <2>1, <1>3, RequireKeyframeView
        <3>2. Holds(c, ReportLoss(c)) /\ Holds(c, c)
            BY <1>3, <2>0, ReportLossView DEF Holds, SameView, SameChain
        <3> QED
            BY <1>3, <3>1, <3>2, ViewTransitive
    <2>2. CASE ~c.awaiting
        <3>1. Breaks(c, r)
            BY <1>3, <2>2, RequireKeyframeView
        <3>2. Typed(r)
            <4>1. r = [c EXCEPT !.awaiting = TRUE, !.loss_reported = FALSE]
                  \/ r = ReportLoss([c EXCEPT !.awaiting = TRUE, !.loss_reported = FALSE])
                BY <2>2 DEF RequireKeyframe
            <4>2. Typed([c EXCEPT !.awaiting = TRUE, !.loss_reported = FALSE])
                BY <1>3 DEF Typed, Buffer
            <4> QED
                BY <4>1, <4>2, ReportLossProperties
        <3>3. r.loss_reported => ReportLoss(r) = r
            BY DEF ReportLoss
        <3>4. ~r.loss_reported => Breaks(c, ReportLoss(r))
            <4> SUFFICES ASSUME ~r.loss_reported PROVE Breaks(c, ReportLoss(r))
                OBVIOUS
            <4>1. Silent(r)
                BY <1>3, <3>1 DEF Silent, Breaks, SameChain, TellsOnce
            <4>2. Tells(r, ReportLoss(r))
                BY <3>1, <3>2, <4>1, ReportLossView DEF Breaks
            <4> QED
                BY <3>1, <4>2 DEF Breaks, Tells, SameChain
        <3>5. Breaks(c, ReportLoss(r))
            BY <3>1, <3>2, <3>3, <3>4, HeldType
        <3>6. Holds(c, r) /\ Holds(c, ReportLoss(r))
            BY <2>0, <3>1, <3>5 DEF Holds
        <3> QED
            BY <1>3, <3>6, ViewTransitive
    <2> QED
        BY <2>0, <2>1, <2>2
<1> HIDE DEF d, r
<1>6. ASSUME b.have_last, NEW x, SameView(d, x), x.last = d.last PROVE Holds(b, x)
    BY <1>4, <1>6 DEF Holds, SameView, SameChain, Breaks, Tells, TellsOnce
<1>7. SameView(d, e) /\ e.last = d.last
    <2> DEFINE kept == d.held \ hit
               by == d.held_bytes - Bytes(hit)
               gap == EarliestAge(d.held \ hit)
               x == [d EXCEPT !.held = kept, !.held_bytes = by, !.gap_age = gap]
    <2>1. e = x
        OBVIOUS
    <2> HIDE DEF e, kept, by, gap
    <2>2. SameView(d, x) /\ x.last = d.last
        BY <1>4 DEF Typed, Buffer, SameView, SameChain
    <2> QED
        BY <2>1, <2>2
<1>8. SameView(d, g) /\ g.last = d.last
    <2> DEFINE more == Append(IF Len(d.aborted) >= MaxAborted THEN Tail(d.aborted)
                                                             ELSE d.aborted, seq)
    <2>1. g = [d EXCEPT !.aborted = more]
        OBVIOUS
    <2> HIDE DEF more, g
    <2> QED
        BY <1>4, <2>1 DEF Typed, Buffer, SameView, SameChain
<1> HIDE DEF e, g, hit
<1>9. Holds(b, c)
    BY <1>3 DEF Holds
<1>10. Holds(b, OnFrameAborted(b0, seq))
    BY <1>2, <1>4, <1>5, <1>6, <1>7, <1>8, <1>9
<1> QED
    BY <1>10 DEF b

-----------------------------------------------------------------------------
(* Calls that deliver: the frame that resumes the chain, then the run      *)
(* drain() finds behind it.                                                *)

\* Frame f and the n frames behind it.
RunFrom(f, n) == <<f>> \o [i \in 1 .. n |-> [seq |-> Plus(f.seq, i), key |-> FALSE]]

LEMMA RunDelivered ==
    ASSUME NEW f \in Out, NEW n \in 0 .. (Half - 1), NEW out, out = RunFrom(f, n)
    PROVE  /\ out \in Seq(Out) /\ out # <<>> /\ Len(out) = n + 1 /\ out[1] = f
           /\ \A i \in 2 .. Len(out) : out[i].seq = Next1(out[i - 1].seq)
           /\ out[Len(out)].seq = Plus(f.seq, n)
<1> DEFINE run == [i \in 1 .. n |-> [seq |-> Plus(f.seq, i), key |-> FALSE]]
           one == <<f>>
<1>1. f.seq \in FrameSeq /\ n \in Nat /\ n < Half
    BY ReorderAssumption DEF Out
<1>2. \A i \in 1 .. n : Plus(f.seq, i) \in FrameSeq
    BY <1>1, PlusProperties, ReorderAssumption
<1>3. run \in [1 .. n -> Out]
    BY <1>2 DEF Out
<1>4. run \in Seq(Out) /\ Len(run) = n
    BY <1>1, <1>3, SeqDef, LenProperties
<1>5. \A i \in 1 .. n : run[i].seq = Plus(f.seq, i)
    OBVIOUS
<1>6. one \in Seq(Out) /\ Len(one) = 1 /\ one[1] = f
    OBVIOUS
<1>7. out = one \o run
    BY DEF RunFrom
<1> HIDE DEF run, one
<1>8. /\ out \in Seq(Out) /\ Len(out) = 1 + n
      /\ \A i \in 1 .. 1 + n : out[i] = IF i <= 1 THEN one[i] ELSE run[i - 1]
    <2>1. /\ one \o run \in Seq(Out) /\ Len(one \o run) = Len(one) + Len(run)
          /\ \A i \in 1 .. Len(one) + Len(run) :
                (one \o run)[i] = IF i <= Len(one) THEN one[i] ELSE run[i - Len(one)]
        BY <1>4, <1>6, ConcatProperties
    <2> QED
        BY <1>4, <1>6, <1>7, <2>1
<1>9. out[1] = f /\ \A i \in 2 .. n + 1 : out[i].seq = Plus(f.seq, i - 1)
    BY <1>1, <1>5, <1>6, <1>8
<1>10. Plus(f.seq, 0) = f.seq
    <2>1. f.seq \in Nat /\ f.seq < SeqMod /\ SeqMod \in Nat /\ SeqMod > 0
        BY <1>1, ReorderAssumption DEF FrameSeq, SeqMod
    <2> QED
        BY <2>1 DEF Plus
<1>11. \A i \in 1 .. n + 1 : out[i].seq = Plus(f.seq, i - 1)
    <2> TAKE i \in 1 .. n + 1
    <2>1. CASE i = 1
        BY <1>9, <1>10, <2>1
    <2>2. CASE i # 1
        BY <1>1, <1>9, <2>2
    <2> QED
        BY <2>1, <2>2
<1>12. ASSUME NEW i \in 2 .. Len(out) PROVE out[i].seq = Next1(out[i - 1].seq)
    <2>1. i \in 1 .. n + 1 /\ i - 1 \in 1 .. n + 1 /\ i - 2 \in 0 .. Half
        BY <1>1, <1>8, <1>12, ReorderAssumption
    <2>2. out[i].seq = Plus(f.seq, i - 1) /\ out[i - 1].seq = Plus(f.seq, (i - 1) - 1)
        BY <1>11, <2>1
    <2>3. (i - 1) - 1 = i - 2 /\ (i - 2) + 1 = i - 1
        BY <2>1
    <2>4. Next1(Plus(f.seq, i - 2)) = Plus(f.seq, (i - 2) + 1)
        BY <1>1, <2>1, PlusPlus
    <2> QED
        BY <2>2, <2>3, <2>4
<1>13. out[Len(out)].seq = Plus(f.seq, n)
    <2>1. n + 1 \in 1 .. n + 1 /\ (n + 1) - 1 = n /\ Len(out) = n + 1
        BY <1>1, <1>8
    <2> QED
        BY <1>11, <2>1
<1>14. out # <<>>
    BY <1>1, <1>8, EmptySeq
<1>15. Len(out) = n + 1
    BY <1>1, <1>8
<1> QED
    BY <1>8, <1>9, <1>12, <1>13, <1>14, <1>15

LEMMA DrainView ==
    ASSUME NEW b, Moved(b), NEW f \in Out, b.last = f.seq,
           b.delivered = <<f>>, b.lost = <<>>, ~b.loss_reported
    PROVE  LET c == Drain(b)
           IN  /\ c.delivered \in Seq(Out) /\ c.delivered # <<>> /\ c.delivered[1] = f
               /\ \A i \in 2 .. Len(c.delivered) : c.delivered[i].seq = Next1(c.delivered[i - 1].seq)
               /\ c.have_last /\ c.last = c.delivered[Len(c.delivered)].seq
               /\ c.loss_reported => c.awaiting
               /\ TellsOnce(c)
<1> DEFINE n == RunLength(b.held, b.last)
           newest == Plus(b.last, n)
           run == {h \in b.held : \E i \in 1 .. n : h.seq = Plus(b.last, i)}
           ab == StillAhead(b.aborted, newest)
           out == b.delivered \o
                    [i \in 1 .. n |-> [seq |-> Plus(b.last, i), key |-> FALSE]]
           by == b.held_bytes - Bytes(run)
           gap == EarliestAge(b.held \ run)
           d == [b EXCEPT !.last = newest, !.held = @ \ run,
                          !.held_bytes = @ - Bytes(run),
                          !.gap_age = EarliestAge(b.held \ run),
                          !.aborted = StillAhead(@, newest),
                          !.delivered = @ \o
                            [i \in 1 .. n |-> [seq |-> Plus(b.last, i), key |-> FALSE]]]
           e == ForgetInflightThrough(d, newest)
<1>1. b.held \in SUBSET HeldFrame /\ b.last \in FrameSeq
    BY HeldType DEF Moved
<1>2. n \in 0 .. (Half - 1)
    BY <1>1, RunLengthProperties DEF Moved
<1>3. newest \in FrameSeq
    BY <1>1, <1>2, PlusProperties, ReorderAssumption
<1>4. gap \in 0 .. HoldCeiling
    BY <1>1, EarliestAgeType
<1>5. out = RunFrom(f, n)
    BY DEF RunFrom
<1>6. d = [b EXCEPT !.last = newest, !.held = b.held \ run, !.held_bytes = by,
                    !.gap_age = gap, !.aborted = ab, !.delivered = out]
    OBVIOUS
<1>12. Drain(b) = IF NextIsAborted(e) THEN RequireKeyframe(e) ELSE e
    BY DEF Drain
<1> HIDE DEF run, ab, by, gap, d, n, out
<1>7. /\ out \in Seq(Out) /\ out # <<>> /\ out[1] = f
      /\ \A i \in 2 .. Len(out) : out[i].seq = Next1(out[i - 1].seq)
      /\ out[Len(out)].seq = newest
    <2>1. newest = Plus(f.seq, n)
        OBVIOUS
    <2>2. /\ out \in Seq(Out) /\ out # <<>> /\ out[1] = f
          /\ \A i \in 2 .. Len(out) : out[i].seq = Next1(out[i - 1].seq)
          /\ out[Len(out)].seq = Plus(f.seq, n)
        BY <1>2, <1>5, RunDelivered
    <2> QED
        BY <2>1, <2>2
<1> HIDE DEF newest
<1>8. Typed(d)
    BY <1>3, <1>4, <1>6, <1>7 DEF Moved, Typed, Buffer, Out
<1>9. /\ d.have_last /\ ~d.awaiting /\ d.last = newest /\ d.delivered = out
      /\ d.lost = <<>> /\ ~d.loss_reported
    BY <1>6 DEF Moved, Typed, Buffer
<1>10. Typed(e) /\ SameView(d, e) /\ e.last = newest
    BY <1>8, <1>9, ForgetView, ForgetInflightProperties
<1>11. /\ e.have_last /\ ~e.awaiting /\ e.delivered = out /\ e.lost = <<>> /\ ~e.loss_reported
    BY <1>9, <1>10 DEF SameView, SameChain
<1> HIDE DEF e
<1>13. ASSUME NextIsAborted(e)
       PROVE  LET c == RequireKeyframe(e)
              IN  /\ c.delivered = out /\ c.have_last /\ c.last = newest
                  /\ c.awaiting /\ TellsOnce(c)
    <2> DEFINE a == [e EXCEPT !.awaiting = TRUE, !.loss_reported = FALSE]
               said == Append(a.lost, Next1(a.last))
               t == [a EXCEPT !.loss_reported = TRUE, !.lost = said]
    <2>1. RequireKeyframe(e) = a \/ RequireKeyframe(e) = ReportLoss(a)
        BY <1>11 DEF RequireKeyframe
    <2>2. /\ a.have_last /\ a.awaiting /\ ~a.loss_reported /\ a.last = newest
          /\ a.delivered = out /\ a.lost = <<>> /\ Typed(a)
        BY <1>10, <1>11 DEF Typed, Buffer
    <2> HIDE DEF a
    <2>3. ReportLoss(a) = t /\ said = <<Next1(newest)>>
        BY <2>2, AppendNone DEF ReportLoss
    <2> HIDE DEF said
    <2>4. /\ t.have_last /\ t.awaiting /\ t.loss_reported /\ t.last = newest
          /\ t.delivered = out /\ t.lost = said
        BY <2>2 DEF Typed, Buffer
    <2> HIDE DEF t
    <2> QED
        BY <2>1, <2>2, <2>3, <2>4 DEF TellsOnce
<1> QED
    BY <1>7, <1>10, <1>11, <1>12, <1>13 DEF TellsOnce

LEMMA ResumeView ==
    ASSUME NEW b, IInv(b), Silent(b), NEW f \in Frame, NEW surviving \in SUBSET b.held,
           \A h \in surviving : Newer(h.seq, f.seq),
           \/ f.key /\ (b.have_last => Newer(f.seq, b.last))
           \/ b.have_last /\ f.seq = Next1(b.last)
    PROVE  Delivers(b, Resume(b, f, surviving))
<1> DEFINE g == [seq |-> f.seq, key |-> f.key]
           out == Append(b.delivered, g)
           by == b.held_bytes - Bytes(b.held \ surviving)
           c == [b EXCEPT !.have_last = TRUE, !.awaiting = FALSE, !.loss_reported = FALSE,
                      !.last = f.seq, !.held = surviving,
                      !.held_bytes = @ - Bytes(b.held \ surviving),
                      !.delivered = Append(@, [seq |-> f.seq, key |-> f.key])]
           d == ForgetInflightThrough(c, f.seq)
<1>1. g \in Out /\ g.seq = f.seq /\ g.key = f.key /\ f.seq \in FrameSeq
    BY DEF Out, Frame
<1>2. c = [b EXCEPT !.have_last = TRUE, !.awaiting = FALSE, !.loss_reported = FALSE,
                    !.last = f.seq, !.held = surviving, !.held_bytes = by, !.delivered = out]
    OBVIOUS
<1>3. Resume(b, f, surviving) = Drain(d)
    BY DEF Resume
<1>4. out = <<g>>
    BY AppendNone DEF Silent
<1> HIDE DEF g, by, c
<1>5. out \in Seq(Out)
    BY <1>1, <1>4
<1> HIDE DEF out
<1>6. Typed(c)
    BY ZenonT(30), <1>1, <1>2, <1>5 DEF IInv, Typed, Buffer, Out
<1>7. /\ c.have_last /\ ~c.awaiting /\ ~c.loss_reported /\ c.last = f.seq /\ c.held = surviving
      /\ c.delivered = out /\ c.lost = <<>>
    BY <1>2 DEF IInv, Typed, Buffer, Silent
<1>8. Moved(d)
    BY <1>6, <1>7, ForgetInflightProperties DEF Moved, Ahead
<1>9. d.last = f.seq /\ d.delivered = <<g>> /\ d.lost = <<>> /\ ~d.loss_reported
    BY <1>4, <1>6, <1>7, ForgetView DEF SameView, SameChain
<1> HIDE DEF d
<1>10. LET r == Drain(d)
       IN  /\ r.delivered \in Seq(Out) /\ r.delivered # <<>> /\ r.delivered[1] = g
           /\ \A i \in 2 .. Len(r.delivered) : r.delivered[i].seq = Next1(r.delivered[i - 1].seq)
           /\ r.have_last /\ r.last = r.delivered[Len(r.delivered)].seq
           /\ r.loss_reported => r.awaiting
           /\ TellsOnce(r)
    BY <1>1, <1>8, <1>9, DrainView
<1> QED
    BY <1>1, <1>3, <1>10 DEF Delivers


LEMMA OnFrameView ==
    ASSUME NEW b0, IInv(b0), NEW f \in Frame
    PROVE  Holds(Fresh(b0), OnFrame(b0, f)) \/ Delivers(Fresh(b0), OnFrame(b0, f))
<1> DEFINE b == Fresh(b0)
<1>1. IInv(b) /\ Silent(b) /\ b.have_last \in BOOLEAN /\ b.last \in FrameSeq
    BY FreshView, HeldType DEF IInv
<1>f. f.seq \in FrameSeq /\ f.key \in BOOLEAN
    BY DEF Frame
<1>2. OnFrame(b0, f) =
        CASE Stale(b, f)                                       -> b
          [] ~b.have_last /\ ~f.key                            -> StartupDelta(b, f)
          [] ~b.have_last /\ f.key                             -> FirstKeyframe(b, f)
          [] b.have_last /\ f.seq = Next1(b.last)              -> Resume(b, f, b.held)
          [] OTHER -> IF f.key THEN GapKeyframe(b, f) ELSE GapDelta(b, f)
    BY DEF OnFrame
<1>s. Stale(b, f) <=> b.have_last /\ ~Newer(f.seq, b.last)
    BY DEF Stale
<1> HIDE DEF b
<1>3. Newer(Next1(b.last), b.last)
    BY <1>1, PlusProperties, ReorderAssumption DEF Next1, Newer
<1>10. Holds(b, OnFrame(b0, f)) \/ Delivers(b, OnFrame(b0, f))
    <2>4. CASE b.have_last /\ ~Newer(f.seq, b.last)
        <3>1. OnFrame(b0, f) = b
            BY <1>1, <1>s, <1>2, <1>3, <2>4
        <3> QED
            BY <3>1 DEF Holds, SameView, SameChain
    <2>5. CASE ~b.have_last /\ ~f.key
        <3>1. OnFrame(b0, f) = StartupDelta(b, f)
            BY <1>s, <1>2, <2>5
        <3> QED
            BY <1>1, <2>5, <3>1, StartupDeltaView DEF Holds
    <2>6. CASE ~b.have_last /\ f.key
        <3> DEFINE c == [b EXCEPT !.aborted = <<>>]
                   keep == {h \in b.held : Newer(h.seq, f.seq)}
        <3>1. OnFrame(b0, f) = Resume(c, f, keep)
            BY <1>2, <1>s, <2>6 DEF FirstKeyframe
        <3>2. /\ Typed(c) /\ c.held = b.held /\ c.have_last = b.have_last
              /\ c.delivered = b.delivered /\ c.lost = b.lost
            BY <1>1 DEF IInv, Typed, Buffer
        <3>3. keep \in SUBSET b.held /\ \A h \in keep : Newer(h.seq, f.seq)
            OBVIOUS
        <3> HIDE DEF c, keep
        <3>4. IInv(c) /\ Silent(c)
            BY <1>1, <2>6, <3>2 DEF IInv, Beyond, Quiet, Ahead, Silent
        <3>5. Delivers(c, Resume(c, f, keep))
            BY <2>6, <3>2, <3>3, <3>4, ResumeView
        <3> QED
            BY <2>6, <3>1, <3>2, <3>5 DEF Delivers
    <2>7. CASE b.have_last /\ f.seq = Next1(b.last)
        <3>1. OnFrame(b0, f) = Resume(b, f, b.held)
            BY <1>2, <1>s, <1>3, <2>7
        <3>2. \A h \in b.held : Newer(h.seq, f.seq)
            <4> TAKE h \in b.held
            <4>1. h.seq \in FrameSeq /\ Newer(h.seq, b.last) /\ h.seq # Next1(b.last)
                BY <1>1, <2>7, HeldType DEF IInv, Beyond, HeldFrame
            <4>2. \A i \in 1 .. 1 : h.seq # Plus(b.last, i)
                BY <4>1 DEF Next1
            <4> QED
                BY <1>1, <2>7, <4>1, <4>2, BeyondRun, ReorderAssumption DEF Next1
        <3> QED
            BY <1>1, <2>7, <3>1, <3>2, ResumeView
    <2>8. CASE b.have_last /\ Newer(f.seq, b.last) /\ f.seq # Next1(b.last) /\ f.key
        <3> DEFINE keep == {h \in b.held : Distance(h.seq, b.last) > Distance(f.seq, b.last)}
        <3>1. OnFrame(b0, f) = Resume(b, f, keep)
            BY <1>2, <1>s, <2>8 DEF GapKeyframe
        <3>2. \A h \in keep : Newer(h.seq, f.seq)
            <4> TAKE h \in keep
            <4>1. h.seq \in FrameSeq /\ Distance(h.seq, b.last) > Distance(f.seq, b.last)
                BY <1>1, HeldType DEF IInv, HeldFrame
            <4> QED
                BY <1>1, <1>f, <2>8, <4>1, ReorderAssumption
                DEF Distance, Newer, FrameSeq, SeqMod
        <3>3. keep \in SUBSET b.held
            OBVIOUS
        <3> HIDE DEF keep
        <3> QED
            BY <1>1, <2>8, <3>1, <3>2, <3>3, ResumeView
    <2>9. CASE b.have_last /\ Newer(f.seq, b.last) /\ f.seq # Next1(b.last) /\ ~f.key
        <3>1. OnFrame(b0, f) = GapDelta(b, f)
            BY <1>2, <1>s, <2>9
        <3> QED
            BY <1>1, <2>9, <3>1, GapDeltaView
    <2> QED
        BY <1>1, <1>f, <2>4, <2>5, <2>6, <2>7, <2>8, <2>9
<1> QED
    BY <1>10 DEF b

LEMMA OnFrameStartedView ==
    ASSUME NEW b0, IInv(b0), NEW f \in [seq : FrameSeq, key : BOOLEAN]
    PROVE  SameView(Fresh(b0), OnFrameStarted(b0, f))
<1> DEFINE b == Fresh(b0)
           c == [b EXCEPT !.inflight = TRUE, !.inflight_seq = f.seq, !.inflight_age = 0]
<1>1. IInv(b)
    BY FreshProperties
<1>2. OnFrameStarted(b0, f) = b \/ OnFrameStarted(b0, f) = c
    BY DEF OnFrameStarted
<1> HIDE DEF b
<1>3. SameView(b, b) /\ SameView(b, c)
    BY <1>1 DEF IInv, Typed, Buffer, SameView, SameChain
<1> HIDE DEF c
<1>4. SameView(b, OnFrameStarted(b0, f))
    BY <1>2, <1>3
<1> QED
    BY <1>4 DEF b

LEMMA ClockView ==
    ASSUME NEW b0, IInv(b0), NEW rtt
    PROVE  SameView(Fresh(b0), SetRtt(b0, rtt)) /\ SameView(Fresh(b0), Elapse(b0))
<1> DEFINE b == Fresh(b0)
           older(a, cap) == AtMost(a + 1, cap)
           aged == {[h EXCEPT !.age = older(@, HoldCeiling)] : h \in b.held}
           gap == IF b.held = {} THEN b.gap_age ELSE older(b.gap_age, HoldCeiling)
           infl == IF b.inflight THEN older(b.inflight_age, TrustCeiling) ELSE b.inflight_age
           c == [b EXCEPT !.held = aged, !.gap_age = gap, !.inflight_age = infl]
           d == [b EXCEPT !.rtt = rtt]
<1>1. IInv(b)
    BY FreshProperties
<1>2. Elapse(b0) = c /\ SetRtt(b0, rtt) = d
    BY DEF Elapse, SetRtt
<1> HIDE DEF b, aged, gap, infl
<1>3. SameView(b, c) /\ SameView(b, d)
    BY <1>1 DEF IInv, Typed, Buffer, SameView, SameChain
<1> HIDE DEF c, d
<1>4. SameView(b, SetRtt(b0, rtt)) /\ SameView(b, Elapse(b0))
    BY <1>2, <1>3
<1> QED
    BY <1>4 DEF b

-----------------------------------------------------------------------------
(* The two vocabularies agree.                                             *)

LEMMA SameNumbers ==
    ASSUME NEW a, NEW s
    PROVE  Delivery!Next1(s) = Next1(s) /\ (Delivery!Newer(a, s) <=> Newer(a, s))
BY DEF Delivery!Next1, Delivery!Plus, Delivery!SeqMod, Delivery!Newer, Delivery!Distance,
       Next1, Plus, SeqMod, Newer, Distance

LEMMA HoldsIsAStep ==
    ASSUME IInv(buf), Holds(Fresh(buf), buf')
    PROVE  Delivery!Quiet \/ Delivery!Break \/ Delivery!Report
<1> DEFINE b == Fresh(buf)
<1>1. /\ Silent(b) /\ b.have_last = buf.have_last /\ b.last = buf.last
      /\ b.awaiting = buf.awaiting /\ b.loss_reported = buf.loss_reported
    BY FreshView
<1> HIDE DEF b
<1>2. SameView(b, buf') \/ (b.have_last /\ (Breaks(b, buf') \/ Tells(b, buf')))
    BY DEF Holds, b
<1>3. CASE SameView(b, buf')
    BY <1>1, <1>3 DEF SameView, SameChain, Silent, Delivery!Quiet
<1>4. CASE b.have_last /\ Breaks(b, buf')
    BY <1>1, <1>4, SameNumbers
    DEF Breaks, SameChain, TellsOnce, Silent, Delivery!Break, Delivery!Tells
<1>5. CASE b.have_last /\ Tells(b, buf')
    BY <1>1, <1>5, SameNumbers
    DEF Tells, SameChain, TellsOnce, Silent, Delivery!Report, Delivery!Tells
<1> QED
    BY <1>2, <1>3, <1>4, <1>5

LEMMA DeliversIsAStep ==
    ASSUME IInv(buf), Delivers(Fresh(buf), buf')
    PROVE  Delivery!Deliver
<1> DEFINE b == Fresh(buf)
<1>1. b.have_last = buf.have_last /\ b.last = buf.last
    BY FreshView
<1> HIDE DEF b
<1>2. Delivers(b, buf')
    BY DEF b
<1> QED
    BY <1>1, <1>2, SameNumbers DEF Delivers, TellsOnce, Delivery!Deliver, Delivery!Tells

(* The buffer implements VideoDelivery: whatever frames, aborts, polls and *)
(* resets reach it in whatever order, DeliverFn gets a reference chain     *)
(* that only moves forward, and LostFn is called once per interruption,    *)
(* for the frame that is missing.                                          *)
THEOREM BufferImplementsDelivery == Spec => ImplementsDelivery
<1>1. Init => Delivery!Init
    BY DEF Init, NewBuffer, Delivery!Init
<1>2. IInv(buf) /\ [Next]_vars => [Delivery!Next]_(Delivery!vars)
    <2> SUFFICES ASSUME IInv(buf), [Next]_vars PROVE [Delivery!Next]_(Delivery!vars)
        OBVIOUS
    <2>1. CASE FrameStarted
        <3>1. PICK s \in FrameSeq, k \in BOOLEAN :
                buf' = OnFrameStarted(buf, [seq |-> s, key |-> k])
            BY <2>1 DEF FrameStarted
        <3>2. [seq |-> s, key |-> k] \in [seq : FrameSeq, key : BOOLEAN]
            OBVIOUS
        <3>3. Holds(Fresh(buf), buf')
            BY <3>1, <3>2, OnFrameStartedView DEF Holds
        <3> QED
            BY <3>3, HoldsIsAStep DEF Delivery!Next
    <2>2. CASE FrameArrives
        <3>1. Holds(Fresh(buf), buf') \/ Delivers(Fresh(buf), buf')
            BY <2>2, OnFrameView DEF FrameArrives
        <3> QED
            BY <3>1, HoldsIsAStep, DeliversIsAStep DEF Delivery!Next
    <2>3. CASE FrameAborted
        <3>1. Holds(Fresh(buf), buf')
            BY <2>3, OnFrameAbortedView DEF FrameAborted
        <3> QED
            BY <3>1, HoldsIsAStep DEF Delivery!Next
    <2>4. CASE PollTimer
        <3>1. Holds(Fresh(buf), buf')
            BY <2>4, PollView DEF PollTimer
        <3> QED
            BY <3>1, HoldsIsAStep DEF Delivery!Next
    <2>5. CASE RttUpdate
        <3>1. Holds(Fresh(buf), buf')
            BY <2>5, ClockView DEF RttUpdate, Holds
        <3> QED
            BY <3>1, HoldsIsAStep DEF Delivery!Next
    <2>6. CASE ResetBuffer
        BY <2>6 DEF ResetBuffer, Reset, NewBuffer, Delivery!Next, Delivery!Reset
    <2>7. CASE Tick
        <3>1. Holds(Fresh(buf), buf')
            BY <2>7, ClockView DEF Tick, Holds
        <3> QED
            BY <3>1, HoldsIsAStep DEF Delivery!Next
    <2>8. CASE UNCHANGED vars
        BY <2>8 DEF vars, Delivery!vars
    <2> QED
        BY <2>1, <2>2, <2>3, <2>4, <2>5, <2>6, <2>7, <2>8 DEF Next
<1> QED
    BY <1>1, <1>2, Inductive, PTL DEF Spec, ImplementsDelivery, Delivery!Spec

-----------------------------------------------------------------------------
(* The bookkeeping of the buffer.  What the counter, the timer and the     *)
(* limits are compared with are sums and maxima over the held frames.      *)

HeldSize == [h \in HeldFrame |-> h.size]

LEMMA BytesIs ==
    ASSUME NEW held \in SUBSET HeldFrame, IsFiniteSet(held)
    PROVE  Bytes(held) = SumFunctionOnSet(HeldSize, held)
<1> DEFINE f == [h \in held |-> h.size]
<1>1. Bytes(held) = SumFunctionOnSet(f, held)
    BY DEF Bytes, SumFunction
<1>2. \A h \in held : f[h] = HeldSize[h]
    BY DEF HeldSize
<1> HIDE DEF f
<1> QED
    BY <1>1, <1>2, SumSame

LEMMA SizeType == \A h \in HeldFrame : HeldSize[h] \in Nat /\ HeldSize[h] = h.size
BY ReorderAssumption DEF HeldSize, HeldFrame

LEMMA BytesOfPart ==
    ASSUME NEW held \in SUBSET HeldFrame, IsFiniteSet(held), NEW part \in SUBSET held
    PROVE  /\ IsFiniteSet(part) /\ Bytes(part) \in Nat /\ Bytes(held) \in Nat
           /\ Bytes(part) <= Bytes(held)
           /\ Bytes(held \ part) = Bytes(held) - Bytes(part)
<1>1. IsFiniteSet(part) /\ IsFiniteSet(held \ part)
    BY FS_Subset
<1>2. /\ Bytes(held) = SumFunctionOnSet(HeldSize, held)
      /\ Bytes(part) = SumFunctionOnSet(HeldSize, part)
      /\ Bytes(held \ part) = SumFunctionOnSet(HeldSize, held \ part)
    BY <1>1, BytesIs
<1>3. \A h \in held : HeldSize[h] \in Nat /\ HeldSize[h] \in Int
    BY SizeType
<1>4. SumFunctionOnSet(HeldSize, part) \in Nat /\ SumFunctionOnSet(HeldSize, held) \in Nat
    BY <1>1, <1>3, SumIsNat
<1>5. SumFunctionOnSet(HeldSize, part) <= SumFunctionOnSet(HeldSize, held)
    BY <1>3, SumOfPart
<1>6. SumFunctionOnSet(HeldSize, held \ part) =
        SumFunctionOnSet(HeldSize, held) - SumFunctionOnSet(HeldSize, part)
    BY <1>3, SumDiff
<1> QED
    BY <1>1, <1>2, <1>4, <1>5, <1>6

LEMMA BytesWithOneMore ==
    ASSUME NEW held \in SUBSET HeldFrame, IsFiniteSet(held), NEW new \in HeldFrame,
           new \notin held
    PROVE  IsFiniteSet(held \cup {new}) /\ Bytes(held \cup {new}) = Bytes(held) + new.size
<1> DEFINE all == held \cup {new}
<1>1. all \in SUBSET HeldFrame /\ new \in all /\ all \ {new} = held
    OBVIOUS
<1>2. IsFiniteSet(all)
    BY FS_AddElement
<1> HIDE DEF all
<1>3. Bytes(all) = SumFunctionOnSet(HeldSize, all) /\ Bytes(held) = SumFunctionOnSet(HeldSize, held)
    BY <1>1, <1>2, BytesIs
<1>4. \A h \in all : HeldSize[h] \in Int
    BY <1>1, SizeType
<1>5. SumFunctionOnSet(HeldSize, all) = HeldSize[new] + SumFunctionOnSet(HeldSize, all \ {new})
    BY <1>1, <1>2, <1>4, SumRemove
<1>6. Bytes(held) \in Nat /\ HeldSize[new] \in Nat /\ HeldSize[new] = new.size
    BY BytesOfPart, SizeType
<1>7. SumFunctionOnSet(HeldSize, all \ {new}) = Bytes(held)
    BY <1>1, <1>3
<1>8. Bytes(all) = Bytes(held) + new.size
    BY <1>3, <1>5, <1>6, <1>7
<1> QED
    BY <1>2, <1>8 DEF all

LEMMA NothingFits == IsFiniteSet({}) /\ Bytes({}) = 0 /\ Fits({})
<1>1. IsFiniteSet({}) /\ Cardinality({}) = 0
    BY FS_EmptySet
<1>2. Bytes({}) = 0
    BY <1>1, BytesIs, SumEmpty
<1> QED
    BY <1>1, <1>2, ReorderAssumption DEF Fits, HeldLimit

\* What is left of frames within the limits is within the limits.
LEMMA PartFits ==
    ASSUME NEW held \in SUBSET HeldFrame, IsFiniteSet(held), Fits(held),
           NEW part \in SUBSET held
    PROVE  Fits(part)
<1>1. Cardinality(part) <= Cardinality(held) /\ IsFiniteSet(part)
    BY FS_Subset
<1>2. Cardinality(part) \in Nat /\ Cardinality(held) \in Nat
    BY <1>1, FS_CardinalityType
<1>3. Bytes(part) \in Nat /\ Bytes(held) \in Nat /\ Bytes(part) <= Bytes(held)
    BY BytesOfPart
<1>4. HeldLimit \in Nat /\ MaxBytes \in Nat
    BY ReorderAssumption DEF HeldLimit
<1> QED
    BY <1>1, <1>2, <1>3, <1>4 DEF Fits

\* Eviction: the frames whose predecessors in the order of k fit with them fit
\* together, because the last of them brings all the others.
LEMMA EvictionFits ==
    ASSUME NEW held \in SUBSET HeldFrame, IsFiniteSet(held),
           NEW N \in Nat, NEW k, \A h \in held : k[h] \in 0 .. N
    PROVE  Fits({h \in held : Fits({g \in held : k[g] <= k[h]})})
<1> DEFINE upto(h) == {g \in held : k[g] <= k[h]}
           kept == {h \in held : Fits(upto(h))}
           T == {x \in Nat : \E h \in kept : x = N - k[h]}
<1>0. \A h \in kept : k[h] \in 0 .. N
    OBVIOUS
<1>1. CASE kept = {}
    BY <1>1, NothingFits
<1>2. CASE kept # {}
    <2>1. T \in SUBSET Nat /\ T # {}
        <3> HIDE DEF kept
        <3>1. PICK h \in kept : TRUE
            BY <1>2
        <3>2. N - k[h] \in T
            BY <1>0
        <3> QED
            BY <3>2
    <2>2. PICK x \in T : \A y \in T : x <= y
        BY <2>1, LeastNatural
    <2>3. PICK m \in kept : x = N - k[m]
        BY <2>2
    <2>4. kept \in SUBSET upto(m)
        <3> SUFFICES ASSUME NEW h \in kept PROVE k[h] <= k[m]
            OBVIOUS
        <3>0. k[h] \in 0 .. N /\ k[m] \in 0 .. N
            BY <1>0, <2>3
        <3> HIDE DEF kept
        <3>1. N - k[h] \in T
            BY <3>0
        <3>2. x <= N - k[h]
            BY <2>2, <3>1
        <3> QED
            BY <2>3, <3>0, <3>2
    <2>5. Fits(upto(m)) /\ upto(m) \in SUBSET HeldFrame /\ upto(m) \in SUBSET held
        BY <2>3
    <2> HIDE DEF upto, kept
    <2>6. IsFiniteSet(upto(m))
        BY <2>5, FS_Subset
    <2>7. Fits(kept)
        BY <2>4, <2>5, <2>6, PartFits
    <2> QED
        BY <2>7 DEF kept, upto
<1> QED
    BY <1>1, <1>2

\* The earliest arrival is that of a held frame, and no other is earlier.
LEMMA EarliestAgeIs ==
    ASSUME NEW held \in SUBSET HeldFrame, NEW g \in held, \A h \in held : h.age <= g.age
    PROVE  EarliestAge(held) = g.age
<1> DEFINE P(a) == \A h \in held : h.age <= a
           e == CHOOSE a \in {h.age : h \in held} : P(a)
<1>1. EarliestAge(held) = e
    BY DEF EarliestAge
<1>2. g.age \in {h.age : h \in held} /\ P(g.age)
    OBVIOUS
<1>3. e \in {h.age : h \in held} /\ P(e)
    <2> HIDE DEF P
    <2> QED
        BY <1>2
<1> HIDE DEF e
<1>4. e <= g.age /\ g.age <= e /\ e \in Int /\ g.age \in Int
    BY <1>3 DEF HeldFrame
<1> QED
    BY <1>1, <1>4

LEMMA EarliestExists ==
    ASSUME NEW held \in SUBSET HeldFrame, held # {}
    PROVE  \E g \in held : EarliestAge(held) = g.age /\ \A h \in held : h.age <= g.age
<1> DEFINE T == {x \in Nat : \E h \in held : x = HoldCeiling - h.age}
<1>1. \A h \in held : h.age \in 0 .. HoldCeiling
    BY DEF HeldFrame
<1>2. T \in SUBSET Nat /\ T # {}
    BY <1>1, CeilingType
<1>3. PICK x \in T : \A y \in T : x <= y
    BY <1>2, LeastNatural
<1>4. PICK g \in held : x = HoldCeiling - g.age
    BY <1>3
<1>5. \A h \in held : h.age <= g.age
    <2> TAKE h \in held
    <2>1. HoldCeiling - h.age \in T
        BY <1>1, CeilingType
    <2> QED
        BY <2>1, <1>1, <1>3, <1>4, CeilingType
<1> QED
    BY <1>5, EarliestAgeIs

\* A frame that has just arrived does not move the gap timer back.
LEMMA EarliestWithOneMore ==
    ASSUME NEW held \in SUBSET HeldFrame, NEW new \in HeldFrame, new.age = 0
    PROVE  EarliestAge(held \cup {new}) = IF held = {} THEN 0 ELSE EarliestAge(held)
<1>1. \A h \in held : h.age \in Nat
    BY DEF HeldFrame
<1>2. CASE held = {}
    BY <1>2, EarliestAgeIs
<1>3. CASE held # {}
    <2>1. PICK g \in held : EarliestAge(held) = g.age /\ \A h \in held : h.age <= g.age
        BY <1>3, EarliestExists
    <2>2. \A h \in held \cup {new} : h.age <= g.age
        BY <1>1, <2>1
    <2> QED
        BY <1>3, <2>1, <2>2, EarliestAgeIs
<1> QED
    BY <1>2, <1>3

-----------------------------------------------------------------------------
(* The aborted frames that drain() keeps.                                  *)

Filters(aborted, newest, n, kept) ==
    kept = [i \in 0 .. n |->
              IF i = 0 THEN <<>>
              ELSE IF Newer(aborted[i], newest) THEN Append(kept[i - 1], aborted[i])
              ELSE kept[i - 1]]

LEMMA FilterExists ==
    ASSUME NEW aborted, NEW newest, NEW n \in Nat
    PROVE  \E kept : Filters(aborted, newest, n, kept)
<1> DEFINE N == {m \in Nat : \E kept : Filters(aborted, newest, m, kept)}
<1>1. 0 \in N
    <2> DEFINE g == [i \in 0 .. 0 |-> <<>>]
    <2>1. Filters(aborted, newest, 0, g)
        BY DEF Filters
    <2> HIDE DEF g
    <2> QED
        BY <2>1
<1>2. ASSUME NEW m \in N PROVE m + 1 \in N
    <2>1. PICK g : Filters(aborted, newest, m, g)
        OBVIOUS
    <2> DEFINE h == [i \in 0 .. m + 1 |->
                      IF i = 0 THEN <<>>
                      ELSE IF Newer(aborted[i], newest) THEN Append(g[i - 1], aborted[i])
                      ELSE g[i - 1]]
    <2>2. \A i \in 0 .. m : h[i] = g[i]
        <3> TAKE i \in 0 .. m
        <3>1. i \in 0 .. m + 1
            OBVIOUS
        <3>2. g[i] = IF i = 0 THEN <<>>
                     ELSE IF Newer(aborted[i], newest) THEN Append(g[i - 1], aborted[i])
                     ELSE g[i - 1]
            BY <2>1 DEF Filters
        <3> QED
            BY <3>1, <3>2
    <2>3. \A i \in 0 .. m + 1 : i # 0 => i - 1 \in 0 .. m
        OBVIOUS
    <2>4. \A i \in 0 .. m + 1 : h[i] =
            IF i = 0 THEN <<>>
            ELSE IF Newer(aborted[i], newest) THEN Append(h[i - 1], aborted[i])
            ELSE h[i - 1]
        BY <2>2, <2>3
    <2>5. h = [i \in 0 .. m + 1 |-> h[i]]
        OBVIOUS
    <2> HIDE DEF h
    <2>6. Filters(aborted, newest, m + 1, h)
        BY <2>4, <2>5 DEF Filters
    <2> QED
        BY <2>6
<1>3. N = Nat
    <2> HIDE DEF N
    <2>1. N \in SUBSET Nat
        BY DEF N
    <2> QED
        BY <1>1, <1>2, <2>1, SetInduction
<1> QED
    BY <1>3

\* What drain() keeps of the list is no longer than it and lies ahead.
LEMMA StillAheadProperties ==
    ASSUME NEW aborted \in Seq(FrameSeq), NEW newest
    PROVE  LET kept == StillAhead(aborted, newest)
           IN  /\ kept \in Seq(FrameSeq) /\ Len(kept) <= Len(aborted)
               /\ \A i \in DOMAIN kept : Newer(kept[i], newest)
<1> DEFINE n == Len(aborted)
           kept == CHOOSE g : Filters(aborted, newest, n, g)
           Fine(s, i) == /\ s \in Seq(FrameSeq) /\ Len(s) <= i
                         /\ \A j \in 1 .. Len(s) : Newer(s[j], newest)
           N == {i \in Nat : i <= n => Fine(kept[i], i)}
<1>1. StillAhead(aborted, newest) = kept[n]
    BY DEF StillAhead, Filters
<1>2. n \in Nat /\ \A i \in 1 .. n : aborted[i] \in FrameSeq
    OBVIOUS
<1>3. Filters(aborted, newest, n, kept)
    BY <1>2, FilterExists
<1> HIDE DEF n, kept
<1>4. \A i \in 0 .. n : kept[i] =
        IF i = 0 THEN <<>>
        ELSE IF Newer(aborted[i], newest) THEN Append(kept[i - 1], aborted[i])
        ELSE kept[i - 1]
    BY <1>3 DEF Filters
<1>5. 0 \in N
    <2>1. kept[0] = <<>>
        BY <1>2, <1>4
    <2>2. Fine(<<>>, 0)
        OBVIOUS
    <2> HIDE DEF Fine
    <2> QED
        BY <2>1, <2>2
<1>6. ASSUME NEW m \in N PROVE m + 1 \in N
    <2> SUFFICES ASSUME m + 1 <= n PROVE Fine(kept[m + 1], m + 1)
        OBVIOUS
    <2> DEFINE s == kept[m]
               x == aborted[m + 1]
    <2>1. m \in Nat /\ m <= n /\ Fine(s, m)
        BY <1>2
    <2>2. x \in FrameSeq
        BY <1>2, <2>1
    <2>3. kept[m + 1] = IF Newer(x, newest) THEN Append(s, x) ELSE s
        <3>1. m + 1 \in 0 .. n /\ m + 1 # 0 /\ (m + 1) - 1 = m
            BY <1>2, <2>1
        <3> QED
            BY <1>4, <3>1
    <2> HIDE DEF s, x
    <2>4. Fine(s, m + 1)
        BY <2>1
    <2>5. Newer(x, newest) => Fine(Append(s, x), m + 1)
        <3> SUFFICES ASSUME Newer(x, newest) PROVE Fine(Append(s, x), m + 1)
            OBVIOUS
        <3>1. /\ s \in Seq(FrameSeq) /\ Append(s, x) \in Seq(FrameSeq)
              /\ Len(Append(s, x)) = Len(s) + 1 /\ Len(s) <= m /\ Len(s) \in Nat
            BY <2>1, <2>2
        <3>2. \A j \in 1 .. Len(s) + 1 : Append(s, x)[j] = IF j <= Len(s) THEN s[j] ELSE x
            BY <2>2, <3>1
        <3>3. \A j \in 1 .. Len(s) + 1 : Newer(Append(s, x)[j], newest)
            BY <2>1, <3>1, <3>2
        <3> QED
            BY <2>1, <3>1, <3>3
    <2> QED
        BY <2>3, <2>4, <2>5
<1>7. N = Nat
    <2> HIDE DEF N
    <2>1. N \in SUBSET Nat
        BY DEF N
    <2> QED
        BY <1>5, <1>6, <2>1, SetInduction
<1>8. Fine(kept[n], n)
    BY <1>2, <1>7
<1> QED
    BY <1>1, <1>8 DEF n

-----------------------------------------------------------------------------
(* The invariant of the books, and what a call that has not finished yet   *)
(* keeps of it.                                                            *)

Exact(b) == IsFiniteSet(b.held) /\ b.held_bytes = Bytes(b.held)

Listed(b) == b.aborted \in Seq(FrameSeq) /\ Len(b.aborted) <= MaxAborted

Marked(b) ==
    b.have_last =>
        /\ \A i \in DOMAIN b.aborted : Newer(b.aborted[i], b.last)
        /\ NextIsAborted(b) => b.awaiting

Timed(b) == b.gap_age = EarliestAge(b.held)

Books(b) == Exact(b) /\ Fits(b.held) /\ Listed(b) /\ Timed(b) /\ Marked(b)

\* b and c have the same books, and c is in recovery if b is.
SameBooks(b, c) ==
    /\ c.held = b.held /\ c.held_bytes = b.held_bytes /\ c.gap_age = b.gap_age
    /\ c.aborted = b.aborted /\ c.have_last = b.have_last /\ c.last = b.last
    /\ b.awaiting => c.awaiting

LEMMA SameBooksKeep ==
    ASSUME NEW b, NEW c, SameBooks(b, c)
    PROVE  /\ Books(b) => Books(c)
           /\ Exact(b) => Exact(c)
           /\ Listed(b) => Listed(c)
           /\ Marked(b) => Marked(c)
           /\ Timed(b) => Timed(c)
           /\ NextIsAborted(c) <=> NextIsAborted(b)
BY DEF SameBooks, Books, Exact, Listed, Marked, Timed, NextIsAborted, AbortedSet

LEMMA ReportLossSame ==
    ASSUME NEW b, Typed(b)
    PROVE  SameBooks(b, ReportLoss(b))
<1> DEFINE c == [b EXCEPT !.loss_reported = TRUE, !.lost = Append(@, Next1(b.last))]
<1>1. SameBooks(b, b)
    BY DEF SameBooks
<1>2. SameBooks(b, c)
    BY DEF SameBooks, Typed, Buffer
<1>3. ReportLoss(b) = b \/ ReportLoss(b) = c
    BY DEF ReportLoss
<1> HIDE DEF c
<1> QED
    BY <1>1, <1>2, <1>3

LEMMA RequireKeyframeSame ==
    ASSUME NEW b, Typed(b)
    PROVE  SameBooks(b, RequireKeyframe(b)) /\ RequireKeyframe(b).awaiting
<1> DEFINE a == [b EXCEPT !.awaiting = TRUE, !.loss_reported = FALSE]
<1>1. Typed(a) /\ SameBooks(b, a) /\ a.awaiting
    BY DEF Typed, Buffer, SameBooks
<1>2. CASE b.awaiting
    BY <1>2 DEF RequireKeyframe, SameBooks
<1>3. CASE ~b.awaiting
    <2>1. RequireKeyframe(b) = a \/ RequireKeyframe(b) = ReportLoss(a)
        BY <1>3 DEF RequireKeyframe
    <2> HIDE DEF a
    <2>2. SameBooks(a, ReportLoss(a))
        BY <1>1, ReportLossSame
    <2> QED
        BY <1>1, <2>1, <2>2 DEF SameBooks
<1> QED
    BY <1>2, <1>3

LEMMA ForgetInflightSame ==
    ASSUME NEW b, Typed(b), NEW seq
    PROVE  /\ Typed(ForgetInflight(b)) /\ SameBooks(b, ForgetInflight(b))
           /\ SameBooks(b, ForgetInflightThrough(b, seq))
<1> DEFINE a == [b EXCEPT !.inflight = FALSE, !.inflight_seq = 0, !.inflight_age = 0]
<1>0. 0 \in FrameSeq /\ 0 \in 0 .. TrustCeiling
    BY CeilingType, ReorderAssumption DEF FrameSeq, SeqMod
<1>1. Typed(a)
    BY <1>0 DEF Typed, Buffer
<1>2. SameBooks(b, a)
    BY DEF SameBooks, Typed, Buffer
<1>3. SameBooks(b, b)
    BY DEF SameBooks
<1>4. ForgetInflight(b) = a
    BY DEF ForgetInflight
<1>5. ForgetInflightThrough(b, seq) = a \/ ForgetInflightThrough(b, seq) = b
    BY <1>4 DEF ForgetInflightThrough
<1> HIDE DEF a
<1> QED
    BY <1>1, <1>2, <1>3, <1>4, <1>5

LEMMA FreshSame ==
    ASSUME NEW b, Typed(b)
    PROVE  SameBooks(b, Fresh(b))
BY DEF SameBooks, Fresh, Typed, Buffer

-----------------------------------------------------------------------------
(* Every operation leaves the books exact.                                 *)

\* Frames are taken out, with their bytes, and the gap timer is set again.
LEMMA DroppedBooks ==
    ASSUME NEW b, NEW held \in SUBSET HeldFrame, IsFiniteSet(held),
           NEW kept \in SUBSET held, Fits(kept),
           NEW bytes, bytes = Bytes(held) - Bytes(held \ kept),
           NEW c, c.held = kept, c.held_bytes = bytes, c.gap_age = EarliestAge(kept)
    PROVE  Exact(c) /\ Fits(c.held) /\ Timed(c)
<1> DEFINE gone == held \ kept
<1>1. gone \in SUBSET held /\ held \ gone = kept
    OBVIOUS
<1> HIDE DEF gone
<1>2. /\ Bytes(held) \in Nat /\ Bytes(gone) \in Nat
      /\ Bytes(kept) = Bytes(held) - Bytes(gone)
    BY <1>1, BytesOfPart
<1>3. IsFiniteSet(kept)
    BY FS_Subset
<1>4. bytes = Bytes(kept)
    BY <1>2 DEF gone
<1> QED
    BY <1>3, <1>4 DEF Exact, Timed

LEMMA BoundHeldBooks ==
    ASSUME NEW b, Typed(b), Exact(b), Listed(b), Marked(b)
    PROVE  Books(BoundHeld(b))
<1> DEFINE key(h) == Distance(h.seq, b.last)
           kept == IF b.have_last
                   THEN {h \in b.held : Fits({g \in b.held : key(g) <= key(h)})}
                   ELSE {h \in b.held : Fits({g \in b.held : key(g) >= key(h)})}
           bytes == b.held_bytes - Bytes(b.held \ kept)
           up == [h \in b.held |-> key(h) + Half]
           down == [h \in b.held |-> Half - key(h)]
           c == [b EXCEPT !.held = kept, !.held_bytes = bytes, !.gap_age = EarliestAge(kept)]
<1>1. b.held \in SUBSET HeldFrame /\ b.last \in FrameSeq /\ IsFiniteSet(b.held)
    BY HeldType DEF Exact
<1>2. Half \in Nat /\ 2 * Half \in Nat
    BY ReorderAssumption
<1>3. \A h \in b.held : key(h) \in (-Half) .. (Half - 1)
    BY <1>1, DistanceRange DEF HeldFrame
<1>4. ASSUME b.have_last PROVE kept \in SUBSET b.held /\ Fits(kept)
    <2>1. \A h \in b.held : up[h] \in 0 .. 2 * Half
        BY <1>2, <1>3
    <2>2. \A g, h \in b.held : key(g) <= key(h) <=> up[g] <= up[h]
        BY <1>2, <1>3
    <2>3. kept = {h \in b.held : Fits({g \in b.held : up[g] <= up[h]})}
        <3>1. \A h \in b.held : {g \in b.held : key(g) <= key(h)}
                                  = {g \in b.held : up[g] <= up[h]}
            BY <2>2
        <3> HIDE DEF up, key
        <3> QED
            BY <1>4, <3>1
    <2> HIDE DEF kept, up
    <2>4. Fits(kept)
        BY <1>1, <1>2, <2>1, <2>3, EvictionFits
    <2> QED
        BY <2>3, <2>4
<1>5. ASSUME ~b.have_last PROVE kept \in SUBSET b.held /\ Fits(kept)
    <2>1. \A h \in b.held : down[h] \in 0 .. 2 * Half
        BY <1>2, <1>3
    <2>2. \A g, h \in b.held : key(g) >= key(h) <=> down[g] <= down[h]
        BY <1>2, <1>3
    <2>3. kept = {h \in b.held : Fits({g \in b.held : down[g] <= down[h]})}
        <3>1. \A h \in b.held : {g \in b.held : key(g) >= key(h)}
                                  = {g \in b.held : down[g] <= down[h]}
            BY <2>2
        <3> HIDE DEF down, key
        <3> QED
            BY <1>5, <3>1
    <2> HIDE DEF kept, down
    <2>4. Fits(kept)
        BY <1>1, <1>2, <2>1, <2>3, EvictionFits
    <2> QED
        BY <2>3, <2>4
<1>k. kept \in SUBSET b.held /\ Fits(kept)
    BY <1>4, <1>5
<1>c. BoundHeld(b) = c
    BY DEF BoundHeld
<1>b. bytes = Bytes(b.held) - Bytes(b.held \ kept)
    BY DEF Exact
<1> HIDE DEF kept, bytes, up, down
<1>6. /\ c.held = kept /\ c.held_bytes = bytes /\ c.gap_age = EarliestAge(kept)
      /\ c.aborted = b.aborted /\ c.have_last = b.have_last /\ c.last = b.last
      /\ c.awaiting = b.awaiting
    BY DEF Typed, Buffer
<1> HIDE DEF c
<1>7. Exact(c) /\ Fits(c.held) /\ Timed(c)
    BY <1>1, <1>k, <1>b, <1>6, DroppedBooks
<1>8. Listed(c) /\ Marked(c)
    BY <1>6 DEF Listed, Marked, NextIsAborted, AbortedSet
<1> QED
    BY <1>c, <1>7, <1>8 DEF Books

LEMMA HoldBooks ==
    ASSUME NEW b, Typed(b), Exact(b), Listed(b), Marked(b), NEW f \in Frame,
           f.seq \notin HeldSeqs(b.held)
    PROVE  LET c == Hold(b, f)
           IN  /\ Exact(c) /\ Listed(c) /\ Marked(c) /\ (Timed(b) => Timed(c))
               /\ NextIsAborted(c) <=> NextIsAborted(b)
<1> DEFINE new == [seq |-> f.seq, size |-> f.size, age |-> 0]
           bytes == b.held_bytes + f.size
           all == b.held \cup {new}
           c == [b EXCEPT !.held = all, !.held_bytes = bytes]
<1>1. Hold(b, f) = c
    BY DEF Hold
<1>2. b.held \in SUBSET HeldFrame /\ IsFiniteSet(b.held)
    BY HeldType DEF Exact
<1>3. new \in HeldFrame /\ new.size = f.size /\ new.age = 0 /\ new \notin b.held
    BY CeilingType DEF Frame, HeldFrame, HeldSeqs
<1> HIDE DEF new
<1>4. IsFiniteSet(all) /\ Bytes(all) = Bytes(b.held) + new.size
    BY <1>2, <1>3, BytesWithOneMore
<1>5. EarliestAge(all) = IF b.held = {} THEN 0 ELSE EarliestAge(b.held)
    BY <1>2, <1>3, EarliestWithOneMore
<1>6. bytes = Bytes(all)
    BY <1>3, <1>4 DEF Exact
<1> HIDE DEF all, bytes
<1>7. /\ c.held = all /\ c.held_bytes = bytes /\ c.gap_age = b.gap_age
      /\ c.aborted = b.aborted /\ c.have_last = b.have_last /\ c.last = b.last
      /\ c.awaiting = b.awaiting
    BY DEF Typed, Buffer
<1> HIDE DEF c
<1>8. Timed(b) => Timed(c)
    BY <1>5, <1>7 DEF Timed, EarliestAge
<1>9. Listed(c) /\ Marked(c) /\ (NextIsAborted(c) <=> NextIsAborted(b))
    BY <1>7 DEF Listed, Marked, NextIsAborted, AbortedSet
<1> QED
    BY <1>1, <1>4, <1>6, <1>7, <1>8, <1>9 DEF Exact

LEMMA DrainBooks ==
    ASSUME NEW b, Moved(b), Exact(b), Fits(b.held), Listed(b)
    PROVE  Books(Drain(b))
<1> DEFINE n == RunLength(b.held, b.last)
           newest == Plus(b.last, n)
           run == {h \in b.held : \E i \in 1 .. n : h.seq = Plus(b.last, i)}
           kept == b.held \ run
           ab == StillAhead(b.aborted, newest)
           out == b.delivered \o
                    [i \in 1 .. n |-> [seq |-> Plus(b.last, i), key |-> FALSE]]
           by == b.held_bytes - Bytes(run)
           d == [b EXCEPT !.last = newest, !.held = @ \ run,
                          !.held_bytes = @ - Bytes(run),
                          !.gap_age = EarliestAge(b.held \ run),
                          !.aborted = StillAhead(@, newest),
                          !.delivered = @ \o
                            [i \in 1 .. n |-> [seq |-> Plus(b.last, i), key |-> FALSE]]]
           e == ForgetInflightThrough(d, newest)
<1>1. /\ b.held \in SUBSET HeldFrame /\ b.last \in FrameSeq /\ IsFiniteSet(b.held)
      /\ b.delivered \in Seq([seq : FrameSeq, key : BOOLEAN])
    BY HeldType DEF Moved, Exact, Typed, Buffer
<1>2. n \in 0 .. (Half - 1)
    BY <1>1, RunLengthProperties DEF Moved
<1>3. newest \in FrameSeq
    BY <1>1, <1>2, PlusProperties, ReorderAssumption
<1>4. EarliestAge(kept) \in 0 .. HoldCeiling
    BY <1>1, EarliestAgeType
<1>5. out \in Seq([seq : FrameSeq, key : BOOLEAN])
    <2>1. n \in Nat /\ n <= Half
        BY <1>2, ReorderAssumption
    <2> HIDE DEF n
    <2> QED
        BY <1>1, <2>1, RunType, Zenon
<1>6. kept \in SUBSET b.held /\ b.held \ kept = run
    OBVIOUS
<1>7. Drain(b) = IF NextIsAborted(e) THEN RequireKeyframe(e) ELSE e
    BY DEF Drain
<1>8. d = [b EXCEPT !.last = newest, !.held = kept, !.held_bytes = by,
                    !.gap_age = EarliestAge(kept), !.aborted = ab, !.delivered = out]
    OBVIOUS
<1>9. by = Bytes(b.held) - Bytes(b.held \ kept)
    BY <1>6 DEF Exact
<1>10. ab \in Seq(FrameSeq) /\ Len(ab) <= Len(b.aborted)
       /\ \A i \in DOMAIN ab : Newer(ab[i], newest)
    BY StillAheadProperties DEF Listed
<1> HIDE DEF n, newest, run, kept, ab, out, by, d
<1>11. Typed(d)
    BY ZenonT(30), <1>1, <1>3, <1>4, <1>5, <1>6, <1>8 DEF Moved, Typed, Buffer, HeldFrame
<1>12. /\ d.held = kept /\ d.held_bytes = by /\ d.gap_age = EarliestAge(kept)
       /\ d.aborted = ab /\ d.last = newest
    BY <1>8 DEF Moved, Typed, Buffer
<1>13. Fits(kept)
    BY <1>1, <1>6, PartFits
<1>14. Exact(d) /\ Fits(d.held) /\ Timed(d)
    BY <1>1, <1>6, <1>9, <1>12, <1>13, DroppedBooks
<1>15. Listed(d)
    BY <1>10, <1>12, ReorderAssumption DEF Listed
<1>16. SameBooks(d, e) /\ Typed(e)
    BY <1>11, ForgetInflightSame, ForgetInflightProperties
<1> HIDE DEF e
<1>17. /\ Exact(e) /\ Fits(e.held) /\ Timed(e) /\ Listed(e)
       /\ \A i \in DOMAIN e.aborted : Newer(e.aborted[i], e.last)
    BY <1>10, <1>12, <1>14, <1>15, <1>16, SameBooksKeep DEF SameBooks
<1>18. CASE NextIsAborted(e)
    <2> DEFINE r == RequireKeyframe(e)
    <2>1. SameBooks(e, r) /\ r.awaiting /\ Drain(b) = r
        BY <1>7, <1>16, <1>18, RequireKeyframeSame
    <2> HIDE DEF r
    <2>2. Exact(r) /\ Fits(r.held) /\ Timed(r) /\ Listed(r)
        BY <1>17, <2>1, SameBooksKeep DEF SameBooks
    <2>3. Marked(r)
        BY <1>17, <2>1 DEF Marked, SameBooks
    <2> QED
        BY <2>1, <2>2, <2>3 DEF Books
<1>19. CASE ~NextIsAborted(e)
    BY <1>7, <1>17, <1>19 DEF Books, Marked
<1> QED
    BY <1>18, <1>19

LEMMA ResumeBooks ==
    ASSUME NEW b, IInv(b), Exact(b), Fits(b.held), Listed(b), NEW f \in Frame,
           NEW surviving \in SUBSET b.held, \A h \in surviving : Newer(h.seq, f.seq)
    PROVE  Books(Resume(b, f, surviving))
<1> DEFINE out == Append(b.delivered, [seq |-> f.seq, key |-> f.key])
           by == b.held_bytes - Bytes(b.held \ surviving)
           c == [b EXCEPT !.have_last = TRUE, !.awaiting = FALSE, !.loss_reported = FALSE,
                      !.last = f.seq,
                      !.held = surviving,
                      !.held_bytes = @ - Bytes(b.held \ surviving),
                      !.delivered = Append(@, [seq |-> f.seq, key |-> f.key])]
           d == ForgetInflightThrough(c, f.seq)
<1>1. /\ b.held \in SUBSET HeldFrame /\ IsFiniteSet(b.held) /\ f.seq \in FrameSeq
      /\ by = Bytes(b.held) - Bytes(b.held \ surviving)
    BY HeldType DEF IInv, Exact, Frame
<1>o. out \in Seq([seq : FrameSeq, key : BOOLEAN])
    BY DEF IInv, Typed, Buffer, Frame
<1>2. c = [b EXCEPT !.have_last = TRUE, !.awaiting = FALSE, !.loss_reported = FALSE,
                    !.last = f.seq, !.held = surviving, !.held_bytes = by,
                    !.delivered = out]
    OBVIOUS
<1>3. Resume(b, f, surviving) = Drain(d)
    BY DEF Resume
<1> HIDE DEF out, by, c
<1>4. Typed(c)
    BY ZenonT(30), <1>1, <1>o, <1>2 DEF IInv, Typed, Buffer
<1>5. /\ c.have_last /\ ~c.awaiting /\ c.last = f.seq /\ c.held = surviving
      /\ c.held_bytes = by /\ c.aborted = b.aborted
    BY <1>2 DEF IInv, Typed, Buffer
<1>6. Exact(c) /\ Fits(c.held)
    <2> DEFINE gone == b.held \ surviving
    <2>1. gone \in SUBSET b.held /\ b.held \ gone = surviving
        OBVIOUS
    <2> HIDE DEF gone
    <2>2. Bytes(surviving) = Bytes(b.held) - Bytes(gone)
        BY <1>1, <2>1, BytesOfPart
    <2>3. Fits(surviving) /\ IsFiniteSet(surviving)
        BY <1>1, PartFits, FS_Subset
    <2> QED
        BY <1>1, <1>5, <2>2, <2>3 DEF Exact, gone
<1>7. Listed(c)
    BY <1>5 DEF Listed
<1>8. Moved(d)
    BY <1>4, <1>5, ForgetInflightProperties DEF Moved, Ahead
<1>9. SameBooks(c, d)
    BY <1>4, ForgetInflightSame
<1> HIDE DEF d
<1>10. Exact(d) /\ Fits(d.held) /\ Listed(d)
    BY <1>6, <1>7, <1>9, SameBooksKeep DEF SameBooks
<1> QED
    BY <1>3, <1>8, <1>10, DrainBooks

LEMMA StartupDeltaBooks ==
    ASSUME NEW b, IInv(b), Books(b), ~b.have_last, NEW f \in Frame
    PROVE  Books(StartupDelta(b, f))
<1> DEFINE m == [b EXCEPT !.last = f.seq]
           a == IF b.held = {} THEN m ELSE b
<1>1. /\ Typed(m) /\ m.held = b.held /\ m.held_bytes = b.held_bytes /\ m.gap_age = b.gap_age
      /\ m.aborted = b.aborted /\ ~m.have_last
    BY DEF IInv, Typed, Buffer, Frame
<1>2. a = m \/ a = b
    OBVIOUS
<1>3. StartupDelta(b, f) = IF f.seq \in HeldSeqs(b.held) THEN a ELSE BoundHeld(Hold(a, f))
    BY DEF StartupDelta
<1> HIDE DEF m, a
<1>4. Typed(a) /\ a.held = b.held /\ Books(a)
    BY <1>1, <1>2 DEF IInv, Books, Exact, Listed, Marked, Timed
<1>5. ASSUME f.seq \notin HeldSeqs(b.held) PROVE Books(BoundHeld(Hold(a, f)))
    <2> DEFINE h == Hold(a, f)
    <2>1. IInv(a) /\ ~a.have_last
        BY <1>1, <1>2, <1>4 DEF IInv, Beyond, Quiet, Ahead
    <2>2. Exact(h) /\ Listed(h) /\ Marked(h)
        BY <1>4, <1>5, HoldBooks DEF Books
    <2>3. Typed(h)
        BY <1>4, <1>5, <2>1, HoldInv DEF IInv
    <2> HIDE DEF h
    <2>4. Books(BoundHeld(h))
        BY <2>2, <2>3, BoundHeldBooks
    <2> QED
        BY <2>4 DEF h
<1> QED
    BY <1>3, <1>4, <1>5

LEMMA GapDeltaBooks ==
    ASSUME NEW b, IInv(b), Books(b), NEW f \in Frame,
           Newer(f.seq, b.last), f.seq # Next1(b.last)
    PROVE  Books(GapDelta(b, f))
<1> DEFINE m == [b EXCEPT !.gap_age = 0]
           a == IF b.held = {} THEN m ELSE b
           h == Hold(a, f)
           r == RequireKeyframe(h)
<1>0. 0 \in 0 .. HoldCeiling
    BY CeilingType
<1>1. /\ IInv(m) /\ m.held = b.held /\ m.held_bytes = b.held_bytes /\ m.gap_age = 0
      /\ m.aborted = b.aborted /\ m.have_last = b.have_last /\ m.last = b.last
      /\ m.awaiting = b.awaiting
    <2>1. Typed(m)
        BY <1>0 DEF IInv, Typed, Buffer
    <2>2. /\ m.held = b.held /\ m.held_bytes = b.held_bytes /\ m.gap_age = 0
          /\ m.aborted = b.aborted /\ m.have_last = b.have_last /\ m.last = b.last
          /\ m.awaiting = b.awaiting /\ m.loss_reported = b.loss_reported
          /\ m.inflight = b.inflight /\ m.inflight_seq = b.inflight_seq
        BY DEF IInv, Typed, Buffer
    <2> HIDE DEF m
    <2> QED
        BY <2>1, <2>2 DEF IInv, Beyond, Quiet, Ahead
<1>2. a = IF b.held = {} THEN m ELSE b
    OBVIOUS
<1>3. f.seq \notin HeldSeqs(b.held) =>
        GapDelta(b, f) =
            IF Cardinality(h.held) > HeldLimit \/ h.held_bytes > MaxBytes
            THEN BoundHeld(r)
            ELSE IF NextIsAborted(h) THEN r ELSE h
    BY DEF GapDelta
<1> HIDE DEF m, a
<1>4. /\ IInv(a) /\ a.held = b.held /\ a.last = b.last /\ Books(a)
    <2>1. CASE b.held = {}
        <3>1. a = m /\ EarliestAge(m.held) = 0
            BY <1>1, <1>2, <2>1 DEF EarliestAge
        <3> QED
            BY <1>1, <3>1 DEF Books, Exact, Listed, Marked, Timed, NextIsAborted, AbortedSet
    <2>2. CASE b.held # {}
        BY <1>2, <2>2
    <2> QED
        BY <2>1, <2>2
<1>5. CASE f.seq \in HeldSeqs(b.held)
    BY <1>5 DEF GapDelta
<1>6. CASE f.seq \notin HeldSeqs(b.held)
    <2>1. Exact(h) /\ Listed(h) /\ Marked(h) /\ Timed(h)
        BY <1>4, <1>6, HoldBooks DEF Books, IInv
    <2>2. IInv(h)
        BY <1>4, <1>6, HoldInv
    <2> HIDE DEF h
    <2>3. SameBooks(h, r) /\ IInv(r)
        BY <2>2, RequireKeyframeSame, RequireKeyframeInv DEF IInv
    <2> HIDE DEF r
    <2>4. Exact(r) /\ Listed(r) /\ Marked(r) /\ Timed(r) /\ r.held = h.held
        BY <2>1, <2>3, SameBooksKeep DEF SameBooks
    <2>5. Books(BoundHeld(r))
        BY <2>3, <2>4, BoundHeldBooks DEF IInv
    <2>6. CASE Cardinality(h.held) > HeldLimit \/ h.held_bytes > MaxBytes
        BY <1>3, <1>6, <2>5, <2>6
    <2>7. CASE ~(Cardinality(h.held) > HeldLimit \/ h.held_bytes > MaxBytes)
        <3>1. IsFiniteSet(h.held) /\ h.held \in SUBSET HeldFrame
            BY <2>1, <2>2, HeldType DEF Exact, IInv
        <3>2. /\ Cardinality(h.held) \in Nat /\ Bytes(h.held) \in Nat
              /\ HeldLimit \in Nat /\ MaxBytes \in Nat
            BY <3>1, FS_CardinalityType, BytesOfPart, ReorderAssumption DEF HeldLimit
        <3>3. Fits(h.held)
            BY <2>1, <2>7, <3>2 DEF Exact, Fits
        <3> QED
            BY <1>3, <1>6, <2>1, <2>4, <2>7, <3>3 DEF Books
    <2> QED
        BY <2>6, <2>7
<1> QED
    BY <1>5, <1>6

LEMMA OnFrameBooks ==
    ASSUME NEW b0, IInv(b0), Books(b0), NEW f \in Frame
    PROVE  Books(OnFrame(b0, f))
<1> DEFINE b == Fresh(b0)
<1>1. IInv(b) /\ Books(b) /\ b.have_last \in BOOLEAN /\ b.last \in FrameSeq
    BY FreshProperties, FreshSame, SameBooksKeep, HeldType DEF IInv
<1>f. f.seq \in FrameSeq /\ f.key \in BOOLEAN
    BY DEF Frame
<1>2. OnFrame(b0, f) =
        CASE Stale(b, f)                                       -> b
          [] ~b.have_last /\ ~f.key                            -> StartupDelta(b, f)
          [] ~b.have_last /\ f.key                             -> FirstKeyframe(b, f)
          [] b.have_last /\ f.seq = Next1(b.last)              -> Resume(b, f, b.held)
          [] OTHER -> IF f.key THEN GapKeyframe(b, f) ELSE GapDelta(b, f)
    BY DEF OnFrame
<1>s. Stale(b, f) <=> b.have_last /\ ~Newer(f.seq, b.last)
    BY DEF Stale
<1> HIDE DEF b
<1>r. ASSUME NEW surviving \in SUBSET b.held, \A h \in surviving : Newer(h.seq, f.seq)
      PROVE  Books(Resume(b, f, surviving))
    BY <1>1, <1>r, ResumeBooks DEF Books
<1>3. Newer(Next1(b.last), b.last)
    BY <1>1, PlusProperties, ReorderAssumption DEF Next1, Newer
<1>4. CASE b.have_last /\ ~Newer(f.seq, b.last)
    BY <1>1, <1>s, <1>2, <1>3, <1>4
<1>5. CASE ~b.have_last /\ ~f.key
    BY <1>1, <1>s, <1>2, <1>5, StartupDeltaBooks
<1>6. CASE ~b.have_last /\ f.key
    <2> DEFINE none == <<>>
               c == [b EXCEPT !.aborted = none]
               keep == {h \in b.held : Newer(h.seq, f.seq)}
    <2>1. OnFrame(b0, f) = Resume(c, f, keep)
        BY <1>2, <1>s, <1>6 DEF FirstKeyframe
    <2>2. none \in Seq(FrameSeq) /\ Len(none) <= MaxAborted
        BY ReorderAssumption
    <2>3. keep \in SUBSET b.held /\ \A h \in keep : Newer(h.seq, f.seq)
        OBVIOUS
    <2> HIDE DEF none, keep
    <2>4. /\ Typed(c) /\ c.held = b.held /\ c.have_last = b.have_last
          /\ c.held_bytes = b.held_bytes /\ c.aborted = none
        BY <1>1 DEF IInv, Typed, Buffer
    <2> HIDE DEF c
    <2>5. IInv(c)
        BY <1>6, <2>4 DEF IInv, Beyond, Quiet, Ahead
    <2>6. Exact(c) /\ Fits(c.held) /\ Listed(c)
        BY <1>1, <2>2, <2>4 DEF Books, Exact, Listed
    <2> QED
        BY <2>1, <2>3, <2>4, <2>5, <2>6, ResumeBooks
<1>7. CASE b.have_last /\ f.seq = Next1(b.last)
    <2>1. OnFrame(b0, f) = Resume(b, f, b.held)
        BY <1>2, <1>s, <1>3, <1>7
    <2>2. \A h \in b.held : Newer(h.seq, f.seq)
        <3> TAKE h \in b.held
        <3>1. h.seq \in FrameSeq /\ Newer(h.seq, b.last) /\ h.seq # Next1(b.last)
            BY <1>1, <1>7, HeldType DEF IInv, Beyond, HeldFrame
        <3>2. \A i \in 1 .. 1 : h.seq # Plus(b.last, i)
            BY <3>1 DEF Next1
        <3> QED
            BY <1>1, <1>7, <3>1, <3>2, BeyondRun, ReorderAssumption DEF Next1
    <2> QED
        BY <1>r, <2>1, <2>2
<1>8. CASE b.have_last /\ Newer(f.seq, b.last) /\ f.seq # Next1(b.last) /\ f.key
    <2> DEFINE keep == {h \in b.held : Distance(h.seq, b.last) > Distance(f.seq, b.last)}
    <2>1. OnFrame(b0, f) = Resume(b, f, keep)
        BY <1>2, <1>s, <1>8 DEF GapKeyframe
    <2>2. \A h \in keep : Newer(h.seq, f.seq)
        <3> TAKE h \in keep
        <3>1. h.seq \in FrameSeq /\ Distance(h.seq, b.last) > Distance(f.seq, b.last)
            BY <1>1, HeldType DEF IInv, HeldFrame
        <3> QED
            BY <1>1, <1>f, <1>8, <3>1, ReorderAssumption
            DEF Distance, Newer, FrameSeq, SeqMod
    <2> QED
        BY <1>r, <2>1, <2>2
<1>9. CASE b.have_last /\ Newer(f.seq, b.last) /\ f.seq # Next1(b.last) /\ ~f.key
    <2>1. OnFrame(b0, f) = GapDelta(b, f)
        BY <1>2, <1>s, <1>9
    <2> QED
        BY <1>1, <1>9, <2>1, GapDeltaBooks
<1> QED
    BY <1>1, <1>f, <1>4, <1>5, <1>6, <1>7, <1>8, <1>9

LEMMA OnFrameStartedBooks ==
    ASSUME NEW b0, IInv(b0), Books(b0), NEW f \in [seq : FrameSeq, key : BOOLEAN]
    PROVE  Books(OnFrameStarted(b0, f))
<1> DEFINE b == Fresh(b0)
           c == [b EXCEPT !.inflight = TRUE, !.inflight_seq = f.seq, !.inflight_age = 0]
<1>1. IInv(b) /\ Books(b)
    BY FreshProperties, FreshSame, SameBooksKeep DEF IInv
<1>2. OnFrameStarted(b0, f) = b \/ OnFrameStarted(b0, f) = c
    BY DEF OnFrameStarted
<1> HIDE DEF b
<1>3. SameBooks(b, c)
    BY <1>1 DEF IInv, Typed, Buffer, SameBooks
<1> HIDE DEF c
<1> QED
    BY <1>1, <1>2, <1>3, SameBooksKeep

\* The list of aborted frames at its limit gives up its oldest entry.
LEMMA ListOneMore ==
    ASSUME NEW s \in Seq(FrameSeq), Len(s) <= MaxAborted, NEW seq \in FrameSeq, NEW last,
           \A i \in DOMAIN s : Newer(s[i], last), Newer(seq, last)
    PROVE  LET t == Append(IF Len(s) >= MaxAborted THEN Tail(s) ELSE s, seq)
           IN  /\ t \in Seq(FrameSeq) /\ Len(t) <= MaxAborted
               /\ \A i \in DOMAIN t : Newer(t[i], last)
               /\ \A i \in DOMAIN t : t[i] = seq \/ \E j \in DOMAIN s : t[i] = s[j]
<1> DEFINE u == IF Len(s) >= MaxAborted THEN Tail(s) ELSE s
           t == Append(u, seq)
<1>0. MaxAborted \in Nat /\ MaxAborted > 0 /\ Len(s) \in Nat /\ DOMAIN s = 1 .. Len(s)
    BY ReorderAssumption
<1>1. /\ u \in Seq(FrameSeq) /\ Len(u) < MaxAborted
      /\ \A i \in 1 .. Len(u) : \E j \in DOMAIN s : u[i] = s[j]
    <2>1. CASE Len(s) >= MaxAborted
        <3>1. s # <<>> /\ u = Tail(s)
            BY <1>0, <2>1
        <3>2. /\ Tail(s) \in Seq(FrameSeq) /\ Len(Tail(s)) = Len(s) - 1
              /\ \A i \in 1 .. Len(s) - 1 : Tail(s)[i] = s[i + 1]
            BY <3>1
        <3>3. \A i \in 1 .. Len(s) - 1 : i + 1 \in DOMAIN s
            BY <1>0
        <3> HIDE DEF u
        <3>4. Len(u) = Len(s) - 1 /\ u \in Seq(FrameSeq) /\ Len(u) < MaxAborted
            BY <1>0, <3>1, <3>2
        <3>5. \A i \in 1 .. Len(u) : u[i] = s[i + 1] /\ i + 1 \in DOMAIN s
            BY <3>1, <3>2, <3>3, <3>4
        <3> QED
            BY <3>4, <3>5
    <2>2. CASE ~(Len(s) >= MaxAborted)
        BY <1>0, <2>2
    <2> QED
        BY <2>1, <2>2
<1> HIDE DEF u
<1>2. /\ t \in Seq(FrameSeq) /\ Len(t) = Len(u) + 1 /\ DOMAIN t = 1 .. Len(u) + 1
      /\ Len(u) \in Nat
      /\ \A i \in 1 .. Len(u) + 1 : t[i] = IF i <= Len(u) THEN u[i] ELSE seq
    BY <1>1
<1> HIDE DEF t
<1>3. Len(t) <= MaxAborted
    BY <1>0, <1>1, <1>2
<1>4. \A i \in DOMAIN t : t[i] = seq \/ \E j \in DOMAIN s : t[i] = s[j]
    BY <1>1, <1>2
<1> QED
    BY <1>2, <1>3, <1>4 DEF t, u

LEMMA RequireTyped ==
    ASSUME NEW b, Typed(b)
    PROVE  Typed(RequireKeyframe(b))
<1> DEFINE a == [b EXCEPT !.awaiting = TRUE, !.loss_reported = FALSE]
<1>1. Typed(a)
    BY DEF Typed, Buffer
<1>2. \/ RequireKeyframe(b) = b \/ RequireKeyframe(b) = a
      \/ RequireKeyframe(b) = ReportLoss(a)
    BY DEF RequireKeyframe
<1> HIDE DEF a
<1> QED
    BY <1>1, <1>2, ReportLossProperties

LEMMA OnFrameAbortedBooks ==
    ASSUME NEW b0, IInv(b0), Books(b0), NEW seq \in FrameSeq
    PROVE  Books(OnFrameAborted(b0, seq))
<1> DEFINE b == Fresh(b0)
           lost_key == b.inflight /\ seq = b.inflight_seq
           c == IF lost_key THEN ForgetInflight(b) ELSE b
           d == IF lost_key /\ c.awaiting THEN ReportLoss(c) ELSE c
           hit == {h \in d.held : h.seq = seq}
           r == RequireKeyframe(c)
           e == [d EXCEPT !.held = @ \ hit, !.held_bytes = @ - Bytes(hit),
                          !.gap_age = EarliestAge(d.held \ hit)]
           g == [d EXCEPT !.aborted =
                    Append(IF Len(@) >= MaxAborted THEN Tail(@) ELSE @, seq)]
<1>1. Typed(b) /\ Books(b)
    BY FreshProperties, FreshSame, SameBooksKeep DEF IInv
<1>2. OnFrameAborted(b0, seq) =
        IF ~b.have_last THEN c
        ELSE IF seq = Next1(b.last) THEN IF lost_key THEN ReportLoss(r) ELSE r
        ELSE IF ~Newer(seq, b.last) THEN c
        ELSE IF hit # {} THEN e
        ELSE IF seq \in AbortedSet(d) THEN d ELSE g
    BY DEF OnFrameAborted
<1> HIDE DEF b
<1>3. Typed(c) /\ Books(c) /\ c.last = b.last
    BY <1>1, ForgetInflightSame, SameBooksKeep DEF SameBooks
<1> HIDE DEF c, lost_key
<1>4. Typed(d) /\ Books(d) /\ d.last = b.last
    BY <1>3, ReportLossProperties, ReportLossSame, SameBooksKeep DEF SameBooks
<1>5. Books(r) /\ Books(ReportLoss(r))
    <2>1. Typed(r)
        BY <1>3, RequireTyped
    <2>2. Books(r)
        BY <1>3, RequireKeyframeSame, SameBooksKeep
    <2> HIDE DEF r
    <2> QED
        BY <2>1, <2>2, ReportLossSame, SameBooksKeep
<1> HIDE DEF d, r
<1>6. Books(e)
    <2> DEFINE kept == d.held \ hit
               by == d.held_bytes - Bytes(hit)
    <2>1. e = [d EXCEPT !.held = kept, !.held_bytes = by, !.gap_age = EarliestAge(kept)]
        OBVIOUS
    <2>2. kept \in SUBSET d.held /\ d.held \ kept = hit
        OBVIOUS
    <2>3. d.held \in SUBSET HeldFrame /\ IsFiniteSet(d.held) /\ Fits(d.held)
        BY <1>4, HeldType DEF Books, Exact
    <2>4. by = Bytes(d.held) - Bytes(d.held \ kept)
        BY <1>4, <2>2 DEF Books, Exact
    <2> HIDE DEF kept, by, e, hit
    <2>5. /\ e.held = kept /\ e.held_bytes = by /\ e.gap_age = EarliestAge(kept)
          /\ e.aborted = d.aborted /\ e.have_last = d.have_last /\ e.last = d.last
          /\ e.awaiting = d.awaiting
        BY <1>4, <2>1 DEF Typed, Buffer
    <2>6. Fits(kept)
        BY <2>2, <2>3, PartFits
    <2>7. Exact(e) /\ Fits(e.held) /\ Timed(e)
        BY <2>2, <2>3, <2>4, <2>5, <2>6, DroppedBooks
    <2>8. Listed(e) /\ Marked(e)
        BY <1>4, <2>5 DEF Books, Listed, Marked, NextIsAborted, AbortedSet
    <2> QED
        BY <2>7, <2>8 DEF Books
<1>7. ASSUME d.have_last, Newer(seq, d.last), seq # Next1(d.last) PROVE Books(g)
    <2> DEFINE more == Append(IF Len(d.aborted) >= MaxAborted THEN Tail(d.aborted)
                                                             ELSE d.aborted, seq)
    <2>1. g = [d EXCEPT !.aborted = more]
        OBVIOUS
    <2>2. /\ more \in Seq(FrameSeq) /\ Len(more) <= MaxAborted
          /\ \A i \in DOMAIN more : Newer(more[i], d.last)
          /\ \A i \in DOMAIN more : more[i] = seq \/ \E j \in DOMAIN d.aborted : more[i] = d.aborted[j]
        BY <1>4, <1>7, ListOneMore DEF Books, Listed, Marked
    <2> HIDE DEF more, g
    <2>3. /\ g.held = d.held /\ g.held_bytes = d.held_bytes /\ g.gap_age = d.gap_age
          /\ g.aborted = more /\ g.have_last = d.have_last /\ g.last = d.last
          /\ g.awaiting = d.awaiting
        BY <1>4, <2>1 DEF Typed, Buffer
    <2>4. NextIsAborted(g) => NextIsAborted(d)
        BY <1>7, <2>2, <2>3 DEF NextIsAborted, AbortedSet
    <2>5. Marked(g)
        BY <1>4, <2>2, <2>3, <2>4 DEF Books, Marked
    <2>6. Listed(g) /\ Exact(g) /\ Fits(g.held) /\ Timed(g)
        BY <1>4, <2>2, <2>3 DEF Books, Listed, Exact, Timed
    <2> QED
        BY <2>5, <2>6 DEF Books
<1>8. d.have_last = b.have_last
    BY <1>1, ForgetInflightSame, ReportLossSame DEF SameBooks, c, d
<1> HIDE DEF e, g, hit
<1> QED
    BY <1>2, <1>3, <1>4, <1>5, <1>6, <1>7, <1>8

LEMMA PollBooks ==
    ASSUME NEW b0, IInv(b0), Books(b0)
    PROVE  Books(Poll(b0))
<1> DEFINE b == Fresh(b0)
           kept == {h \in b.held : h.age < HoldFor(b.rtt)}
           by == b.held_bytes - Bytes(b.held \ kept)
           c == [b EXCEPT !.held = kept, !.held_bytes = by, !.gap_age = EarliestAge(kept)]
<1>1. Typed(b) /\ Books(b)
    BY FreshProperties, FreshSame, SameBooksKeep DEF IInv
<1>2. DropExpired(b) = c
    BY DEF DropExpired
<1>3. kept \in SUBSET b.held
    OBVIOUS
<1>4. \/ ~b.have_last /\ Poll(b0) = DropExpired(b)
      \/ Poll(b0) = ReportLoss(b) \/ Poll(b0) = RequireKeyframe(b) \/ Poll(b0) = b
    BY DEF Poll
<1>5. by = Bytes(b.held) - Bytes(b.held \ kept)
    BY <1>1 DEF Books, Exact
<1> HIDE DEF b, kept, by
<1>6. /\ c.held = kept /\ c.held_bytes = by /\ c.gap_age = EarliestAge(kept)
      /\ c.aborted = b.aborted /\ c.have_last = b.have_last /\ c.last = b.last
      /\ c.awaiting = b.awaiting
    BY <1>1 DEF Typed, Buffer
<1> HIDE DEF c
<1>7. b.held \in SUBSET HeldFrame /\ IsFiniteSet(b.held) /\ Fits(b.held)
    BY <1>1, HeldType DEF Books, Exact
<1>8. Fits(kept)
    BY <1>3, <1>7, PartFits
<1>9. Exact(c) /\ Fits(c.held) /\ Timed(c)
    BY <1>3, <1>5, <1>6, <1>7, <1>8, DroppedBooks
<1>10. Listed(c) /\ Marked(c)
    BY <1>1, <1>6 DEF Books, Listed, Marked, NextIsAborted, AbortedSet
<1>11. Books(ReportLoss(b)) /\ Books(RequireKeyframe(b))
    BY <1>1, ReportLossSame, RequireKeyframeSame, SameBooksKeep
<1> QED
    BY <1>1, <1>2, <1>4, <1>9, <1>10, <1>11 DEF Books

LEMMA SetRttBooks ==
    ASSUME NEW b0, IInv(b0), Books(b0), NEW rtt \in Rtts
    PROVE  Books(SetRtt(b0, rtt))
<1> DEFINE b == Fresh(b0)
           c == [b EXCEPT !.rtt = rtt]
<1>1. Typed(b) /\ Books(b)
    BY FreshProperties, FreshSame, SameBooksKeep DEF IInv
<1>2. SetRtt(b0, rtt) = c
    BY DEF SetRtt
<1> HIDE DEF b
<1>3. SameBooks(b, c)
    BY <1>1 DEF Typed, Buffer, SameBooks
<1> QED
    BY <1>1, <1>2, <1>3, SameBooksKeep

LEMMA NewBufferBooks ==
    ASSUME NEW rtt \in Rtts
    PROVE  Books(NewBuffer(rtt))
<1> DEFINE c == NewBuffer(rtt)
           none == <<>>
<1>1. none \in Seq(FrameSeq) /\ Len(none) <= MaxAborted
    BY ReorderAssumption
<1>2. /\ c.held = {} /\ c.held_bytes = 0 /\ c.gap_age = 0 /\ c.aborted = none
      /\ ~c.have_last
    BY DEF NewBuffer
<1> HIDE DEF none, c
<1>3. Books(c)
    BY <1>1, <1>2, NothingFits DEF Books, Exact, Listed, Timed, Marked, EarliestAge
<1> QED
    BY <1>3 DEF c

\* Frames that grow older keep their number and their size, and the earliest of
\* them stays the earliest.
LEMMA ElapseBooks ==
    ASSUME NEW b0, IInv(b0), Books(b0)
    PROVE  Books(Elapse(b0))
<1> DEFINE b == Fresh(b0)
           older(a, cap) == AtMost(a + 1, cap)
           m == [h \in b.held |-> [h EXCEPT !.age = older(@, HoldCeiling)]]
           aged == {[h EXCEPT !.age = older(@, HoldCeiling)] : h \in b.held}
           gap == IF b.held = {} THEN b.gap_age ELSE older(b.gap_age, HoldCeiling)
           infl == IF b.inflight THEN older(b.inflight_age, TrustCeiling) ELSE b.inflight_age
           c == [b EXCEPT !.held = aged, !.gap_age = gap, !.inflight_age = infl]
<1>1. IInv(b) /\ Typed(b) /\ Books(b)
    BY FreshProperties, FreshSame, SameBooksKeep DEF IInv
<1>2. Elapse(b0) = c
    BY DEF Elapse
<1>3. \A cap \in Nat : \A x, y \in 0 .. cap :
        older(x, cap) \in 0 .. cap /\ (x <= y => older(x, cap) <= older(y, cap))
    BY DEF AtMost
<1>4. aged = {m[h] : h \in b.held}
    OBVIOUS
<1> HIDE DEF b, older
<1>5. b.held \in SUBSET HeldFrame /\ IsFiniteSet(b.held) /\ HoldCeiling \in Nat
    BY <1>1, HeldType, CeilingType DEF Books, Exact
<1>6. \A h \in b.held : /\ m[h] \in HeldFrame /\ m[h].seq = h.seq /\ m[h].size = h.size
                        /\ m[h].age = older(h.age, HoldCeiling)
                        /\ h.age \in 0 .. HoldCeiling
    BY <1>3, <1>5 DEF HeldFrame
<1> HIDE DEF m, aged, gap, infl
<1>7. \A g, h \in b.held : m[g] = m[h] => g = h
    BY <1>1, <1>6 DEF Typed
<1>8. /\ IsFiniteSet(aged) /\ Cardinality(aged) = Cardinality(b.held)
      /\ aged \in SUBSET HeldFrame /\ Bytes(aged) = Bytes(b.held)
    <2>1. \A h \in b.held : HeldSize[h] = HeldSize[m[h]] /\ HeldSize[h] \in Int
        BY <1>5, <1>6, SizeType
    <2>2. /\ IsFiniteSet(aged) /\ Cardinality(aged) = Cardinality(b.held)
          /\ SumFunctionOnSet(HeldSize, aged) = SumFunctionOnSet(HeldSize, b.held)
        BY <1>4, <1>5, <1>7, <2>1, SumRenamed
    <2>3. aged \in SUBSET HeldFrame
        BY <1>4, <1>6
    <2> QED
        BY <1>4, <1>5, <2>2, <2>3, BytesIs
<1>9. gap = EarliestAge(aged)
    <2>1. CASE b.held = {}
        BY <1>1, <1>4, <2>1 DEF Books, Timed, EarliestAge, gap
    <2>2. CASE b.held # {}
        <3>1. PICK g \in b.held : EarliestAge(b.held) = g.age /\ \A h \in b.held : h.age <= g.age
            BY <1>5, <2>2, EarliestExists
        <3>2. m[g] \in aged /\ m[g].age = older(g.age, HoldCeiling)
            BY <1>4, <1>6
        <3>3. \A x \in aged : x.age <= m[g].age
            <4> SUFFICES ASSUME NEW h \in b.held PROVE m[h].age <= m[g].age
                BY <1>4
            <4> QED
                BY <1>3, <1>5, <1>6, <3>1
        <3>4. EarliestAge(aged) = m[g].age
            BY <1>8, <3>2, <3>3, EarliestAgeIs
        <3>5. gap = older(b.gap_age, HoldCeiling) /\ b.gap_age = g.age
            BY <1>1, <2>2, <3>1 DEF gap, Books, Timed
        <3> QED
            BY <3>2, <3>4, <3>5
    <2> QED
        BY <2>1, <2>2
<1>10. /\ c.held = aged /\ c.held_bytes = b.held_bytes /\ c.gap_age = gap
       /\ c.aborted = b.aborted /\ c.have_last = b.have_last /\ c.last = b.last
       /\ c.awaiting = b.awaiting
    BY <1>1 DEF Typed, Buffer
<1> HIDE DEF c
<1>11. Exact(c) /\ Fits(c.held) /\ Timed(c)
    BY <1>1, <1>8, <1>9, <1>10 DEF Books, Exact, Fits, Timed
<1>12. Listed(c) /\ Marked(c)
    BY <1>1, <1>10 DEF Books, Listed, Marked, NextIsAborted, AbortedSet
<1> QED
    BY <1>2, <1>11, <1>12 DEF Books

(* Whatever is held, drained, evicted, expired or aborted, the buffer's    *)
(* byte counter is the sum of the sizes it holds, the gap timer runs from  *)
(* the earliest arrival, both limits hold, and an aborted frame in front   *)
(* of the chain has already started the recovery.                          *)
THEOREM BooksAreExact == Spec => []BookkeepingExact
<1>1. Init => Books(buf)
    BY NewBufferBooks, ReorderAssumption DEF Init
<1>2. IInv(buf) /\ Books(buf) /\ [Next]_vars => Books(buf)'
    <2> SUFFICES ASSUME IInv(buf), Books(buf), [Next]_vars PROVE Books(buf')
        BY DEF Books, Exact, Fits, Listed, Timed, Marked, NextIsAborted, AbortedSet,
               EarliestAge, Bytes
    <2>1. CASE FrameStarted
        <3>1. PICK s \in FrameSeq, k \in BOOLEAN :
                buf' = OnFrameStarted(buf, [seq |-> s, key |-> k])
            BY <2>1 DEF FrameStarted
        <3> QED
            BY <3>1, OnFrameStartedBooks
    <2>2. CASE FrameArrives
        BY <2>2, OnFrameBooks DEF FrameArrives
    <2>3. CASE FrameAborted
        BY <2>3, OnFrameAbortedBooks DEF FrameAborted
    <2>4. CASE PollTimer
        BY <2>4, PollBooks DEF PollTimer
    <2>5. CASE RttUpdate
        BY <2>5, SetRttBooks DEF RttUpdate
    <2>6. CASE ResetBuffer
        BY <2>6, NewBufferBooks, HeldType DEF ResetBuffer, Reset, IInv
    <2>7. CASE Tick
        BY <2>7, ElapseBooks DEF Tick
    <2>8. CASE UNCHANGED vars
        BY <2>8 DEF vars
    <2> QED
        BY <2>1, <2>2, <2>3, <2>4, <2>5, <2>6, <2>7, <2>8 DEF Next
<1>3. IInv(buf) /\ Books(buf) => BookkeepingExact
    <2> SUFFICES ASSUME IInv(buf), Books(buf) PROVE BookkeepingExact
        OBVIOUS
    <2>1. TypeOK
        BY DEF IInv, Typed, TypeOK
    <2>2. BytesExact /\ GapTimerExact /\ WithinBounds
        BY DEF Books, Exact, Fits, Timed, Listed, BytesExact, GapTimerExact, WithinBounds
    <2>3. \A s \in AbortedSet(buf) : s \in FrameSeq
        BY DEF Books, Listed, AbortedSet
    <2>4. AbortedAhead
        BY <2>3 DEF Books, Marked, AbortedAhead, NextIsAborted, AbortedSet
    <2> QED
        BY <2>1, <2>2, <2>4 DEF BookkeepingExact
<1> QED
    BY <1>1, <1>2, <1>3, Inductive, PTL DEF Spec

-----------------------------------------------------------------------------
(* The router keeps the chain its buffer delivers, from the callback to    *)
(* the decoder.                                                            *)

(* f can be decoded after the frame ref.                                   *)
Follows(ref, f) == f.key \/ (ref # NoFrame /\ f.seq = Next1(ref))

Chained(ref, frames) ==
    \A i \in 1 .. Len(frames) : Follows(IF i = 1 THEN ref ELSE frames[i - 1].seq, frames[i])

(* The last frame the decoder knows once it decoded frames.                *)
EndOf(ref, frames) == IF frames = <<>> THEN ref ELSE frames[Len(frames)].seq

(* What the buffer has delivered and the decoder has not yet been given.   *)
OnTheWay == due \o pending

(* The frames on their way continue the chain the decoder has, and the     *)
(* buffer's baseline is the last of them.                                  *)
RouterInv ==
    /\ IInv(buffer)
    /\ pending \in Seq(Delivered) /\ due \in Seq(Delivered)
    /\ Chained(decoded, OnTheWay)
    /\ buffer.have_last => EndOf(decoded, OnTheWay) = buffer.last

LEMMA ChainedJoin ==
    ASSUME NEW ref, NEW s \in Seq(Delivered), NEW t \in Seq(Delivered),
           Chained(ref, s), Chained(EndOf(ref, s), t)
    PROVE  Chained(ref, s \o t) /\ EndOf(ref, s \o t) = EndOf(EndOf(ref, s), t)
<1> DEFINE u == s \o t
<1>1. /\ Len(s) \in Nat /\ Len(t) \in Nat /\ Len(u) = Len(s) + Len(t)
      /\ \A i \in 1 .. Len(s) : u[i] = s[i]
      /\ \A i \in 1 .. Len(t) : u[Len(s) + i] = t[i]
    BY ConcatProperties, LenProperties
<1>2. (s = <<>> <=> Len(s) = 0) /\ (t = <<>> <=> Len(t) = 0) /\ (u = <<>> <=> Len(u) = 0)
    BY EmptySeq, ConcatProperties
<1> HIDE DEF u
<1>3. ASSUME NEW i \in 1 .. Len(u)
      PROVE  Follows(IF i = 1 THEN ref ELSE u[i - 1].seq, u[i])
    <2>1. CASE i <= Len(s)
        <3>1. u[i] = s[i] /\ (i # 1 => u[i - 1] = s[i - 1])
            BY <1>1, <2>1
        <3> QED
            BY <1>1, <2>1, <3>1 DEF Chained
    <2>2. CASE i > Len(s)
        <3> DEFINE j == i - Len(s)
        <3>1. j \in 1 .. Len(t) /\ u[i] = t[j]
            BY SMTT(30), <1>1, <2>2
        <3>2. Follows(IF j = 1 THEN EndOf(ref, s) ELSE t[j - 1].seq, t[j])
            BY <3>1 DEF Chained
        <3>3. ASSUME j # 1 PROVE i # 1 /\ u[i - 1] = t[j - 1]
            <4>1. j - 1 \in 1 .. Len(t) /\ Len(s) + (j - 1) = i - 1 /\ i # 1
                BY <1>1, <2>2, <3>1, <3>3
            <4> QED
                BY <1>1, <4>1
        <3>4. j = 1 => EndOf(ref, s) = IF i = 1 THEN ref ELSE u[i - 1].seq
            BY <1>1, <1>2, <2>2 DEF EndOf
        <3> QED
            BY <3>1, <3>2, <3>3, <3>4
    <2> QED
        BY <1>1, <2>1, <2>2
<1>4. EndOf(ref, u) = EndOf(EndOf(ref, s), t)
    BY <1>1, <1>2 DEF EndOf
<1> QED
    BY <1>3, <1>4 DEF Chained, u

LEMMA ChainedPrefix ==
    ASSUME NEW ref, NEW s \in Seq(Delivered), NEW t \in Seq(Delivered), Chained(ref, s \o t)
    PROVE  Chained(ref, s)
<1>1. /\ Len(s) \in Nat /\ Len(t) \in Nat /\ Len(s \o t) = Len(s) + Len(t)
      /\ \A i \in 1 .. Len(s) : (s \o t)[i] = s[i]
    BY ConcatProperties, LenProperties
<1> SUFFICES ASSUME NEW i \in 1 .. Len(s)
             PROVE  Follows(IF i = 1 THEN ref ELSE s[i - 1].seq, s[i])
    BY DEF Chained
<1>2. i \in 1 .. Len(s \o t) /\ (s \o t)[i] = s[i] /\ (i # 1 => (s \o t)[i - 1] = s[i - 1])
    BY <1>1
<1> QED
    BY <1>2 DEF Chained

LEMMA ChainedRest ==
    ASSUME NEW ref, NEW s \in Seq(Delivered), s # <<>>, Chained(ref, s)
    PROVE  /\ Follows(ref, Head(s))
           /\ Chained(Head(s).seq, Tail(s))
           /\ EndOf(Head(s).seq, Tail(s)) = EndOf(ref, s)
<1> DEFINE h == Head(s)
           t == Tail(s)
<1>1. /\ Len(s) \in Nat \ {0} /\ h = s[1]
      /\ t \in Seq(Delivered) /\ Len(t) = Len(s) - 1
      /\ \A i \in 1 .. Len(t) : t[i] = s[i + 1]
    BY HeadTailProperties, EmptySeq, LenProperties
<1>2. t = <<>> <=> Len(t) = 0
    BY <1>1, EmptySeq
<1> HIDE DEF h, t
<1>3. Follows(ref, h)
    BY <1>1 DEF Chained
<1>4. ASSUME NEW i \in 1 .. Len(t)
      PROVE  Follows(IF i = 1 THEN h.seq ELSE t[i - 1].seq, t[i])
    <2>1. i + 1 \in 1 .. Len(s) /\ i + 1 # 1 /\ (i + 1) - 1 = i
        BY <1>1
    <2>2. Follows(s[i].seq, s[i + 1])
        BY <2>1 DEF Chained
    <2>3. s[i] = IF i = 1 THEN h ELSE t[i - 1]
        BY <1>1
    <2> QED
        BY <1>1, <2>2, <2>3
<1>5. EndOf(h.seq, t) = EndOf(ref, s)
    BY <1>1, <1>2 DEF EndOf
<1> QED
    BY <1>3, <1>4, <1>5 DEF Chained, h, t

LEMMA ChainedNone ==
    ASSUME NEW ref
    PROVE  Chained(ref, <<>>) /\ EndOf(ref, <<>>) = ref
BY EmptySeq DEF Chained, EndOf

(* The head of two queues in a row is the head of the first.               *)
LEMMA JoinedQueue ==
    ASSUME NEW s \in Seq(Delivered), NEW t \in Seq(Delivered), s # <<>>
    PROVE  /\ s \o t \in Seq(Delivered) /\ s \o t # <<>>
           /\ Tail(s) \in Seq(Delivered)
           /\ Head(s \o t) = Head(s) /\ Tail(s \o t) = Tail(s) \o t
<1> DEFINE u == s \o t
           v == Tail(s) \o t
<1>1. /\ Len(s) \in Nat \ {0} /\ Len(t) \in Nat
      /\ u \in Seq(Delivered) /\ Len(u) = Len(s) + Len(t)
      /\ \A i \in 1 .. Len(s) : u[i] = s[i]
      /\ \A i \in 1 .. Len(t) : u[Len(s) + i] = t[i]
    BY ConcatProperties, LenProperties, EmptySeq
<1>2. /\ Tail(s) \in Seq(Delivered) /\ Len(Tail(s)) = Len(s) - 1 /\ Head(s) = s[1]
      /\ \A i \in 1 .. Len(Tail(s)) : Tail(s)[i] = s[i + 1]
    BY HeadTailProperties, EmptySeq
<1>3. u # <<>>
    BY <1>1, EmptySeq
<1>4. /\ Tail(u) \in Seq(Delivered) /\ Len(Tail(u)) = Len(u) - 1 /\ Head(u) = u[1]
      /\ \A i \in 1 .. Len(Tail(u)) : Tail(u)[i] = u[i + 1]
    BY <1>1, <1>3, HeadTailProperties
<1>5. /\ v \in Seq(Delivered) /\ Len(v) = Len(s) - 1 + Len(t)
      /\ \A i \in 1 .. Len(s) - 1 : v[i] = Tail(s)[i]
      /\ \A i \in 1 .. Len(t) : v[Len(s) - 1 + i] = t[i]
    BY <1>2, ConcatProperties
<1> HIDE DEF u, v
<1>6. ASSUME NEW i \in 1 .. Len(v) PROVE Tail(u)[i] = v[i]
    <2>1. CASE i <= Len(s) - 1
        BY <1>1, <1>2, <1>4, <1>5, <2>1
    <2>2. CASE i > Len(s) - 1
        <3>1. i - (Len(s) - 1) \in 1 .. Len(t)
            BY <1>1, <1>5, <2>2
        <3>2. v[i] = t[i - (Len(s) - 1)] /\ u[i + 1] = t[i - (Len(s) - 1)]
            BY <1>1, <1>5, <3>1
        <3> QED
            BY <1>1, <1>4, <1>5, <3>2
    <2> QED
        BY <1>1, <1>5, <2>1, <2>2
<1>7. Tail(u) = v
    BY <1>1, <1>4, <1>5, <1>6, SeqEqual
<1> QED
    BY <1>1, <1>2, <1>3, <1>4, <1>7 DEF u, v

(* A queue is what was popped from it and what was left.                   *)
LEMMA PoppedQueue ==
    ASSUME NEW s \in Seq(Delivered), NEW n \in 1 .. Len(s)
    PROVE  LET p == SubSeq(s, 1, n)
               r == SubSeq(s, n + 1, Len(s))
           IN  p \in Seq(Delivered) /\ r \in Seq(Delivered) /\ p \o r = s
<1> DEFINE p == SubSeq(s, 1, n)
           r == SubSeq(s, n + 1, Len(s))
<1>1. Len(s) \in Nat
    BY LenProperties
<1>2. /\ p \in Seq(Delivered) /\ Len(p) = n
      /\ \A i \in 1 .. n : p[i] = s[i]
    BY <1>1
<1>3. /\ r \in Seq(Delivered) /\ Len(r) = Len(s) - n
      /\ \A i \in 1 .. Len(s) - n : r[i] = s[n + i]
    BY <1>1
<1> HIDE DEF p, r
<1> DEFINE q == p \o r
<1>a. /\ q \in Seq(Delivered) /\ Len(q) = Len(p) + Len(r)
      /\ \A i \in 1 .. Len(p) + Len(r) : q[i] = IF i <= Len(p) THEN p[i] ELSE r[i - Len(p)]
    BY <1>2, <1>3, ConcatProperties
<1> HIDE DEF q
<1>4. /\ q \in Seq(Delivered) /\ Len(q) = Len(s)
      /\ \A i \in 1 .. n : q[i] = p[i]
      /\ \A i \in 1 .. Len(s) - n : q[n + i] = r[i]
    <2>1. q \in Seq(Delivered) /\ Len(p) = n /\ Len(r) = Len(s) - n /\ Len(q) = Len(s)
        BY <1>1, <1>2, <1>3, <1>a
    <2>2. ASSUME NEW i \in 1 .. n PROVE q[i] = p[i]
        BY <1>1, <2>1, <1>a
    <2>3. ASSUME NEW i \in 1 .. Len(s) - n PROVE q[n + i] = r[i]
        BY <1>1, <2>1, <1>a
    <2> QED
        BY <2>1, <2>2, <2>3
<1>5. ASSUME NEW i \in 1 .. Len(s) PROVE q[i] = s[i]
    <2>1. CASE i <= n
        BY <1>2, <1>4, <2>1
    <2>2. CASE i > n
        <3>1. i - n \in 1 .. Len(s) - n /\ n + (i - n) = i
            BY <1>1, <2>2
        <3> QED
            BY <1>3, <1>4, <3>1
    <2>3. i \in Int /\ n \in Int
        BY <1>1
    <2> QED
        BY <2>1, <2>2, <2>3
<1>6. q = s
    BY <1>1, <1>4, <1>5, SeqEqual
<1> QED
    BY <1>2, <1>3, <1>6 DEF p, r, q

(* What a call of the buffer delivers continues the chain: it begins with  *)
(* a keyframe or with the frame behind the baseline, and has no gap.       *)
LEMMA DeliveryChained ==
    ASSUME NEW b, NEW c, NEW ref,
           Delivers(b, c), b.have_last => b.last \in FrameSeq /\ ref = b.last
    PROVE  c.delivered \in Seq(Delivered) /\ c.have_last /\ Chained(ref, c.delivered)
           /\ EndOf(ref, c.delivered) = c.last
<1> DEFINE s == c.delivered
<1>1. s \in Seq(Delivered) /\ s # <<>> /\ Len(s) \in Nat
    BY LenProperties DEF Delivers, Out, Delivered
<1>2. Follows(ref, s[1])
    BY RouterAssumption DEF Delivers, Follows
<1>3. ASSUME NEW i \in 2 .. Len(s) PROVE Follows(s[i - 1].seq, s[i])
    <2>1. i - 1 \in 1 .. Len(s)
        BY <1>1
    <2>2. s[i - 1] \in Delivered
        BY <1>1, <2>1, ElementOfSeq
    <2>3. s[i].seq = Next1(s[i - 1].seq)
        BY DEF Delivers
    <2> QED
        BY <2>2, <2>3, RouterAssumption DEF Follows, Delivered
<1>4. Chained(ref, s)
    BY <1>1, <1>2, <1>3 DEF Chained
<1>5. EndOf(ref, s) = c.last
    BY <1>1 DEF Delivers, EndOf
<1> QED
    BY <1>1, <1>4, <1>5 DEF Delivers

LEMMA BufferCallKeepsChain ==
    ASSUME NEW c, RouterInv, IInv(c),
           Holds(Fresh(buffer), c) \/ Delivers(Fresh(buffer), c),
           buffer' = Fresh(c), pending' = pending \o c.delivered,
           UNCHANGED <<due, decoded>>
    PROVE  RouterInv'
<1> DEFINE b == Fresh(buffer)
<1>1. Silent(b) /\ b.have_last = buffer.have_last /\ b.last = buffer.last
    BY FreshView DEF RouterInv
<1>2. IInv(buffer') /\ buffer'.have_last = c.have_last /\ buffer'.last = c.last
    BY FreshView
<1>3. OnTheWay \in Seq(Delivered) /\ pending \in Seq(Delivered) /\ due \in Seq(Delivered)
    BY ConcatProperties DEF RouterInv, OnTheWay
<1>4. buffer.have_last \in BOOLEAN /\ buffer.last \in FrameSeq
    BY HeldType DEF RouterInv, IInv
<1>5. ASSUME c.delivered \in Seq(Delivered),
             Chained(EndOf(decoded, OnTheWay), c.delivered),
             c.have_last => EndOf(EndOf(decoded, OnTheWay), c.delivered) = c.last
      PROVE  RouterInv'
    <2>0. pending' = pending \o c.delivered /\ due' = due
        OBVIOUS
    <2>9. c.delivered \in Seq(Delivered)
        BY <1>5
    <2>1. /\ pending' \in Seq(Delivered)
          /\ due' \o pending' = OnTheWay \o c.delivered
        <3>1. pending \o c.delivered \in Seq(Delivered)
            BY <1>3, <1>5, ConcatProperties
        <3>2. (due \o pending) \o c.delivered = due \o (pending \o c.delivered)
            <4> DEFINE d == c.delivered
            <4>1. d \in Seq(Delivered)
                BY <2>9
            <4> HIDE DEF d
            <4>2. (due \o pending) \o d = due \o (pending \o d)
                BY SMTT(30), <1>3, <4>1, ConcatAssociative
            <4> QED
                BY <4>2 DEF d
        <3> QED
            BY <2>0, <3>1, <3>2 DEF OnTheWay
    <2>2. /\ Chained(decoded, OnTheWay \o c.delivered)
          /\ EndOf(decoded, OnTheWay \o c.delivered) = EndOf(EndOf(decoded, OnTheWay), c.delivered)
        BY <1>3, <1>5, ChainedJoin DEF RouterInv
    <2>3. OnTheWay' = OnTheWay \o c.delivered
        BY <2>1 DEF OnTheWay
    <2>4. Chained(decoded, OnTheWay')
        BY <2>2, <2>3
    <2>5. buffer'.have_last => EndOf(decoded, OnTheWay') = buffer'.last
        BY <1>2, <1>5, <2>2, <2>3
    <2>6. due' \in Seq(Delivered) /\ decoded' = decoded
        BY <1>3
    <2> HIDE DEF OnTheWay, Chained, EndOf, IInv
    <2> QED
        BY <1>2, <2>1, <2>4, <2>5, <2>6 DEF RouterInv
<1>6. CASE Holds(b, c)
    <2>1. c.delivered = <<>> /\ c.have_last = b.have_last /\ (b.have_last => c.last = b.last)
        BY <1>1, <1>6 DEF Holds, SameView, Breaks, Tells, SameChain, Silent
    <2>2. <<>> \in Seq(Delivered)
        BY EmptySeq
    <2> QED
        BY <1>1, <1>5, <2>1, <2>2, ChainedNone DEF RouterInv
<1>7. CASE Delivers(b, c)
    <2> DEFINE ref == EndOf(decoded, OnTheWay)
    <2>1. b.have_last => b.last \in FrameSeq /\ ref = b.last
        BY <1>1, <1>4 DEF RouterInv
    <2> HIDE DEF b, ref
    <2>5. c.delivered \in Seq(Delivered) /\ c.have_last /\ Chained(ref, c.delivered)
          /\ EndOf(ref, c.delivered) = c.last
        BY <1>7, <2>1, DeliveryChained
    <2> QED
        BY <1>5, <2>5 DEF ref
<1> QED
    BY <1>6, <1>7

(* A step that leaves the buffer's chain, the queue and the decoder alone. *)
LEMMA RouterSame ==
    ASSUME RouterInv, IInv(buffer'), buffer'.have_last => buffer.have_last /\ buffer'.last = buffer.last,
           UNCHANGED <<pending, due, decoded>>
    PROVE  RouterInv'
BY DEF RouterInv, OnTheWay

LEMMA RouterStep ==
    ASSUME RouterInv, [RouterNext]_routerVars
    PROVE  RouterInv'
<1>1. IInv(buffer) /\ buffer.rtt \in Rtts
    BY HeldType DEF RouterInv, IInv
<1>2. IInv(Reset(buffer)) /\ ~Reset(buffer).have_last
    BY <1>1, NewBufferInv DEF Reset, NewBuffer
<1>3. CASE Open
    BY <1>2, <1>3, RouterSame DEF Open
<1>4. CASE Close
    <2>1. due' = due /\ decoded' = decoded /\ pending' = <<>> /\ buffer' = Reset(buffer)
        BY <1>4 DEF Close
    <2>2. due \o <<>> = due /\ <<>> \in Seq(Delivered)
        BY ConcatEmptySeq, EmptySeq DEF RouterInv
    <2>3. Chained(decoded, due)
        BY ChainedPrefix DEF RouterInv, OnTheWay
    <2> HIDE DEF Chained
    <2> QED
        BY <1>2, <2>1, <2>2, <2>3 DEF RouterInv, OnTheWay
<1>5. CASE PathRtt
    <2>1. PICK r \in Rtts : buffer' = SetRtt(buffer, r)
        BY <1>5 DEF PathRtt
    <2>2. IInv(buffer')
        BY <1>1, <2>1, SetRttInv
    <2>3. buffer'.have_last = buffer.have_last /\ (buffer.have_last => buffer'.last = buffer.last)
        BY <1>1, <2>1, ClockView, FreshView DEF SameView, SameChain
    <2> QED
        BY <1>5, <2>2, <2>3, RouterSame DEF PathRtt
<1>6. CASE TickPoll
    <2>1. IInv(Poll(buffer)) /\ Holds(Fresh(buffer), Poll(buffer))
        BY <1>1, PollInv, PollView
    <2> QED
        BY <1>6, <2>1, BufferCallKeepsChain DEF TickPoll, Callbacks
<1>7. CASE TickRequest
    BY <1>1, <1>7, RouterSame DEF TickRequest
<1>8. CASE OnStreamFrameStarted
    <2>1. PICK f \in SentFrames : Callbacks(OnFrameStarted(buffer, f))
        BY <1>8 DEF OnStreamFrameStarted
    <2>2. f \in [seq : FrameSeq, key : BOOLEAN]
        BY RouterAssumption
    <2>3. IInv(OnFrameStarted(buffer, f)) /\ Holds(Fresh(buffer), OnFrameStarted(buffer, f))
        BY <1>1, <2>2, OnFrameStartedInv, OnFrameStartedView DEF Holds
    <2> QED
        BY <1>8, <2>1, <2>3, BufferCallKeepsChain DEF OnStreamFrameStarted, Callbacks
<1>9. CASE OnStreamFrame
    <2>1. PICK f \in SentFrames, n \in Sizes :
            Callbacks(OnFrame(buffer, [seq |-> f.seq, key |-> f.key, size |-> n]))
        BY <1>9 DEF OnStreamFrame
    <2> DEFINE g == [seq |-> f.seq, key |-> f.key, size |-> n]
    <2>2. g \in Frame
        BY RouterAssumption DEF Frame
    <2>3. Callbacks(OnFrame(buffer, g))
        BY <2>1
    <2> HIDE DEF g
    <2>4. /\ IInv(OnFrame(buffer, g))
          /\ Holds(Fresh(buffer), OnFrame(buffer, g)) \/ Delivers(Fresh(buffer), OnFrame(buffer, g))
        BY <1>1, <2>2, OnFrameInv, OnFrameView
    <2> QED
        BY <1>9, <2>3, <2>4, BufferCallKeepsChain DEF OnStreamFrame, Callbacks
<1>10. CASE OnStreamFrameAborted
    <2>1. PICK f \in SentFrames : Callbacks(OnFrameAborted(buffer, f.seq))
        BY <1>10 DEF OnStreamFrameAborted
    <2>2. f.seq \in FrameSeq
        BY RouterAssumption
    <2>3. /\ IInv(OnFrameAborted(buffer, f.seq))
          /\ Holds(Fresh(buffer), OnFrameAborted(buffer, f.seq))
        BY <1>1, <2>2, OnFrameAbortedInv, OnFrameAbortedView
    <2> QED
        BY <1>10, <2>1, <2>3, BufferCallKeepsChain DEF OnStreamFrameAborted, Callbacks
<1>11. CASE OnUnknownFrameAborted \/ DecoderRequest
    BY <1>1, <1>11, RouterSame DEF OnUnknownFrameAborted, DecoderRequest
<1>12. CASE PlayoutPop
    <2>1. due = <<>> /\ decoded' = decoded /\ buffer' = buffer
        BY <1>12 DEF PlayoutPop, MayPop
    <2>2. PICK n \in 1 .. Len(pending) :
            due' = SubSeq(pending, 1, n) /\ pending' = SubSeq(pending, n + 1, Len(pending))
        BY <1>12 DEF PlayoutPop
    <2>3. pending \in Seq(Delivered) /\ OnTheWay = pending
        BY <2>1, ConcatEmptySeq DEF RouterInv, OnTheWay
    <2>4. /\ due' \in Seq(Delivered) /\ pending' \in Seq(Delivered)
          /\ due' \o pending' = pending
        BY <2>2, <2>3, PoppedQueue
    <2>5. OnTheWay' = OnTheWay
        BY <2>3, <2>4 DEF OnTheWay
    <2> QED
        BY <2>1, <2>4, <2>5 DEF RouterInv
<1>13. CASE PlayoutDeliver
    <2>1. /\ due # <<>> /\ decoded' = Head(due).seq /\ due' = Tail(due)
          /\ pending' = pending /\ buffer' = buffer
        BY <1>13 DEF PlayoutDeliver
    <2>2. /\ OnTheWay \in Seq(Delivered) /\ OnTheWay # <<>> /\ due' \in Seq(Delivered)
          /\ Head(OnTheWay) = Head(due) /\ Tail(OnTheWay) = due' \o pending
        BY <2>1, JoinedQueue DEF RouterInv, OnTheWay
    <2>3. /\ Chained(decoded', Tail(OnTheWay))
          /\ EndOf(decoded', Tail(OnTheWay)) = EndOf(decoded, OnTheWay)
        BY <2>1, <2>2, ChainedRest DEF RouterInv
    <2>4. OnTheWay' = Tail(OnTheWay)
        BY <2>1, <2>2 DEF OnTheWay
    <2> QED
        BY <2>1, <2>2, <2>3, <2>4 DEF RouterInv
<1>14. CASE Time
    <2>1. buffer' = Elapse(buffer) /\ 0 \in Rtts
        BY <1>14, ReorderAssumption DEF Time
    <2>2. IInv(buffer')
        BY <1>1, <2>1, ElapseInv
    <2>3. buffer'.have_last = buffer.have_last /\ (buffer.have_last => buffer'.last = buffer.last)
        BY <1>1, <2>1, ClockView, FreshView DEF SameView, SameChain
    <2> QED
        BY <1>14, <2>2, <2>3, RouterSame DEF Time
<1>15. CASE UNCHANGED routerVars
    BY <1>1, <1>15, RouterSame DEF routerVars
<1> QED
    BY <1>3, <1>4, <1>5, <1>6, <1>7, <1>8, <1>9, <1>10, <1>11, <1>12, <1>13, <1>14, <1>15
    DEF RouterNext

(* Whatever arrives, is aborted, closed or reopened meanwhile, and         *)
(* whatever the playout thread had already popped: the decoder is given a  *)
(* delta only right after the frame it refers to.                          *)
THEOREM DecoderIsGivenAChain == RouterSpec => DecoderSeesChain
<1>1. RouterInit => RouterInv
    <2> SUFFICES ASSUME RouterInit PROVE RouterInv
        OBVIOUS
    <2>1. buffer = NewBuffer(0) /\ pending = <<>> /\ due = <<>>
        BY DEF RouterInit
    <2>2. <<>> \in Seq(Delivered) /\ OnTheWay = <<>>
        BY <2>1, EmptySeq, ConcatEmptySeq DEF OnTheWay
    <2>3. IInv(buffer) /\ ~buffer.have_last
        BY <2>1, NewBufferInv, ReorderAssumption DEF NewBuffer
    <2> QED
        BY <2>1, <2>2, <2>3, ChainedNone DEF RouterInv
<1>2. RouterInv /\ [RouterNext]_routerVars => RouterInv'
    BY RouterStep
<1>3. ASSUME RouterInv, due # <<>>, ~Head(due).key
      PROVE  decoded # NoFrame /\ Head(due).seq = Next1(decoded)
    <2>1. OnTheWay \in Seq(Delivered) /\ OnTheWay # <<>> /\ Head(OnTheWay) = Head(due)
        BY <1>3, JoinedQueue DEF RouterInv, OnTheWay
    <2>2. Follows(decoded, Head(due))
        BY <1>3, <2>1, ChainedRest DEF RouterInv
    <2> QED
        BY <1>3, <2>2 DEF Follows
<1>4. RouterInv =>
        [due # <<>> /\ due' = Tail(due) /\ ~Head(due).key
           => decoded # NoFrame /\ Head(due).seq = Next1(decoded)]_routerVars
    BY <1>3
<1> QED
    BY <1>1, <1>2, <1>4, PTL DEF RouterSpec, DecoderSeesChain
=============================================================================
