---------------------- MODULE VideoFrameReorderBuffer ----------------------
(***************************************************************************)
(* The value type behind parties::VideoFrameReorderBuffer                  *)
(* (common/src/video_frame_reorder.cpp): a buffer is a record, every       *)
(* public method is an operator from a buffer to the buffer it leaves      *)
(* behind.  The callbacks a call makes are the fields `delivered' (the     *)
(* frames passed to DeliverFn, in order) and `lost' (the arguments of      *)
(* LostFn); each call starts with both empty.                              *)
(*                                                                         *)
(* Data abstraction.  A frame is its sequence number, its keyframe bit and *)
(* its size; pixels are left out.  A time stamp is replaced by its age,    *)
(* now_us - stamp, which is all the code ever looks at; ages stop growing  *)
(* once every comparison with them is decided (HoldCeiling, TrustCeiling). *)
(***************************************************************************)
EXTENDS FrameSequence, Sequences, FiniteSets, Functions

CONSTANTS
    MaxHeldFrames,   \* VideoFrameReorderConfig::max_held_frames
    MaxBytes,        \* VideoFrameReorderConfig::max_bytes
    MaxAborted,      \* MAX_ABORTED_TRACKED
    MinHold,         \* min_hold_ms
    MaxHold,         \* max_hold_ms
    RttHoldFactor,   \* rtt_hold_factor
    HoldExtra,       \* hold_extra_ms
    TrustHolds,      \* holds a started keyframe is trusted for: 4 in the code
    TrustFloor,      \* and at least this long: 2 s in the code
    Rtts,            \* path RTTs set_rtt is called with (0 = unknown)
    Sizes            \* frame sizes

ASSUME ReorderAssumption ==
    /\ Half \in Nat /\ Half > 1
    /\ MaxHeldFrames \in Nat /\ MaxBytes \in Nat
    /\ MaxAborted \in Nat \ {0}
    /\ MinHold \in Nat \ {0} /\ MaxHold \in Nat
    /\ RttHoldFactor \in Nat /\ HoldExtra \in Nat
    /\ TrustHolds \in Nat \ {0} /\ TrustFloor \in Nat \ {0}
    /\ 0 \in Rtts /\ Rtts \subseteq Nat /\ Sizes \subseteq Nat

-----------------------------------------------------------------------------
(* Configuration as the constructor normalises it, and the derived times.  *)

HeldLimit == IF MaxHeldFrames = 0 THEN 1 ELSE MaxHeldFrames

HoldCeiling == IF MaxHold < MinHold THEN MinHold ELSE MaxHold

AtLeast(x, y) == IF x < y THEN y ELSE x

AtMost(x, y) == IF x > y THEN y ELSE x

HoldFor(rtt) ==
    AtMost(IF rtt > 0 THEN AtLeast(MinHold, rtt * RttHoldFactor + HoldExtra)
                      ELSE MinHold,
           HoldCeiling)

TrustFor(rtt) == AtLeast(TrustHolds * HoldFor(rtt), TrustFloor)

TrustCeiling == AtLeast(TrustHolds * HoldCeiling, TrustFloor)

-----------------------------------------------------------------------------
(* The buffer.  `held' is the map held_ without its key: between calls the *)
(* key of an entry is always Distance(seq, last), and drain() walks it in  *)
(* the order of the sequence numbers, which the re-keying preserves.       *)

Buffer(counts, aborts) ==
    [rtt           : Rtts,
     have_last     : BOOLEAN,
     awaiting      : BOOLEAN,
     loss_reported : BOOLEAN,
     last          : FrameSeq,
     held          : SUBSET [seq : FrameSeq, size : Sizes, age : 0 .. HoldCeiling],
     gap_age       : 0 .. HoldCeiling,
     held_bytes    : counts,
     inflight      : BOOLEAN,
     inflight_seq  : FrameSeq,
     inflight_age  : 0 .. TrustCeiling,
     aborted       : aborts,
     delivered     : Seq([seq : FrameSeq, key : BOOLEAN]),
     lost          : Seq(FrameSeq)]

NewBuffer(rtt) ==
    [rtt |-> rtt, have_last |-> FALSE, awaiting |-> TRUE, loss_reported |-> FALSE,
     last |-> 0, held |-> {}, gap_age |-> 0, held_bytes |-> 0,
     inflight |-> FALSE, inflight_seq |-> 0, inflight_age |-> 0,
     aborted |-> <<>>, delivered |-> <<>>, lost |-> <<>>]

HeldSeqs(held) == {h.seq : h \in held}

Bytes(held) == SumFunction([h \in held |-> h.size])

\* Age of the earliest arrival; 0 stands for the code's "none".
EarliestAge(held) ==
    IF held = {} THEN 0
    ELSE CHOOSE a \in {h.age : h \in held} : \A h \in held : h.age <= a

AbortedSet(b) == {b.aborted[i] : i \in DOMAIN b.aborted}

-----------------------------------------------------------------------------
(* Private helpers.                                                        *)

\* Old frames never move the baseline back, keyframes included.
Stale(b, f) == b.have_last /\ ~Newer(f.seq, b.last)

\* Mutant: a started keyframe is trusted for ever.
TrustsForever(b) == b.inflight

KeyframeInFlight(b) == b.inflight /\ b.inflight_age < TrustFor(b.rtt)

NeedsKeyframe(b) == ~b.have_last \/ b.awaiting

ShouldRequestKeyframe(b) == NeedsKeyframe(b) /\ ~KeyframeInFlight(b)


NextIsAborted(b) == Next1(b.last) \in AbortedSet(b)


ReportLoss(b) ==
    IF b.loss_reported \/ ~b.awaiting THEN b
    ELSE [b EXCEPT !.loss_reported = TRUE, !.lost = Append(@, Next1(b.last))]


\* Mutant: recovery starts without telling anyone.
RequireKeyframeSilent(b) ==
    IF b.awaiting THEN b ELSE [b EXCEPT !.awaiting = TRUE, !.loss_reported = FALSE]

RequireKeyframe(b) ==
    IF b.awaiting THEN b
    ELSE LET asked == [b EXCEPT !.awaiting = TRUE, !.loss_reported = FALSE]
         IN  IF KeyframeInFlight(b) THEN asked ELSE ReportLoss(asked)

\* The in-flight keyframe is forgotten (its number and age are not read any more).
ForgetInflight(b) ==
    [b EXCEPT !.inflight = FALSE, !.inflight_seq = 0, !.inflight_age = 0]

ForgetInflightThrough(b, seq) ==
    IF b.inflight /\ ~Newer(b.inflight_seq, seq) THEN ForgetInflight(b) ELSE b


Fits(held) == Cardinality(held) <= HeldLimit /\ Bytes(held) <= MaxBytes

\* Before the first keyframe the oldest frames are evicted, afterwards the newest.
BoundHeld(b) ==
    LET key(h) == Distance(h.seq, b.last)
        kept == IF b.have_last
                THEN {h \in b.held : Fits({g \in b.held : key(g) <= key(h)})}
                ELSE {h \in b.held : Fits({g \in b.held : key(g) >= key(h)})}
    IN  [b EXCEPT !.held = kept,
                  !.held_bytes = @ - Bytes(b.held \ kept),
                  !.gap_age = EarliestAge(kept)]

\* How many consecutive successors of `last' are held.
RunLength(held, last) ==
    CHOOSE n \in 0 .. Half :
        /\ Plus(last, n + 1) \notin HeldSeqs(held)
        /\ \A i \in 1 .. n : Plus(last, i) \in HeldSeqs(held)

\* The aborted frames beyond `newest', in their order.
StillAhead(aborted, newest) ==
    LET kept[i \in 0 .. Len(aborted)] ==
          IF i = 0 THEN <<>>
          ELSE IF Newer(aborted[i], newest) THEN Append(kept[i - 1], aborted[i])
          ELSE kept[i - 1]
    IN  kept[Len(aborted)]

\* Deliver the run behind `last', forget what it overtakes, fail fast when the
\* frame it stops at is known to be aborted.
Drain(b) ==
    LET n      == RunLength(b.held, b.last)
        newest == Plus(b.last, n)
        run    == {h \in b.held : \E i \in 1 .. n : h.seq = Plus(b.last, i)}
        d      == [b EXCEPT
                     !.last = newest,
                     !.held = @ \ run,
                     !.held_bytes = @ - Bytes(run),
                     !.gap_age = EarliestAge(b.held \ run),
                     !.aborted = StillAhead(@, newest),
                     !.delivered =
                        @ \o [i \in 1 .. n |-> [seq |-> Plus(b.last, i), key |-> FALSE]]]
        e      == ForgetInflightThrough(d, newest)
    IN  IF NextIsAborted(e) THEN RequireKeyframe(e) ELSE e

\* The baseline moves to frame f, f is delivered, and the run behind it follows.
Resume(b, f, surviving) ==
    Drain(ForgetInflightThrough(
            [b EXCEPT !.have_last = TRUE, !.awaiting = FALSE, !.loss_reported = FALSE,
                      !.last = f.seq,
                      !.held = surviving,
                      !.held_bytes = @ - Bytes(b.held \ surviving),
                      !.delivered = Append(@, [seq |-> f.seq, key |-> f.key])],
            f.seq))

\* held_bytes_ grows and the entry is added.
Hold(b, f) ==
    [b EXCEPT !.held = @ \cup {[seq |-> f.seq, size |-> f.size, age |-> 0]},
              !.held_bytes = @ + f.size]

-----------------------------------------------------------------------------
(* Public methods.                                                         *)

\* Every call starts with no callback made.
Fresh(b) == [b EXCEPT !.delivered = <<>>, !.lost = <<>>]

Reset(b) == NewBuffer(b.rtt)

SetRtt(b, rtt) == [Fresh(b) EXCEPT !.rtt = rtt]

OnFrameStarted(b0, f) ==
    LET b == Fresh(b0)
    IN  IF \/ ~f.key
           \/ Stale(b, f)
           \/ b.inflight /\ ~Newer(f.seq, b.inflight_seq)
        THEN b
        ELSE [b EXCEPT !.inflight = TRUE, !.inflight_seq = f.seq, !.inflight_age = 0]


\* Mutant: the first delta commits a baseline nobody can decode.
StartupDeltaCommits(b, f) == Resume(b, f, {})

\* A delta before the first keyframe: kept without committing a baseline.
StartupDelta(b, f) ==
    LET a == IF b.held = {} THEN [b EXCEPT !.last = f.seq] ELSE b
    IN  IF f.seq \in HeldSeqs(b.held) THEN a ELSE BoundHeld(Hold(a, f))


\* Mutant: deltas older than the first keyframe stay.
FirstKeyframeKeepsOld(b, f) == Resume([b EXCEPT !.aborted = <<>>], f, b.held)

\* The first keyframe establishes the baseline.
FirstKeyframe(b, f) ==
    Resume([b EXCEPT !.aborted = <<>>], f, {h \in b.held : Newer(h.seq, f.seq)})

\* A keyframe beyond a gap: nothing before it is needed.
GapKeyframe(b, f) ==
    Resume(b, f, {h \in b.held : Distance(h.seq, b.last) > Distance(f.seq, b.last)})


\* A delta beyond a gap is held.
GapDelta(b, f) ==
    IF f.seq \in HeldSeqs(b.held) THEN b
    ELSE LET h == Hold(IF b.held = {} THEN [b EXCEPT !.gap_age = 0] ELSE b, f)
         IN  IF Cardinality(h.held) > HeldLimit \/ h.held_bytes > MaxBytes
             THEN BoundHeld(RequireKeyframe(h))
             ELSE IF NextIsAborted(h) THEN RequireKeyframe(h) ELSE h

OnFrame(b0, f) ==
    LET b == Fresh(b0)
    IN  CASE Stale(b, f)                                       -> b
          [] ~b.have_last /\ ~f.key                            -> StartupDelta(b, f)
          [] ~b.have_last /\ f.key                             -> FirstKeyframe(b, f)
          [] b.have_last /\ f.seq = Next1(b.last)              -> Resume(b, f, b.held)
          [] OTHER -> IF f.key THEN GapKeyframe(b, f) ELSE GapDelta(b, f)

\* The stream of frame `seq' was aborted.
OnFrameAborted(b0, seq) ==
    LET b        == Fresh(b0)
        lost_key == b.inflight /\ seq = b.inflight_seq
        c        == IF lost_key THEN ForgetInflight(b) ELSE b
        d        == IF lost_key /\ c.awaiting THEN ReportLoss(c) ELSE c
        hit      == {h \in d.held : h.seq = seq}
    IN  IF ~b.have_last THEN c
        ELSE IF seq = Next1(b.last)
        THEN LET r == RequireKeyframe(c) IN IF lost_key THEN ReportLoss(r) ELSE r
        ELSE IF ~Newer(seq, b.last) THEN c
        ELSE IF hit # {}
        THEN [d EXCEPT !.held = @ \ hit, !.held_bytes = @ - Bytes(hit),
                       !.gap_age = EarliestAge(d.held \ hit)]
        ELSE IF seq \in AbortedSet(d) THEN d
        ELSE [d EXCEPT !.aborted =
                Append(IF Len(@) >= MaxAborted THEN Tail(@) ELSE @, seq)]


\* Mutant: expiry does not give the bytes back.
DropExpiredKeepsBytes(b) ==
    LET kept == {h \in b.held : h.age < HoldFor(b.rtt)}
    IN  [b EXCEPT !.held = kept, !.gap_age = EarliestAge(kept)]

\* Startup deltas older than the hold are dropped.
DropExpired(b) ==
    LET kept == {h \in b.held : h.age < HoldFor(b.rtt)}
    IN  [b EXCEPT !.held = kept, !.held_bytes = @ - Bytes(b.held \ kept),
                  !.gap_age = EarliestAge(kept)]

Poll(b0) ==
    LET b == Fresh(b0)
    IN  IF ~b.have_last THEN DropExpired(b)
        ELSE IF b.awaiting
        THEN IF ~b.loss_reported /\ ~KeyframeInFlight(b) THEN ReportLoss(b) ELSE b
        ELSE IF b.held # {} /\ b.gap_age >= HoldFor(b.rtt)
        THEN RequireKeyframe(b) ELSE b

\* The clock advances by one unit between calls.
Elapse(b0) ==
    LET b == Fresh(b0)
        older(a, cap) == AtMost(a + 1, cap)
    IN  [b EXCEPT !.held = {[h EXCEPT !.age = older(@, HoldCeiling)] : h \in b.held},
                  !.gap_age = IF b.held = {} THEN @ ELSE older(@, HoldCeiling),
                  !.inflight_age = IF b.inflight THEN older(@, TrustCeiling) ELSE @]
=============================================================================
