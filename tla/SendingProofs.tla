--------------------------- MODULE SendingProofs ---------------------------
(***************************************************************************)
(* Proofs about what stands in front of the transport.                     *)
(*                                                                         *)
(* DatagramBacklog, for any finite set of senders and any limits: the      *)
(* lock-free count is exact, MsQuic's queue is bounded, and the holdoff    *)
(* after a drop episode admits at most one datagram for each other sender. *)
(*                                                                         *)
(* ScreenShare, for any number of staging slots from three on: the slot    *)
(* the capture thread writes is its own, and no delta frame follows a      *)
(* frame that was lost.                                                    *)
(*                                                                         *)
(* VideoSendController, for any ceilings, floor, window counts and frame   *)
(* sizes: the bytes charged are the bytes in flight, and the bitrate stays *)
(* in its range.                                                           *)
(***************************************************************************)
EXTENDS DatagramBacklog, ScreenShareState, VideoSendControllerState, SequenceTheorems, SumTheorems

-----------------------------------------------------------------------------
(* How many senders are at one of some steps of their calls.               *)

AmongSteps(c, Z) == {s \in Senders : c[s].at \in Z}
Number(c, Z) == Cardinality(AmongSteps(c, Z))
One(step, Z) == IF step \in Z THEN 1 ELSE 0

CountedSteps == {"head", "send", "failed"}        \* counted, not yet MsQuic's
PassedSteps == {"empty", "wait", "clear", "queue"}  \* found room, not yet counted
AskingSteps == {"load", "empty", "wait", "clear"} \* past the holdoff check, not yet admitted

(* The count stays below the limit until a call finds it there; then each  *)
(* sender is in at most one call.                                          *)
CountBounded == queued + Number(call, PassedSteps) <= MaxQueued + Cardinality(Senders) - 1 + controls

(* During a holdoff only a call that was past the check can be admitted.   *)
AdmissionsBounded ==
  /\ intruders <= Cardinality(Senders) - 1
  /\ hold > 0 => intruders + Number(call, AskingSteps) <= Cardinality(Senders) - 1

QueuedIs ==
  queued = Len(transport) + Number(call, CountedSteps) + (IF worker = "sub" THEN 1 ELSE 0)

IInv == TypeOK /\ QueuedIs /\ CountBounded /\ AdmissionsBounded

(* Where the senders are, before and after a step of one of them.          *)
Moved(s, step) ==
  /\ call' \in [Senders -> CallRecords]
  /\ Number(call', CountedSteps) = Number(call, CountedSteps) + One(step, CountedSteps) - One(call[s].at, CountedSteps)
  /\ Number(call', PassedSteps) = Number(call, PassedSteps) + One(step, PassedSteps) - One(call[s].at, PassedSteps)
  /\ Number(call', AskingSteps) = Number(call, AskingSteps) + One(step, AskingSteps) - One(call[s].at, AskingSteps)

LEMMA NumberBounded ==
  ASSUME NEW c, NEW Z
  PROVE  Number(c, Z) \in Nat /\ Number(c, Z) <= Cardinality(Senders)
<1>1. AmongSteps(c, Z) \in SUBSET Senders
  BY DEF AmongSteps
<1> QED
  BY <1>1, SendersFinite, FS_Subset, FS_CardinalityType DEF Number

(* A sender that is elsewhere leaves room for the others only.             *)
LEMMA NumberBelow ==
  ASSUME NEW c, NEW Z, NEW s \in Senders, c[s].at \notin Z
  PROVE  Number(c, Z) <= Cardinality(Senders) - 1
<1>1. AmongSteps(c, Z) \in SUBSET (Senders \ {s})
  BY DEF AmongSteps
<1>2. IsFiniteSet(Senders \ {s}) /\ Cardinality(Senders \ {s}) = Cardinality(Senders) - 1
  BY SendersFinite, FS_RemoveElement
<1> QED
  BY <1>1, <1>2, FS_Subset DEF Number

LEMMA SendersCounted == Cardinality(Senders) \in Nat /\ Cardinality(Senders) >= 1
BY SendersFinite, FS_CardinalityType, FS_EmptySet

LEMMA NumberMoves ==
  ASSUME NEW c, NEW d, NEW Z, NEW s \in Senders, NEW step,
         d[s].at = step, \A t \in Senders \ {s} : d[t].at = c[t].at
  PROVE  Number(d, Z) = Number(c, Z) + One(step, Z) - One(c[s].at, Z)
<1> DEFINE rest == AmongSteps(c, Z) \ {s}
<1>1. IsFiniteSet(AmongSteps(c, Z)) /\ AmongSteps(c, Z) \in SUBSET Senders
  BY SendersFinite, FS_Subset DEF AmongSteps
<1>2. IsFiniteSet(rest)
      /\ Cardinality(rest) = Number(c, Z) - One(c[s].at, Z)
  <2>1. s \in AmongSteps(c, Z) <=> c[s].at \in Z
    BY DEF AmongSteps
  <2>2. Number(c, Z) \in Nat
    BY NumberBounded
  <2>3. IsFiniteSet(rest) /\ Cardinality(rest) =
          IF s \in AmongSteps(c, Z) THEN Number(c, Z) - 1 ELSE Number(c, Z)
    BY <1>1, FS_RemoveElement DEF Number
  <2> HIDE DEF rest
  <2>4. CASE c[s].at \in Z
    BY <2>1, <2>2, <2>3, <2>4 DEF One
  <2>5. CASE c[s].at \notin Z
    BY <2>1, <2>2, <2>3, <2>5 DEF One
  <2> QED
    BY <2>4, <2>5
<1>3. s \notin rest
  OBVIOUS
<1>4. AmongSteps(d, Z) = IF step \in Z THEN rest \cup {s} ELSE rest
  BY DEF AmongSteps
<1>5. Cardinality(rest) \in Nat
  BY <1>2, FS_CardinalityType
<1> HIDE DEF rest
<1>6. CASE step \in Z
  <2>1. Cardinality(rest \cup {s}) = Cardinality(rest) + 1
    BY <1>2, <1>3, FS_AddElement
  <2> QED
    BY <1>2, <1>4, <1>5, <1>6, <2>1, NumberBounded DEF Number, One
<1>7. CASE step \notin Z
  BY <1>2, <1>4, <1>5, <1>7, NumberBounded DEF Number, One
<1> QED
  BY <1>6, <1>7

LEMMA OneMoves ==
  ASSUME NEW s \in Senders, NEW step, call' \in [Senders -> CallRecords],
         call'[s].at = step, \A t \in Senders \ {s} : call'[t].at = call[t].at
  PROVE  Moved(s, step)
BY NumberMoves DEF Moved

LEMMA GoesMoves ==
  ASSUME NEW s \in Senders, NEW step \in Steps, call \in [Senders -> CallRecords], Goes(s, step)
  PROVE  Moved(s, step)
<1>1. call' \in [Senders -> CallRecords]
  BY DEF Goes, CallRecords
<1>2. call'[s].at = step /\ \A t \in Senders \ {s} : call'[t].at = call[t].at
  BY DEF Goes, CallRecords
<1> QED
  BY <1>1, <1>2, OneMoves

LEMMA SetMoves ==
  ASSUME NEW s \in Senders, NEW r \in CallRecords, NEW step, r.at = step,
         call \in [Senders -> CallRecords], call' = [call EXCEPT ![s] = r]
  PROVE  Moved(s, step)
<1>1. call' \in [Senders -> CallRecords]
  OBVIOUS
<1>2. call'[s].at = step /\ \A t \in Senders \ {s} : call'[t].at = call[t].at
  OBVIOUS
<1> QED
  BY <1>1, <1>2, OneMoves

LEMMA IdleType == Idle \in CallRecords /\ Idle.at = "idle"
BY LimitsPositive DEF Idle, CallRecords, Steps

LEMMA ReturnsMoves ==
  ASSUME NEW s \in Senders, call \in [Senders -> CallRecords], Returns(s)
  PROVE  Moved(s, "idle")
BY IdleType, SetMoves DEF Returns

LEMMA LagType ==
  ASSUME TypeOK, NEW s \in Senders
  PROVE  call[s].lag \in 0..MaxLag /\ call[s].at \in Steps
BY DEF TypeOK, CallRecords

LEMMA Quantities ==
  ASSUME TypeOK
  PROVE  /\ queued \in Nat /\ intruders \in Nat /\ controls \in Nat /\ hold \in Int
         /\ Len(transport) \in Nat
         /\ Cardinality(Senders) \in Nat /\ Cardinality(Senders) >= 1
         /\ MaxQueued \in Nat /\ MaxQueued >= 1
BY LimitsPositive, SendersCounted, LenProperties DEF TypeOK

LEMMA NumberTypes ==
  /\ Number(call, CountedSteps) \in Nat /\ Number(call', CountedSteps) \in Nat
  /\ Number(call, PassedSteps) \in Nat /\ Number(call', PassedSteps) \in Nat
  /\ Number(call, AskingSteps) \in Nat /\ Number(call', AskingSteps) \in Nat
  /\ Number(call', AskingSteps) <= Cardinality(Senders)
BY NumberBounded

(* A step that adds no sender to the ones counted by a bound keeps it.     *)
LEMMA BoundsKept ==
  ASSUME IInv, UNCHANGED <<queued, hold, intruders, controls>>,
         Number(call', PassedSteps) <= Number(call, PassedSteps),
         Number(call', AskingSteps) <= Number(call, AskingSteps)
  PROVE  CountBounded' /\ AdmissionsBounded'
<1> DEFINE p == Number(call, PassedSteps)
           pp == Number(call', PassedSteps)
           a == Number(call, AskingSteps)
           aa == Number(call', AskingSteps)
           n == Cardinality(Senders)
<1>1. /\ p \in Nat /\ pp \in Nat /\ a \in Nat /\ aa \in Nat /\ n \in Nat
      /\ pp <= p /\ aa <= a
  BY NumberTypes, SendersCounted
<1>2. queued \in Nat /\ intruders \in Nat /\ controls \in Nat /\ hold \in Int /\ MaxQueued \in Nat
  BY Quantities DEF IInv
<1>3. /\ queued + p <= MaxQueued + n - 1 + controls
      /\ intruders <= n - 1 /\ (hold > 0 => intruders + a <= n - 1)
  BY DEF IInv, CountBounded, AdmissionsBounded
<1>4. queued' = queued /\ hold' = hold /\ intruders' = intruders /\ controls' = controls
  OBVIOUS
<1> HIDE DEF p, pp, a, aa, n
<1>5. queued' + pp <= MaxQueued + n - 1 + controls'
  BY <1>1, <1>2, <1>3, <1>4
<1>6. intruders' <= n - 1 /\ (hold' > 0 => intruders' + aa <= n - 1)
  BY <1>1, <1>2, <1>3, <1>4
<1> QED
  BY <1>5, <1>6 DEF CountBounded, AdmissionsBounded, pp, aa, n

-----------------------------------------------------------------------------
LEMMA InitInv == Init => IInv
<1> SUFFICES ASSUME Init PROVE IInv
  OBVIOUS
<1>1. TypeOK
  <2>1. call \in [Senders -> CallRecords]
    BY IdleType DEF Init
  <2>2. transport \in Seq(0..MaxDelay)
    BY EmptySeq DEF Init
  <2>3. progress \in 0..AgeCap /\ hold \in -MaxLag..Holdoff
    BY LimitsPositive DEF Init, AgeCap
  <2>4. dropping \in BOOLEAN /\ connected \in BOOLEAN
    BY DEF Init
  <2>5. /\ queued \in Nat /\ wait \in 0..MaxDelay /\ unacked \in 0..MaxUnacked
        /\ controls \in 0..MaxControls /\ intruders \in Nat
    BY LimitsPositive DEF Init
  <2> QED
    BY <2>1, <2>2, <2>3, <2>4, <2>5 DEF Init, TypeOK
<1>2. ASSUME NEW Z, "idle" \notin Z PROVE Number(call, Z) = 0
  <2>1. AmongSteps(call, Z) = {}
    BY <1>2, IdleType DEF Init, AmongSteps
  <2> QED
    BY <2>1, FS_EmptySet DEF Number
<1>3. Number(call, CountedSteps) = 0 /\ Number(call, PassedSteps) = 0 /\ Number(call, AskingSteps) = 0
  BY <1>2 DEF CountedSteps, PassedSteps, AskingSteps
<1> QED
  BY <1>1, <1>3, SendersCounted, LimitsPositive
  DEF Init, IInv, QueuedIs, CountBounded, AdmissionsBounded

-----------------------------------------------------------------------------
(* A sender's steps.                                                       *)

LEMMA AskMediaInv ==
  ASSUME IInv, NEW s \in Senders, AskMedia(s)
  PROVE  IInv'
<1>1. CASE UNCHANGED call
  BY <1>1 DEF AskMedia, NetUnchanged, gate, IInv, TypeOK, QueuedIs, CountBounded, AdmissionsBounded
<1>2. CASE ~(hold > 0) /\ call' = [call EXCEPT ![s] = [Idle EXCEPT !.at = "load"]]
  <2>1. [Idle EXCEPT !.at = "load"] \in CallRecords /\ [Idle EXCEPT !.at = "load"].at = "load"
    BY IdleType DEF CallRecords, Steps
  <2>2. Moved(s, "load")
    BY <1>2, <2>1, SetMoves DEF IInv, TypeOK
  <2>3. TypeOK'
    BY <2>2 DEF AskMedia, NetUnchanged, gate, IInv, TypeOK, Moved
  <2> QED
    BY <1>2, <2>2, <2>3, NumberTypes
    DEF AskMedia, At, NetUnchanged, gate, IInv, Moved, One, QueuedIs, CountBounded,
       AdmissionsBounded,
        CountedSteps, PassedSteps, AskingSteps
<1> QED
  BY <1>1, <1>2 DEF AskMedia

LEMMA SendControlInv ==
  ASSUME IInv, NEW s \in Senders, SendControl(s)
  PROVE  IInv'
<1>0. /\ queued \in Nat /\ controls \in Nat /\ Cardinality(Senders) \in Nat /\ MaxQueued \in Nat
      /\ Number(call, PassedSteps) \in Nat /\ Number(call, CountedSteps) \in Nat
      /\ Len(transport) \in Nat
  BY Quantities, NumberTypes DEF IInv
<1> DEFINE r == [Idle EXCEPT !.at = "queue", !.media = FALSE]
<1>1. r \in CallRecords /\ r.at = "queue"
  BY IdleType DEF CallRecords, Steps
<1>2. Moved(s, "queue")
  BY <1>1, SetMoves DEF SendControl, IInv, TypeOK
<1>3. TypeOK'
  <2>1. controls' \in 0..MaxControls
    <3>1. controls \in 0..MaxControls /\ MaxControls \in Nat
      BY LimitsPositive DEF IInv, TypeOK
    <3>2. controls < MaxControls /\ controls' = controls + 1
      BY DEF SendControl
    <3> QED
      BY <3>1, <3>2
  <2>2. call' \in [Senders -> CallRecords]
    BY <1>2 DEF Moved
  <2> QED
    BY <2>1, <2>2 DEF SendControl, gate, IInv, TypeOK
<1>4. /\ Number(call', CountedSteps) = Number(call, CountedSteps)
      /\ Number(call', PassedSteps) = Number(call, PassedSteps) + 1
      /\ Number(call', AskingSteps) = Number(call, AskingSteps)
  BY <1>2, NumberTypes DEF SendControl, At, Moved, One, CountedSteps, PassedSteps, AskingSteps
<1>5. controls' = controls + 1 /\ UNCHANGED <<queued, hold, intruders, transport, worker>>
  BY DEF SendControl, gate
<1>6. CountBounded'
  BY <1>0, <1>4, <1>5 DEF IInv, CountBounded
<1> QED
  BY <1>3, <1>4, <1>5, <1>6 DEF IInv, QueuedIs, AdmissionsBounded

LEMMA LoadQueuedInv ==
  ASSUME IInv, NEW s \in Senders, LoadQueued(s)
  PROVE  IInv'
<1>0. /\ queued \in Nat /\ controls \in Nat /\ Cardinality(Senders) \in Nat /\ MaxQueued \in Nat
      /\ Number(call, PassedSteps) \in Nat /\ Number(call, CountedSteps) \in Nat
      /\ Len(transport) \in Nat
  BY Quantities, NumberTypes DEF IInv
<1>1. PICK step \in {"empty", "wait", "mark"} :
        Goes(s, step) /\ (step # "mark" => queued < MaxQueued)
  BY Quantities DEF LoadQueued, IInv
<1>2. Moved(s, step)
  BY <1>1, GoesMoves DEF IInv, TypeOK, Steps
<1>3. TypeOK'
  BY <1>2 DEF LoadQueued, NetUnchanged, gate, IInv, TypeOK, Moved
<1>4. UNCHANGED <<queued, hold, intruders, transport, worker, controls>>
  BY DEF LoadQueued, NetUnchanged, gate
<1>5. Number(call', CountedSteps) = Number(call, CountedSteps)
  BY <1>2, NumberTypes DEF LoadQueued, At, Moved, One, CountedSteps
<1>6. Number(call', AskingSteps) <= Number(call, AskingSteps)
  BY <1>2, NumberTypes DEF LoadQueued, At, Moved, One, AskingSteps
<1>7. CountBounded'
  <2>1. Number(call, PassedSteps) <= Cardinality(Senders) - 1
    BY NumberBelow DEF LoadQueued, At, PassedSteps
  <2>2. CASE step = "mark"
    <3>1. Number(call', PassedSteps) = Number(call, PassedSteps)
      BY <1>2, <2>2, NumberTypes DEF LoadQueued, At, Moved, One, PassedSteps
    <3> QED
      BY <1>4, <3>1 DEF IInv, CountBounded
  <2>3. CASE step # "mark"
    <3>1. Number(call', PassedSteps) = Number(call, PassedSteps) + 1
      BY <1>2, <2>3, NumberTypes DEF LoadQueued, At, Moved, One, PassedSteps
    <3> QED
      BY <1>0, <1>1, <1>4, <2>1, <2>3, <3>1 DEF CountBounded
  <2> QED
    BY <2>2, <2>3
<1>8. AdmissionsBounded'
  <2>1. intruders \in Nat /\ Cardinality(Senders) \in Nat
    BY Quantities DEF IInv
  <2>2. Number(call, AskingSteps) \in Nat /\ Number(call', AskingSteps) \in Nat
    BY NumberTypes
  <2> QED
    BY <1>4, <1>6, <2>1, <2>2 DEF IInv, AdmissionsBounded
<1> QED
  BY <1>3, <1>4, <1>5, <1>7, <1>8 DEF IInv, QueuedIs

(* An admitted call that was past the check is counted, and is past no     *)
(* longer.                                                                 *)
LEMMA AdmittedBounded ==
  ASSUME IInv, NEW s \in Senders, call[s].at \in {"empty", "clear"}, Admitted(s),
         UNCHANGED <<queued, progress, wait, hold>>, NetUnchanged, dropping' \in BOOLEAN
  PROVE  IInv'
<1>1. Moved(s, "queue")
  BY GoesMoves DEF Admitted, IInv, TypeOK, Steps
<1>2. TypeOK'
  BY <1>1 DEF Admitted, NetUnchanged, IInv, TypeOK, Moved
<1>3. /\ Number(call', CountedSteps) = Number(call, CountedSteps)
      /\ Number(call', PassedSteps) = Number(call, PassedSteps)
      /\ Number(call', AskingSteps) = Number(call, AskingSteps) - 1
  BY <1>1, NumberTypes DEF Moved, One, CountedSteps, PassedSteps, AskingSteps
<1>4. AdmissionsBounded'
  <2>1. CASE hold > 0
    <3>1. intruders \in Nat /\ Cardinality(Senders) \in Nat
      BY Quantities DEF IInv
    <3>2. Number(call, AskingSteps) \in Nat /\ Number(call', AskingSteps) \in Nat
      BY NumberTypes
    <3>3. intruders' = intruders + 1
      BY <2>1 DEF Admitted
    <3> QED
      BY <1>3, <2>1, <3>1, <3>2, <3>3 DEF IInv, AdmissionsBounded
  <2>2. CASE ~(hold > 0)
    BY <2>2 DEF Admitted, IInv, AdmissionsBounded
  <2> QED
    BY <2>1, <2>2
<1> QED
  BY <1>2, <1>3, <1>4 DEF NetUnchanged, IInv, QueuedIs, CountBounded

LEMMA ExchangeDroppingInv ==
  ASSUME IInv, NEW s \in Senders, ExchangeDropping(s)
  PROVE  IInv'
<1>1. CASE Goes(s, "hold") /\ UNCHANGED intruders
  <2>1. Moved(s, "hold")
    BY <1>1, GoesMoves DEF IInv, TypeOK, Steps
  <2>2. TypeOK'
    BY <1>1, <2>1 DEF ExchangeDropping, NetUnchanged, IInv, TypeOK, Moved
  <2>3. /\ Number(call', CountedSteps) = Number(call, CountedSteps)
        /\ Number(call', PassedSteps) <= Number(call, PassedSteps)
        /\ Number(call', AskingSteps) <= Number(call, AskingSteps)
    BY <2>1, NumberTypes DEF ExchangeDropping, At, Moved, One, CountedSteps, PassedSteps,
       AskingSteps
  <2>4. UNCHANGED <<queued, hold, intruders, transport, worker, controls>>
    BY <1>1 DEF ExchangeDropping, NetUnchanged
  <2>5. CountBounded' /\ AdmissionsBounded'
    BY <2>3, <2>4, BoundsKept
  <2> QED
    BY <2>2, <2>3, <2>4, <2>5 DEF IInv, QueuedIs
<1>2. CASE Admitted(s)
  BY <1>2, AdmittedBounded DEF ExchangeDropping, At
<1> QED
  BY <1>1, <1>2 DEF ExchangeDropping

LEMMA StoreHoldoffInv ==
  ASSUME IInv, NEW s \in Senders, StoreHoldoff(s)
  PROVE  IInv'
<1>1. Moved(s, "idle")
  BY ReturnsMoves DEF StoreHoldoff, IInv, TypeOK
<1>2. hold' \in -MaxLag..Holdoff
  BY LimitsPositive, LagType DEF StoreHoldoff, IInv
<1>3. TypeOK'
  BY <1>1, <1>2 DEF StoreHoldoff, NetUnchanged, IInv, TypeOK, Moved
<1>4. AdmissionsBounded'
  <2>1. call'[s].at \notin AskingSteps
    BY IdleType DEF StoreHoldoff, Returns, IInv, TypeOK, AskingSteps
  <2>2. Number(call', AskingSteps) <= Cardinality(Senders) - 1
    BY <2>1, NumberBelow
  <2> QED
    BY <2>2, NumberTypes, SendersCounted DEF StoreHoldoff, AdmissionsBounded
<1> QED
  BY <1>1, <1>3, <1>4, NumberTypes
  DEF StoreHoldoff, At, NetUnchanged, IInv, Moved, One, QueuedIs, CountBounded, CountedSteps,
     PassedSteps

LEMMA HeadWaitInv ==
  ASSUME IInv, NEW s \in Senders, HeadWait(s)
  PROVE  IInv'
<1>1. PICK step \in {"mark", "clear"} : Goes(s, step)
  BY DEF HeadWait
<1>2. Moved(s, step)
  BY <1>1, GoesMoves DEF IInv, TypeOK, Steps
<1>3. TypeOK'
  BY <1>2 DEF HeadWait, NetUnchanged, gate, IInv, TypeOK, Moved
<1>4. /\ Number(call', CountedSteps) = Number(call, CountedSteps)
      /\ Number(call', PassedSteps) <= Number(call, PassedSteps)
      /\ Number(call', AskingSteps) <= Number(call, AskingSteps)
  BY <1>2, NumberTypes DEF HeadWait, At, Moved, One, CountedSteps, PassedSteps, AskingSteps
<1>5. UNCHANGED <<queued, hold, intruders, transport, worker, controls>>
  BY DEF HeadWait, NetUnchanged, gate
<1>6. CountBounded' /\ AdmissionsBounded'
  BY <1>4, <1>5, BoundsKept
<1> QED
  BY <1>3, <1>4, <1>5, <1>6 DEF IInv, QueuedIs

LEMMA ClearDroppingInv ==
  ASSUME IInv, NEW s \in Senders, ClearDropping(s)
  PROVE  IInv'
BY AdmittedBounded DEF ClearDropping, At

LEMMA MarkDroppingInv ==
  ASSUME IInv, NEW s \in Senders, MarkDropping(s)
  PROVE  IInv'
<1>1. Moved(s, "idle")
  BY ReturnsMoves DEF MarkDropping, IInv, TypeOK
<1>2. TypeOK'
  BY <1>1 DEF MarkDropping, NetUnchanged, IInv, TypeOK, Moved
<1> QED
  BY <1>1, <1>2, NumberTypes
  DEF MarkDropping, At, NetUnchanged, IInv, Moved, One, QueuedIs, CountBounded, AdmissionsBounded,
      CountedSteps, PassedSteps, AskingSteps

LEMMA OnQueuedInv ==
  ASSUME IInv, NEW s \in Senders, OnQueued(s)
  PROVE  IInv'
<1>0. /\ queued \in Nat /\ controls \in Nat /\ Cardinality(Senders) \in Nat /\ MaxQueued \in Nat
      /\ Number(call, PassedSteps) \in Nat /\ Number(call, CountedSteps) \in Nat
      /\ Len(transport) \in Nat
  BY Quantities, NumberTypes DEF IInv
<1>1. PICK step \in {"head", "send"} : Goes(s, step)
  BY DEF OnQueued
<1>2. Moved(s, step)
  BY <1>1, GoesMoves DEF IInv, TypeOK, Steps
<1>3. TypeOK'
  BY <1>2 DEF OnQueued, NetUnchanged, IInv, TypeOK, Moved
<1>4. /\ Number(call', CountedSteps) = Number(call, CountedSteps) + 1
      /\ Number(call', PassedSteps) = Number(call, PassedSteps) - 1
      /\ Number(call', AskingSteps) = Number(call, AskingSteps)
  BY <1>2, NumberTypes DEF OnQueued, At, Moved, One, CountedSteps, PassedSteps, AskingSteps
<1>5. queued' = queued + 1 /\ UNCHANGED <<hold, intruders, transport, worker, controls>>
  BY DEF OnQueued, NetUnchanged
<1>6. QueuedIs'
  BY <1>0, <1>4, <1>5 DEF IInv, QueuedIs
<1>7. CountBounded'
  BY <1>0, <1>4, <1>5 DEF IInv, CountBounded
<1> QED
  BY <1>3, <1>4, <1>5, <1>6, <1>7 DEF IInv, AdmissionsBounded

LEMMA BecomesHeadInv ==
  ASSUME IInv, NEW s \in Senders, BecomesHead(s)
  PROVE  IInv'
<1>1. Moved(s, "send")
  BY GoesMoves DEF BecomesHead, IInv, TypeOK, Steps
<1>2. progress' \in 0..AgeCap /\ wait' \in 0..MaxDelay
  BY LagType, LimitsPositive DEF BecomesHead, IInv, AgeCap
<1>3. TypeOK'
  BY <1>1, <1>2 DEF BecomesHead, NetUnchanged, IInv, TypeOK, Moved
<1> QED
  BY <1>1, <1>3, NumberTypes
  DEF BecomesHead, At, NetUnchanged, IInv, Moved, One, QueuedIs, CountBounded, AdmissionsBounded,
      CountedSteps, PassedSteps, AskingSteps

LEMMA DatagramSendInv ==
  ASSUME IInv, NEW s \in Senders, DatagramSend(s)
  PROVE  IInv'
<1>1. Moved(s, "idle")
  BY ReturnsMoves DEF DatagramSend, IInv, TypeOK
<1>2. UpTo(MaxDelay, call[s].lag) \in 0..MaxDelay
  BY LagType, LimitsPositive DEF UpTo, IInv
<1>3. transport' \in Seq(0..MaxDelay) /\ Len(transport') = Len(transport) + 1
  BY <1>2, AppendProperties DEF DatagramSend, IInv, TypeOK
<1>4. TypeOK'
  BY <1>1, <1>3 DEF DatagramSend, gate, IInv, TypeOK, Moved
<1>5. QueuedIs'
  <2>1. Len(transport) \in Nat
    BY Quantities DEF IInv
  <2>2. Number(call', CountedSteps) = Number(call, CountedSteps) - 1
    BY <1>1, NumberTypes DEF DatagramSend, At, Moved, One, CountedSteps
  <2> QED
    BY <1>3, <2>1, <2>2, NumberTypes DEF DatagramSend, gate, IInv, QueuedIs
<1> QED
  BY <1>1, <1>4, <1>5, NumberTypes
  DEF DatagramSend, At, gate, IInv, Moved, One, CountBounded, AdmissionsBounded, PassedSteps,
     AskingSteps

LEMMA DatagramSendFailsInv ==
  ASSUME IInv, NEW s \in Senders, DatagramSendFails(s)
  PROVE  IInv'
<1>1. Moved(s, "failed")
  BY GoesMoves DEF DatagramSendFails, IInv, TypeOK, Steps
<1>2. TypeOK'
  BY <1>1 DEF DatagramSendFails, NetUnchanged, gate, IInv, TypeOK, Moved
<1> QED
  BY <1>1, <1>2, NumberTypes
  DEF DatagramSendFails, At, NetUnchanged, gate, IInv, Moved, One, QueuedIs, CountBounded,
      AdmissionsBounded, CountedSteps, PassedSteps, AskingSteps

LEMMA OnSendFailedInv ==
  ASSUME IInv, NEW s \in Senders, OnSendFailed(s)
  PROVE  IInv'
<1>0. /\ queued \in Nat /\ controls \in Nat /\ Cardinality(Senders) \in Nat /\ MaxQueued \in Nat
      /\ Number(call, PassedSteps) \in Nat /\ Number(call, CountedSteps) \in Nat
      /\ Len(transport) \in Nat
  BY Quantities, NumberTypes DEF IInv
<1>1. PICK step \in {"zero", "idle"} : Moved(s, step)
  BY GoesMoves, ReturnsMoves DEF OnSendFailed, IInv, TypeOK, Steps
<1>2. /\ Number(call', CountedSteps) = Number(call, CountedSteps) - 1
      /\ Number(call', PassedSteps) = Number(call, PassedSteps)
      /\ Number(call', AskingSteps) = Number(call, AskingSteps)
  BY <1>1, NumberTypes DEF OnSendFailed, At, Moved, One, CountedSteps, PassedSteps, AskingSteps
<1>3. queued' = queued - 1 /\ UNCHANGED <<hold, intruders, transport, worker, controls>>
  BY DEF OnSendFailed, NetUnchanged
<1>4. queued >= 1 /\ queued' \in Nat
  BY <1>0, <1>2, <1>3, NumberTypes DEF IInv, QueuedIs
<1>5. QueuedIs'
  BY <1>0, <1>2, <1>3 DEF IInv, QueuedIs
<1>6. CountBounded'
  BY <1>0, <1>2, <1>3 DEF IInv, CountBounded
<1>7. TypeOK'
  BY <1>1, <1>4 DEF OnSendFailed, NetUnchanged, IInv, TypeOK, Moved
<1> QED
  BY <1>2, <1>3, <1>5, <1>6, <1>7 DEF IInv, AdmissionsBounded

LEMMA FailedDrainsInv ==
  ASSUME IInv, NEW s \in Senders, FailedDrains(s)
  PROVE  IInv'
<1>1. Moved(s, "idle")
  BY ReturnsMoves DEF FailedDrains, IInv, TypeOK
<1>2. TypeOK'
  BY <1>1, LimitsPositive DEF FailedDrains, NetUnchanged, IInv, TypeOK, Moved
<1> QED
  BY <1>1, <1>2, NumberTypes
  DEF FailedDrains, At, NetUnchanged, IInv, Moved, One, QueuedIs, CountBounded,
      AdmissionsBounded, CountedSteps, PassedSteps, AskingSteps

LEMMA SenderInv ==
  ASSUME IInv, NEW s \in Senders, Sender(s) \/ SendControl(s)
  PROVE  IInv'
BY AskMediaInv, SendControlInv, LoadQueuedInv, ExchangeDroppingInv, StoreHoldoffInv, HeadWaitInv,
   ClearDroppingInv, MarkDroppingInv, OnQueuedInv, BecomesHeadInv, DatagramSendInv,
   DatagramSendFailsInv, OnSendFailedInv, FailedDrainsInv
DEF Sender, Admit, Enqueue

-----------------------------------------------------------------------------
(* The MsQuic worker's steps.                                              *)

(* Only the queue, the count and the worker matter to the worker's steps.  *)
LEMMA WorkerCounts ==
  ASSUME IInv, TypeOK', QueuedIs', UNCHANGED <<call, hold, controls, intruders>>, queued' <= queued
  PROVE  IInv'
<1>1. /\ queued \in Nat /\ queued' \in Nat /\ controls \in Nat /\ MaxQueued \in Nat
      /\ Cardinality(Senders) \in Nat /\ Number(call, PassedSteps) \in Nat
  BY Quantities, NumberTypes DEF IInv, TypeOK
<1>2. CountBounded'
  BY <1>1 DEF IInv, CountBounded
<1> QED
  BY <1>2 DEF IInv, AdmissionsBounded

LEMMA WithoutOne ==
  ASSUME TypeOK, NEW i \in Nat \ {0}, i <= Len(transport)
  PROVE  Without(i) \in Seq(0..MaxDelay) /\ Len(Without(i)) = Len(transport) - 1
<1> DEFINE before == SubSeq(transport, 1, i - 1)
           after == SubSeq(transport, i + 1, Len(transport))
<1>1. transport \in Seq(0..MaxDelay) /\ Len(transport) \in Nat
  BY LenProperties DEF TypeOK
<1>2. \A j \in 1..Len(transport) : transport[j] \in 0..MaxDelay
  BY <1>1, ElementOfSeq
<1>3. before \in Seq(0..MaxDelay) /\ Len(before) = i - 1
  <2>1. \A j \in 1..i - 1 : transport[j] \in 0..MaxDelay
    BY <1>1, <1>2
  <2>2. before \in Seq(0..MaxDelay) /\ Len(before) = IF 1 <= i - 1 THEN i - 1 - 1 + 1 ELSE 0
    BY <2>1, SubSeqProperties
  <2> QED
    BY <2>2
<1>4. after \in Seq(0..MaxDelay) /\ Len(after) = Len(transport) - i
  <2>1. \A j \in i + 1..Len(transport) : transport[j] \in 0..MaxDelay
    BY <1>1, <1>2
  <2>2. /\ after \in Seq(0..MaxDelay)
        /\ Len(after) = IF i + 1 <= Len(transport) THEN Len(transport) - (i + 1) + 1 ELSE 0
    BY <1>1, <2>1, SubSeqProperties
  <2> QED
    BY <1>1, <2>2
<1> HIDE DEF before, after
<1>5. before \o after \in Seq(0..MaxDelay) /\ Len(before \o after) = Len(before) + Len(after)
  BY <1>3, <1>4, ConcatProperties
<1>6. Without(i) = before \o after
  BY DEF Without, before, after
<1>7. Len(before) + Len(after) = Len(transport) - 1
  BY <1>1, <1>3, <1>4
<1> QED
  BY <1>5, <1>6, <1>7

LEMMA SentInv ==
  ASSUME IInv, NEW i \in Nat \ {0}, Sent(i)
  PROVE  IInv'
<1>1. transport' \in Seq(0..MaxDelay) /\ Len(transport') = Len(transport) - 1
  BY WithoutOne DEF Sent, IInv
<1>2. transport[i] \in 0..MaxDelay
  <2>1. transport \in Seq(0..MaxDelay) /\ Len(transport) \in Nat
    BY LenProperties DEF IInv, TypeOK
  <2>2. i \in 1..Len(transport)
    BY <2>1 DEF Sent
  <2> QED
    BY <2>1, <2>2, ElementOfSeq
<1>3. progress' \in 0..AgeCap /\ unacked' \in 0..MaxUnacked
  BY LimitsPositive DEF Sent, AgeCap, IInv, TypeOK
<1>4. TypeOK'
  BY <1>1, <1>2, <1>3 DEF Sent, CallsUnchanged, IInv, TypeOK
<1>5. QueuedIs'
  BY <1>1, NumberTypes, Quantities DEF Sent, CallsUnchanged, IInv, QueuedIs
<1> QED
  BY <1>4, <1>5, WorkerCounts, Quantities DEF Sent, CallsUnchanged, IInv

LEMMA CanceledInv ==
  ASSUME IInv, Canceled
  PROVE  IInv'
<1>1. transport' \in Seq(0..MaxDelay) /\ Len(transport') = Len(transport) - 1
  BY HeadTailProperties DEF Canceled, IInv, TypeOK
<1>2. progress' \in 0..AgeCap
  BY LimitsPositive DEF Canceled, AgeCap
<1>3. TypeOK'
  BY <1>1, <1>2 DEF Canceled, CallsUnchanged, IInv, TypeOK
<1>4. QueuedIs'
  BY <1>1, NumberTypes, Quantities DEF Canceled, CallsUnchanged, IInv, QueuedIs
<1> QED
  BY <1>3, <1>4, WorkerCounts, Quantities DEF Canceled, CallsUnchanged, IInv

LEMMA FinalStateInv ==
  ASSUME IInv, FinalState
  PROVE  IInv'
<1>1. unacked' \in 0..MaxUnacked
  BY LimitsPositive DEF FinalState, IInv, TypeOK
<1>2. TypeOK'
  BY <1>1 DEF FinalState, gate, CallsUnchanged, IInv, TypeOK
<1>3. QueuedIs'
  BY DEF FinalState, gate, CallsUnchanged, IInv, QueuedIs
<1> QED
  BY <1>2, <1>3, WorkerCounts, Quantities DEF FinalState, gate, CallsUnchanged, IInv

LEMMA LeaveInv ==
  ASSUME IInv, Leave
  PROVE  IInv'
<1>1. /\ queued \in Nat /\ Len(transport) \in Nat /\ Number(call, CountedSteps) \in Nat
  BY Quantities, NumberTypes DEF IInv
<1>2. queued' = queued - 1 /\ queued' \in Nat /\ QueuedIs'
  BY <1>1 DEF Leave, CallsUnchanged, IInv, QueuedIs
<1>3. TypeOK'
  BY <1>2 DEF Leave, CallsUnchanged, IInv, TypeOK
<1> QED
  BY <1>1, <1>2, <1>3, WorkerCounts DEF Leave, CallsUnchanged

LEMMA LeaveDrainsInv ==
  ASSUME IInv, LeaveDrains
  PROVE  IInv'
<1>1. TypeOK'
  BY LimitsPositive DEF LeaveDrains, CallsUnchanged, IInv, TypeOK
<1>2. QueuedIs'
  BY DEF LeaveDrains, CallsUnchanged, IInv, QueuedIs
<1> QED
  BY <1>1, <1>2, WorkerCounts, Quantities DEF LeaveDrains, CallsUnchanged, IInv

-----------------------------------------------------------------------------
(* The connection and the clock.                                           *)

LEMMA ShutdownInv ==
  ASSUME IInv, Shutdown
  PROVE  IInv'
BY DEF Shutdown, gate, IInv, TypeOK, QueuedIs, CountBounded, AdmissionsBounded

LEMMA ReconnectInv ==
  ASSUME IInv, Reconnect
  PROVE  IInv'
<1>1. ASSUME NEW Z, "idle" \notin Z PROVE Number(call, Z) = 0
  <2>1. AmongSteps(call, Z) = {}
    BY <1>1 DEF Reconnect, At, AmongSteps
  <2> QED
    BY <2>1, FS_EmptySet DEF Number
<1>2. Number(call, CountedSteps) = 0 /\ Number(call, PassedSteps) = 0 /\ Number(call, AskingSteps) = 0
  BY <1>1 DEF CountedSteps, PassedSteps, AskingSteps
<1>3. /\ queued' = 0 /\ intruders' = 0 /\ transport' = <<>> /\ worker' = "idle"
      /\ UNCHANGED <<call, controls>>
  BY DEF Reconnect
<1>4. progress' \in 0..AgeCap /\ hold' \in -MaxLag..Holdoff /\ wait' \in 0..MaxDelay
  BY LimitsPositive DEF Reconnect, AgeCap
<1>5. TypeOK'
  BY <1>4 DEF Reconnect, IInv, TypeOK
<1>6. controls \in Nat /\ MaxQueued \in Nat /\ MaxQueued >= 1
      /\ Cardinality(Senders) \in Nat /\ Cardinality(Senders) >= 1
  BY Quantities DEF IInv
<1>7. QueuedIs' /\ CountBounded' /\ AdmissionsBounded'
  BY <1>2, <1>3, <1>6, EmptySeq DEF QueuedIs, CountBounded, AdmissionsBounded
<1> QED
  BY <1>5, <1>7 DEF IInv

LEMMA TickInv ==
  ASSUME IInv, Tick
  PROVE  IInv'
<1>1. call' \in [Senders -> CallRecords] /\ \A s \in Senders : call'[s].at = call[s].at
  <2>1. ASSUME NEW s \in Senders
        PROVE  /\ (IF At(s, "idle") THEN call[s] ELSE [call[s] EXCEPT !.lag = @ + 1]) \in CallRecords
               /\ (IF At(s, "idle") THEN call[s] ELSE [call[s] EXCEPT !.lag = @ + 1]).at = call[s].at
    <3>1. call[s] \in CallRecords
      BY DEF IInv, TypeOK
    <3>2. CASE At(s, "idle")
      BY <3>1, <3>2
    <3>3. CASE ~At(s, "idle")
      <4>1. call[s].lag + 1 \in 0..MaxLag
        BY <3>1, <3>3, LimitsPositive DEF Tick, CallRecords
      <4> QED
        BY <3>1, <3>3, <4>1 DEF CallRecords
    <3> QED
      BY <3>2, <3>3
  <2> QED
    BY <2>1 DEF Tick
<1>2. \A Z : AmongSteps(call', Z) = AmongSteps(call, Z)
  BY <1>1 DEF AmongSteps
<1>3. transport' \in Seq(0..MaxDelay) /\ Len(transport') = Len(transport)
  <2>1. transport \in Seq(0..MaxDelay) /\ Len(transport) \in Nat /\ DOMAIN transport = 1..Len(transport)
    BY LenProperties DEF IInv, TypeOK
  <2>2. \A i \in 1..Len(transport) : UpTo(MaxDelay, transport[i] + 1) \in 0..MaxDelay
    BY <2>1, ElementOfSeq, LimitsPositive DEF UpTo
  <2>3. transport' = [i \in 1..Len(transport) |-> UpTo(MaxDelay, transport[i] + 1)]
    BY <2>1 DEF Tick
  <2>4. transport' \in Seq(0..MaxDelay)
    BY <2>1, <2>2, <2>3, IsASeq
  <2> QED
    BY <2>1, <2>3, <2>4, LenProperties
<1>4. progress' \in 0..AgeCap
  <2>1. AgeCap \in Nat /\ progress \in 0..AgeCap
    BY LimitsPositive DEF AgeCap, IInv, TypeOK
  <2> QED
    BY <2>1 DEF Tick, UpTo
<1>5. hold' \in -MaxLag..Holdoff /\ (hold' > 0 => hold > 0)
  <2>1. hold' = IF hold > -MaxLag THEN hold - 1 ELSE hold
    BY DEF Tick
  <2>2. hold \in -MaxLag..Holdoff /\ MaxLag \in Nat /\ Holdoff \in Nat
    BY LimitsPositive DEF IInv, TypeOK
  <2> QED
    BY <2>1, <2>2
<1>6. TypeOK'
  BY <1>1, <1>3, <1>4, <1>5 DEF Tick, IInv, TypeOK
<1>7. QueuedIs' /\ CountBounded'
  BY <1>2, <1>3 DEF Tick, IInv, QueuedIs, CountBounded, Number
<1>8. AdmissionsBounded'
  BY <1>2, <1>5 DEF Tick, IInv, AdmissionsBounded, Number
<1> QED
  BY <1>6, <1>7, <1>8 DEF IInv

-----------------------------------------------------------------------------
(* What is proved of the gate in every reachable state.                    *)
LEMMA StepInv == IInv /\ [Next]_vars => IInv'
<1> SUFFICES ASSUME IInv, [Next]_vars PROVE IInv'
  OBVIOUS
<1>1. CASE \E s \in Senders : Sender(s) \/ SendControl(s)
  BY <1>1, SenderInv
<1>2. CASE Dequeue
  <2>1. Indexes \subseteq Nat \ {0}
    BY DEF Indexes
  <2> QED
    BY <1>2, <2>1, SentInv, CanceledInv, FinalStateInv, LeaveInv, LeaveDrainsInv DEF Dequeue
<1>3. CASE Shutdown \/ Reconnect \/ Tick
  BY <1>3, ShutdownInv, ReconnectInv, TickInv
<1>4. CASE UNCHANGED vars
  BY <1>4 DEF vars, gate, IInv, TypeOK, QueuedIs, CountBounded, AdmissionsBounded
<1> QED
  BY <1>1, <1>2, <1>3, <1>4 DEF Next

(* The invariant holds in every reachable state of the datagram gate.      *)
THEOREM Inductive == Spec => []IInv
BY InitInv, StepInv, PTL DEF Spec

(* queued_ is exact and MsQuic's queue bounded, whatever the interleaving  *)
(* of admit(), on_queued, DatagramSend, on_send_failed, on_dequeued and    *)
(* reset(): each datagram is counted once and uncounted once, and the      *)
(* limit is passed by at most the senders admitted together.               *)
THEOREM CountIsExact == Spec => []DatagramAccounting
<1>1. IInv => DatagramAccounting
  <2> SUFFICES ASSUME IInv PROVE DatagramAccounting
    OBVIOUS
  <2>1. TypeOK
    BY DEF IInv
  <2>2. {s \in Senders : Counted(s)} = AmongSteps(call, CountedSteps)
    BY DEF Counted, AmongSteps, CountedSteps
  <2>3. QueuedExact
    BY <2>2 DEF IInv, QueuedIs, QueuedExact, Number
  <2>4. Len(transport) <= queued
    <3>1. Len(transport) \in Nat /\ Number(call, CountedSteps) \in Nat
      BY <2>1, NumberTypes, Quantities
    <3> QED
      BY <3>1 DEF IInv, QueuedIs
  <2>5. QueueBounded
    <3>1. /\ queued \in Nat /\ controls \in Nat /\ MaxQueued \in Nat /\ Cardinality(Senders) \in Nat
          /\ Len(transport) \in Nat /\ Number(call, PassedSteps) \in Nat
      BY <2>1, Quantities, NumberTypes
    <3> QED
      BY <2>4, <3>1 DEF IInv, CountBounded, QueueBounded
  <2> QED
    BY <2>1, <2>3, <2>5 DEF DatagramAccounting
<1> QED
  BY <1>1, Inductive, PTL

(* After a drop episode the holdoff gives the path to stream data: admit() *)
(* lets in at most the calls that were past its check when it began.       *)
THEOREM HoldoffIsKept == Spec => []HoldoffHolds
<1>1. IInv => HoldoffHolds
  BY DEF IInv, AdmissionsBounded, HoldoffHolds
<1> QED
  BY <1>1, Inductive, PTL

-----------------------------------------------------------------------------
(* Screen share: the staging slots of windows/app.cpp.                     *)
Screen == INSTANCE ScreenShare

(* The inductive invariant.                                                *)

(* The write slot is none of the slots others may read: the queued one,    *)
(* the one being encoded and the newest one, which a keyframe request may  *)
(* queue again at any moment.  A copy goes on in the write slot.           *)
WriteIsFree ==
    /\ slots.write \notin {slots.ready, slots.active, slots.last}
    /\ capture.pc = "copy" => capture.ws = slots.write

(* Frames are captured only between the start and the end of a share.      *)
CaptureIsDelivered ==
    /\ main.pc \in {"stopping", "notify", "join"} => capture.pc = "off"
    /\ main.pc = "idle" /\ ~main.sharing => capture.pc = "off"
    /\ main.pc = "starting" => capture.pc = "idle"
    /\ main.sharing => main.pc = "idle"

(* A loss whose keyframe is still owed: no failing encode took it along.   *)
KeyframeIsOwed == main.sharing /\ viewers.broken /\ ~viewers.spent

(* As long as it is owed, the next output of the running share is a        *)
(* keyframe: it is asked of the controller, forced on the encoder, or the  *)
(* encoder is new; a frame being encoded is past the controller, so it is  *)
(* the last two.                                                           *)
LossIsRepaired ==
    /\ KeyframeIsOwed => request.sender \/ encoder.force \/ encoder.fresh
    /\ KeyframeIsOwed /\ encoder.pc = "encode" => encoder.force \/ encoder.fresh
    /\ main.pc = "starting" => ~viewers.broken

ScreenInv == Screen!ScreenTypeOK /\ WriteIsFree /\ CaptureIsDelivered /\ LossIsRepaired /\ Screen!NoDeltaAfterLoss

(* Three slots are enough for one that is neither queued nor encoded, and  *)
(* the search finds the first such.                                        *)
LEMMA FreeSlot ==
    ASSUME NEW ready \in Screen!Slots \cup {Screen!NoSlot}, NEW active \in Screen!Slots \cup {Screen!NoSlot}, NEW write \in Screen!Slots
    PROVE  /\ Screen!FreeWriteSlot(ready, active, write) \in Screen!Slots
           /\ Screen!FreeWriteSlot(ready, active, write) \notin {ready, active}
<1> DEFINE free == Screen!Slots \ {ready, active}
           Least(i) == i \in free /\ \A j \in free : i <= j
<1>1. \E i \in free : \A j \in free : i <= j
    <2>1. 0 \in Screen!Slots /\ 1 \in Screen!Slots /\ 2 \in Screen!Slots /\ \A j \in Screen!Slots : j \in Nat
        BY EncodeSlotsAssumption DEF Screen!Slots
    <2>2. CASE 0 \in free
        BY <2>1, <2>2
    <2>3. CASE 0 \notin free /\ 1 \in free
        BY <2>1, <2>3
    <2>4. CASE 0 \notin free /\ 1 \notin free
        BY <2>1, <2>4
    <2> QED
        BY <2>2, <2>3, <2>4
<1>2. free # {}
    BY <1>1
<1>3. Screen!FreeWriteSlot(ready, active, write) = CHOOSE i \in free : \A j \in free : i <= j
    BY <1>2 DEF Screen!FreeWriteSlot
<1>4. Screen!FreeWriteSlot(ready, active, write) \in free
    BY <1>1, <1>3
<1> QED
    BY <1>4

LEMMA NoSlotType == Screen!NoSlot \notin Screen!Slots /\ 0 \in Screen!Slots
BY EncodeSlotsAssumption DEF Screen!Slots, Screen!NoSlot

LEMMA ScreenInitInv == Screen!Init => ScreenInv
BY NoSlotType DEF Screen!Init, ScreenInv, Screen!ScreenTypeOK, WriteIsFree, CaptureIsDelivered,
   LossIsRepaired, KeyframeIsOwed,
                  Screen!NoDeltaAfterLoss, Screen!NoSlots, Screen!MainRecords,
                  Screen!CaptureRecords, Screen!SlotRecords,
                  Screen!EncoderRecords, Screen!RequestRecords, Screen!ViewerRecords

LEMMA ScreenStepInv == ScreenInv /\ [Screen!Next]_(Screen!vars) => ScreenInv'
<1> SUFFICES ASSUME ScreenInv, [Screen!Next]_(Screen!vars) PROVE ScreenInv'
    OBVIOUS
<1> USE NoSlotType DEF ScreenInv
<1>1. CASE Screen!StartShare
    <2>1. main' \in Screen!MainRecords
        BY <1>1 DEF Screen!StartShare, Screen!NoSlots, Screen!ScreenTypeOK, Screen!MainRecords,
           Screen!CaptureRecords, Screen!SlotRecords, Screen!EncoderRecords,
           Screen!RequestRecords, Screen!ViewerRecords
    <2>2. capture' \in Screen!CaptureRecords
        BY <1>1 DEF Screen!StartShare, Screen!NoSlots, Screen!ScreenTypeOK, Screen!MainRecords,
           Screen!CaptureRecords, Screen!SlotRecords, Screen!EncoderRecords,
           Screen!RequestRecords, Screen!ViewerRecords
    <2>3. slots' \in Screen!SlotRecords
        BY <1>1 DEF Screen!StartShare, Screen!NoSlots, Screen!ScreenTypeOK, Screen!MainRecords,
           Screen!CaptureRecords, Screen!SlotRecords, Screen!EncoderRecords,
           Screen!RequestRecords, Screen!ViewerRecords
    <2>4. encoder' \in Screen!EncoderRecords
        BY <1>1 DEF Screen!StartShare, Screen!NoSlots, Screen!ScreenTypeOK, Screen!MainRecords,
           Screen!CaptureRecords, Screen!SlotRecords, Screen!EncoderRecords,
           Screen!RequestRecords, Screen!ViewerRecords
    <2>5. request' \in Screen!RequestRecords
        BY <1>1 DEF Screen!StartShare, Screen!NoSlots, Screen!ScreenTypeOK, Screen!MainRecords,
           Screen!CaptureRecords, Screen!SlotRecords, Screen!EncoderRecords,
           Screen!RequestRecords, Screen!ViewerRecords
    <2>6. viewers' \in Screen!ViewerRecords
        BY <1>1 DEF Screen!StartShare, Screen!NoSlots, Screen!ScreenTypeOK, Screen!MainRecords,
           Screen!CaptureRecords, Screen!SlotRecords, Screen!EncoderRecords,
           Screen!RequestRecords, Screen!ViewerRecords
    <2>7. Screen!ScreenTypeOK'
        BY <1>1, <2>1, <2>2, <2>3, <2>4, <2>5, <2>6 DEF Screen!StartShare, Screen!NoSlots,
           Screen!ScreenTypeOK
    <2>8. WriteIsFree' /\ CaptureIsDelivered'
        BY <1>1 DEF Screen!StartShare, Screen!NoSlots, Screen!ScreenTypeOK, WriteIsFree,
           CaptureIsDelivered,
           Screen!MainRecords, Screen!CaptureRecords, Screen!SlotRecords
    <2>9. LossIsRepaired' /\ Screen!NoDeltaAfterLoss'
        BY <1>1 DEF Screen!StartShare, Screen!NoSlots, Screen!ScreenTypeOK, CaptureIsDelivered,
           LossIsRepaired, KeyframeIsOwed,
           Screen!NoDeltaAfterLoss, Screen!MainRecords, Screen!EncoderRecords,
           Screen!RequestRecords, Screen!ViewerRecords
    <2> QED
        BY <2>7, <2>8, <2>9
<1>2. CASE Screen!StartedShare
    <2>1. main' \in Screen!MainRecords
        BY <1>2 DEF Screen!StartedShare, Screen!ScreenTypeOK, Screen!MainRecords
    <2>2. Screen!ScreenTypeOK'
        BY <1>2, <2>1 DEF Screen!StartedShare, Screen!ScreenTypeOK
    <2>3. WriteIsFree' /\ CaptureIsDelivered'
        BY <1>2 DEF Screen!StartedShare, Screen!ScreenTypeOK, WriteIsFree, CaptureIsDelivered,
           Screen!MainRecords, Screen!CaptureRecords, Screen!SlotRecords
    <2>4. LossIsRepaired' /\ Screen!NoDeltaAfterLoss'
        BY <1>2 DEF Screen!StartedShare, Screen!ScreenTypeOK, CaptureIsDelivered, LossIsRepaired, KeyframeIsOwed,
           Screen!NoDeltaAfterLoss, Screen!MainRecords, Screen!EncoderRecords,
           Screen!RequestRecords, Screen!ViewerRecords
    <2> QED
        BY <2>2, <2>3, <2>4
<1>3. CASE Screen!StopShare
    <2>1. main' \in Screen!MainRecords
        BY <1>3 DEF Screen!StopShare, Screen!ScreenTypeOK, Screen!MainRecords
    <2>2. Screen!ScreenTypeOK'
        BY <1>3, <2>1 DEF Screen!StopShare, Screen!ScreenTypeOK
    <2>3. WriteIsFree' /\ CaptureIsDelivered'
        BY <1>3 DEF Screen!StopShare, Screen!ScreenTypeOK, WriteIsFree, CaptureIsDelivered,
           Screen!MainRecords, Screen!CaptureRecords, Screen!SlotRecords
    <2>4. LossIsRepaired' /\ Screen!NoDeltaAfterLoss'
        BY <1>3 DEF Screen!StopShare, Screen!ScreenTypeOK, CaptureIsDelivered, LossIsRepaired, KeyframeIsOwed,
           Screen!NoDeltaAfterLoss, Screen!MainRecords, Screen!EncoderRecords,
           Screen!RequestRecords, Screen!ViewerRecords
    <2> QED
        BY <2>2, <2>3, <2>4
<1>4. CASE Screen!StopDelivery
    <2>1. main' \in Screen!MainRecords
        BY <1>4 DEF Screen!StopDelivery, Screen!ScreenTypeOK, Screen!MainRecords, Screen!CaptureRecords
    <2>2. capture' \in Screen!CaptureRecords
        BY <1>4 DEF Screen!StopDelivery, Screen!ScreenTypeOK, Screen!MainRecords, Screen!CaptureRecords
    <2>3. Screen!ScreenTypeOK'
        BY <1>4, <2>1, <2>2 DEF Screen!StopDelivery, Screen!ScreenTypeOK
    <2>4. WriteIsFree' /\ CaptureIsDelivered'
        BY <1>4 DEF Screen!StopDelivery, Screen!ScreenTypeOK, WriteIsFree, CaptureIsDelivered,
           Screen!MainRecords, Screen!CaptureRecords, Screen!SlotRecords
    <2>5. LossIsRepaired' /\ Screen!NoDeltaAfterLoss'
        BY <1>4 DEF Screen!StopDelivery, Screen!ScreenTypeOK, CaptureIsDelivered, LossIsRepaired, KeyframeIsOwed,
           Screen!NoDeltaAfterLoss, Screen!MainRecords, Screen!EncoderRecords,
           Screen!RequestRecords, Screen!ViewerRecords
    <2> QED
        BY <2>3, <2>4, <2>5
<1>5. CASE Screen!StopEncode
    <2>1. main' \in Screen!MainRecords
        BY <1>5 DEF Screen!StopEncode, Screen!ScreenTypeOK, Screen!MainRecords
    <2>2. Screen!ScreenTypeOK'
        BY <1>5, <2>1 DEF Screen!StopEncode, Screen!ScreenTypeOK
    <2>3. WriteIsFree' /\ CaptureIsDelivered'
        BY <1>5 DEF Screen!StopEncode, Screen!ScreenTypeOK, WriteIsFree, CaptureIsDelivered,
           Screen!MainRecords, Screen!CaptureRecords, Screen!SlotRecords
    <2>4. LossIsRepaired' /\ Screen!NoDeltaAfterLoss'
        BY <1>5 DEF Screen!StopEncode, Screen!ScreenTypeOK, CaptureIsDelivered, LossIsRepaired, KeyframeIsOwed,
           Screen!NoDeltaAfterLoss, Screen!MainRecords, Screen!EncoderRecords,
           Screen!RequestRecords, Screen!ViewerRecords
    <2> QED
        BY <2>2, <2>3, <2>4
<1>6. CASE Screen!StopNotify
    <2>1. main' \in Screen!MainRecords
        BY <1>6 DEF Screen!StopNotify, Screen!NotifyOne, Screen!ScreenTypeOK, Screen!MainRecords
    <2>2. Screen!ScreenTypeOK'
        BY <1>6, <2>1 DEF Screen!StopNotify, Screen!NotifyOne, Screen!ScreenTypeOK
    <2>3. WriteIsFree' /\ CaptureIsDelivered'
        BY <1>6 DEF Screen!StopNotify, Screen!NotifyOne, Screen!ScreenTypeOK, WriteIsFree,
           CaptureIsDelivered,
           Screen!MainRecords, Screen!CaptureRecords, Screen!SlotRecords
    <2>4. LossIsRepaired' /\ Screen!NoDeltaAfterLoss'
        BY <1>6 DEF Screen!StopNotify, Screen!NotifyOne, Screen!ScreenTypeOK, CaptureIsDelivered,
           LossIsRepaired, KeyframeIsOwed,
           Screen!NoDeltaAfterLoss, Screen!MainRecords, Screen!EncoderRecords,
           Screen!RequestRecords, Screen!ViewerRecords
    <2> QED
        BY <2>2, <2>3, <2>4
<1>7. CASE Screen!StopJoin
    <2>1. main' \in Screen!MainRecords
        BY <1>7 DEF Screen!StopJoin, Screen!ScreenTypeOK, Screen!MainRecords, Screen!CaptureRecords,
           Screen!EncoderRecords
    <2>2. capture' \in Screen!CaptureRecords
        BY <1>7 DEF Screen!StopJoin, Screen!ScreenTypeOK, Screen!MainRecords, Screen!CaptureRecords,
           Screen!EncoderRecords
    <2>3. encoder' \in Screen!EncoderRecords
        BY <1>7 DEF Screen!StopJoin, Screen!ScreenTypeOK, Screen!MainRecords, Screen!CaptureRecords,
           Screen!EncoderRecords
    <2>4. Screen!ScreenTypeOK'
        BY <1>7, <2>1, <2>2, <2>3 DEF Screen!StopJoin, Screen!ScreenTypeOK
    <2>5. WriteIsFree' /\ CaptureIsDelivered'
        BY <1>7 DEF Screen!StopJoin, Screen!ScreenTypeOK, WriteIsFree, CaptureIsDelivered,
           Screen!MainRecords, Screen!CaptureRecords, Screen!SlotRecords
    <2>6. LossIsRepaired' /\ Screen!NoDeltaAfterLoss'
        BY <1>7 DEF Screen!StopJoin, Screen!ScreenTypeOK, CaptureIsDelivered, LossIsRepaired, KeyframeIsOwed,
           Screen!NoDeltaAfterLoss, Screen!MainRecords, Screen!EncoderRecords,
           Screen!RequestRecords, Screen!ViewerRecords
    <2> QED
        BY <2>4, <2>5, <2>6
<1>8. CASE Screen!CaptureFrame
    <2>1. capture' \in Screen!CaptureRecords
        BY <1>8 DEF Screen!CaptureFrame, Screen!ScreenTypeOK, Screen!CaptureRecords, Screen!SlotRecords
    <2>2. Screen!ScreenTypeOK'
        BY <1>8, <2>1 DEF Screen!CaptureFrame, Screen!ScreenTypeOK
    <2>3. WriteIsFree' /\ CaptureIsDelivered'
        BY <1>8 DEF Screen!CaptureFrame, Screen!ScreenTypeOK, WriteIsFree, CaptureIsDelivered,
           Screen!MainRecords, Screen!CaptureRecords, Screen!SlotRecords
    <2>4. LossIsRepaired' /\ Screen!NoDeltaAfterLoss'
        BY <1>8 DEF Screen!CaptureFrame, Screen!ScreenTypeOK, CaptureIsDelivered, LossIsRepaired, KeyframeIsOwed,
           Screen!NoDeltaAfterLoss, Screen!MainRecords, Screen!EncoderRecords,
           Screen!RequestRecords, Screen!ViewerRecords
    <2> QED
        BY <2>2, <2>3, <2>4
<1>9. CASE Screen!CaptureResized
    <2>1. capture' \in Screen!CaptureRecords
        BY <1>9 DEF Screen!CaptureResized, Screen!ScreenTypeOK, Screen!CaptureRecords
    <2>2. Screen!ScreenTypeOK'
        BY <1>9, <2>1 DEF Screen!CaptureResized, Screen!ScreenTypeOK
    <2>3. WriteIsFree' /\ CaptureIsDelivered'
        BY <1>9 DEF Screen!CaptureResized, Screen!ScreenTypeOK, WriteIsFree, CaptureIsDelivered,
           Screen!MainRecords, Screen!CaptureRecords, Screen!SlotRecords
    <2>4. LossIsRepaired' /\ Screen!NoDeltaAfterLoss'
        BY <1>9 DEF Screen!CaptureResized, Screen!ScreenTypeOK, CaptureIsDelivered, LossIsRepaired, KeyframeIsOwed,
           Screen!NoDeltaAfterLoss, Screen!MainRecords, Screen!EncoderRecords,
           Screen!RequestRecords, Screen!ViewerRecords
    <2> QED
        BY <2>2, <2>3, <2>4
<1>10. CASE Screen!CaptureAwaitEncoder
    <2>1. Screen!ScreenTypeOK'
        BY <1>10 DEF Screen!CaptureAwaitEncoder, Screen!ScreenTypeOK
    <2>2. WriteIsFree' /\ CaptureIsDelivered'
        BY <1>10 DEF Screen!CaptureAwaitEncoder, Screen!ScreenTypeOK, WriteIsFree, CaptureIsDelivered,
           Screen!MainRecords, Screen!CaptureRecords, Screen!SlotRecords
    <2>3. LossIsRepaired' /\ Screen!NoDeltaAfterLoss'
        BY <1>10 DEF Screen!CaptureAwaitEncoder, Screen!ScreenTypeOK, CaptureIsDelivered, LossIsRepaired, KeyframeIsOwed,
           Screen!NoDeltaAfterLoss, Screen!MainRecords, Screen!EncoderRecords,
           Screen!RequestRecords, Screen!ViewerRecords
    <2> QED
        BY <2>1, <2>2, <2>3
<1>11. CASE Screen!CaptureReallocate
    <2>1. capture' \in Screen!CaptureRecords
        BY <1>11 DEF Screen!CaptureReallocate, Screen!NoSlots, Screen!ScreenTypeOK,
           Screen!CaptureRecords, Screen!SlotRecords, Screen!EncoderRecords
    <2>2. slots' \in Screen!SlotRecords
        BY <1>11 DEF Screen!CaptureReallocate, Screen!NoSlots, Screen!ScreenTypeOK,
           Screen!CaptureRecords, Screen!SlotRecords, Screen!EncoderRecords
    <2>3. encoder' \in Screen!EncoderRecords
        BY <1>11 DEF Screen!CaptureReallocate, Screen!NoSlots, Screen!ScreenTypeOK,
           Screen!CaptureRecords, Screen!SlotRecords, Screen!EncoderRecords
    <2>4. Screen!ScreenTypeOK'
        BY <1>11, <2>1, <2>2, <2>3 DEF Screen!CaptureReallocate, Screen!NoSlots, Screen!ScreenTypeOK
    <2>5. WriteIsFree' /\ CaptureIsDelivered'
        BY <1>11 DEF Screen!CaptureReallocate, Screen!NoSlots, Screen!ScreenTypeOK, WriteIsFree,
           CaptureIsDelivered,
           Screen!MainRecords, Screen!CaptureRecords, Screen!SlotRecords
    <2>6. LossIsRepaired' /\ Screen!NoDeltaAfterLoss'
        BY <1>11 DEF Screen!CaptureReallocate, Screen!NoSlots, Screen!ScreenTypeOK, CaptureIsDelivered,
           LossIsRepaired, KeyframeIsOwed,
           Screen!NoDeltaAfterLoss, Screen!MainRecords, Screen!EncoderRecords,
           Screen!RequestRecords, Screen!ViewerRecords
    <2> QED
        BY <2>4, <2>5, <2>6
<1>12. CASE Screen!CapturePublish
    <2> DEFINE next == Screen!FreeWriteSlot(capture.ws, slots.active, slots.write)
    <2>1. next \in Screen!Slots /\ next \notin {capture.ws, slots.active}
        BY FreeSlot DEF Screen!ScreenTypeOK, Screen!CaptureRecords, Screen!SlotRecords
    <2> HIDE DEF next
    <2>2. slots' = [slots EXCEPT !.ready = capture.ws, !.last = capture.ws, !.write = next]
        BY <1>12 DEF Screen!CapturePublish, next
    <2>3. slots' \in Screen!SlotRecords
        BY <2>1, <2>2 DEF Screen!ScreenTypeOK, Screen!SlotRecords, Screen!CaptureRecords
    <2>4. capture' \in Screen!CaptureRecords
        BY <1>12 DEF Screen!CapturePublish, Screen!ScreenTypeOK, Screen!CaptureRecords
    <2>5. Screen!ScreenTypeOK'
        BY <1>12, <2>3, <2>4 DEF Screen!CapturePublish, Screen!ScreenTypeOK, Screen!NotifyOne
    <2>6. WriteIsFree'
        BY <1>12, <2>1, <2>2 DEF Screen!CapturePublish, Screen!ScreenTypeOK, WriteIsFree,
           Screen!SlotRecords, Screen!CaptureRecords
    <2>7. CaptureIsDelivered' /\ LossIsRepaired' /\ Screen!NoDeltaAfterLoss'
        BY <1>12 DEF Screen!CapturePublish, Screen!ScreenTypeOK, Screen!CaptureRecords,
           CaptureIsDelivered, LossIsRepaired, KeyframeIsOwed, Screen!NoDeltaAfterLoss
    <2> QED
        BY <2>5, <2>6, <2>7
<1>13. CASE Screen!EncodeExit
    <2>1. encoder' \in Screen!EncoderRecords
        BY <1>13 DEF Screen!EncodeExit, Screen!ScreenTypeOK, Screen!EncoderRecords
    <2>2. Screen!ScreenTypeOK'
        BY <1>13, <2>1 DEF Screen!EncodeExit, Screen!ScreenTypeOK
    <2>3. WriteIsFree' /\ CaptureIsDelivered'
        BY <1>13 DEF Screen!EncodeExit, Screen!ScreenTypeOK, WriteIsFree, CaptureIsDelivered,
           Screen!MainRecords, Screen!CaptureRecords, Screen!SlotRecords
    <2>4. LossIsRepaired' /\ Screen!NoDeltaAfterLoss'
        BY <1>13 DEF Screen!EncodeExit, Screen!ScreenTypeOK, CaptureIsDelivered, LossIsRepaired, KeyframeIsOwed,
           Screen!NoDeltaAfterLoss, Screen!MainRecords, Screen!EncoderRecords,
           Screen!RequestRecords, Screen!ViewerRecords
    <2> QED
        BY <2>2, <2>3, <2>4
<1>14. CASE Screen!EncodeTake
    <2>1. slots' \in Screen!SlotRecords
        BY <1>14 DEF Screen!EncodeTake, Screen!ScreenTypeOK, Screen!SlotRecords, Screen!EncoderRecords
    <2>2. encoder' \in Screen!EncoderRecords
        BY <1>14 DEF Screen!EncodeTake, Screen!ScreenTypeOK, Screen!SlotRecords, Screen!EncoderRecords
    <2>3. Screen!ScreenTypeOK'
        BY <1>14, <2>1, <2>2 DEF Screen!EncodeTake, Screen!ScreenTypeOK
    <2>4. WriteIsFree' /\ CaptureIsDelivered'
        BY <1>14 DEF Screen!EncodeTake, Screen!ScreenTypeOK, WriteIsFree, CaptureIsDelivered,
           Screen!MainRecords, Screen!CaptureRecords, Screen!SlotRecords
    <2>5. LossIsRepaired' /\ Screen!NoDeltaAfterLoss'
        BY <1>14 DEF Screen!EncodeTake, Screen!ScreenTypeOK, CaptureIsDelivered, LossIsRepaired, KeyframeIsOwed,
           Screen!NoDeltaAfterLoss, Screen!MainRecords, Screen!EncoderRecords,
           Screen!RequestRecords, Screen!ViewerRecords
    <2> QED
        BY <2>3, <2>4, <2>5
<1>15. CASE Screen!EncodeIdle
    <2>1. encoder' \in Screen!EncoderRecords
        BY <1>15 DEF Screen!EncodeIdle, Screen!ScreenTypeOK, Screen!EncoderRecords
    <2>2. Screen!ScreenTypeOK'
        BY <1>15, <2>1 DEF Screen!EncodeIdle, Screen!ScreenTypeOK
    <2>3. WriteIsFree' /\ CaptureIsDelivered'
        BY <1>15 DEF Screen!EncodeIdle, Screen!ScreenTypeOK, WriteIsFree, CaptureIsDelivered,
           Screen!MainRecords, Screen!CaptureRecords, Screen!SlotRecords
    <2>4. LossIsRepaired' /\ Screen!NoDeltaAfterLoss'
        BY <1>15 DEF Screen!EncodeIdle, Screen!ScreenTypeOK, CaptureIsDelivered, LossIsRepaired, KeyframeIsOwed,
           Screen!NoDeltaAfterLoss, Screen!MainRecords, Screen!EncoderRecords,
           Screen!RequestRecords, Screen!ViewerRecords
    <2> QED
        BY <2>2, <2>3, <2>4
<1>16. CASE Screen!EncodeSleep
    <2>1. encoder' \in Screen!EncoderRecords
        BY <1>16 DEF Screen!EncodeSleep, Screen!ScreenTypeOK, Screen!EncoderRecords
    <2>2. Screen!ScreenTypeOK'
        BY <1>16, <2>1 DEF Screen!EncodeSleep, Screen!ScreenTypeOK
    <2>3. WriteIsFree' /\ CaptureIsDelivered'
        BY <1>16 DEF Screen!EncodeSleep, Screen!ScreenTypeOK, WriteIsFree, CaptureIsDelivered,
           Screen!MainRecords, Screen!CaptureRecords, Screen!SlotRecords
    <2>4. LossIsRepaired' /\ Screen!NoDeltaAfterLoss'
        BY <1>16 DEF Screen!EncodeSleep, Screen!ScreenTypeOK, CaptureIsDelivered, LossIsRepaired, KeyframeIsOwed,
           Screen!NoDeltaAfterLoss, Screen!MainRecords, Screen!EncoderRecords,
           Screen!RequestRecords, Screen!ViewerRecords
    <2> QED
        BY <2>2, <2>3, <2>4
<1>17. CASE Screen!EncodeInitFails
    <2>1. slots' \in Screen!SlotRecords
        BY <1>17 DEF Screen!EncodeInitFails, Screen!NotifyOne, Screen!ScreenTypeOK, Screen!SlotRecords,
           Screen!EncoderRecords
    <2>2. encoder' \in Screen!EncoderRecords
        BY <1>17 DEF Screen!EncodeInitFails, Screen!NotifyOne, Screen!ScreenTypeOK, Screen!SlotRecords,
           Screen!EncoderRecords
    <2>3. Screen!ScreenTypeOK'
        BY <1>17, <2>1, <2>2 DEF Screen!EncodeInitFails, Screen!NotifyOne, Screen!ScreenTypeOK
    <2>4. WriteIsFree' /\ CaptureIsDelivered'
        BY <1>17 DEF Screen!EncodeInitFails, Screen!NotifyOne, Screen!ScreenTypeOK, WriteIsFree,
           CaptureIsDelivered,
           Screen!MainRecords, Screen!CaptureRecords, Screen!SlotRecords
    <2>5. LossIsRepaired' /\ Screen!NoDeltaAfterLoss'
        BY <1>17 DEF Screen!EncodeInitFails, Screen!NotifyOne, Screen!ScreenTypeOK, CaptureIsDelivered,
           LossIsRepaired, KeyframeIsOwed,
           Screen!NoDeltaAfterLoss, Screen!MainRecords, Screen!EncoderRecords,
           Screen!RequestRecords, Screen!ViewerRecords
    <2> QED
        BY <2>3, <2>4, <2>5
<1>18. CASE Screen!EncodeConfigure
    <2>1. encoder' \in Screen!EncoderRecords
        BY <1>18 DEF Screen!EncodeConfigure, Screen!ScreenTypeOK, Screen!EncoderRecords,
           Screen!RequestRecords
    <2>2. request' \in Screen!RequestRecords
        BY <1>18 DEF Screen!EncodeConfigure, Screen!ScreenTypeOK, Screen!EncoderRecords,
           Screen!RequestRecords
    <2>3. Screen!ScreenTypeOK'
        BY <1>18, <2>1, <2>2 DEF Screen!EncodeConfigure, Screen!ScreenTypeOK
    <2>4. WriteIsFree' /\ CaptureIsDelivered'
        BY <1>18 DEF Screen!EncodeConfigure, Screen!ScreenTypeOK, WriteIsFree, CaptureIsDelivered,
           Screen!MainRecords, Screen!CaptureRecords, Screen!SlotRecords
    <2>5. LossIsRepaired' /\ Screen!NoDeltaAfterLoss'
        BY <1>18 DEF Screen!EncodeConfigure, Screen!ScreenTypeOK, CaptureIsDelivered, LossIsRepaired, KeyframeIsOwed,
           Screen!NoDeltaAfterLoss, Screen!MainRecords, Screen!EncoderRecords,
           Screen!RequestRecords, Screen!ViewerRecords
    <2> QED
        BY <2>3, <2>4, <2>5
<1>19. CASE Screen!EncodeSkip
    <2>1. encoder' \in Screen!EncoderRecords
        BY <1>19 DEF Screen!EncodeSkip, Screen!ScreenTypeOK, Screen!EncoderRecords
    <2>2. Screen!ScreenTypeOK'
        BY <1>19, <2>1 DEF Screen!EncodeSkip, Screen!ScreenTypeOK
    <2>3. WriteIsFree' /\ CaptureIsDelivered'
        BY <1>19 DEF Screen!EncodeSkip, Screen!ScreenTypeOK, WriteIsFree, CaptureIsDelivered,
           Screen!MainRecords, Screen!CaptureRecords, Screen!SlotRecords
    <2>4. LossIsRepaired' /\ Screen!NoDeltaAfterLoss'
        BY <1>19 DEF Screen!EncodeSkip, Screen!ScreenTypeOK, CaptureIsDelivered, LossIsRepaired, KeyframeIsOwed,
           Screen!NoDeltaAfterLoss, Screen!MainRecords, Screen!EncoderRecords,
           Screen!RequestRecords, Screen!ViewerRecords
    <2> QED
        BY <2>2, <2>3, <2>4
<1>20. ASSUME NEW sent \in BOOLEAN, Screen!EncodeOutput(sent)
       PROVE  ScreenInv'
    <2> DEFINE keyframe == encoder.fresh \/ encoder.force
    <2>1. /\ encoder' = [encoder EXCEPT !.pc = "release", !.fresh = FALSE, !.force = FALSE]
          /\ UNCHANGED <<main, capture, slots, waiting>>
        BY <1>20 DEF Screen!EncodeOutput
    <2>2. encoder' \in Screen!EncoderRecords
        BY <2>1 DEF Screen!ScreenTypeOK, Screen!EncoderRecords
    <2>3. WriteIsFree' /\ CaptureIsDelivered'
        BY <2>1 DEF WriteIsFree, CaptureIsDelivered
    <2>4. CASE ~main.sharing /\ UNCHANGED <<request, viewers>>
        BY <2>1, <2>2, <2>3, <2>4 DEF Screen!ScreenTypeOK, LossIsRepaired, KeyframeIsOwed,
           Screen!NoDeltaAfterLoss, CaptureIsDelivered
    <2>5. CASE /\ main.sharing /\ UNCHANGED request
               /\ viewers' = [want |-> viewers.want /\ ~keyframe,
                              broken |-> viewers.broken /\ ~keyframe,
                              spent |-> viewers.spent /\ ~keyframe,
                              torn |-> viewers.torn
                                       \/ (viewers.broken /\ ~viewers.spent /\ ~keyframe)]
        <3>1. viewers' \in Screen!ViewerRecords
            BY <2>5, Zenon DEF Screen!ViewerRecords
        <3>2. /\ viewers'.broken = (viewers.broken /\ ~keyframe)
              /\ viewers'.spent = (viewers.spent /\ ~keyframe)
            BY <2>5
        <3>3. viewers'.torn = (viewers.torn \/ (viewers.broken /\ ~viewers.spent /\ ~keyframe))
            BY <2>5
        <3>4. viewers.broken /\ ~viewers.spent => keyframe
            BY <1>20, <2>5 DEF Screen!EncodeOutput, LossIsRepaired, KeyframeIsOwed
        <3>5. (viewers'.broken => viewers'.spent) /\ ~viewers'.torn
            BY <3>2, <3>3, <3>4 DEF Screen!NoDeltaAfterLoss
        <3>6. main'.pc # "starting"
            BY <2>1, <2>5 DEF CaptureIsDelivered
        <3>7. LossIsRepaired' /\ Screen!NoDeltaAfterLoss'
            BY <3>5, <3>6 DEF LossIsRepaired, KeyframeIsOwed, Screen!NoDeltaAfterLoss
        <3> QED
            BY <2>1, <2>2, <2>3, <2>5, <3>1, <3>7 DEF Screen!ScreenTypeOK
    <2>6. CASE /\ main.sharing
               /\ viewers' = [viewers EXCEPT !.broken = TRUE, !.spent = FALSE]
               /\ request' = [request EXCEPT !.sender = TRUE]
        <3>1. viewers' \in Screen!ViewerRecords /\ viewers'.torn = viewers.torn
            BY <2>6 DEF Screen!ScreenTypeOK, Screen!ViewerRecords
        <3>2. request' \in Screen!RequestRecords /\ request'.sender
            BY <2>6 DEF Screen!ScreenTypeOK, Screen!RequestRecords
        <3>3. encoder'.pc = "release" /\ main'.pc = "idle"
            BY <2>1, <2>6 DEF Screen!ScreenTypeOK, Screen!EncoderRecords, CaptureIsDelivered
        <3> QED
            BY <2>1, <2>2, <2>3, <3>1, <3>2, <3>3
            DEF Screen!ScreenTypeOK, LossIsRepaired, KeyframeIsOwed, Screen!NoDeltaAfterLoss
    <2> QED
        BY <1>20, <2>4, <2>5, <2>6 DEF Screen!EncodeOutput
<1>21. CASE Screen!EncodeRelease
    <2>1. slots' \in Screen!SlotRecords
        BY <1>21 DEF Screen!EncodeRelease, Screen!NotifyOne, Screen!ScreenTypeOK, Screen!SlotRecords,
           Screen!EncoderRecords
    <2>2. encoder' \in Screen!EncoderRecords
        BY <1>21 DEF Screen!EncodeRelease, Screen!NotifyOne, Screen!ScreenTypeOK, Screen!SlotRecords,
           Screen!EncoderRecords
    <2>3. Screen!ScreenTypeOK'
        BY <1>21, <2>1, <2>2 DEF Screen!EncodeRelease, Screen!NotifyOne, Screen!ScreenTypeOK
    <2>4. WriteIsFree' /\ CaptureIsDelivered'
        BY <1>21 DEF Screen!EncodeRelease, Screen!NotifyOne, Screen!ScreenTypeOK, WriteIsFree,
           CaptureIsDelivered,
           Screen!MainRecords, Screen!CaptureRecords, Screen!SlotRecords
    <2>5. LossIsRepaired' /\ Screen!NoDeltaAfterLoss'
        BY <1>21 DEF Screen!EncodeRelease, Screen!NotifyOne, Screen!ScreenTypeOK, CaptureIsDelivered,
           LossIsRepaired, KeyframeIsOwed,
           Screen!NoDeltaAfterLoss, Screen!MainRecords, Screen!EncoderRecords,
           Screen!RequestRecords, Screen!ViewerRecords
    <2> QED
        BY <2>3, <2>4, <2>5
<1>22. CASE Screen!ViewerNeedsKeyframe
    <2>1. viewers' \in Screen!ViewerRecords
        BY <1>22 DEF Screen!ViewerNeedsKeyframe, Screen!ScreenTypeOK, Screen!ViewerRecords
    <2>2. Screen!ScreenTypeOK'
        BY <1>22, <2>1 DEF Screen!ViewerNeedsKeyframe, Screen!ScreenTypeOK
    <2>3. WriteIsFree' /\ CaptureIsDelivered'
        BY <1>22 DEF Screen!ViewerNeedsKeyframe, Screen!ScreenTypeOK, WriteIsFree, CaptureIsDelivered,
           Screen!MainRecords, Screen!CaptureRecords, Screen!SlotRecords
    <2>4. LossIsRepaired' /\ Screen!NoDeltaAfterLoss'
        BY <1>22 DEF Screen!ViewerNeedsKeyframe, Screen!ScreenTypeOK, CaptureIsDelivered, LossIsRepaired, KeyframeIsOwed,
           Screen!NoDeltaAfterLoss, Screen!MainRecords, Screen!EncoderRecords,
           Screen!RequestRecords, Screen!ViewerRecords
    <2> QED
        BY <2>2, <2>3, <2>4
<1>23. CASE Screen!RequestKeyframe
    <2>1. request' \in Screen!RequestRecords
        BY <1>23 DEF Screen!RequestKeyframe, Screen!ScreenTypeOK, Screen!RequestRecords
    <2>2. Screen!ScreenTypeOK'
        BY <1>23, <2>1 DEF Screen!RequestKeyframe, Screen!ScreenTypeOK
    <2>3. WriteIsFree' /\ CaptureIsDelivered'
        BY <1>23 DEF Screen!RequestKeyframe, Screen!ScreenTypeOK, WriteIsFree, CaptureIsDelivered,
           Screen!MainRecords, Screen!CaptureRecords, Screen!SlotRecords
    <2>4. LossIsRepaired' /\ Screen!NoDeltaAfterLoss'
        BY <1>23 DEF Screen!RequestKeyframe, Screen!ScreenTypeOK, CaptureIsDelivered, LossIsRepaired, KeyframeIsOwed,
           Screen!NoDeltaAfterLoss, Screen!MainRecords, Screen!EncoderRecords,
           Screen!RequestRecords, Screen!ViewerRecords
    <2> QED
        BY <2>2, <2>3, <2>4
<1>24. CASE Screen!RequestWake
    <2>1. request' \in Screen!RequestRecords
        BY <1>24 DEF Screen!RequestWake, Screen!NotifyOne, Screen!ScreenTypeOK, Screen!SlotRecords,
           Screen!RequestRecords
    <2>2. slots' \in Screen!SlotRecords
        BY <1>24 DEF Screen!RequestWake, Screen!NotifyOne, Screen!ScreenTypeOK, Screen!SlotRecords,
           Screen!RequestRecords
    <2>3. Screen!ScreenTypeOK'
        BY <1>24, <2>1, <2>2 DEF Screen!RequestWake, Screen!NotifyOne, Screen!ScreenTypeOK
    <2>4. WriteIsFree' /\ CaptureIsDelivered'
        BY <1>24 DEF Screen!RequestWake, Screen!NotifyOne, Screen!ScreenTypeOK, WriteIsFree,
           CaptureIsDelivered,
           Screen!MainRecords, Screen!CaptureRecords, Screen!SlotRecords
    <2>5. LossIsRepaired' /\ Screen!NoDeltaAfterLoss'
        BY <1>24 DEF Screen!RequestWake, Screen!NotifyOne, Screen!ScreenTypeOK, CaptureIsDelivered,
           LossIsRepaired, KeyframeIsOwed,
           Screen!NoDeltaAfterLoss, Screen!MainRecords, Screen!EncoderRecords,
           Screen!RequestRecords, Screen!ViewerRecords
    <2> QED
        BY <2>3, <2>4, <2>5
<1>25. CASE Screen!SpuriousWake
    <2>1. Screen!ScreenTypeOK'
        BY <1>25 DEF Screen!SpuriousWake, Screen!ScreenTypeOK
    <2>2. WriteIsFree' /\ CaptureIsDelivered'
        BY <1>25 DEF Screen!SpuriousWake, Screen!ScreenTypeOK, WriteIsFree, CaptureIsDelivered,
           Screen!MainRecords, Screen!CaptureRecords, Screen!SlotRecords
    <2>3. LossIsRepaired' /\ Screen!NoDeltaAfterLoss'
        BY <1>25 DEF Screen!SpuriousWake, Screen!ScreenTypeOK, CaptureIsDelivered, LossIsRepaired, KeyframeIsOwed,
           Screen!NoDeltaAfterLoss, Screen!MainRecords, Screen!EncoderRecords,
           Screen!RequestRecords, Screen!ViewerRecords
    <2> QED
        BY <2>1, <2>2, <2>3
<1>26. CASE Screen!EncodeFails
    <2>1. PICK left \in {encoder, [encoder EXCEPT !.force = FALSE],
                         [encoder EXCEPT !.force = FALSE, !.fresh = FALSE]} :
              /\ encoder' = [left EXCEPT !.pc = "release"]
              /\ viewers' = [viewers EXCEPT !.spent =
                               @ \/ (viewers.broken /\ ~left.force /\ ~left.fresh)]
        BY <1>26 DEF Screen!EncodeFails
    <2>2. UNCHANGED <<main, capture, slots, request, waiting>>
        BY <1>26 DEF Screen!EncodeFails
    <2>3. left \in Screen!EncoderRecords
        BY <2>1 DEF Screen!ScreenTypeOK, Screen!EncoderRecords
    <2>4. /\ encoder' \in Screen!EncoderRecords /\ encoder'.pc = "release"
          /\ encoder'.force = left.force /\ encoder'.fresh = left.fresh
        BY <2>1, <2>3 DEF Screen!EncoderRecords
    <2> DEFINE spent == viewers.spent \/ (viewers.broken /\ ~left.force /\ ~left.fresh)
    <2>5. spent \in BOOLEAN
        OBVIOUS
    <2>6. viewers' = [viewers EXCEPT !.spent = spent]
        BY <2>1
    <2> HIDE DEF spent
    <2>7. /\ viewers' \in Screen!ViewerRecords /\ viewers'.torn = viewers.torn
          /\ viewers'.broken = viewers.broken /\ viewers'.spent = spent
        BY <2>5, <2>6 DEF Screen!ScreenTypeOK, Screen!ViewerRecords
    <2>8. WriteIsFree' /\ CaptureIsDelivered'
        BY <2>2 DEF WriteIsFree, CaptureIsDelivered
    <2>9. viewers'.broken /\ ~viewers'.spent => encoder'.force \/ encoder'.fresh
        BY <2>4, <2>7 DEF spent
    <2>10. LossIsRepaired' /\ Screen!NoDeltaAfterLoss'
        BY <2>2, <2>7, <2>9 DEF LossIsRepaired, KeyframeIsOwed, Screen!NoDeltaAfterLoss
    <2> QED
        BY <2>2, <2>4, <2>7, <2>8, <2>10 DEF Screen!ScreenTypeOK
<1>27. CASE Screen!CaptureReallocateFails
    <2>1. capture' \in Screen!CaptureRecords
        BY <1>27 DEF Screen!CaptureReallocateFails, Screen!ScreenTypeOK, Screen!CaptureRecords
    <2>2. Screen!ScreenTypeOK'
        BY <1>27, <2>1 DEF Screen!CaptureReallocateFails, Screen!ScreenTypeOK
    <2>3. WriteIsFree' /\ CaptureIsDelivered'
        BY <1>27 DEF Screen!CaptureReallocateFails, Screen!ScreenTypeOK, WriteIsFree,
           CaptureIsDelivered, Screen!MainRecords, Screen!CaptureRecords, Screen!SlotRecords
    <2>4. LossIsRepaired' /\ Screen!NoDeltaAfterLoss'
        BY <1>27 DEF Screen!CaptureReallocateFails, LossIsRepaired, KeyframeIsOwed,
           Screen!NoDeltaAfterLoss
    <2> QED
        BY <2>2, <2>3, <2>4
<1>28. CASE UNCHANGED Screen!vars
    BY <1>28 DEF Screen!vars, Screen!ScreenTypeOK, WriteIsFree, CaptureIsDelivered, LossIsRepaired,
       KeyframeIsOwed, Screen!NoDeltaAfterLoss
<1> QED
    BY <1>1, <1>2, <1>3, <1>4, <1>5, <1>6, <1>7, <1>8, <1>9, <1>10, <1>11, <1>12, <1>13, <1>14,
       <1>15, <1>16, <1>17, <1>18, <1>19, <1>20, <1>21, <1>22, <1>23, <1>24, <1>25,
       <1>26, <1>27, <1>28 DEF Screen!Next, Screen!EncodeSent, Screen!EncodeUnsent

-----------------------------------------------------------------------------
(* The invariant holds in every reachable state of the capture pipeline.   *)
THEOREM ScreenInductive == Screen!Spec => []ScreenInv
BY ScreenInitInv, ScreenStepInv, PTL DEF Screen!Spec

(* No texture is written while it is queued for the encoder or being       *)
(* encoded: the search of the capture callback (first slot that is neither *)
(* ready nor active) is enough although a keyframe request can queue the   *)
(* newest picture again while the next one is being copied.                *)
THEOREM SlotsAreExclusive == Screen!Spec => []SlotDiscipline
<1>1. ScreenInv => SlotDiscipline
  <2>1. Screen!ScreenTypeOK => ScreenTypeOK
    BY DEF ScreenTypeOK, MainRecords, CaptureRecords, SlotRecords, EncoderRecords, RequestRecords,
       ViewerRecords, Slots, NoSlot, Screen!ScreenTypeOK, Screen!MainRecords, Screen!CaptureRecords,
       Screen!SlotRecords, Screen!EncoderRecords, Screen!RequestRecords, Screen!ViewerRecords,
       Screen!Slots, Screen!NoSlot
  <2> QED
    BY <2>1 DEF ScreenInv, SlotDiscipline, WriteIsFree, WriterOwnsSlot
<1> QED
    BY <1>1, ScreenInductive, PTL

(* After a frame that could not be sent the viewers get a keyframe before  *)
(* any delta, through skipped frames, failing encodes, recreated encoders  *)
(* and restarts - unless a failing encode took that very keyframe along.   *)
THEOREM LossIsFollowedByKeyframe == Screen!Spec => []NoDeltaAfterLoss
<1>1. ScreenInv => NoDeltaAfterLoss
  BY DEF ScreenInv, Screen!NoDeltaAfterLoss, NoDeltaAfterLoss
<1> QED
    BY <1>1, ScreenInductive, PTL

-----------------------------------------------------------------------------
(* The send controller of common/src/video_send_controller.cpp.            *)
Video == INSTANCE VideoSendController

(* The lowest bitrate that adaptation and slider together can reach.       *)
LowestRate == Video!Lowest(MinBitrate, Video!MinTarget)

RateRecords == [target : Targets, floor : 1 .. MinBitrate, adapted : 1 .. Video!MaxTarget,
                published : 1 .. Video!MaxTarget, pending : 0 .. Video!MaxTarget,
                recent : BOOLEAN]

(* The inductive invariant: the bitrate's range needs that the share's     *)
(* floor is itself no lower.                                               *)
RateInRange(r) ==
    /\ r \in RateRecords
    /\ r.floor >= LowestRate
    /\ r.adapted \in LowestRate .. r.target

(* What the encode thread has charged and not yet handed over.             *)
Held == IF encode.pc \in {"send", "refund"} THEN encode.size ELSE 0

(* Before the counter is zeroed it covers what is in flight and what is    *)
(* held; afterwards nothing is in flight and the connection is gone, so a  *)
(* late refund takes it below zero at most until its own clamp.            *)
Balance ==
    /\ cleanup # "idle" => ~net.connected /\ \A s \in Video!Sizes : inflight[s] = 0
    /\ cleanup # "join" => encode.pc # "clamp" /\ outstanding = Video!InFlightBytes + Held
    /\ cleanup = "join" => outstanding = IF encode.pc = "clamp" THEN encode.after ELSE 0

ControllerInv == Video!ControllerTypeOK /\ RateInRange(rate) /\ Balance

-----------------------------------------------------------------------------
(* The ceilings have a highest and a lowest.                               *)
LEMMA TargetBounds ==
    /\ Video!MaxTarget \in Targets /\ \A t \in Targets : t <= Video!MaxTarget
    /\ Video!MinTarget \in Targets /\ \A t \in Targets : Video!MinTarget <= t
    /\ Targets \subseteq Nat \ {0} /\ LowestRate \in 1 .. MinBitrate
    /\ \A t \in Targets : LowestRate <= t
<1>1. Targets \subseteq Nat \ {0} /\ Targets # {} /\ IsFiniteSet(Targets) /\ MinBitrate \in Nat \ {0}
  BY ControllerAssumption DEF IsFiniteSet, Video!IsFiniteSet
<1> DEFINE Good == {T \in SUBSET Targets : T = {} \/ \E t \in T : \A u \in T : u <= t}
<1>2. ASSUME NEW T \in SUBSET Targets, \A x \in T : T \ {x} \in Good
      PROVE  T \in Good
  <2>1. CASE T = {}
    BY <2>1
  <2>2. CASE T # {}
    <3>1. PICK x \in T : TRUE
      BY <2>2
    <3>2. CASE T \ {x} = {}
      BY <3>1, <3>2, <1>1
    <3>3. CASE T \ {x} # {}
      <4>1. PICK t \in T \ {x} : \A u \in T \ {x} : u <= t
        BY <1>2, <3>1, <3>3
      <4>2. t \in Nat /\ x \in Nat /\ \A u \in T : u \in Nat
        BY <1>1
      <4>3. CASE x <= t
        BY <4>1, <4>2, <4>3
      <4>4. CASE t <= x
        BY <4>1, <4>2, <4>4
      <4> QED
        BY <4>2, <4>3, <4>4
    <3> QED
      BY <3>2, <3>3
  <2> QED
    BY <2>1, <2>2
<1>3. Good = SUBSET Targets
  <2> HIDE DEF Good
  <2>1. Good \in SUBSET (SUBSET Targets)
    BY DEF Good
  <2> QED
    BY <1>1, <1>2, <2>1, SubsetInduction
<1>4. \E t \in Targets : \A u \in Targets : u <= t
  BY <1>1, <1>3
<1>5. \E t \in Targets : \A u \in Targets : t <= u
  BY <1>1, LeastNatural
<1>6. Video!MaxTarget \in Targets /\ \A t \in Targets : t <= Video!MaxTarget
  BY <1>4 DEF Video!MaxTarget
<1>7. Video!MinTarget \in Targets /\ \A t \in Targets : Video!MinTarget <= t
  BY <1>5 DEF Video!MinTarget
<1>8. LowestRate \in 1 .. MinBitrate /\ LowestRate <= Video!MinTarget
  BY <1>1, <1>7 DEF LowestRate, Video!Lowest
<1> QED
  BY <1>1, <1>6, <1>7, <1>8

(* What is in flight, for any counts per size.                             *)
Loads(f) == [s \in Video!Sizes |-> s * f[s]]
Load(f) == SumFunctionOnSet(Loads(f), Video!Sizes)

LEMMA InFlightIsLoad ==
    /\ Video!InFlightBytes = Load(inflight) /\ Video!InFlightBytes' = Load(inflight')
    /\ InFlightBytes = Load(inflight)
<1>1. Video!InFlightBytes = Load(inflight)
  BY DEF Video!InFlightBytes, Load, Loads, SumFunctionOnSet, FoldFunctionOnSet, MapThenFoldSet,
         Video!SumFunction, Video!SumFunctionOnSet, Video!FoldFunctionOnSet,
         Video!MapThenFoldSet
<1>2. Video!InFlightBytes' = Load(inflight')
  BY DEF Video!InFlightBytes, Load, Loads, SumFunctionOnSet, FoldFunctionOnSet, MapThenFoldSet,
         Video!SumFunction, Video!SumFunctionOnSet, Video!FoldFunctionOnSet,
         Video!MapThenFoldSet
<1>3. InFlightBytes = Load(inflight)
  BY DEF InFlightBytes, Load, Loads, Sizes, Video!Sizes, SumFunction, SumFunctionOnSet,
         FoldFunctionOnSet, MapThenFoldSet
<1> QED
  BY <1>1, <1>2, <1>3

LEMMA LoadIs ==
    ASSUME NEW f \in [Video!Sizes -> Nat]
    PROVE  /\ IsFiniteSet(Video!Sizes)
           /\ \A s \in Video!Sizes : /\ s \in Nat \ {0}
                                      /\ Loads(f)[s] = s * f[s]
                                      /\ Loads(f)[s] \in Nat
                                      /\ Loads(f)[s] <= Load(f)
           /\ Load(f) \in Nat
<1>1. IsFiniteSet(Video!Sizes) /\ \A s \in Video!Sizes : s \in Nat \ {0}
  BY Interval, ControllerAssumption DEF Video!Sizes
<1>2. \A s \in Video!Sizes : Loads(f)[s] = s * f[s]
  BY DEF Loads
<1>3. \A s \in Video!Sizes : Loads(f)[s] \in Nat
  BY <1>1, <1>2
<1> DEFINE S == Video!Sizes
           g == Loads(f)
<1> HIDE DEF S, g
<1>4. SumFunctionOnSet(g, S) \in Nat /\ \A s \in S : g[s] <= SumFunctionOnSet(g, S)
  BY <1>1, <1>3, SumIsNat DEF S, g
<1> QED
  BY <1>1, <1>2, <1>3, <1>4 DEF S, g, Load

(* Nothing in flight is a load of zero.                                    *)
LEMMA NoLoad ==
    ASSUME NEW f \in [Video!Sizes -> Nat],
           \A s \in Video!Sizes : f[s] = 0
    PROVE  Load(f) = 0
<1> DEFINE S == Video!Sizes
           g == Loads(f)
<1>1. IsFiniteSet(S) /\ \A s \in S : g[s] = 0
  BY LoadIs
<1> HIDE DEF S, g
<1>2. SumFunctionOnSet(g, S) = 0
  BY <1>1, SumOfZeros
<1> QED
  BY <1>2 DEF S, g, Load

(* A send of s bytes more or less changes the load by s bytes.             *)
LEMMA LoadChange ==
    ASSUME NEW f \in [Video!Sizes -> Nat], NEW s \in Video!Sizes,
           NEW d \in {-1, 1}, f[s] + d \in Nat
    PROVE  Load([f EXCEPT ![s] = @ + d]) = Load(f) + s * d
<1> DEFINE S == Video!Sizes
           e == [f EXCEPT ![s] = @ + d]
           g == Loads(f)
           h == Loads(e)
<1>1. e \in [S -> Nat] /\ e[s] = f[s] + d /\ \A y \in S \ {s} : e[y] = f[y]
  OBVIOUS
<1> HIDE DEF e
<1>2. IsFiniteSet(S) /\ s \in S /\ (\A y \in S : g[y] \in Int) /\ h[s] \in Int
  BY <1>1, LoadIs
<1>3. \A y \in S \ {s} : h[y] = g[y]
  BY <1>1, LoadIs
<1>4. SumFunctionOnSet(h, S) = SumFunctionOnSet(g, S) - g[s] + h[s]
  <2> HIDE DEF S, g, h
  <2> QED
    BY <1>2, <1>3, SumChange
<1>5. g[s] = s * f[s] /\ h[s] = s * (f[s] + d) /\ s \in Int /\ f[s] \in Int
  BY <1>1, LoadIs
<1>6. \A a, b \in Int : a * (b + d) = a * b + a * d
  OBVIOUS
<1>7. h[s] - g[s] = s * d
  BY <1>5, <1>6
<1>8. SumFunctionOnSet(g, S) \in Int /\ g[s] \in Int /\ h[s] \in Int /\ s * d \in Int
  BY <1>2, <1>5, LoadIs DEF Load
<1> HIDE DEF S, g, h
<1>9. SumFunctionOnSet(h, S) = SumFunctionOnSet(g, S) + s * d
  BY <1>4, <1>7, <1>8
<1> QED
  BY <1>9 DEF S, e, g, h, Load

-----------------------------------------------------------------------------
(* The bitrate.                                                            *)

(* A forced publish, and one that is due, keep the range.                  *)
LEMMA PublishKeepsRange ==
    ASSUME NEW r, RateInRange(r)
    PROVE  RateInRange(Video!ForcePublished(r)) /\ RateInRange(Video!Published(r))
<1>1. /\ r \in RateRecords /\ r.adapted \in 1 .. Video!MaxTarget
      /\ r.adapted \in 0 .. Video!MaxTarget
  BY TargetBounds DEF RateInRange, RateRecords
<1>2. RateInRange(Video!ForcePublished(r))
  BY <1>1 DEF RateInRange, RateRecords, Video!ForcePublished
<1>3. RateInRange([Video!ForcePublished(r) EXCEPT !.recent = TRUE])
  <2> DEFINE p == Video!ForcePublished(r)
  <2> HIDE DEF p
  <2>1. RateInRange(p)
    BY <1>2 DEF p
  <2>2. RateInRange([p EXCEPT !.recent = TRUE])
    BY <2>1 DEF RateInRange, RateRecords
  <2> QED
    BY <2>2 DEF p
<1>4. Video!Published(r) \in {r, [Video!ForcePublished(r) EXCEPT !.recent = TRUE]}
  BY DEF Video!Published
<1> QED
  BY <1>2, <1>3, <1>4

(* The published bitrate may be anything before a forced publish.          *)
LEMMA ResetKeepsRange ==
    ASSUME NEW t \in Targets
    PROVE  /\ RateInRange(Video!ResetFor(t))
           /\ \A floor \in LowestRate .. MinBitrate : RateInRange(Video!Reset(t, floor))
<1>1. /\ t \in Nat \ {0} /\ t <= Video!MaxTarget /\ Video!MaxTarget \in Nat
      /\ LowestRate \in Nat \ {0} /\ LowestRate <= t /\ LowestRate <= MinBitrate
      /\ MinBitrate \in Nat
  <2>1. MinBitrate \in Nat
    BY ControllerAssumption
  <2> QED
    BY <2>1, TargetBounds
<1>2. ASSUME NEW floor \in LowestRate .. MinBitrate
      PROVE  RateInRange(Video!Reset(t, floor))
  <2> DEFINE q == [target |-> t, floor |-> floor, adapted |-> t, published |-> 0,
                   pending |-> 0, recent |-> FALSE]
             Unpublished == [target : Targets, floor : 1 .. MinBitrate,
                             adapted : 1 .. Video!MaxTarget, published : {0}, pending : {0},
                             recent : BOOLEAN]
  <2>1. Video!Reset(t, floor) = Video!ForcePublished(q)
    BY DEF Video!Reset
  <2>2. floor \in 1 .. MinBitrate /\ t \in 1 .. Video!MaxTarget /\ t \in 0 .. Video!MaxTarget
    BY <1>1
  <2>3. q \in Unpublished
    BY <2>2
  <2>4. q.target = t /\ q.floor = floor /\ q.adapted = t
    OBVIOUS
  <2> HIDE DEF q
  <2>5. /\ Video!ForcePublished(q) \in RateRecords
        /\ Video!ForcePublished(q).target = t
        /\ Video!ForcePublished(q).floor = floor
        /\ Video!ForcePublished(q).adapted = t
    BY <2>2, <2>3, <2>4 DEF RateRecords, Video!ForcePublished
  <2> QED
    BY <1>1, <2>1, <2>5 DEF RateInRange
<1>3. Video!Lowest(MinBitrate, t) \in LowestRate .. MinBitrate
  BY <1>1 DEF Video!Lowest
<1> QED
  BY <1>2, <1>3 DEF Video!ResetFor

(* A bitrate set within the range keeps it.                                *)
LEMMA AdaptedKeepsRange ==
    ASSUME NEW r, RateInRange(r), NEW b \in LowestRate .. r.target
    PROVE  RateInRange([r EXCEPT !.adapted = b])
<1>1. r.target \in Nat /\ Video!MaxTarget \in Nat /\ r.target <= Video!MaxTarget
  BY TargetBounds DEF RateInRange, RateRecords
<1>2. LowestRate \in Nat /\ LowestRate >= 1
  BY TargetBounds, ControllerAssumption
<1>3. b \in 1 .. Video!MaxTarget
  BY <1>1, <1>2
<1> QED
  BY <1>3 DEF RateInRange, RateRecords

(* Every step of the main thread keeps the bitrate in its range.           *)
LEMMA SetTargetKeepsRange ==
    ASSUME RateInRange(rate), NEW t \in Targets, Video!SetTarget(t)
    PROVE  RateInRange(rate')
<1>1. /\ t \in Nat /\ LowestRate \in Nat /\ LowestRate <= t /\ t <= Video!MaxTarget
      /\ Video!MaxTarget \in Nat /\ rate \in RateRecords /\ rate.adapted \in Nat
      /\ rate.adapted >= LowestRate /\ t \in 1 .. Video!MaxTarget
  BY TargetBounds, ControllerAssumption DEF RateInRange, RateRecords
<1>2. CASE rate.adapted > t
  <2> DEFINE q == [rate EXCEPT !.target = t, !.adapted = t]
  <2>1. q \in RateRecords /\ q.target = t /\ q.adapted = t /\ q.floor = rate.floor
    BY <1>1 DEF RateRecords
  <2>2. rate' = Video!ForcePublished(q)
    BY <1>2 DEF Video!SetTarget
  <2> HIDE DEF q
  <2>3. RateInRange(q)
    BY <1>1, <2>1 DEF RateInRange
  <2> QED
    BY <2>2, <2>3, PublishKeepsRange
<1>3. CASE ~(rate.adapted > t)
  <2> DEFINE q == [rate EXCEPT !.target = t]
  <2>1. q \in RateRecords /\ q.target = t /\ q.adapted = rate.adapted /\ q.floor = rate.floor
    BY <1>1 DEF RateRecords
  <2>2. rate' = q
    BY <1>3 DEF Video!SetTarget
  <2> HIDE DEF q
  <2>3. RateInRange(q)
    BY <1>1, <1>3, <2>1 DEF RateInRange
  <2> QED
    BY <2>2, <2>3
<1> QED
  BY <1>2, <1>3

LEMMA WindowKeepsRange ==
    ASSUME RateInRange(rate),
           Video!CloseCongested \/ Video!CloseClean \/ Video!Tick \/ Video!WindowElapses
    PROVE  RateInRange(rate')
<1>1. /\ rate \in RateRecords /\ rate.target \in Nat /\ rate.floor \in Nat /\ rate.adapted \in Nat
      /\ LowestRate \in Nat /\ LowestRate <= rate.floor /\ LowestRate <= rate.target
      /\ LowestRate <= rate.adapted /\ rate.adapted <= rate.target
  <2>1. LowestRate \in Nat
    BY TargetBounds, ControllerAssumption
  <2>2. rate.target \in Nat /\ LowestRate <= rate.target
    BY TargetBounds DEF RateInRange, RateRecords
  <2> QED
    BY <2>1, <2>2, ControllerAssumption DEF RateInRange, RateRecords
<1>2. Video!FloorOf(rate) \in Nat /\ Video!FloorOf(rate) >= LowestRate
  BY <1>1 DEF Video!FloorOf, Video!Lowest
<1>3. CASE Video!CloseCongested
  <2>1. CASE rate' = Video!Published(rate)
    BY <2>1, PublishKeepsRange
  <2>2. CASE rate' # Video!Published(rate)
    <3>1. PICK m \in 0 .. Video!Scale(rate.adapted, 85) :
             rate' = Video!Published([rate EXCEPT !.adapted =
                       Video!Lowest(rate.adapted, Video!Highest(Video!FloorOf(rate), m))])
      BY <1>3, <2>2 DEF Video!CloseCongested
    <3> DEFINE b == Video!Lowest(rate.adapted, Video!Highest(Video!FloorOf(rate), m))
    <3>2. b \in LowestRate .. rate.target
      BY <1>1, <1>2 DEF Video!Lowest, Video!Highest
    <3> HIDE DEF b
    <3>3. RateInRange([rate EXCEPT !.adapted = b])
      BY <3>2, AdaptedKeepsRange
    <3> QED
      BY <3>1, <3>3, PublishKeepsRange DEF b
  <2> QED
    BY <2>1, <2>2
<1>4. CASE Video!CloseClean
  <2>1. CASE rate' = Video!Published(rate)
    BY <2>1, PublishKeepsRange
  <2>2. CASE rate' # Video!Published(rate)
    <3> DEFINE b == Video!Lowest(rate.target,
                      Video!Highest(Video!Scale(rate.adapted, 110), rate.adapted + 1))
    <3>1. rate' = Video!Published([rate EXCEPT !.adapted = b])
      BY <1>4, <2>2 DEF Video!CloseClean
    <3>2. b \in LowestRate .. rate.target
      <4>1. Video!Scale(rate.adapted, 110) \in Nat
        BY <1>1 DEF Video!Scale
      <4> QED
        BY <1>1, <4>1 DEF Video!Lowest, Video!Highest
    <3> HIDE DEF b
    <3>3. RateInRange([rate EXCEPT !.adapted = b])
      BY <3>2, AdaptedKeepsRange
    <3> QED
      BY <3>1, <3>3, PublishKeepsRange
  <2> QED
    BY <2>1, <2>2
<1>5. CASE Video!Tick
  BY <1>5, PublishKeepsRange DEF Video!Tick
<1>6. CASE Video!WindowElapses
  <2>1. rate' = [rate EXCEPT !.recent = FALSE]
    BY <1>6 DEF Video!WindowElapses
  <2> QED
    BY <2>1 DEF RateInRange, RateRecords
<1> QED
  BY <1>3, <1>4, <1>5, <1>6

LEMMA RateStep ==
    ASSUME RateInRange(rate), Video!Next
    PROVE  RateInRange(rate')
<1>1. ASSUME NEW t \in Targets, Video!StartShare(t) PROVE RateInRange(rate')
  BY <1>1, ResetKeepsRange DEF Video!StartShare
<1>2. ASSUME NEW t \in Targets, Video!SetTarget(t) PROVE RateInRange(rate')
  BY <1>2, SetTargetKeepsRange
<1>3. CASE Video!CloseCongested \/ Video!CloseClean \/ Video!Tick \/ Video!WindowElapses
  BY <1>3, WindowKeepsRange
<1>4. CASE Video!TakeBitrate
  <2>1. rate' = [rate EXCEPT !.pending = 0] /\ 0 \in 0 .. Video!MaxTarget
    BY <1>4, TargetBounds DEF Video!TakeBitrate
  <2> QED
    BY <2>1 DEF RateInRange, RateRecords
<1>5. CASE Video!CleanupReset
  <2>1. rate.target \in Targets /\ rate.floor \in LowestRate .. MinBitrate
    BY TargetBounds DEF RateInRange, RateRecords
  <2> QED
    BY <1>5, <2>1, ResetKeepsRange DEF Video!CleanupReset
<1>6. ASSUME NEW s \in Video!Sizes, Video!Charge(s) \/ Video!SendComplete(s)
      PROVE  RateInRange(rate')
  BY <1>6 DEF Video!Charge, Video!SendComplete
<1>7. CASE \/ Video!StopShare \/ Video!AdmitFrame \/ Video!RefuseFrame \/ Video!CreateEncoder
           \/ Video!NothingToSend \/ Video!SendFrame \/ Video!SendFails \/ Video!Refund
           \/ Video!RefundClamp \/ Video!RecordFailure \/ Video!ConnectionLost
           \/ Video!CleanupClear \/ Video!CleanupJoin \/ Video!Reconnected
  <2>1. UNCHANGED rate
    BY <1>7 DEF Video!StopShare, Video!AdmitFrame, Video!RefuseFrame, Video!CreateEncoder,
         Video!NothingToSend, Video!SendFrame, Video!SendFails, Video!Refund,
         Video!RefundClamp, Video!RecordFailure, Video!ConnectionLost,
         Video!CleanupClear, Video!CleanupJoin, Video!Reconnected
  <2> QED
    BY <2>1
<1> QED
  BY <1>1, <1>2, <1>3, <1>4, <1>5, <1>6, <1>7 DEF Video!Next

-----------------------------------------------------------------------------
(* Types of the rest.                                                      *)
WindowRecords == [over : BOOLEAN, lost : BOOLEAN, refused : BOOLEAN,
                  congested : 0 .. CongestedWindows - 1, clean : 0 .. CleanWindows - 1]
EncodeRecords ==
    [pc : {"off", "idle", "create", "configure", "charge", "send", "refund", "clamp", "failed"},
     size : Video!Sizes, after : Int, bitrate : 0 .. Video!MaxTarget]

LEMMA WindowStep ==
    ASSUME Video!ControllerTypeOK, Video!Next
    PROVE  window' \in WindowRecords
<1>1. window \in WindowRecords
  BY DEF Video!ControllerTypeOK, WindowRecords
<1>2. Video!FreshWindow \in WindowRecords
  BY ControllerAssumption DEF Video!FreshWindow, WindowRecords
<1>3. UNCHANGED window => window' \in WindowRecords
  BY <1>1
<1>4. ASSUME NEW t \in Targets, Video!StartShare(t) \/ Video!SetTarget(t)
      PROVE  window' \in WindowRecords
  BY <1>2, <1>3, <1>4 DEF Video!StartShare, Video!SetTarget
<1>5. CASE Video!CloseCongested
  <2>1. CASE window.congested + 1 < CongestedWindows
    <3>1. window.congested + 1 \in 0 .. CongestedWindows - 1
      BY <1>1, <2>1, ControllerAssumption DEF WindowRecords
    <3>2. window' = [Video!FreshWindow EXCEPT !.congested = window.congested + 1]
      BY <1>5, <2>1 DEF Video!CloseCongested
    <3> QED
      BY <1>2, <3>1, <3>2 DEF WindowRecords
  <2>2. CASE ~(window.congested + 1 < CongestedWindows)
    BY <1>2, <1>5, <2>2 DEF Video!CloseCongested
  <2> QED
    BY <2>1, <2>2
<1>6. CASE Video!CloseClean
  <2>1. CASE window.clean + 1 < CleanWindows
    <3>1. window.clean + 1 \in 0 .. CleanWindows - 1
      BY <1>1, <2>1, ControllerAssumption DEF WindowRecords
    <3>2. window' = [Video!FreshWindow EXCEPT !.clean = window.clean + 1]
      BY <1>6, <2>1 DEF Video!CloseClean
    <3> QED
      BY <1>2, <3>1, <3>2 DEF WindowRecords
  <2>2. CASE ~(window.clean + 1 < CleanWindows)
    BY <1>2, <1>6, <2>2 DEF Video!CloseClean
  <2> QED
    BY <2>1, <2>2
<1>7. CASE Video!WindowElapses \/ Video!RefuseFrame \/ Video!RecordFailure
  BY <1>1, <1>7 DEF Video!WindowElapses, Video!RefuseFrame, Video!RecordFailure, WindowRecords
<1>8. CASE Video!CleanupReset
  BY <1>2, <1>8 DEF Video!CleanupReset
<1>9. ASSUME NEW s \in Video!Sizes, Video!Charge(s) \/ Video!SendComplete(s)
      PROVE  window' \in WindowRecords
  BY <1>3, <1>9 DEF Video!Charge, Video!SendComplete
<1>10. CASE \/ Video!StopShare \/ Video!Tick \/ Video!AdmitFrame \/ Video!CreateEncoder
            \/ Video!TakeBitrate \/ Video!NothingToSend \/ Video!SendFrame \/ Video!SendFails
            \/ Video!Refund \/ Video!RefundClamp \/ Video!ConnectionLost
            \/ Video!CleanupClear \/ Video!CleanupJoin \/ Video!Reconnected
  <2>1. UNCHANGED window
    BY <1>10 DEF Video!StopShare, Video!Tick, Video!AdmitFrame, Video!CreateEncoder,
         Video!TakeBitrate, Video!NothingToSend, Video!SendFrame, Video!SendFails,
         Video!Refund, Video!RefundClamp, Video!ConnectionLost,
         Video!CleanupClear, Video!CleanupJoin, Video!Reconnected
  <2> QED
    BY <1>3, <2>1
<1> QED
  BY <1>4, <1>5, <1>6, <1>7, <1>8, <1>9, <1>10 DEF Video!Next

LEMMA PutBack ==
    ASSUME NEW e \in EncodeRecords, NEW a \in Int
    PROVE  /\ [e EXCEPT !.pc = "clamp", !.after = a] \in EncodeRecords
           /\ [e EXCEPT !.pc = "failed", !.after = a] \in EncodeRecords
BY DEF EncodeRecords

LEMMA EncodeStep ==
    ASSUME Video!ControllerTypeOK, Video!Next
    PROVE  encode' \in EncodeRecords /\ outstanding' \in Int
<1>1. /\ encode \in EncodeRecords /\ outstanding \in Int /\ rate.adapted \in 0 .. Video!MaxTarget
      /\ rate.pending \in 0 .. Video!MaxTarget /\ 0 \in 0 .. Video!MaxTarget
      /\ Video!Sizes \subseteq Nat /\ encode.size \in Nat
  <2>1. encode \in EncodeRecords /\ outstanding \in Int
    BY DEF Video!ControllerTypeOK, EncodeRecords
  <2>2. rate.adapted \in 1 .. Video!MaxTarget /\ rate.pending \in 0 .. Video!MaxTarget
    BY DEF Video!ControllerTypeOK
  <2>3. Video!Sizes \subseteq Nat
    BY ControllerAssumption DEF Video!Sizes
  <2>4. Video!MaxTarget \in Nat
    BY TargetBounds
  <2>5. encode.size \in Video!Sizes
    BY <2>1 DEF EncodeRecords
  <2>6. rate.adapted \in 0 .. Video!MaxTarget /\ 0 \in 0 .. Video!MaxTarget
    BY <2>2, <2>4
  <2>7. encode.size \in Nat
    BY <2>3, <2>5
  <2> QED
    BY <2>1, <2>2, <2>3, <2>6, <2>7
<1> DEFINE Goal == encode' \in EncodeRecords /\ outstanding' \in Int
<1>2. UNCHANGED <<encode, outstanding>> => Goal
  BY <1>1
<1>3. ASSUME NEW t \in Targets, Video!StartShare(t) \/ Video!SetTarget(t) PROVE Goal
  BY <1>1, <1>3 DEF Video!StartShare, Video!SetTarget, EncodeRecords
<1>4. ASSUME NEW s \in Video!Sizes, Video!Charge(s) \/ Video!SendComplete(s) PROVE Goal
  <2>1. CASE Video!Charge(s)
    <3>1. outstanding' \in Int
      BY <1>1, <2>1 DEF Video!Charge
    <3>2. encode' = [encode EXCEPT !.pc = "send", !.size = s]
      BY <2>1 DEF Video!Charge
    <3> QED
      BY <1>1, <3>1, <3>2 DEF EncodeRecords
  <2>2. CASE Video!SendComplete(s)
    BY <1>1, <2>2 DEF Video!SendComplete, Video!Highest
  <2> QED
    BY <1>4, <2>1, <2>2
<1>5. CASE Video!StopShare \/ Video!AdmitFrame \/ Video!NothingToSend \/ Video!SendFrame
  BY <1>1, <1>5 DEF Video!StopShare, Video!AdmitFrame, Video!NothingToSend, Video!SendFrame,
     EncodeRecords
<1>6. CASE Video!SendFails \/ Video!RecordFailure \/ Video!CleanupJoin
  BY <1>1, <1>6 DEF Video!SendFails, Video!RecordFailure, Video!CleanupJoin, EncodeRecords
<1>7. CASE Video!CreateEncoder
  <2>1. CASE encode' = [encode EXCEPT !.pc = "configure", !.bitrate = rate.adapted]
    BY <1>1, <1>7, <2>1 DEF Video!CreateEncoder, EncodeRecords
  <2>2. CASE encode' = [encode EXCEPT !.pc = "configure"]
    BY <1>1, <1>7, <2>2 DEF Video!CreateEncoder, EncodeRecords
  <2> QED
    BY <1>7, <2>1, <2>2 DEF Video!CreateEncoder
<1>8. CASE Video!TakeBitrate
  <2>1. PICK b \in 0 .. Video!MaxTarget : encode' = [encode EXCEPT !.pc = "charge", !.bitrate = b]
    <3>1. encode.bitrate \in 0 .. Video!MaxTarget
      BY <1>1 DEF EncodeRecords
    <3> QED
      BY <1>1, <1>8, <3>1 DEF Video!TakeBitrate
  <2> QED
    BY <1>1, <1>8, <2>1 DEF Video!TakeBitrate, EncodeRecords
<1>9. CASE Video!Refund
  <2>1. outstanding' \in Int
    BY <1>1, <1>9 DEF Video!Refund
  <2>2. CASE outstanding' < 0
    <3>1. encode' = [encode EXCEPT !.pc = "clamp", !.after = outstanding']
      BY <1>9, <2>2 DEF Video!Refund
    <3> QED
      BY <1>1, <2>1, <3>1, PutBack
  <2>3. CASE ~(outstanding' < 0)
    <3>1. encode' = [encode EXCEPT !.pc = "failed", !.after = 0]
      BY <1>9, <2>3 DEF Video!Refund
    <3>2. 0 \in Int
      OBVIOUS
    <3> QED
      BY <1>1, <2>1, <3>1, <3>2, PutBack
  <2> QED
    BY <2>2, <2>3
<1>10. CASE Video!RefundClamp
  <2>1. \/ encode' = [encode EXCEPT !.pc = "failed", !.after = 0]
        \/ encode' = [encode EXCEPT !.after = outstanding]
    BY <1>10 DEF Video!RefundClamp
  <2>2. outstanding' \in Int
    BY <1>1, <1>10 DEF Video!RefundClamp
  <2>3. [encode EXCEPT !.pc = "failed", !.after = 0] \in EncodeRecords
    <3>1. 0 \in Int
      OBVIOUS
    <3> QED
      BY <1>1, <3>1, PutBack
  <2>4. [encode EXCEPT !.after = outstanding] \in EncodeRecords
    BY <1>1 DEF EncodeRecords
  <2> QED
    BY <2>1, <2>2, <2>3, <2>4
<1>11. CASE Video!CleanupClear
  BY <1>1, <1>11 DEF Video!CleanupClear
<1>12. CASE \/ Video!WindowElapses \/ Video!Tick \/ Video!CloseCongested \/ Video!CloseClean
            \/ Video!RefuseFrame \/ Video!ConnectionLost \/ Video!CleanupReset
            \/ Video!Reconnected
  <2>1. UNCHANGED <<encode, outstanding>>
    BY <1>12 DEF Video!WindowElapses, Video!Tick, Video!CloseCongested, Video!CloseClean,
       Video!RefuseFrame, Video!ConnectionLost, Video!CleanupReset, Video!Reconnected
  <2> QED
    BY <1>2, <2>1
<1> QED
  BY <1>3, <1>4, <1>5, <1>6, <1>7, <1>8, <1>9, <1>10, <1>11, <1>12 DEF Video!Next

LEMMA TransportStep ==
    ASSUME Video!ControllerTypeOK, Video!Next
    PROVE  /\ inflight' \in [Video!Sizes -> Nat]
           /\ net' \in [connected : BOOLEAN, authenticated : BOOLEAN]
           /\ cleanup' \in {"idle", "clear", "join"}
<1>1. /\ inflight \in [Video!Sizes -> Nat] /\ encode.size \in Video!Sizes
      /\ net \in [connected : BOOLEAN, authenticated : BOOLEAN]
      /\ cleanup \in {"idle", "clear", "join"}
  BY DEF Video!ControllerTypeOK
<1>2. inflight' \in [Video!Sizes -> Nat]
  <2>1. CASE Video!SendFrame
    BY <1>1, <2>1 DEF Video!SendFrame
  <2>2. ASSUME NEW s \in Video!Sizes, Video!SendComplete(s)
        PROVE  inflight' \in [Video!Sizes -> Nat]
    BY <1>1, <2>2 DEF Video!SendComplete
  <2>3. CASE UNCHANGED inflight
    BY <1>1, <2>3
  <2> QED
    BY <2>1, <2>2, <2>3 DEF Video!Next, Video!StartShare, Video!SetTarget, Video!StopShare,
       Video!WindowElapses, Video!Tick, Video!CloseCongested, Video!CloseClean,
       Video!AdmitFrame, Video!RefuseFrame, Video!CreateEncoder, Video!TakeBitrate,
       Video!NothingToSend, Video!Charge, Video!SendFails, Video!Refund, Video!RefundClamp,
       Video!RecordFailure, Video!ConnectionLost, Video!CleanupReset, Video!CleanupClear,
       Video!CleanupJoin, Video!Reconnected
<1>3. net' \in [connected : BOOLEAN, authenticated : BOOLEAN]
  <2>1. CASE Video!ConnectionLost \/ Video!CleanupReset \/ Video!Reconnected
    <3>1. CASE Video!ConnectionLost
      BY <1>1, <3>1 DEF Video!ConnectionLost
    <3>2. CASE Video!CleanupReset
      BY <1>1, <3>2 DEF Video!CleanupReset
    <3>3. CASE Video!Reconnected
      BY <3>3 DEF Video!Reconnected
    <3> QED
      BY <2>1, <3>1, <3>2, <3>3
  <2>2. CASE UNCHANGED net
    BY <1>1, <2>2
  <2> QED
    BY <2>1, <2>2 DEF Video!Next, Video!StartShare, Video!SetTarget, Video!StopShare,
       Video!WindowElapses, Video!Tick, Video!CloseCongested, Video!CloseClean,
       Video!AdmitFrame, Video!RefuseFrame, Video!CreateEncoder, Video!TakeBitrate,
       Video!NothingToSend, Video!Charge, Video!SendComplete, Video!SendFrame,
       Video!SendFails, Video!Refund, Video!RefundClamp, Video!RecordFailure,
       Video!CleanupClear, Video!CleanupJoin
<1>4. cleanup' \in {"idle", "clear", "join"}
  <2>1. CASE Video!CleanupReset \/ Video!CleanupClear \/ Video!CleanupJoin
    BY <2>1 DEF Video!CleanupReset, Video!CleanupClear, Video!CleanupJoin
  <2>2. CASE UNCHANGED cleanup
    BY <1>1, <2>2
  <2> QED
    BY <2>1, <2>2 DEF Video!Next, Video!StartShare, Video!SetTarget, Video!StopShare,
       Video!WindowElapses, Video!Tick, Video!CloseCongested, Video!CloseClean,
       Video!AdmitFrame, Video!RefuseFrame, Video!CreateEncoder, Video!TakeBitrate,
       Video!NothingToSend, Video!Charge, Video!SendComplete, Video!SendFrame,
       Video!SendFails, Video!Refund, Video!RefundClamp, Video!RecordFailure,
       Video!ConnectionLost, Video!Reconnected
<1> QED
  BY <1>2, <1>3, <1>4

-----------------------------------------------------------------------------
(* The balance.                                                            *)
LEMMA BalanceStep ==
    ASSUME ControllerInv, Video!Next
    PROVE  Balance'
<1> DEFINE L == Video!InFlightBytes
           M == Video!InFlightBytes'
           Quiet == {"off", "idle", "create", "configure", "charge", "failed"}
<1>1. /\ encode \in EncodeRecords /\ outstanding \in Int /\ inflight \in [Video!Sizes -> Nat]
      /\ net \in [connected : BOOLEAN, authenticated : BOOLEAN] /\ Balance
      /\ cleanup \in {"idle", "clear", "join"}
  BY DEF ControllerInv, Video!ControllerTypeOK, EncodeRecords
<1>2. /\ encode.size \in Nat \ {0} /\ encode.size \in Video!Sizes /\ encode.after \in Int
      /\ encode.pc \in Quiet \cup {"send", "refund", "clamp"}
  <2>1. /\ encode.size \in Video!Sizes /\ encode.after \in Int
        /\ encode.pc \in Quiet \cup {"send", "refund", "clamp"}
    BY <1>1 DEF EncodeRecords
  <2> QED
    BY <1>1, <2>1, LoadIs
<1>3. L \in Nat /\ L = Load(inflight) /\ M = Load(inflight')
  BY <1>1, LoadIs, InFlightIsLoad
<1>4. inflight' = inflight => M = L
  BY <1>3
<1>5. (\A s \in Video!Sizes : inflight[s] = 0) => L = 0
  BY <1>1, <1>3, NoLoad
<1> HIDE DEF L, M
<1>6. Balance' <=> /\ cleanup' # "idle" => ~net'.connected /\ \A s \in Video!Sizes : inflight'[s] = 0
                   /\ cleanup' # "join" => encode'.pc # "clamp" /\ outstanding' = M + Held'
                   /\ cleanup' = "join" => outstanding' = IF encode'.pc = "clamp" THEN encode'.after ELSE 0
  BY DEF Balance, M, Video!Sizes
<1>7. Balance <=> /\ cleanup # "idle" => ~net.connected /\ \A s \in Video!Sizes : inflight[s] = 0
                  /\ cleanup # "join" => encode.pc # "clamp" /\ outstanding = L + Held
                  /\ cleanup = "join" => outstanding = IF encode.pc = "clamp" THEN encode.after ELSE 0
  BY DEF Balance, L
<1>8. ASSUME UNCHANGED <<encode, outstanding, inflight, net, cleanup>> PROVE Balance'
  BY <1>1, <1>4, <1>6, <1>7, <1>8 DEF Held
<1>9. ASSUME UNCHANGED <<outstanding, inflight, net, cleanup>>,
             encode.pc \in Quiet, encode'.pc \in Quiet
      PROVE  Balance'
  BY <1>1, <1>4, <1>6, <1>7, <1>9 DEF Held
<1>10. ASSUME NEW t \in Targets, Video!StartShare(t) \/ Video!SetTarget(t) PROVE Balance'
  <2>1. CASE Video!SetTarget(t)
    BY <1>8, <2>1 DEF Video!SetTarget
  <2>2. CASE Video!StartShare(t)
    <3>1. encode.pc = "off" /\ encode'.pc = "idle" /\ UNCHANGED <<outstanding, inflight, net, cleanup>>
      BY <1>1, <2>2 DEF Video!StartShare, EncodeRecords
    <3> QED
      BY <1>9, <3>1
  <2> QED
    BY <1>10, <2>1, <2>2
<1>11. CASE \/ Video!WindowElapses \/ Video!Tick \/ Video!CloseCongested \/ Video!CloseClean
            \/ Video!RefuseFrame
  BY <1>8, <1>11 DEF Video!WindowElapses, Video!Tick, Video!CloseCongested, Video!CloseClean,
     Video!RefuseFrame
<1>12. CASE \/ Video!StopShare \/ Video!AdmitFrame \/ Video!CreateEncoder \/ Video!TakeBitrate
            \/ Video!NothingToSend \/ Video!RecordFailure
  <2>1. encode.pc \in Quiet /\ UNCHANGED <<outstanding, inflight, net, cleanup>>
    BY <1>12 DEF Video!StopShare, Video!AdmitFrame, Video!CreateEncoder, Video!TakeBitrate,
       Video!NothingToSend, Video!RecordFailure
  <2>2. encode'.pc \in Quiet
    BY <1>1, <1>12 DEF Video!StopShare, Video!AdmitFrame, Video!CreateEncoder,
       Video!TakeBitrate, Video!NothingToSend, Video!RecordFailure, EncodeRecords
  <2> QED
    BY <1>9, <2>1, <2>2
<1>13. ASSUME NEW s \in Video!Sizes, Video!Charge(s) PROVE Balance'
  <2>1. /\ encode.pc = "charge" /\ net.connected /\ outstanding' = outstanding + s
        /\ UNCHANGED <<inflight, net, cleanup>>
    BY <1>13 DEF Video!Charge
  <2>2. encode'.pc = "send" /\ encode'.size = s
    BY <1>1, <1>13 DEF Video!Charge, EncodeRecords
  <2>3. cleanup = "idle" /\ outstanding = L
    BY <1>1, <1>3, <1>7, <2>1 DEF Held
  <2>4. Held' = s
    BY <2>2 DEF Held
  <2> QED
    BY <1>1, <1>4, <1>6, <2>1, <2>2, <2>3, <2>4
<1>14. ASSUME NEW s \in Video!Sizes, Video!SendComplete(s) PROVE Balance'
  <2>1. /\ inflight[s] > 0 /\ inflight' = [inflight EXCEPT ![s] = @ - 1]
        /\ outstanding' = Video!Highest(0, outstanding - s)
        /\ UNCHANGED <<encode, net, cleanup>>
    BY <1>14 DEF Video!SendComplete
  <2>2. cleanup = "idle" /\ outstanding = L + Held
    BY <1>1, <1>7, <2>1
  <2>3. s \in Nat \ {0} /\ Held \in Nat
    BY <1>1, <1>2, LoadIs DEF Held
  <2>4. M = L - s
    <3>1. inflight[s] \in Nat /\ inflight[s] + (-1) \in Nat
      BY <1>1, <2>1
    <3>2. inflight' = [inflight EXCEPT ![s] = @ + (-1)]
      BY <1>1, <2>1
    <3>3. Load(inflight') = Load(inflight) + s * (-1)
      BY <1>1, <3>1, <3>2, LoadChange
    <3> QED
      BY <1>3, <2>3, <3>3
  <2>5. M \in Nat
    <3>1. inflight' \in [Video!Sizes -> Nat]
      BY <1>1, <2>1
    <3> QED
      BY <1>3, <3>1, LoadIs
  <2>6. outstanding' = M + Held /\ Held' = Held
    BY <1>3, <2>1, <2>2, <2>3, <2>4, <2>5 DEF Video!Highest, Held
  <2> QED
    BY <1>6, <1>7, <2>1, <2>2, <2>6, <1>1
<1>15. CASE Video!SendFrame
  <2> DEFINE s == encode.size
  <2>1. /\ encode.pc = "send" /\ net.connected /\ inflight' = [inflight EXCEPT ![s] = @ + 1]
        /\ UNCHANGED <<outstanding, net, cleanup>>
    BY <1>15 DEF Video!SendFrame
  <2>2. encode'.pc = "idle"
    BY <1>1, <1>15 DEF Video!SendFrame, EncodeRecords
  <2>3. cleanup = "idle" /\ outstanding = L + s
    BY <1>1, <1>7, <2>1 DEF Held
  <2> HIDE DEF s
  <2>4. s \in Video!Sizes /\ s \in Nat
    BY <1>2 DEF s
  <2>5. M = L + s
    <3>1. inflight[s] + 1 \in Nat
      BY <1>1, <2>4
    <3>2. Load(inflight') = Load(inflight) + s * 1
      BY <1>1, <2>1, <2>4, <3>1, LoadChange
    <3> QED
      BY <1>3, <2>4, <3>2
  <2>6. Held' = 0
    BY <2>2 DEF Held
  <2> QED
    BY <1>1, <1>3, <1>6, <2>1, <2>2, <2>3, <2>4, <2>5, <2>6
<1>16. CASE Video!SendFails
  <2>1. encode.pc = "send" /\ UNCHANGED <<outstanding, inflight, net, cleanup>>
    BY <1>16 DEF Video!SendFails
  <2>2. encode'.pc = "refund" /\ encode'.size = encode.size
    BY <1>1, <1>16 DEF Video!SendFails, EncodeRecords
  <2> QED
    BY <1>1, <1>4, <1>6, <1>7, <2>1, <2>2 DEF Held
<1>17. CASE Video!Refund
  <2>1. /\ encode.pc = "refund" /\ outstanding' = outstanding - encode.size
        /\ UNCHANGED <<inflight, net, cleanup>>
    BY <1>17 DEF Video!Refund
  <2>2. CASE outstanding' < 0
    <3>1. encode'.pc = "clamp" /\ encode'.after = outstanding'
      BY <1>1, <1>17, <2>2 DEF Video!Refund, EncodeRecords
    <3>2. cleanup = "join"
      BY <1>1, <1>2, <1>3, <1>7, <2>1, <2>2 DEF Held
    <3> QED
      BY <1>1, <1>6, <1>7, <2>1, <3>1, <3>2
  <2>3. CASE ~(outstanding' < 0)
    <3>1. encode'.pc = "failed"
      BY <1>1, <1>17, <2>3 DEF Video!Refund, EncodeRecords
    <3>2. cleanup # "join"
      BY <1>1, <1>2, <1>7, <2>1, <2>3
    <3>3. outstanding' = M + Held'
      BY <1>1, <1>2, <1>3, <1>4, <1>7, <2>1, <3>1, <3>2 DEF Held
    <3> QED
      BY <1>1, <1>6, <1>7, <2>1, <3>1, <3>2, <3>3
  <2> QED
    BY <2>2, <2>3
<1>18. CASE Video!RefundClamp
  <2>1. encode.pc = "clamp" /\ UNCHANGED <<inflight, net, cleanup>>
    BY <1>18 DEF Video!RefundClamp
  <2>2. cleanup = "join" /\ outstanding = encode.after
    BY <1>1, <1>7, <2>1
  <2>3. outstanding' = 0 /\ encode'.pc = "failed"
    BY <1>1, <1>18, <2>2 DEF Video!RefundClamp, EncodeRecords
  <2> QED
    BY <1>6, <1>7, <2>1, <2>2, <2>3, <1>1
<1>19. CASE Video!ConnectionLost
  <2>1. net'.connected = FALSE /\ UNCHANGED <<outstanding, inflight, encode, cleanup>>
    BY <1>1, <1>19 DEF Video!ConnectionLost
  <2> QED
    BY <1>1, <1>4, <1>6, <1>7, <2>1 DEF Held
<1>20. CASE Video!Reconnected
  <2>1. cleanup = "idle" /\ UNCHANGED <<outstanding, inflight, encode, cleanup>>
    BY <1>20 DEF Video!Reconnected
  <2> QED
    BY <1>1, <1>4, <1>6, <1>7, <2>1 DEF Held
<1>21. CASE Video!CleanupReset
  <2>1. /\ cleanup = "idle" /\ cleanup' = "clear" /\ \A s \in Video!Sizes : inflight[s] = 0
        /\ UNCHANGED <<outstanding, inflight, encode>>
    BY <1>21 DEF Video!CleanupReset
  <2>2. ~net'.connected
    BY <1>1, <1>21 DEF Video!CleanupReset
  <2> QED
    BY <1>1, <1>4, <1>6, <1>7, <2>1, <2>2 DEF Held
<1>22. CASE Video!CleanupClear
  <2>1. /\ cleanup = "clear" /\ cleanup' = "join" /\ outstanding' = 0
        /\ UNCHANGED <<inflight, encode, net>>
    BY <1>22 DEF Video!CleanupClear
  <2> QED
    BY <1>1, <1>6, <1>7, <2>1
<1>23. CASE Video!CleanupJoin
  <2>1. /\ cleanup = "join" /\ cleanup' = "idle" /\ encode.pc \in {"off", "idle"}
        /\ UNCHANGED <<outstanding, inflight, net>>
    BY <1>23 DEF Video!CleanupJoin
  <2>2. encode'.pc = "off"
    BY <1>1, <1>23 DEF Video!CleanupJoin, EncodeRecords
  <2>3. outstanding = 0 /\ L = 0
    BY <1>1, <1>5, <1>7, <2>1
  <2> QED
    BY <1>4, <1>6, <2>1, <2>2, <2>3 DEF Held
<1> QED
  BY <1>10, <1>11, <1>12, <1>13, <1>14, <1>15, <1>16, <1>17, <1>18, <1>19, <1>20, <1>21, <1>22,
     <1>23 DEF Video!Next

-----------------------------------------------------------------------------
(* The invariant holds in every reachable state of the send controller.    *)
LEMMA ControllerInductive == Video!Spec => []ControllerInv
<1>1. ASSUME Video!Init PROVE ControllerInv
  <2>1. RateInRange(rate)
    BY <1>1, ResetKeepsRange DEF Video!Init
  <2>2. /\ window \in WindowRecords /\ encode \in EncodeRecords /\ encode.pc = "off"
    <3>1. Video!MaxTarget \in Nat /\ 1 \in Video!Sizes
      <4>1. Video!MaxTarget \in Nat
        BY TargetBounds
      <4> QED
        BY <4>1, ControllerAssumption DEF Video!Sizes
    <3> QED
      BY <1>1, <3>1, ControllerAssumption DEF Video!Init, Video!FreshWindow, Video!NoEncoder, WindowRecords,
         EncodeRecords
  <2>3. inflight \in [Video!Sizes -> Nat] /\ \A s \in Video!Sizes : inflight[s] = 0
    BY <1>1 DEF Video!Init
  <2>4. Video!ControllerTypeOK
    BY <1>1, <2>1, <2>2, <2>3 DEF Video!Init, Video!ControllerTypeOK, RateInRange, RateRecords,
       WindowRecords, EncodeRecords
  <2>5. Video!InFlightBytes = 0
    BY <1>1, <2>3, InFlightIsLoad, NoLoad
  <2>6. Balance
    BY <1>1, <2>2, <2>5 DEF Video!Init, Balance, Held
  <2> QED
    BY <2>1, <2>4, <2>6 DEF ControllerInv
<1>2. ASSUME ControllerInv, [Video!Next]_(Video!vars) PROVE ControllerInv'
  <2>1. CASE Video!Next
    <3>1. RateInRange(rate') /\ Balance' /\ RateInRange(rate)'
      BY <1>2, <2>1, RateStep, BalanceStep DEF ControllerInv, RateInRange, RateRecords, LowestRate,
         Video!MaxTarget, Video!MinTarget, Video!Lowest
    <3>2. Video!ControllerTypeOK'
      BY <1>2, <2>1, <3>1, WindowStep, EncodeStep, TransportStep DEF ControllerInv, Video!ControllerTypeOK,
         RateInRange, RateRecords, WindowRecords, EncodeRecords
    <3> QED
      BY <3>1, <3>2 DEF ControllerInv
  <2>2. CASE UNCHANGED Video!vars
    BY <1>2, <2>2 DEF ControllerInv, Video!vars, Video!ControllerTypeOK, RateInRange, RateRecords, LowestRate,
       Balance, Held, Video!InFlightBytes
  <2> QED
    BY <1>2, <2>1, <2>2
<1> QED
  BY <1>1, <1>2, PTL DEF Video!Spec

(* video_send_controller.cpp and its users: whenever no thread is in the   *)
(* middle of its accounting, outstanding_ is exactly what the transport    *)
(* holds, a completion never finds less than its bytes, and the bitrate    *)
(* stays between the lowest setting and the user's ceiling.                *)
THEOREM BytesOutAreExact == Video!Spec => []SendAccounting
<1>1. ASSUME ControllerInv PROVE SendAccounting
  <2>1. InFlightBytes \in Nat
    BY <1>1, InFlightIsLoad, LoadIs DEF ControllerInv, Video!ControllerTypeOK
  <2>2. (\A s \in Video!Sizes : inflight[s] = 0) => InFlightBytes = 0
    BY <1>1, InFlightIsLoad, NoLoad DEF ControllerInv, Video!ControllerTypeOK
  <2>3. Held \in Nat /\ (encode.pc \notin {"send", "refund"} => Held = 0)
    BY <1>1, LoadIs DEF Held, ControllerInv, Video!ControllerTypeOK
  <2>4. InFlightBytes = Video!InFlightBytes
    BY InFlightIsLoad
  <2>5. OutstandingExact
    BY <1>1, <2>1, <2>2, <2>3, <2>4 DEF ControllerInv, Balance, OutstandingExact
  <2>6. BitrateInRange
    BY <1>1 DEF ControllerInv, RateInRange, BitrateInRange, LowestRate, Lowest, MinTarget,
       Video!Lowest, Video!MinTarget
  <2>7. ControllerTypeOK
    BY <1>1 DEF ControllerInv, ControllerTypeOK, Sizes, MaxTarget, Video!ControllerTypeOK,
       Video!Sizes, Video!MaxTarget
  <2> QED
    BY <2>5, <2>6, <2>7 DEF SendAccounting
<1> QED
  BY <1>1, ControllerInductive, PTL
=============================================================================
