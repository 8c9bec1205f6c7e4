----------------------- MODULE VideoForwardingProofs -----------------------
(***************************************************************************)
(* Proofs about VideoForwarding, for any number of viewers, any budgets,   *)
(* frame sizes and backoff times: a viewer whose gate is open lacks no     *)
(* frame since its last keyframe, a keyframe never queues behind live      *)
(* video of its own share, and what a viewer is charged is exactly what is *)
(* queued toward it and stays within one frame of a budget.                *)
(***************************************************************************)
EXTENDS VideoForwarding, SumTheorems

-----------------------------------------------------------------------------
(* Sequences.                                                              *)

(* Removing the element at i moves the later ones up by one.               *)
LEMMA RemoveAtIs ==
    ASSUME NEW T, NEW q \in Seq(T), NEW i \in DOMAIN q
    PROVE  /\ RemoveAt(q, i) \in Seq(T)
           /\ Len(RemoveAt(q, i)) = Len(q) - 1
           /\ \A k \in DOMAIN RemoveAt(q, i) :
                 LET from == IF k < i THEN k ELSE k + 1
                 IN  from \in DOMAIN q /\ RemoveAt(q, i)[k] = q[from]
<1>1. i \in 1 .. Len(q) /\ Len(q) \in Nat
  OBVIOUS
<1> DEFINE a == SubSeq(q, 1, i - 1)
           b == SubSeq(q, i + 1, Len(q))
<1>2. a \in Seq(T) /\ Len(a) = i - 1 /\ \A k \in 1 .. (i - 1) : a[k] = q[k]
  BY <1>1
<1>3. b \in Seq(T) /\ Len(b) = Len(q) - i /\ \A k \in 1 .. (Len(q) - i) : b[k] = q[k + i]
  BY <1>1
<1>4. RemoveAt(q, i) = a \o b
  BY DEF RemoveAt
<1> HIDE DEF a, b
<1> QED
  BY <1>1, <1>2, <1>3, <1>4

(* A list whose elements are replaced in place stays one.                  *)
LEMMA Replaced ==
    ASSUME NEW T, NEW q \in Seq(T), NEW r, r = [i \in DOMAIN q |-> r[i]],
           \A i \in DOMAIN q : r[i] \in T
    PROVE  r \in Seq(T) /\ Len(r) = Len(q) /\ DOMAIN r = DOMAIN q
<1>1. r \in [1 .. Len(q) -> T]
  OBVIOUS
<1>2. r \in Seq(T) /\ DOMAIN r = 1 .. Len(q)
  BY <1>1
<1> QED
  BY <1>2

-----------------------------------------------------------------------------
(* Types of the helpers.                                                   *)
LEMMA GateTypes ==
    ASSUME NEW g \in Gate, NEW over \in BOOLEAN, NEW key \in BOOLEAN
    PROVE  /\ NewGate \in Gate
           /\ AfterAdmit(g, over, key) \in Gate
           /\ AfterRequest(g) \in Gate
           /\ MissedFrame(g) \in Gate
           /\ Subscribed(g) \in Gate
<1> USE ForwardingAssumption
<1>1. NewGate \in Gate
  BY DEF Gate, NewGate
<1>2. /\ g.awaiting \in BOOLEAN /\ g.wait \in 0 .. MaxBackoff /\ g.backoff \in 0 .. MaxBackoff
      /\ g.healthy \in 0 .. HealthyFrames
      /\ 0 \in 0 .. MaxBackoff /\ 0 \in 0 .. HealthyFrames
  BY DEF Gate
<1>3. AfterAdmit(g, over, key) \in Gate
  <2> DEFINE h == IF g.healthy < HealthyFrames THEN g.healthy + 1 ELSE g.healthy
  <2>1. h \in 0 .. HealthyFrames
    BY <1>2
  <2> DEFINE w == IF h = HealthyFrames THEN 0 ELSE g.wait
             b == IF h = HealthyFrames THEN 0 ELSE g.backoff
  <2>2. w \in 0 .. MaxBackoff /\ b \in 0 .. MaxBackoff
    BY <1>2
  <2>3. AfterAdmit(g, over, key) \in
          {[g EXCEPT !.awaiting = TRUE, !.healthy = 0], g,
           [awaiting |-> FALSE, healthy |-> h, wait |-> w, backoff |-> b]}
    BY DEF AfterAdmit
  <2> HIDE DEF h, w, b
  <2>4. [g EXCEPT !.awaiting = TRUE, !.healthy = 0] \in Gate
    BY <1>2 DEF Gate
  <2>5. [awaiting |-> FALSE, healthy |-> h, wait |-> w, backoff |-> b] \in Gate
    BY <2>1, <2>2 DEF Gate
  <2> QED
    BY <2>3, <2>4, <2>5
<1>4. AfterRequest(g) \in Gate
  <2> DEFINE s == IF g.backoff = 0 THEN FirstBackoff ELSE g.backoff
             b == IF 2 * s < MaxBackoff THEN 2 * s ELSE MaxBackoff
  <2>1. s \in 0 .. MaxBackoff /\ b \in 0 .. MaxBackoff
    BY <1>2
  <2>2. AfterRequest(g) = [g EXCEPT !.wait = s, !.backoff = b]
    BY DEF AfterRequest
  <2> HIDE DEF s, b
  <2> QED
    BY <2>1, <2>2 DEF Gate
<1>5. MissedFrame(g) \in Gate /\ Subscribed(g) \in Gate
  BY DEF MissedFrame, Subscribed, Gate
<1> QED
  BY <1>1, <1>3, <1>4, <1>5

LEMMA PliTypes ==
    ASSUME NEW p \in Pli
    PROVE  NewPli \in Pli /\ SentPli \in Pli /\ Defer(p) \in Pli /\ KeyframeSeen(p) \in Pli
<1>1. 0 \in 0 .. Cooldown /\ Cooldown \in 0 .. Cooldown
  BY ForwardingAssumption
<1> QED
  BY <1>1 DEF Pli, NewPli, SentPli, Defer, KeyframeSeen

LEMMA RequestTypes ==
    ASSUME NEW p \in Pli, NEW sh \in {"idle", "asked", "encoding"}, RequestKeyframe(p, sh)
    PROVE  pli' \in Pli /\ sharer' \in {"idle", "asked", "encoding"} /\ owed' \in BOOLEAN
BY PliTypes DEF RequestKeyframe, Ask

LEMMA FrameTypes ==
    /\ \A key \in BOOLEAN : NewFrame(key) \in Frames /\ Size(key) \in Nat \ {0}
    /\ \A f \in Frames : /\ f.charge \in Nat
                         /\ [f EXCEPT !.stage = "aborted"] \in Frames
                         /\ [f EXCEPT !.stage = "refused"] \in Frames
                         /\ [f EXCEPT !.earlier = TRUE] \in Frames
                         /\ [f EXCEPT !.charge = 0] \in Frames
<1>1. DeltaBytes \in Nat \ {0} /\ KeyBytes \in Nat \ {0}
  BY ForwardingAssumption
<1>2. \A key \in BOOLEAN : Size(key) \in {DeltaBytes, KeyBytes}
  BY DEF Size
<1>3. \A key \in BOOLEAN : NewFrame(key) \in Frames
  BY <1>2 DEF NewFrame, Frames
<1>4. ASSUME NEW f \in Frames
      PROVE  /\ f.charge \in Nat
             /\ [f EXCEPT !.stage = "aborted"] \in Frames
             /\ [f EXCEPT !.stage = "refused"] \in Frames
             /\ [f EXCEPT !.earlier = TRUE] \in Frames
             /\ [f EXCEPT !.charge = 0] \in Frames
  <2>1. f.charge \in {0, DeltaBytes, KeyBytes}
    BY DEF Frames
  <2>2. f.charge \in Nat
    BY <1>1, <2>1
  <2> QED
    BY <2>2 DEF Frames
<1> QED
  BY <1>1, <1>2, <1>3, <1>4
-----------------------------------------------------------------------------
(* What the frames queued toward a viewer are charged.                     *)
ChargeOf(q) == [i \in DOMAIN q |-> q[i].charge]

LEMMA ChargesIs ==
    ASSUME NEW q \in Seq(Frames)
    PROVE  /\ Charges(q) = SumFunctionOnSet(ChargeOf(q), 1 .. Len(q))
           /\ DOMAIN q = 1 .. Len(q) /\ Len(q) \in Nat /\ IsFiniteSet(1 .. Len(q))
           /\ \A i \in 1 .. Len(q) : ChargeOf(q)[i] = q[i].charge /\ q[i].charge \in Nat
           /\ \A i \in 1 .. Len(q) : ChargeOf(q)[i] \in Nat
           /\ \A i \in 1 .. Len(q) : ChargeOf(q)[i] \in Int
           /\ Charges(q) \in Int
<1>1. DOMAIN q = 1 .. Len(q) /\ Len(q) \in Nat
  OBVIOUS
<1>2. IsFiniteSet(1 .. Len(q))
  BY <1>1, Interval
<1>3. \A i \in 1 .. Len(q) : ChargeOf(q)[i] = q[i].charge /\ q[i].charge \in Nat
  <2>1. \A i \in 1 .. Len(q) : q[i] \in Frames
    BY <1>1
  <2>2. \A i \in 1 .. Len(q) : q[i].charge \in Nat
    BY <2>1, FrameTypes
  <2> QED
    BY <1>1, <2>2 DEF ChargeOf
<1>4. DOMAIN ChargeOf(q) = 1 .. Len(q)
  BY <1>1 DEF ChargeOf
<1>5. Charges(q) = SumFunctionOnSet(ChargeOf(q), DOMAIN ChargeOf(q))
  BY DEF Charges, SumFunction, ChargeOf
<1>6. \A i \in 1 .. Len(q) : ChargeOf(q)[i] \in Nat /\ ChargeOf(q)[i] \in Int
  BY <1>3
<1>7. SumFunctionOnSet(ChargeOf(q), 1 .. Len(q)) \in Int
  BY <1>2, <1>6, SumIsInt
<1> QED
  BY <1>1, <1>2, <1>3, <1>4, <1>5, <1>6, <1>7

LEMMA NothingCharged == Charges(<<>>) = 0
<1>1. <<>> \in Seq(Frames) /\ Len(<<>>) = 0 /\ 1 .. 0 = {}
  OBVIOUS
<1> QED
  BY <1>1, ChargesIs, SumEmpty

LEMMA SameCharges ==
    ASSUME NEW q \in Seq(Frames), NEW r \in Seq(Frames), DOMAIN r = DOMAIN q,
           \A i \in DOMAIN q : r[i].charge = q[i].charge
    PROVE  Charges(r) = Charges(q)
<1>1. Len(r) = Len(q)
  OBVIOUS
<1>2. \A i \in 1 .. Len(q) : ChargeOf(r)[i] = ChargeOf(q)[i]
  BY <1>1, ChargesIs
<1>3. SumFunctionOnSet(ChargeOf(r), 1 .. Len(q)) = SumFunctionOnSet(ChargeOf(q), 1 .. Len(q))
  BY <1>2, ChargesIs, SumSame
<1> QED
  BY <1>1, <1>3, ChargesIs

LEMMA OneChargeGone ==
    ASSUME NEW q \in Seq(Frames), NEW i \in DOMAIN q, NEW f \in Frames, f.charge = 0
    PROVE  Charges([q EXCEPT ![i] = f]) = Charges(q) - q[i].charge
<1> DEFINE r == [q EXCEPT ![i] = f]
<1>1. /\ r \in Seq(Frames) /\ Len(r) = Len(q) /\ i \in 1 .. Len(q)
      /\ r[i] = f /\ \A k \in (1 .. Len(q)) \ {i} : r[k] = q[k]
  OBVIOUS
<1> HIDE DEF r
<1>2. ChargeOf(r)[i] = 0 /\ ChargeOf(q)[i] = q[i].charge
  BY <1>1, ChargesIs
<1>3. \A k \in (1 .. Len(q)) \ {i} : ChargeOf(r)[k] = ChargeOf(q)[k]
  BY <1>1, ChargesIs
<1>4. SumFunctionOnSet(ChargeOf(r), 1 .. Len(q)) =
        SumFunctionOnSet(ChargeOf(q), 1 .. Len(q)) - ChargeOf(q)[i] + ChargeOf(r)[i]
  <2>1. IsFiniteSet(1 .. Len(q)) /\ \A k \in 1 .. Len(q) : ChargeOf(q)[k] \in Int
    BY ChargesIs
  <2>2. ChargeOf(r)[i] \in Int
    BY <1>2
  <2> DEFINE S == 1 .. Len(q)
             a == ChargeOf(q)
             b == ChargeOf(r)
  <2>3. /\ IsFiniteSet(S) /\ i \in S /\ b[i] \in Int
        /\ \A k \in S : a[k] \in Int
        /\ \A k \in S \ {i} : b[k] = a[k]
    BY <1>1, <1>3, <2>1, <2>2
  <2> HIDE DEF S, a, b
  <2>4. SumFunctionOnSet(b, S) = SumFunctionOnSet(a, S) - a[i] + b[i]
    BY <2>3, SumChange
  <2> QED
    BY <2>4 DEF S, a, b
<1>5. Charges(r) = Charges(q) - q[i].charge + 0
  BY <1>1, <1>2, <1>4, ChargesIs
<1>6. Charges(q) \in Int /\ q[i].charge \in Int
  BY <1>1, ChargesIs
<1> QED
  BY <1>5, <1>6 DEF r

LEMMA OneMoreCharge ==
    ASSUME NEW q \in Seq(Frames), NEW f \in Frames
    PROVE  Charges(Append(q, f)) = Charges(q) + f.charge
<1> DEFINE r == Append(q, f)
<1>1. /\ r \in Seq(Frames) /\ Len(r) = Len(q) + 1 /\ Len(q) \in Nat
      /\ r[Len(q) + 1] = f /\ \A k \in 1 .. Len(q) : r[k] = q[k]
  OBVIOUS
<1> HIDE DEF r
<1>2. ChargeOf(r)[Len(q) + 1] = f.charge /\ ChargeOf(r)[Len(q) + 1] \in Int
  BY <1>1, ChargesIs
<1>3. \A k \in 1 .. Len(q) : ChargeOf(q)[k] \in Int /\ ChargeOf(r)[k] = ChargeOf(q)[k]
  BY <1>1, ChargesIs
<1>4. SumFunctionOnSet(ChargeOf(r), 1 .. Len(q) + 1) =
        SumFunctionOnSet(ChargeOf(q), 1 .. Len(q)) + ChargeOf(r)[Len(q) + 1]
  BY <1>1, <1>2, <1>3, SumAppend
<1> QED
  BY <1>1, <1>2, <1>4, ChargesIs DEF r

LEMMA OneFrameGone ==
    ASSUME NEW q \in Seq(Frames), NEW i \in DOMAIN q
    PROVE  Charges(RemoveAt(q, i)) = Charges(q) - q[i].charge
<1> DEFINE r == RemoveAt(q, i)
           n == Len(r)
<1>1. /\ r \in Seq(Frames) /\ Len(r) = Len(q) - 1
      /\ \A k \in DOMAIN r : LET from == IF k < i THEN k ELSE k + 1
                             IN  from \in DOMAIN q /\ r[k] = q[from]
  BY RemoveAtIs
<1> HIDE DEF r
<1>2. /\ n \in Nat /\ Len(q) = n + 1 /\ i \in 1 .. n + 1
      /\ DOMAIN r = 1 .. n /\ DOMAIN q = 1 .. n + 1
  BY <1>1
<1> HIDE DEF n
<1>3. ASSUME NEW k \in 1 .. n
      PROVE  ChargeOf(r)[k] = IF k < i THEN ChargeOf(q)[k] ELSE ChargeOf(q)[k + 1]
  <2>1. k \in DOMAIN r /\ k \in DOMAIN q /\ k + 1 \in DOMAIN q
    BY <1>2
  <2> QED
    BY <1>1, <2>1 DEF ChargeOf
<1>4. \A k \in 1 .. n + 1 : ChargeOf(q)[k] \in Int
  BY <1>2, ChargesIs
<1>5. SumFunctionOnSet(ChargeOf(r), 1 .. n) =
        SumFunctionOnSet(ChargeOf(q), 1 .. n + 1) - ChargeOf(q)[i]
  BY <1>2, <1>3, <1>4, SumDelete
<1>6. /\ Charges(r) = SumFunctionOnSet(ChargeOf(r), 1 .. n)
      /\ Charges(q) = SumFunctionOnSet(ChargeOf(q), 1 .. n + 1)
      /\ ChargeOf(q)[i] = q[i].charge
  BY <1>1, <1>2, ChargesIs DEF n
<1> QED
  BY <1>5, <1>6 DEF r


-----------------------------------------------------------------------------
(* What is queued toward one viewer.                                       *)
Fresh(q) ==
    \A i, j \in DOMAIN q :
        i < j /\ q[j].key /\ ~q[i].earlier /\ ~q[j].earlier => q[i].stage # "open"

LEMMA EmptyIsFresh == <<>> \in Seq(Frames) /\ Fresh(<<>>)
BY DEF Fresh

LEMMA AbortQueue ==
    ASSUME NEW v, NEW q \in Seq(Frames), NEW spared \in BOOLEAN
    PROVE  LET r == AbortVideoFrames(v, q, spared)
           IN  /\ r \in Seq(Frames) /\ DOMAIN r = DOMAIN q
               /\ Fresh(q) => Fresh(r)
               /\ Charges(r) = Charges(q)
               /\ v \in FrameStreams =>
                    \A i \in DOMAIN r : r[i].earlier \/ r[i].stage # "open"
<1> DEFINE r == AbortVideoFrames(v, q, spared)
<1>1. \A i \in DOMAIN q : q[i] \in Frames
  OBVIOUS
<1>2. r = [i \in DOMAIN q |-> IF v \in FrameStreams /\ ~(spared /\ q[i].earlier)
                              THEN [q[i] EXCEPT !.stage = "aborted"] ELSE q[i]]
  BY DEF AbortVideoFrames
<1> HIDE DEF r
<1>3. \A i \in DOMAIN q : /\ r[i] \in Frames
                          /\ r[i].key = q[i].key /\ r[i].earlier = q[i].earlier
                          /\ r[i].charge = q[i].charge
                          /\ r[i].stage \in {q[i].stage, "aborted"}
                          /\ v \in FrameStreams => r[i].earlier \/ r[i].stage = "aborted"
  <2> SUFFICES ASSUME NEW i \in DOMAIN q
               PROVE  /\ r[i] \in Frames
                      /\ r[i].key = q[i].key /\ r[i].earlier = q[i].earlier
                      /\ r[i].charge = q[i].charge
                      /\ r[i].stage \in {q[i].stage, "aborted"}
                      /\ v \in FrameStreams => r[i].earlier \/ r[i].stage = "aborted"
    OBVIOUS
  <2> DEFINE f == q[i]
  <2>1. f \in Frames /\ r[i] = IF v \in FrameStreams /\ ~(spared /\ f.earlier)
                               THEN [f EXCEPT !.stage = "aborted"] ELSE f
    BY <1>1, <1>2
  <2> HIDE DEF f
  <2>2. /\ r[i] \in Frames /\ r[i].key = f.key /\ r[i].earlier = f.earlier
        /\ r[i].stage \in {f.stage, "aborted"} /\ r[i].charge = f.charge
        /\ v \in FrameStreams => r[i].earlier \/ r[i].stage = "aborted"
    BY <2>1 DEF Frames
  <2> QED
    BY <2>2 DEF f
<1>4. r = [i \in DOMAIN q |-> r[i]]
  BY <1>2
<1>5. r \in Seq(Frames) /\ DOMAIN r = DOMAIN q
  BY <1>3, <1>4, Replaced
<1>6. Fresh(q) => Fresh(r)
  BY <1>3, <1>5 DEF Fresh
<1>7. Charges(r) = Charges(q)
  BY <1>3, <1>5, SameCharges
<1> QED
  BY <1>3, <1>5, <1>6, <1>7 DEF r

LEMMA AppendQueueIs ==
    ASSUME NEW q \in Seq(Frames), NEW key \in BOOLEAN
    PROVE  /\ Append(q, NewFrame(key)) \in Seq(Frames)
           /\ Charges(Append(q, NewFrame(key))) = Charges(q) + Size(key)
           /\ Fresh(q) /\ (key => \A i \in DOMAIN q : q[i].earlier \/ q[i].stage # "open")
                => Fresh(Append(q, NewFrame(key)))
<1> DEFINE f == NewFrame(key)
           r == Append(q, f)
<1>1. f \in Frames /\ f.key = key /\ f.charge = Size(key)
  BY FrameTypes DEF NewFrame
<1> HIDE DEF f
<1>2. /\ r \in Seq(Frames) /\ DOMAIN r = 1 .. (Len(q) + 1) /\ DOMAIN q = 1 .. Len(q)
      /\ Len(q) \in Nat
      /\ \A i \in DOMAIN q : r[i] = q[i]
      /\ r[Len(q) + 1] = f
  BY <1>1
<1> HIDE DEF r
<1>3. ASSUME Fresh(q), key => \A i \in DOMAIN q : q[i].earlier \/ q[i].stage # "open"
      PROVE  Fresh(r)
  <2> SUFFICES ASSUME NEW i \in DOMAIN r, NEW j \in DOMAIN r, i < j, r[j].key,
                      ~r[i].earlier, ~r[j].earlier
               PROVE  r[i].stage # "open"
    BY DEF Fresh
  <2>1. i \in DOMAIN q
    BY <1>2
  <2>2. CASE j \in DOMAIN q
    BY <1>2, <1>3, <2>1, <2>2 DEF Fresh
  <2>3. CASE j = Len(q) + 1
    BY <1>1, <1>2, <1>3, <2>1, <2>3
  <2> QED
    BY <1>2, <2>2, <2>3
<1>4. Charges(r) = Charges(q) + Size(key)
  BY <1>1, OneMoreCharge DEF r
<1> QED
  BY <1>2, <1>3, <1>4 DEF r, f

LEMMA RemoveQueue ==
    ASSUME NEW q \in Seq(Frames), NEW i \in DOMAIN q
    PROVE  RemoveAt(q, i) \in Seq(Frames) /\ (Fresh(q) => Fresh(RemoveAt(q, i)))
<1> DEFINE r == RemoveAt(q, i)
<1>0. /\ r \in Seq(Frames)
      /\ \A k \in DOMAIN r : LET from == IF k < i THEN k ELSE k + 1
                             IN  from \in DOMAIN q /\ r[k] = q[from]
  BY RemoveAtIs
<1> HIDE DEF r
<1>1. DOMAIN r \subseteq Nat /\ i \in Nat
  BY <1>0
<1>2. ASSUME Fresh(q), NEW a \in DOMAIN r, NEW b \in DOMAIN r, a < b, r[b].key,
             ~r[a].earlier, ~r[b].earlier
      PROVE  r[a].stage # "open"
  <2> DEFINE x == IF a < i THEN a ELSE a + 1
             y == IF b < i THEN b ELSE b + 1
  <2>1. x \in DOMAIN q /\ r[a] = q[x] /\ y \in DOMAIN q /\ r[b] = q[y]
    BY <1>0
  <2>2. x < y
    BY <1>1, <1>2
  <2> HIDE DEF x, y
  <2> QED
    BY <1>2, <2>1, <2>2 DEF Fresh
<1> QED
  BY <1>0, <1>2 DEF Fresh, r

(* One queued frame is given up by the viewer, or its bytes given back.    *)
LEMMA UpdateQueue ==
    ASSUME NEW q \in Seq(Frames), NEW i \in DOMAIN q, NEW f \in Frames,
           f.key = q[i].key, f.earlier = q[i].earlier, f.stage \in {q[i].stage, "refused"}
    PROVE  [q EXCEPT ![i] = f] \in Seq(Frames) /\ (Fresh(q) => Fresh([q EXCEPT ![i] = f]))
<1> DEFINE r == [q EXCEPT ![i] = f]
<1>1. /\ r \in Seq(Frames) /\ DOMAIN r = DOMAIN q
      /\ \A k \in DOMAIN q : r[k] = IF k = i THEN f ELSE q[k]
  OBVIOUS
<1> HIDE DEF r
<1>2. \A k \in DOMAIN q : /\ r[k].key = q[k].key /\ r[k].earlier = q[k].earlier
                          /\ r[k].stage \in {q[k].stage, "refused"}
  BY <1>1
<1>3. Fresh(q) => Fresh(r)
  BY <1>1, <1>2 DEF Fresh
<1> QED
  BY <1>1, <1>3 DEF r

(* A share that stops leaves its frames queued as those of an earlier one. *)
LEMMA EarlierQueue ==
    ASSUME NEW q \in Seq(Frames)
    PROVE  LET r == [i \in DOMAIN q |-> [q[i] EXCEPT !.earlier = TRUE]]
           IN  r \in Seq(Frames) /\ Fresh(r) /\ Charges(r) = Charges(q)
<1> DEFINE r == [i \in DOMAIN q |-> [q[i] EXCEPT !.earlier = TRUE]]
<1>1. \A i \in DOMAIN q : q[i] \in Frames
  OBVIOUS
<1>2. \A i \in DOMAIN q : r[i] \in Frames /\ r[i].earlier /\ r[i].charge = q[i].charge
  <2> SUFFICES ASSUME NEW i \in DOMAIN q
               PROVE  r[i] \in Frames /\ r[i].earlier /\ r[i].charge = q[i].charge
    OBVIOUS
  <2>1. r[i] = [q[i] EXCEPT !.earlier = TRUE] /\ q[i] \in Frames
    BY <1>1
  <2> HIDE DEF r
  <2> QED
    BY <2>1 DEF Frames
<1>3. r = [i \in DOMAIN q |-> r[i]]
  OBVIOUS
<1> HIDE DEF r
<1>4. r \in Seq(Frames) /\ DOMAIN r = DOMAIN q
  BY <1>2, <1>3, Replaced
<1>5. Fresh(r)
  BY <1>2, <1>4 DEF Fresh
<1>6. Charges(r) = Charges(q)
  BY <1>2, <1>4, SameCharges
<1> QED
  BY <1>4, <1>5, <1>6 DEF r

-----------------------------------------------------------------------------
(* The inductive invariant: the properties are inductive together with the *)
(* types; that the counter never rises when a send ends needs charges that *)
(* are not negative.                                                       *)
IInv ==
    /\ TypeOK
    /\ OpenGateIsWhole
    /\ \A v \in Viewers : v \in FrameStreams => Fresh(out[v])
    /\ OutstandingExact
    /\ BacklogBounded

LEMMA FreshQueues == IInv => NothingStaleAheadOfKeyframe
BY ForwardingAssumption DEF IInv, NothingStaleAheadOfKeyframe, Fresh

(* Steps that touch neither the queues nor the counters.                   *)
LEMMA QueuesKept ==
    ASSUME IInv, UNCHANGED <<out, outstanding>>
    PROVE  /\ out' \in [Viewers -> Seq(Frames)] /\ outstanding' \in [Viewers -> Int]
           /\ \A v \in Viewers : v \in FrameStreams => Fresh(out'[v])
           /\ OutstandingExact' /\ BacklogBounded'
BY DEF IInv, TypeOK, OutstandingExact, BacklogBounded

(* A worker changes one queue and does not raise its counter.              *)
LEMMA OneQueue ==
    ASSUME IInv, NEW v \in Viewers, NEW q \in Seq(Frames), NEW n \in Int,
           out' = [out EXCEPT ![v] = q], outstanding' = [outstanding EXCEPT ![v] = n],
           n <= outstanding[v], n = Charges(q), Fresh(out[v]) => Fresh(q),
           UNCHANGED <<phase, running, subs, gate, pli, sharer, gap, owed>>
    PROVE  IInv'
<1>1. TypeOK'
  BY DEF IInv, TypeOK
<1>2. OpenGateIsWhole'
  BY DEF IInv, OpenGateIsWhole
<1>3. \A w \in Viewers : w \in FrameStreams => Fresh(out'[w])
  BY DEF IInv, TypeOK
<1>4. BacklogBounded'
  <2> SUFFICES ASSUME NEW w \in Viewers
               PROVE  \E b \in Budgets, key \in BOOLEAN : outstanding'[w] <= b + Size(key)
    BY DEF BacklogBounded
  <2>1. PICK b \in Budgets, key \in BOOLEAN : outstanding[w] <= b + Size(key)
    BY DEF IInv, BacklogBounded
  <2>2. /\ outstanding[w] \in Int /\ outstanding'[w] \in Int /\ outstanding'[w] <= outstanding[w]
        /\ b \in Int /\ Size(key) \in Int
    <3>1. outstanding \in [Viewers -> Int]
      BY DEF IInv, TypeOK
    <3>2. outstanding'[w] = IF w = v THEN n ELSE outstanding[w]
      BY <3>1
    <3>3. b \in Nat /\ Size(key) \in Nat
      BY ForwardingAssumption, FrameTypes
    <3> QED
      BY <3>1, <3>2, <3>3
  <2>3. outstanding'[w] <= b + Size(key)
    BY <2>1, <2>2
  <2> QED
    BY <2>3
<1>5. OutstandingExact'
  BY DEF IInv, TypeOK, OutstandingExact
<1> QED
  BY <1>1, <1>2, <1>3, <1>4, <1>5 DEF IInv

LEMMA InitInv == Init => IInv
<1> SUFFICES ASSUME Init PROVE IInv
  OBVIOUS
<1>0. NewGate \in Gate /\ NewPli \in Pli
  BY ForwardingAssumption DEF NewGate, Gate, NewPli, Pli
<1>1. TypeOK
  <2>1. /\ gate \in [Viewers -> Gate] /\ out \in [Viewers -> Seq(Frames)]
        /\ outstanding \in [Viewers -> Int] /\ pli \in Pli
    BY <1>0, EmptyIsFresh DEF Init
  <2> QED
    BY <2>1 DEF Init, TypeOK
<1>2. BacklogBounded
  <2>1. PICK b \in Budgets : TRUE
    BY ForwardingAssumption
  <2>2. b \in Nat /\ Size(TRUE) \in Nat
    BY ForwardingAssumption DEF Size
  <2>3. 0 <= b + Size(TRUE)
    <3> DEFINE n == Size(TRUE)
    <3>1. n \in Nat
      BY <2>2
    <3> HIDE DEF n
    <3>2. 0 <= b + n
      BY <2>2, <3>1
    <3> QED
      BY <3>2 DEF n
  <2> QED
    BY <2>3 DEF Init, BacklogBounded
<1>3. OpenGateIsWhole
  BY DEF Init, OpenGateIsWhole
<1>4. OutstandingExact
  BY NothingCharged DEF Init, OutstandingExact
<1> QED
  BY <1>1, <1>2, <1>3, <1>4, EmptyIsFresh DEF IInv, Init

-----------------------------------------------------------------------------
(* Control messages.                                                       *)
LEMMA ControlInv ==
    ASSUME IInv,
           ShareStart \/ BeginVideo \/ IngressLoss \/ EndVideo \/ PliLost \/ SharerHears
    PROVE  IInv'
<1>1. UNCHANGED <<subs, gate, out, outstanding, gap>>
  BY DEF ShareStart, BeginVideo, IngressLoss, EndVideo, PliLost, SharerHears
<1>t. pli \in Pli /\ sharer \in {"idle", "asked", "encoding"} /\ owed \in BOOLEAN
  BY DEF IInv, TypeOK
<1>2. pli' \in Pli /\ sharer' \in {"idle", "asked", "encoding"} /\ owed' \in BOOLEAN
  <2>1. CASE IngressLoss
    BY <1>t, <2>1, RequestTypes DEF IngressLoss
  <2>2. CASE EndVideo
    <3>1. [pli EXCEPT !.deferred = FALSE, !.key_after = FALSE] \in Pli
      BY <1>t DEF Pli
    <3>2. CASE UNCHANGED <<pli, sharer, owed>>
      BY <1>t, <3>2
    <3>3. CASE /\ pli' = [pli EXCEPT !.deferred = FALSE, !.key_after = FALSE]
               /\ UNCHANGED <<sharer, owed>>
      BY <1>t, <3>1, <3>3
    <3>4. CASE pli' = SentPli /\ sharer' = Ask(sharer) /\ owed' = FALSE
      BY <1>t, <3>4, PliTypes DEF Ask
    <3> QED
      BY <2>2, <3>2, <3>3, <3>4 DEF EndVideo
  <2>3. CASE ShareStart \/ BeginVideo \/ PliLost \/ SharerHears
    BY <1>t, <2>3 DEF ShareStart, BeginVideo, PliLost, SharerHears
  <2> QED
    BY <2>1, <2>2, <2>3
<1>3. phase' \in {"control", "video"} /\ running' \in BOOLEAN
  BY DEF IInv, TypeOK, ShareStart, BeginVideo, IngressLoss, EndVideo, PliLost, SharerHears
<1>4. TypeOK'
  BY <1>1, <1>2, <1>3 DEF IInv, TypeOK
<1>5. OpenGateIsWhole'
  BY <1>1 DEF IInv, OpenGateIsWhole
<1> QED
  BY <1>1, <1>4, <1>5, QueuesKept DEF IInv

LEMMA ShareStopInv ==
    ASSUME IInv, ShareStop
    PROVE  IInv'
<1>1. \A v \in Viewers : out[v] \in Seq(Frames)
  BY DEF IInv, TypeOK
<1>2. \A v \in Viewers : out'[v] = [i \in DOMAIN out[v] |-> [out[v][i] EXCEPT !.earlier = TRUE]]
  BY DEF ShareStop
<1>3. \A v \in Viewers :
        out'[v] \in Seq(Frames) /\ Fresh(out'[v]) /\ Charges(out'[v]) = Charges(out[v])
  BY <1>1, <1>2, EarlierQueue
<1>4. out' \in [Viewers -> Seq(Frames)]
  <2>1. out' = [v \in Viewers |-> out'[v]]
    BY DEF ShareStop
  <2> QED
    BY <1>3, <2>1
<1>5. NewGate \in Gate /\ NewPli \in Pli
  BY GateTypes, PliTypes, ForwardingAssumption DEF NewGate, Gate, NewPli, Pli
<1>6. TypeOK'
  BY <1>4, <1>5 DEF IInv, TypeOK, ShareStop
<1>7. OpenGateIsWhole' /\ BacklogBounded'
  BY DEF IInv, ShareStop, OpenGateIsWhole, BacklogBounded
<1>8. OutstandingExact'
  BY <1>3 DEF IInv, ShareStop, OutstandingExact
<1> QED
  BY <1>3, <1>6, <1>7, <1>8 DEF IInv

LEMMA ViewerInv ==
    ASSUME IInv, NEW v \in Viewers, View(v) \/ Unview(v) \/ ViewerPli(v)
    PROVE  IInv'
<1>t. /\ pli \in Pli /\ sharer \in {"idle", "asked", "encoding"} /\ owed \in BOOLEAN
      /\ gate \in [Viewers -> Gate] /\ gate[v] \in Gate
  BY DEF IInv, TypeOK
<1>1. UNCHANGED <<phase, running, out, outstanding>>
  BY DEF View, Unview, ViewerPli
<1>2. pli' \in Pli /\ sharer' \in {"idle", "asked", "encoding"} /\ owed' \in BOOLEAN
  BY <1>t, RequestTypes DEF View, Unview, ViewerPli
<1>3. /\ NewGate \in Gate /\ Subscribed(gate[v]) \in Gate /\ AfterRequest(gate[v]) \in Gate
      /\ Subscribed(gate[v]).awaiting /\ AfterRequest(gate[v]).awaiting = gate[v].awaiting
  BY <1>t, GateTypes DEF Subscribed, AfterRequest, Gate
<1>4. /\ gate' \in [Viewers -> Gate]
      /\ \A w \in Viewers : w # v => gate'[w] = gate[w]
      /\ View(v) => gate'[v].awaiting
      /\ ViewerPli(v) => gate'[v].awaiting = gate[v].awaiting
  BY <1>t, <1>3 DEF View, Unview, ViewerPli
<1>5. TypeOK'
  BY <1>1, <1>2, <1>4 DEF IInv, TypeOK, View, Unview, ViewerPli
<1>6. OpenGateIsWhole'
  BY <1>4 DEF IInv, TypeOK, OpenGateIsWhole, View, Unview, ViewerPli
<1> QED
  BY <1>1, <1>5, <1>6, QueuesKept DEF IInv

-----------------------------------------------------------------------------
(* QUIC workers and the clock.                                             *)
LEMMA WorkerInv ==
    ASSUME IInv, NEW v \in Viewers,
           SendComplete(v) \/ PeerReceiveAborted(v) \/ ShutdownComplete(v)
    PROVE  IInv'
<1>t. /\ out \in [Viewers -> Seq(Frames)] /\ out[v] \in Seq(Frames)
      /\ outstanding \in [Viewers -> Int] /\ outstanding[v] \in Int
  BY DEF IInv, TypeOK
<1>u. ASSUME NEW i \in DOMAIN out[v]
      PROVE  /\ Uncharge(v, i).bytes \in Int /\ Uncharge(v, i).bytes <= outstanding[v]
             /\ Uncharge(v, i).bytes = Charges(out[v]) - out[v][i].charge
             /\ Uncharge(v, i).frame = [out[v][i] EXCEPT !.charge = 0]
  <2>1. out[v][i] \in Frames
    BY <1>t
  <2>2. out[v][i].charge \in Nat
    BY <2>1, FrameTypes
  <2> QED
    BY <1>t, <2>2 DEF Uncharge, IInv, OutstandingExact
<1>r. ASSUME NEW i \in DOMAIN out[v]
      PROVE  /\ RemoveAt(out[v], i) \in Seq(Frames)
             /\ Fresh(out[v]) => Fresh(RemoveAt(out[v], i))
             /\ Charges(RemoveAt(out[v], i)) = Charges(out[v]) - out[v][i].charge
  BY <1>t, RemoveQueue, OneFrameGone
<1>1. CASE SendComplete(v)
  <2>1. PICK i \in DOMAIN out[v] :
          /\ outstanding' = [outstanding EXCEPT ![v] = Uncharge(v, i).bytes]
          /\ out' = [out EXCEPT ![v] = IF v \in FrameStreams
                                       THEN [@ EXCEPT ![i] = Uncharge(v, i).frame]
                                       ELSE RemoveAt(@, i)]
          /\ UNCHANGED <<phase, running, subs, gate, pli, sharer, gap, owed>>
    BY <1>1 DEF SendComplete
  <2> DEFINE f == [out[v][i] EXCEPT !.charge = 0]
             q == IF v \in FrameStreams THEN [out[v] EXCEPT ![i] = f] ELSE RemoveAt(out[v], i)
  <2>2. /\ f \in Frames /\ f.key = out[v][i].key /\ f.earlier = out[v][i].earlier
        /\ f.stage = out[v][i].stage /\ f.charge = 0
    <3> DEFINE g == out[v][i]
    <3>1. g \in Frames
      BY <1>t
    <3> HIDE DEF g
    <3>2. /\ [g EXCEPT !.charge = 0] \in Frames /\ [g EXCEPT !.charge = 0].key = g.key
          /\ [g EXCEPT !.charge = 0].earlier = g.earlier
          /\ [g EXCEPT !.charge = 0].stage = g.stage /\ [g EXCEPT !.charge = 0].charge = 0
      BY <3>1 DEF Frames
    <3> QED
      BY <3>2 DEF g
  <2>3. Uncharge(v, i).frame = f
    BY <1>u
  <2> HIDE DEF f
  <2>4. /\ q \in Seq(Frames) /\ (Fresh(out[v]) => Fresh(q))
        /\ Charges(q) = Charges(out[v]) - out[v][i].charge
    BY <1>t, <1>r, <2>2, UpdateQueue, OneChargeGone
  <2>5. out' = [out EXCEPT ![v] = q]
    BY <1>t, <2>1, <2>3
  <2> HIDE DEF q
  <2> QED
    BY <1>u, <2>1, <2>4, <2>5, OneQueue
<1>2. CASE PeerReceiveAborted(v)
  <2>1. PICK i \in DOMAIN out[v] :
          /\ out' = [out EXCEPT ![v][i].stage = "refused"]
          /\ UNCHANGED <<phase, running, subs, gate, outstanding, pli, sharer, gap, owed>>
    BY <1>2 DEF PeerReceiveAborted
  <2> DEFINE g == out[v][i]
             f == [g EXCEPT !.stage = "refused"]
             q == [out[v] EXCEPT ![i] = f]
  <2>2. g \in Frames
    BY <1>t
  <2>3. out' = [out EXCEPT ![v] = q]
    BY <1>t, <2>1
  <2> HIDE DEF g
  <2>4. /\ f \in Frames /\ f.key = g.key /\ f.earlier = g.earlier /\ f.charge = g.charge
        /\ f.stage \in {g.stage, "refused"}
    BY <2>2 DEF Frames
  <2> HIDE DEF f
  <2>5. q \in Seq(Frames) /\ (Fresh(out[v]) => Fresh(q))
    BY <1>t, <2>4, UpdateQueue DEF g
  <2>7. Charges(q) = Charges(out[v])
    <3>1. DOMAIN q = DOMAIN out[v] /\ \A k \in DOMAIN q : q[k].charge = out[v][k].charge
      BY <1>t, <2>4 DEF g
    <3> HIDE DEF q
    <3> QED
      BY <1>t, <2>5, <3>1, SameCharges
  <2> HIDE DEF q
  <2>8. outstanding[v] = Charges(q)
    BY <2>7 DEF IInv, OutstandingExact
  <2>6. outstanding' = [outstanding EXCEPT ![v] = outstanding[v]] /\ outstanding[v] <= outstanding[v]
    BY <1>t, <2>1
  <2> QED
    BY <1>t, <2>1, <2>3, <2>5, <2>6, <2>8, OneQueue
<1>3. CASE ShutdownComplete(v)
  <2>1. PICK i \in DOMAIN out[v] :
          /\ outstanding' = [outstanding EXCEPT ![v] = Uncharge(v, i).bytes]
          /\ out' = [out EXCEPT ![v] = RemoveAt(@, i)]
          /\ UNCHANGED <<phase, running, subs, gate, pli, sharer, gap, owed>>
    BY <1>3 DEF ShutdownComplete
  <2> DEFINE q == RemoveAt(out[v], i)
  <2>2. /\ q \in Seq(Frames) /\ (Fresh(out[v]) => Fresh(q)) /\ out' = [out EXCEPT ![v] = q]
        /\ Charges(q) = Charges(out[v]) - out[v][i].charge
    BY <1>r, <1>t, <2>1
  <2> HIDE DEF q
  <2> QED
    BY <1>u, <2>1, <2>2, OneQueue
<1> QED
  BY <1>1, <1>2, <1>3

LEMMA TickInv ==
    ASSUME IInv, Tick
    PROVE  IInv'
<1>t. pli \in Pli /\ gate \in [Viewers -> Gate] /\ Cooldown \in Nat /\ MaxBackoff \in Nat
  BY ForwardingAssumption DEF IInv, TypeOK
<1>1. pli' \in Pli
  <2> DEFINE w == IF pli.wait > 0 THEN pli.wait - 1 ELSE 0
  <2>1. w \in 0 .. Cooldown
    BY <1>t DEF Pli
  <2>2. pli' = [pli EXCEPT !.wait = w]
    BY DEF Tick
  <2> HIDE DEF w
  <2> QED
    BY <1>t, <2>1, <2>2 DEF Pli
<1>2. ASSUME NEW v \in Viewers
      PROVE  gate'[v] \in Gate /\ gate'[v].awaiting = gate[v].awaiting
  <2> DEFINE g == gate[v]
             w == IF g.wait > 0 THEN g.wait - 1 ELSE 0
  <2>1. g \in Gate
    BY <1>t
  <2>2. gate'[v] = [g EXCEPT !.wait = w]
    BY DEF Tick
  <2> HIDE DEF g
  <2>3. w \in 0 .. MaxBackoff
    BY <1>t, <2>1 DEF Gate
  <2> HIDE DEF w
  <2>4. gate'[v] \in Gate /\ gate'[v].awaiting = g.awaiting
    BY <2>1, <2>2, <2>3 DEF Gate
  <2> QED
    BY <2>4 DEF g
<1>3. gate' \in [Viewers -> Gate]
  <2>1. gate' = [v \in Viewers |-> gate'[v]]
    BY DEF Tick
  <2> QED
    BY <1>2, <2>1
<1>4. TypeOK'
  BY <1>1, <1>3 DEF IInv, TypeOK, Tick
<1>5. OpenGateIsWhole'
  BY <1>2 DEF IInv, TypeOK, OpenGateIsWhole, Tick
<1>6. UNCHANGED <<out, outstanding>>
  BY DEF Tick
<1> QED
  BY <1>4, <1>5, <1>6, QueuesKept DEF IInv

-----------------------------------------------------------------------------
(* A frame passes the gates of all subscribed viewers.                     *)
LEMMA AdmitIs ==
    ASSUME NEW g \in Gate, NEW over \in BOOLEAN, NEW key \in BOOLEAN
    PROVE  /\ AfterAdmit(g, over, key).awaiting <=> ~Admits(g, over, key)
           /\ AfterRequest(g).awaiting = g.awaiting
           /\ MissedFrame(g).awaiting
<1>1. AfterRequest(g).awaiting = g.awaiting /\ MissedFrame(g).awaiting
  BY DEF AfterRequest, MissedFrame, Gate
<1>2. AfterAdmit(g, over, key).awaiting <=> ~Admits(g, over, key)
  BY DEF AfterAdmit, Admits, Gate
<1> QED
  BY <1>1, <1>2

LEMMA ForwardInv ==
    ASSUME IInv, NEW key \in BOOLEAN, NEW ok \in SUBSET Viewers, Forward(key, ok)
    PROVE  IInv'
<1>0. PICK budget \in [Viewers -> Budgets], spared \in {FALSE, key} :
        ForwardVideoFrame(key, budget, ok, spared)
  BY DEF Forward
<1> DEFINE over(v) == Over(outstanding[v], budget[v], key)
           admitted == {v \in subs : Admits(gate[v], over(v), key)}
           closing == {v \in subs : over(v) /\ ~gate[v].awaiting}
           asking == {v \in subs : NeedsKeyframe(gate[v], over(v), key) /\ AllowsRequest(gate[v])}
           older == IF key THEN admitted ELSE {}
           sent == admitted \cap ok
           p == IF key THEN KeyframeSeen(pli) ELSE pli
           sh == IF key THEN "idle" ELSE sharer
           After(v) == IF v \in subs THEN AfterAdmit(gate[v], over(v), key) ELSE gate[v]
           Queued(v) == CASE v \in closing -> AbortVideoFrames(v, out[v], FALSE)
                          [] v \in older -> AbortVideoFrames(v, out[v], spared)
                          [] OTHER -> out[v]
<1>t. /\ pli \in Pli /\ sharer \in {"idle", "asked", "encoding"} /\ owed \in BOOLEAN
      /\ gate \in [Viewers -> Gate] /\ out \in [Viewers -> Seq(Frames)]
      /\ outstanding \in [Viewers -> Int] /\ subs \subseteq Viewers /\ gap \subseteq Viewers
      /\ spared \in BOOLEAN
  BY DEF IInv, TypeOK
<1>a. \A v \in Viewers : gate'[v] = CASE v \in asking -> AfterRequest(After(v))
                                      [] v \in admitted \ sent -> MissedFrame(After(v))
                                      [] OTHER -> After(v)
  BY <1>0 DEF ForwardVideoFrame
<1>b. \A v \in Viewers : out'[v] = IF v \in sent THEN Append(Queued(v), NewFrame(key)) ELSE Queued(v)
  BY <1>0 DEF ForwardVideoFrame
<1>c. \A v \in Viewers :
        outstanding'[v] = IF v \in sent THEN outstanding[v] + Size(key) ELSE outstanding[v]
  BY <1>0 DEF ForwardVideoFrame
<1>d. /\ gap' = (gap \cup (Viewers \ sent)) \ (IF key THEN sent ELSE {})
      /\ UNCHANGED <<phase, running, subs>>
      /\ gate' = [v \in Viewers |-> gate'[v]] /\ out' = [v \in Viewers |-> out'[v]]
      /\ outstanding' = [v \in Viewers |-> outstanding'[v]]
  BY <1>0 DEF ForwardVideoFrame
<1>e. \/ RequestKeyframe(p, sh)
      \/ pli' = p /\ sharer' = sh /\ owed' = (owed /\ ~key)
  BY <1>0 DEF ForwardVideoFrame
<1>f. \A v \in Viewers : over(v) \in BOOLEAN /\ (over(v) <=> outstanding[v] > budget[v])
  BY DEF Over
<1>g. /\ admitted \subseteq subs /\ sent \subseteq admitted
      /\ \A v \in subs : v \in admitted <=> Admits(gate[v], over(v), key)
      /\ \A v \in asking : v \in subs /\ v \notin admitted
      /\ older \subseteq admitted /\ (key => older = admitted)
      /\ \A v \in closing : v \notin admitted
  BY DEF Admits, NeedsKeyframe
<1> HIDE DEF over, admitted, closing, asking, older, sent
<1>1. pli' \in Pli /\ sharer' \in {"idle", "asked", "encoding"} /\ owed' \in BOOLEAN
  <2>1. p \in Pli /\ sh \in {"idle", "asked", "encoding"}
    BY <1>t, PliTypes
  <2> HIDE DEF p, sh
  <2>2. CASE RequestKeyframe(p, sh)
    BY <2>1, <2>2, RequestTypes
  <2>3. CASE pli' = p /\ sharer' = sh /\ owed' = (owed /\ ~key)
    BY <2>1, <2>3
  <2> QED
    BY <1>e, <2>2, <2>3
<1>2. ASSUME NEW v \in Viewers
      PROVE  /\ gate'[v] \in Gate
             /\ v \in subs => (gate'[v].awaiting <=> v \notin sent)
  <2>1. After(v) \in Gate
    BY <1>t, <1>f, GateTypes
  <2>2. v \in subs => (After(v).awaiting <=> v \notin admitted)
    BY <1>t, <1>f, <1>g, AdmitIs
  <2> HIDE DEF After
  <2>3. CASE v \in asking
    BY <1>a, <1>g, <2>1, <2>2, <2>3, GateTypes, AdmitIs
  <2>4. CASE v \notin asking /\ v \in admitted \ sent
    BY <1>a, <1>g, <2>1, <2>2, <2>4, GateTypes, AdmitIs
  <2>5. CASE v \notin asking /\ v \notin admitted \ sent
    BY <1>a, <1>g, <2>1, <2>2, <2>5
  <2> QED
    BY <2>3, <2>4, <2>5
<1>3. ASSUME NEW v \in Viewers
      PROVE  /\ out'[v] \in Seq(Frames)
             /\ v \in FrameStreams => Fresh(out'[v])
             /\ Charges(out'[v]) = outstanding'[v]
  <2>1. /\ out[v] \in Seq(Frames) /\ (v \in FrameStreams => Fresh(out[v]))
        /\ Charges(out[v]) = outstanding[v]
    BY <1>t DEF IInv, OutstandingExact
  <2>2. /\ Queued(v) \in Seq(Frames)
        /\ Charges(Queued(v)) = outstanding[v]
        /\ v \in FrameStreams => Fresh(Queued(v))
        /\ v \in FrameStreams /\ v \in older =>
             \A i \in DOMAIN Queued(v) : Queued(v)[i].earlier \/ Queued(v)[i].stage # "open"
    <3>1. CASE v \in closing
      <4>1. v \notin older
        BY <1>g, <3>1
      <4> DEFINE no == FALSE
      <4>2. Queued(v) = AbortVideoFrames(v, out[v], no) /\ no \in BOOLEAN
        BY <3>1, <4>1
      <4> HIDE DEF Queued, no
      <4> QED
        BY <2>1, <4>2, AbortQueue
    <3>2. CASE v \notin closing /\ v \in older
      BY <1>t, <2>1, <3>2, AbortQueue
    <3>3. CASE v \notin closing /\ v \notin older
      BY <2>1, <3>3
    <3> QED
      BY <3>1, <3>2, <3>3
  <2> HIDE DEF Queued
  <2>3. CASE v \in sent
    <3>1. key => v \in older
      BY <1>g, <2>3
    <3> QED
      BY <1>b, <1>c, <2>2, <2>3, <3>1, AppendQueueIs
  <2>4. CASE v \notin sent
    BY <1>b, <1>c, <2>2, <2>4
  <2> QED
    BY <2>3, <2>4
<1>4. ASSUME NEW v \in Viewers
      PROVE  /\ outstanding'[v] \in Int
             /\ \E b \in Budgets, k \in BOOLEAN : outstanding'[v] <= b + Size(k)
  <2>1. outstanding[v] \in Int /\ Size(key) \in Nat /\ budget[v] \in Budgets /\ budget[v] \in Nat
    BY <1>t, FrameTypes, ForwardingAssumption
  <2>2. CASE v \in sent
    <3>1. ~over(v)
      BY <1>g, <2>2 DEF Admits
    <3>2. outstanding[v] <= budget[v]
      BY <1>f, <2>1, <3>1
    <3>3. outstanding'[v] = outstanding[v] + Size(key)
      BY <1>c, <2>2
    <3>4. outstanding'[v] \in Int /\ outstanding'[v] <= budget[v] + Size(key)
      BY <2>1, <3>2, <3>3
    <3> QED
      BY <2>1, <3>4
  <2>3. CASE v \notin sent
    <3>1. outstanding'[v] = outstanding[v]
      BY <1>c, <2>3
    <3> QED
      BY <2>1, <3>1 DEF IInv, BacklogBounded
  <2> QED
    BY <2>2, <2>3
<1>5. TypeOK'
  <2>1. gate' \in [Viewers -> Gate]
    BY <1>2, <1>d
  <2>2. out' \in [Viewers -> Seq(Frames)]
    BY <1>3, <1>d
  <2>3. outstanding' \in [Viewers -> Int]
    BY <1>4, <1>d
  <2>4. gap' \subseteq Viewers /\ UNCHANGED <<phase, running, subs>>
    BY <1>d, <1>t
  <2> QED
    BY <1>1, <2>1, <2>2, <2>3, <2>4 DEF IInv, TypeOK
<1>6. OpenGateIsWhole'
  <2> SUFFICES ASSUME NEW v \in subs', ~gate'[v].awaiting PROVE v \notin gap'
    BY DEF OpenGateIsWhole
  <2>1. v \in Viewers /\ v \in subs
    BY <1>d, <1>t
  <2>2. v \in sent
    BY <1>2, <2>1
  <2>3. CASE key
    BY <1>d, <2>2, <2>3
  <2>4. CASE ~key
    <3>1. ~gate[v].awaiting
      BY <1>g, <2>1, <2>2, <2>4 DEF Admits
    <3>2. v \notin gap
      BY <2>1, <3>1 DEF IInv, OpenGateIsWhole
    <3> QED
      BY <1>d, <2>2, <3>2
  <2> QED
    BY <2>3, <2>4
<1>7. BacklogBounded' /\ OutstandingExact'
  BY <1>3, <1>4 DEF BacklogBounded, OutstandingExact
<1> QED
  BY <1>3, <1>5, <1>6, <1>7 DEF IInv

-----------------------------------------------------------------------------
(* Every step of the main loop, of the QUIC workers and of the clock keeps *)
(* the inductive invariant.                                                *)
THEOREM Inductive == Spec => []IInv
<1>1. IInv /\ [Next]_vars => IInv'
  <2> SUFFICES ASSUME IInv, [Next]_vars PROVE IInv'
    OBVIOUS
  <2>1. CASE ShareStart \/ BeginVideo \/ IngressLoss \/ EndVideo \/ PliLost \/ SharerHears
    BY <2>1, ControlInv
  <2>2. CASE ShareStop
    BY <2>2, ShareStopInv
  <2>3. CASE \E v \in Viewers : View(v) \/ Unview(v) \/ ViewerPli(v)
    BY <2>3, ViewerInv
  <2>4. CASE ForwardDelta
    BY <2>4, ForwardInv DEF ForwardDelta
  <2>5. CASE ForwardKeyframe
    BY <2>5, ForwardInv DEF ForwardKeyframe
  <2>6. CASE \E v \in Viewers : SendComplete(v) \/ PeerReceiveAborted(v) \/ ShutdownComplete(v)
    BY <2>6, WorkerInv
  <2>7. CASE Tick
    BY <2>7, TickInv
  <2>8. CASE UNCHANGED vars
    BY <2>8 DEF vars, IInv, TypeOK, OpenGateIsWhole, OutstandingExact, BacklogBounded
  <2> QED
    BY <2>1, <2>2, <2>3, <2>4, <2>5, <2>6, <2>7, <2>8 DEF Next
<1> QED
  BY InitInv, <1>1, PTL DEF Spec

(* An open gate means a whole chain: with any number of viewers, budgets   *)
(* that change with every frame, and sends that fail, a subscribed viewer  *)
(* whose gate is open was sent every frame since its last keyframe         *)
(* (Server::forward_video_frame, ViewerVideoGate).                         *)
THEOREM OpenGatesAreWhole == Spec => []OpenGateIsWhole
<1>1. IInv => OpenGateIsWhole
  BY DEF IInv
<1> QED
  BY Inductive, <1>1, PTL

(* A keyframe never queues behind frames of its share that are still being *)
(* sent, in whatever order the streams of a viewer end                     *)
(* (abort_video_frames).                                                   *)
THEOREM KeyframesAreNotDelayed == Spec => []NothingStaleAheadOfKeyframe
BY Inductive, FreshQueues, PTL

(* What a viewer is charged is exactly what is queued toward it: every     *)
(* frame is given back once, whichever of SEND_COMPLETE, an abort and      *)
(* SHUTDOWN_COMPLETE comes first, and the sum stays within one frame of a  *)
(* budget, however the budget moves (VideoOutStreamContext::uncharge,      *)
(* video_backlog.h).                                                       *)
THEOREM ChargesAreExact == Spec => []ForwardAccounting
<1>1. IInv => ForwardAccounting
  BY DEF IInv, ForwardAccounting
<1> QED
  BY Inductive, <1>1, PTL
============================================================================
