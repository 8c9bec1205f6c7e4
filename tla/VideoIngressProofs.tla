------------------------- MODULE VideoIngressProofs -------------------------
(***************************************************************************)
(* Proofs about VideoIngress, for any number of streams and shares and any *)
(* budgets: the session's byte counters are exact and within their budget, *)
(* every frame stream ends with one outcome, and what was queued before a  *)
(* share stopped is never accepted after it.                               *)
(***************************************************************************)
EXTENDS VideoIngress, SumTheorems

-----------------------------------------------------------------------------
(* The inductive invariant.                                                *)

\* What is known of a stream context: report_lost and the delivery mark it
\* finished, once, and only while it is still open.
StreamOK(c) ==
    /\ c \in StreamContexts
    /\ c.stage # "unused" => c.share >= 1
    /\ c.header => c.prefix /\ c.got >= Prefix + Header
    /\ c.reports = IF c.finished THEN 1 ELSE 0
    /\ c.stage \in {"dead", "done"} /\ c.prefix => c.finished
    /\ c.stage \in {"unused", "sent", "open"} => ~c.finished

StreamsOK == \A s \in Streams : StreamOK(stream[s])

\* START and STOP alternate on the wire, and the main loop is where the
\* messages it has not read yet say it is.
Alternates ==
    /\ control = <<>> => (allowed <=> sharing)
    /\ control # <<>> => /\ control[1] = IF allowed THEN "stop" ELSE "start"
                         /\ control[Len(control)] = IF sharing THEN "start" ELSE "stop"
    /\ \A i \in 1 .. Len(control) - 1 : control[i] # control[i + 1]

One(p) == IF p THEN 1 ELSE 0

\* Every message of the sharer is on its way or has been handled.
NoneIsLost == 2 * stops + One(allowed) + Len(control) = 2 * share - One(sharing)

SharesCounted == sharing => share >= 1

\* A generation was read no later than the item carrying it was queued.
Fenced(items) == \A i \in DOMAIN items : items[i].gen <= items[i].at /\ items[i].at <= stops

GenerationsFenced ==
    /\ gen = stops /\ hand.gen <= gen
    /\ Fenced(queue) /\ Fenced(batch)

CallInProgress == hand.step # "idle" => todo # <<>>

IInv ==
    /\ TypeOK
    /\ StreamsOK
    /\ Alternates /\ NoneIsLost /\ SharesCounted
    /\ GenerationsFenced
    /\ CallInProgress
    /\ BudgetsExact /\ BudgetsBounded
    /\ QueueIsFenced

-----------------------------------------------------------------------------
(* Sums of sizes and of charges.                                           *)
SizeOf(q) == [i \in DOMAIN q |-> q[i].size]

LEMMA ItemSize ==
    ASSUME NEW x \in Items
    PROVE  x.size \in Nat /\ x.size \in Int
<1>1. x.size \in 0 .. MaxPayload
  BY DEF Items
<1> QED
  BY <1>1, IngressAssumption

LEMMA BytesIs ==
    ASSUME NEW q \in Seq(Items)
    PROVE  /\ Bytes(q) = SumFunctionOnSet(SizeOf(q), 1 .. Len(q))
           /\ \A i \in 1 .. Len(q) : SizeOf(q)[i] = q[i].size
           /\ \A i \in 1 .. Len(q) : SizeOf(q)[i] \in Int
           /\ Bytes(q) \in Nat
<1>1. DOMAIN q = 1 .. Len(q) /\ Len(q) \in Nat
  OBVIOUS
<1>2. IsFiniteSet(1 .. Len(q))
  BY <1>1, Interval
<1>3. \A i \in 1 .. Len(q) : q[i] \in Items
  BY <1>1
<1>4. \A i \in 1 .. Len(q) : q[i].size \in Nat /\ q[i].size \in Int
  BY <1>3, ItemSize
<1>5. \A i \in 1 .. Len(q) : SizeOf(q)[i] = q[i].size
  BY <1>1 DEF SizeOf
<1>6. DOMAIN SizeOf(q) = 1 .. Len(q)
  BY <1>1 DEF SizeOf
<1>7. Bytes(q) = SumFunctionOnSet(SizeOf(q), DOMAIN SizeOf(q))
  BY DEF Bytes, SumFunction, SizeOf
<1>8. \A i \in 1 .. Len(q) : SizeOf(q)[i] \in Nat
  BY <1>4, <1>5
<1>9. SumFunctionOnSet(SizeOf(q), 1 .. Len(q)) \in Nat
  BY <1>2, <1>8, SumIsNat
<1> QED
  BY <1>4, <1>5, <1>6, <1>7, <1>9

LEMMA NoBytes == Bytes(<<>>) = 0
<1>1. <<>> \in Seq(Items) /\ Len(<<>>) = 0 /\ 1 .. 0 = {}
  OBVIOUS
<1> QED
  BY <1>1, BytesIs, SumEmpty

LEMMA BytesAppended ==
    ASSUME NEW q \in Seq(Items), NEW x \in Items
    PROVE  Bytes(Append(q, x)) = Bytes(q) + x.size
<1> DEFINE r == Append(q, x)
<1>1. /\ r \in Seq(Items) /\ Len(r) = Len(q) + 1 /\ Len(q) \in Nat
      /\ r[Len(q) + 1] = x /\ \A k \in 1 .. Len(q) : r[k] = q[k]
  OBVIOUS
<1> HIDE DEF r
<1>2. SizeOf(r)[Len(q) + 1] = x.size /\ SizeOf(r)[Len(q) + 1] \in Int
  BY <1>1, BytesIs
<1>3. \A k \in 1 .. Len(q) : SizeOf(q)[k] \in Int /\ SizeOf(r)[k] = SizeOf(q)[k]
  BY <1>1, BytesIs
<1>4. SumFunctionOnSet(SizeOf(r), 1 .. Len(q) + 1) =
        SumFunctionOnSet(SizeOf(q), 1 .. Len(q)) + SizeOf(r)[Len(q) + 1]
  BY <1>1, <1>2, <1>3, SumAppend
<1> QED
  BY <1>1, <1>2, <1>4, BytesIs DEF r

LEMMA BytesOfTail ==
    ASSUME NEW q \in Seq(Items), q # <<>>
    PROVE  /\ Head(q) \in Items /\ Tail(q) \in Seq(Items)
           /\ Bytes(Tail(q)) = Bytes(q) - Head(q).size
<1> DEFINE r == Tail(q)
           n == Len(r)
<1>1. /\ r \in Seq(Items) /\ Len(q) = n + 1 /\ n \in Nat /\ Head(q) = q[1] /\ q[1] \in Items
      /\ \A k \in 1 .. n : r[k] = q[k + 1]
  OBVIOUS
<1> HIDE DEF r
<1>2. DOMAIN r = 1 .. n /\ DOMAIN q = 1 .. n + 1 /\ 1 \in 1 .. n + 1
  BY <1>1
<1>n. Len(r) = n
  OBVIOUS
<1> HIDE DEF n
<1>3. ASSUME NEW k \in 1 .. n
      PROVE  SizeOf(r)[k] = IF k < 1 THEN SizeOf(q)[k] ELSE SizeOf(q)[k + 1]
  <2>1. k \in DOMAIN r /\ k + 1 \in DOMAIN q /\ ~(k < 1)
    BY <1>1, <1>2
  <2> QED
    BY <1>1, <2>1 DEF SizeOf
<1>4. \A k \in 1 .. n + 1 : SizeOf(q)[k] \in Int
  BY <1>1, BytesIs
<1>5. SumFunctionOnSet(SizeOf(r), 1 .. n) =
        SumFunctionOnSet(SizeOf(q), 1 .. n + 1) - SizeOf(q)[1]
  BY <1>1, <1>2, <1>3, <1>4, SumDelete
<1>6. /\ Bytes(r) = SumFunctionOnSet(SizeOf(r), 1 .. n)
      /\ Bytes(q) = SumFunctionOnSet(SizeOf(q), 1 .. n + 1)
      /\ SizeOf(q)[1] = q[1].size
  BY <1>1, <1>2, <1>n, BytesIs
<1> QED
  BY <1>1, <1>5, <1>6 DEF r

\* What the unfinished streams hold.
Charged(st) == SumFunction([s \in Streams |-> st[s].charged])

LEMMA ChargedIs ==
    ASSUME NEW st \in [Streams -> StreamContexts]
    PROVE  /\ Charged(st) \in Nat
           /\ \A s \in Streams : st[s].charged \in Nat /\ st[s].charged <= Charged(st)
<1> DEFINE f == [s \in Streams |-> st[s].charged]
<1>1. \A s \in Streams : f[s] = st[s].charged /\ f[s] \in Nat
  BY DEF StreamContexts
<1>2. Charged(st) = SumFunctionOnSet(f, Streams)
  BY DEF Charged, SumFunction
<1> HIDE DEF f
<1>3. SumFunctionOnSet(f, Streams) \in Nat /\ \A s \in Streams : f[s] <= SumFunctionOnSet(f, Streams)
  BY <1>1, SumIsNat, IngressAssumption
<1> QED
  BY <1>1, <1>2, <1>3

LEMMA ChargedChanged ==
    ASSUME NEW st \in [Streams -> StreamContexts], NEW s \in Streams, NEW c \in StreamContexts
    PROVE  Charged([st EXCEPT ![s] = c]) = Charged(st) - st[s].charged + c.charged
<1> DEFINE u == [st EXCEPT ![s] = c]
           f == [t \in Streams |-> st[t].charged]
           g == [t \in Streams |-> u[t].charged]
<1>0. u \in [Streams -> StreamContexts] /\ u[s] = c /\ \A t \in Streams \ {s} : u[t] = st[t]
  OBVIOUS
<1>1. /\ Charged(st) = SumFunctionOnSet(f, Streams)
      /\ Charged(u) = SumFunctionOnSet(g, Streams)
  BY DEF Charged, SumFunction
<1> HIDE DEF u
<1>2. /\ f[s] = st[s].charged /\ g[s] = c.charged
      /\ \A t \in Streams \ {s} : g[t] = f[t]
  BY <1>0
<1>3. (\A t \in Streams : f[t] \in Int) /\ g[s] \in Int
  BY <1>0 DEF StreamContexts
<1> HIDE DEF f, g
<1>4. SumFunctionOnSet(g, Streams) = SumFunctionOnSet(f, Streams) - f[s] + g[s]
  BY <1>2, <1>3, SumChange, IngressAssumption
<1> QED
  BY <1>1, <1>2, <1>4 DEF u

LEMMA ChargedSame ==
    ASSUME NEW st, NEW u, \A s \in Streams : u[s].charged = st[s].charged
    PROVE  Charged(u) = Charged(st)
<1>1. [s \in Streams |-> u[s].charged] = [s \in Streams |-> st[s].charged]
  OBVIOUS
<1> QED
  BY <1>1 DEF Charged

-----------------------------------------------------------------------------
LEMMA Constants ==
    /\ MaxBuffered \in Nat /\ MaxPayload \in Nat /\ MaxPayload >= 1 /\ MaxShares \in Nat
    /\ \A n \in 0 .. MaxShares : n \in Nat
    /\ \A n \in 0 .. MaxPayload : n \in Nat
BY IngressAssumption

LEMMA OneIs ==
    ASSUME NEW p
    PROVE  One(p) \in Nat /\ One(p) \in {0, 1} /\ (p => One(p) = 1) /\ (~p => One(p) = 0)
BY DEF One

LEMMA InitInv == Init => IInv
<1> SUFFICES ASSUME Init PROVE IInv
  OBVIOUS
<1>0. 0 \in 0 .. MaxShares
  BY Constants
<1>1. NewStream \in StreamContexts /\ StreamOK(NewStream) /\ NewStream.charged = 0
  BY <1>0 DEF NewStream, StreamContexts, Stages, StreamOK
<1>2. stream \in [Streams -> StreamContexts] /\ \A s \in Streams : stream[s] = NewStream
  BY <1>1 DEF Init
<1>3. hand \in [step : {"idle", "one", "both"}, gen : 0 .. MaxShares, allowed : BOOLEAN]
  BY <1>0 DEF Init, Idle
<1>4. TypeOK
  <2>1. sharing \in BOOLEAN /\ allowed \in BOOLEAN
    BY DEF Init
  <2>2. control \in Seq({"start", "stop"}) /\ todo \in Seq(Calls) /\ queue \in Seq(Items)
        /\ batch \in Seq(Items)
    BY DEF Init
  <2> QED
    BY <1>0, <1>2, <1>3, <2>1, <2>2 DEF Init, TypeOK
<1>5. StreamsOK
  BY <1>1, <1>2 DEF StreamsOK
<1>6. Alternates /\ SharesCounted /\ GenerationsFenced /\ CallInProgress /\ QueueIsFenced
  <2>1. hand.step = "idle" /\ hand.gen = 0 /\ Len(<<>>) = 0
    BY DEF Init, Idle
  <2> QED
    BY <2>1 DEF Init, Alternates, SharesCounted, GenerationsFenced, Fenced, CallInProgress,
       QueueIsFenced
<1>9. NoneIsLost
  <2>1. One(allowed) = 0 /\ One(sharing) = 0 /\ Len(control) = 0
    BY OneIs DEF Init
  <2> QED
    BY <2>1 DEF Init, NoneIsLost
<1>7. Charged(stream) = 0
  <2> DEFINE f == [s \in Streams |-> stream[s].charged]
  <2>1. \A s \in Streams : f[s] = 0
    BY <1>1, <1>2
  <2>2. Charged(stream) = SumFunctionOnSet(f, Streams)
    BY DEF Charged, SumFunction
  <2> HIDE DEF f
  <2>3. SumFunctionOnSet(f, Streams) = 0
    BY <2>1, SumOfZeros, IngressAssumption
  <2> QED
    BY <2>2, <2>3
<1>8. BudgetsExact /\ BudgetsBounded
  BY <1>7, NoBytes, Constants DEF Init, BudgetsExact, BudgetsBounded, Charged
<1> QED
  BY <1>4, <1>5, <1>6, <1>8, <1>9 DEF IInv

-----------------------------------------------------------------------------
(* The sharer's control messages and the main loop's handling of them.     *)
LEMMA Sent ==
    ASSUME IInv, NEW m \in {"start", "stop"}, control' = Append(control, m),
           allowed' = allowed, stops' = stops,
           sharing' <=> m = "start", sharing <=> m = "stop",
           share' \in Nat, 2 * share' - One(sharing') = 2 * share - One(sharing) + 1
    PROVE  control' \in Seq({"start", "stop"}) /\ Alternates' /\ NoneIsLost'
<1>t. /\ control \in Seq({"start", "stop"}) /\ Len(control) \in Nat /\ allowed \in BOOLEAN
      /\ stops \in Nat /\ share \in Nat /\ sharing \in BOOLEAN
  BY Constants DEF IInv, TypeOK
<1>1. /\ control' \in Seq({"start", "stop"}) /\ Len(control') = Len(control) + 1
      /\ control'[Len(control) + 1] = m /\ \A i \in 1 .. Len(control) : control'[i] = control[i]
      /\ control' # <<>>
  BY <1>t
<1>2. NoneIsLost'
  <2>1. One(allowed') = One(allowed) /\ One(allowed) \in Nat /\ One(sharing) \in Nat
    BY OneIs
  <2>2. 2 * stops + One(allowed) + Len(control) = 2 * share - One(sharing)
    BY DEF IInv, NoneIsLost
  <2>3. 2 * stops' + One(allowed') + Len(control') = 2 * share' - One(sharing')
    BY <1>t, <1>1, <2>1, <2>2
  <2> QED
    BY <2>3 DEF NoneIsLost
<1>3. CASE control = <<>>
  <2>1. Len(control) = 0 /\ Len(control') = 1 /\ control'[1] = m
    BY <1>1, <1>3
  <2>2. allowed' <=> sharing
    BY <1>3 DEF IInv, Alternates
  <2>3. m = (IF allowed' THEN "stop" ELSE "start") /\ m = (IF sharing' THEN "start" ELSE "stop")
    BY <2>2
  <2>4. Alternates'
    BY <1>1, <2>1, <2>3 DEF Alternates
  <2> QED
    BY <1>1, <1>2, <2>4
<1>4. CASE control # <<>>
  <2>1. Len(control) >= 1
    BY <1>t, <1>4
  <2>2. control[Len(control)] # m
    BY <1>t, <1>4 DEF IInv, Alternates
  <2>3. \A i \in 1 .. Len(control') - 1 : control'[i] # control'[i + 1]
    <3> SUFFICES ASSUME NEW i \in 1 .. Len(control') - 1 PROVE control'[i] # control'[i + 1]
      OBVIOUS
    <3>1. i \in 1 .. Len(control)
      BY <1>t, <1>1
    <3>2. CASE i = Len(control)
      BY <1>1, <2>2, <3>1, <3>2
    <3>3. CASE i # Len(control)
      <4>1. i \in 1 .. Len(control) - 1 /\ i + 1 \in 1 .. Len(control)
        BY <1>t, <3>1, <3>3
      <4> QED
        BY <1>1, <3>1, <4>1 DEF IInv, Alternates
    <3> QED
      BY <3>2, <3>3
  <2>4. control'[1] = (IF allowed' THEN "stop" ELSE "start")
    <3>1. control'[1] = control[1]
      BY <1>t, <1>1, <2>1
    <3> QED
      BY <1>4, <3>1 DEF IInv, Alternates
  <2>5. control'[Len(control')] = (IF sharing' THEN "start" ELSE "stop")
    BY <1>1
  <2> QED
    BY <1>1, <1>2, <2>3, <2>4, <2>5 DEF Alternates
<1> QED
  BY <1>1, <1>2, <1>3, <1>4

LEMMA Handled ==
    ASSUME IInv, NEW m \in {"start", "stop"}, control # <<>>, Head(control) = m,
           control' = Tail(control), allowed' <=> m = "start",
           stops' = (IF m = "stop" THEN stops + 1 ELSE stops),
           UNCHANGED <<sharing, share>>
    PROVE  /\ control' \in Seq({"start", "stop"}) /\ Alternates' /\ NoneIsLost'
           /\ (allowed <=> m = "stop") /\ stops' \in 0 .. MaxShares
<1>t. /\ control \in Seq({"start", "stop"}) /\ Len(control) \in Nat /\ allowed \in BOOLEAN
      /\ stops \in Nat /\ share \in Nat /\ share <= MaxShares /\ sharing \in BOOLEAN
      /\ MaxShares \in Nat
  BY Constants DEF IInv, TypeOK
<1>1. /\ control' \in Seq({"start", "stop"}) /\ Len(control') = Len(control) - 1
      /\ \A i \in 1 .. Len(control) - 1 : control'[i] = control[i + 1]
      /\ Len(control) >= 1 /\ control[1] = m
  BY <1>t
<1>2. allowed <=> m = "stop"
  BY <1>t, <1>1 DEF IInv, Alternates
<1>3. NoneIsLost'
  <2>1. /\ One(allowed) \in Nat /\ One(sharing) \in Nat /\ One(sharing') = One(sharing)
        /\ One(allowed) = (IF m = "stop" THEN 1 ELSE 0)
        /\ One(allowed') = (IF m = "stop" THEN 0 ELSE 1)
    BY <1>2, OneIs
  <2>2. 2 * stops + One(allowed) + Len(control) = 2 * share - One(sharing)
    BY DEF IInv, NoneIsLost
  <2>3. 2 * stops' + One(allowed') + Len(control') = 2 * share' - One(sharing')
    BY <1>t, <1>1, <2>1, <2>2
  <2> QED
    BY <2>3 DEF NoneIsLost
<1>4. stops' \in Nat /\ Len(control') \in Nat
  BY <1>t, <1>1
<1>5. stops' \in 0 .. MaxShares
  <2>1. One(allowed') \in Nat /\ One(sharing') \in Nat
    BY OneIs
  <2>2. 2 * stops' + One(allowed') + Len(control') = 2 * share - One(sharing')
    BY <1>3 DEF NoneIsLost
  <2> QED
    BY <1>t, <1>4, <2>1, <2>2
<1>6. CASE Len(control) = 1
  <2>1. control' = <<>>
    BY <1>1, <1>6
  <2>2. m = IF sharing THEN "start" ELSE "stop"
    BY <1>1, <1>6 DEF IInv, Alternates
  <2>3. Len(control') = 0 /\ (allowed' <=> sharing')
    BY <1>1, <1>6, <2>2
  <2>4. Alternates'
    BY <2>1, <2>3 DEF Alternates
  <2> QED
    BY <1>1, <1>2, <1>3, <1>5, <2>4
<1>7. CASE Len(control) # 1
  <2>1. Len(control) >= 2 /\ control' # <<>>
    <3>1. Len(control) >= 2 /\ Len(control') # 0
      BY <1>t, <1>1, <1>7
    <3> QED
      BY <3>1
  <2>2. control[1] # control[2] /\ control[2] \in {"start", "stop"}
    BY <1>t, <2>1 DEF IInv, Alternates
  <2>3. control'[1] = control[2] /\ control'[Len(control')] = control[Len(control)]
    BY <1>t, <1>1, <2>1
  <2>4. \A i \in 1 .. Len(control') - 1 : control'[i] # control'[i + 1]
    <3> SUFFICES ASSUME NEW i \in 1 .. Len(control') - 1 PROVE control'[i] # control'[i + 1]
      OBVIOUS
    <3>1. i \in 1 .. Len(control) - 1 /\ i + 1 \in 1 .. Len(control) - 1
      BY <1>t, <1>1
    <3>2. control'[i] = control[i + 1] /\ control'[i + 1] = control[(i + 1) + 1]
      BY <1>1, <3>1
    <3> QED
      BY <3>1, <3>2 DEF IInv, Alternates
  <2>5. control'[1] = (IF allowed' THEN "stop" ELSE "start")
    BY <1>1, <2>2, <2>3
  <2>6. control'[Len(control')] = (IF sharing' THEN "start" ELSE "stop")
    BY <2>3 DEF IInv, Alternates
  <2> QED
    BY <1>1, <1>2, <1>3, <1>5, <2>1, <2>4, <2>5, <2>6 DEF Alternates
<1> QED
  BY <1>6, <1>7

LEMMA SharerInv ==
    ASSUME IInv, SharerStart \/ SharerStop
    PROVE  IInv'
<1>t. /\ sharing \in BOOLEAN /\ share \in 0 .. MaxShares /\ share \in Nat /\ MaxShares \in Nat
  BY Constants DEF IInv, TypeOK
<1>1. UNCHANGED <<allowed, gen, stops, batch, accepted, stream, buffered, todo, hand, queue, pending>>
  BY DEF SharerStart, SharerStop, loopVars, workerVars
<1>2. control' \in Seq({"start", "stop"}) /\ Alternates' /\ NoneIsLost'
  <2>1. CASE SharerStart
    <3>1. /\ control' = Append(control, "start") /\ sharing' /\ ~sharing
          /\ share' = share + 1
      BY <2>1 DEF SharerStart
    <3>4. One(sharing') = 1 /\ One(sharing) = 0
      BY <3>1 DEF One
    <3>5. share' = share + 1 /\ share \in Nat
      BY <1>t, <3>1
    <3>2. share' \in Nat
      BY <3>5
    <3>3. 2 * share' - One(sharing') = 2 * share - One(sharing) + 1
      BY <3>4, <3>5
    <3> QED
      BY <1>1, <3>1, <3>2, <3>3, Sent
  <2>2. CASE SharerStop
    <3>1. control' = Append(control, "stop") /\ ~sharing' /\ sharing /\ share' = share
      BY <2>2 DEF SharerStop
    <3>4. One(sharing') = 0 /\ One(sharing) = 1
      BY <3>1 DEF One
    <3>5. share' = share /\ share \in Nat
      BY <1>t, <3>1
    <3>2. share' \in Nat
      BY <3>5
    <3>3. 2 * share' - One(sharing') = 2 * share - One(sharing) + 1
      BY <3>4, <3>5
    <3> QED
      BY <1>1, <3>1, <3>2, <3>3, Sent
  <2> QED
    BY <2>1, <2>2
<1>3. sharing' \in BOOLEAN /\ share' \in 0 .. MaxShares /\ SharesCounted'
  <2>1. CASE SharerStart
    BY <1>t, <2>1 DEF SharerStart, SharesCounted
  <2>2. CASE SharerStop
    BY <1>t, <2>2 DEF SharerStop, SharesCounted
  <2> QED
    BY <2>1, <2>2
<1>4. TypeOK'
  BY <1>1, <1>2, <1>3 DEF IInv, TypeOK
<1>5. StreamsOK' /\ GenerationsFenced' /\ CallInProgress' /\ BudgetsExact' /\ BudgetsBounded' /\ QueueIsFenced'
  BY <1>1 DEF IInv, StreamsOK, GenerationsFenced, Fenced, CallInProgress, BudgetsExact,
              BudgetsBounded, QueueIsFenced
<1> QED
  BY <1>2, <1>3, <1>4, <1>5 DEF IInv

-----------------------------------------------------------------------------
(* Stream contexts.                                                        *)
LEMMA Field ==
    ASSUME NEW c \in StreamContexts
    PROVE  /\ c.stage \in Stages /\ c.share \in 0 .. MaxShares /\ c.got \in Nat /\ c.charged \in Nat
           /\ c.prefix \in BOOLEAN /\ c.header \in BOOLEAN /\ c.finished \in BOOLEAN
           /\ c.reports \in Nat
BY DEF StreamContexts

LEMMA StageSet ==
    ASSUME NEW c, StreamOK(c), NEW stage \in {"open", "closed"}, c.stage # "unused",
           stage = "open" => ~c.finished
    PROVE  /\ StreamOK([c EXCEPT !.stage = stage])
           /\ [c EXCEPT !.stage = stage].charged = c.charged
<1>1. c \in StreamContexts /\ stage \in Stages
  BY DEF StreamOK, Stages
<1> DEFINE d == [c EXCEPT !.stage = stage]
<1>2. /\ d \in StreamContexts /\ d.stage = stage /\ d.share = c.share /\ d.got = c.got
      /\ d.charged = c.charged /\ d.prefix = c.prefix /\ d.header = c.header
      /\ d.finished = c.finished /\ d.reports = c.reports
  BY <1>1 DEF StreamContexts
<1> HIDE DEF d
<1>3. StreamOK(d)
  BY <1>2 DEF StreamOK
<1> QED
  BY <1>2, <1>3 DEF d

LEMMA UnchargedIs ==
    ASSUME NEW c, StreamOK(c)
    PROVE  StreamOK(Uncharged(c)) /\ Uncharged(c).charged = 0
<1>1. c \in StreamContexts
  BY DEF StreamOK
<1> DEFINE d == Uncharged(c)
<1>2. /\ d \in StreamContexts /\ d.stage = c.stage /\ d.share = c.share /\ d.got = c.got
      /\ d.charged = 0 /\ d.prefix = c.prefix /\ d.header = c.header
      /\ d.finished = c.finished /\ d.reports = c.reports
  BY <1>1 DEF StreamContexts, Uncharged
<1> HIDE DEF d
<1>3. StreamOK(d)
  BY <1>2 DEF StreamOK
<1> QED
  BY <1>2, <1>3 DEF d

\* An open stream ends: it reports something if its source is known or its
\* frame is whole, and it is not open any more.
LEMMA Ended ==
    ASSUME NEW c, StreamOK(c), c.stage = "open", NEW stage \in {"dead", "done"},
           NEW report \in BOOLEAN, c.prefix => report
    PROVE  StreamOK([(IF report THEN Reported(c) ELSE c) EXCEPT !.stage = stage])
<1>1. /\ c \in StreamContexts /\ stage \in Stages /\ c.reports = 0 /\ ~c.finished /\ c.share >= 1
      /\ c.header => c.prefix /\ c.got >= Prefix + Header
  BY DEF StreamOK, Stages
<1>2. CASE report
  <2> DEFINE d == [Reported(c) EXCEPT !.stage = stage]
  <2>0. Reported(c) = [c EXCEPT !.finished = TRUE, !.reports = 1]
    BY <1>1 DEF Reported
  <2>1. /\ d \in StreamContexts /\ d.stage = stage /\ d.share = c.share /\ d.got = c.got
        /\ d.prefix = c.prefix /\ d.header = c.header
        /\ d.finished = TRUE /\ d.reports = 1
    <3> DEFINE e == [c EXCEPT !.finished = TRUE, !.reports = 1]
    <3>1. /\ e \in StreamContexts /\ e.share = c.share /\ e.got = c.got
          /\ e.prefix = c.prefix /\ e.header = c.header
          /\ e.finished = TRUE /\ e.reports = 1
      BY <1>1 DEF StreamContexts
    <3> HIDE DEF e
    <3>2. d = [e EXCEPT !.stage = stage]
      BY <2>0 DEF e
    <3> QED
      BY <1>1, <3>1, <3>2 DEF StreamContexts
  <2> HIDE DEF d
  <2>2. StreamOK(d)
    BY <1>1, <2>1 DEF StreamOK
  <2> QED
    BY <1>2, <2>2 DEF d
<1>3. CASE ~report
  <2> DEFINE d == [c EXCEPT !.stage = stage]
  <2>1. /\ d \in StreamContexts /\ d.stage = stage /\ d.share = c.share /\ d.got = c.got
        /\ d.prefix = c.prefix /\ d.header = c.header
        /\ d.finished = c.finished /\ d.reports = c.reports
    BY <1>1 DEF StreamContexts
  <2> HIDE DEF d
  <2>2. StreamOK(d)
    BY <1>1, <1>3, <2>1 DEF StreamOK
  <2> QED
    BY <1>3, <2>2 DEF d
<1> QED
  BY <1>2, <1>3

LEMMA Aborted ==
    ASSUME NEW c, StreamOK(c), c.stage = "open"
    PROVE  StreamOK(Abort(c)) /\ Abort(c).charged = 0
<1>1. ReportsLost(c) \in BOOLEAN /\ (c.prefix => ReportsLost(c))
  BY DEF StreamOK, ReportsLost
<1> DEFINE r == ReportsLost(c)
           d == [(IF r THEN Reported(c) ELSE c) EXCEPT !.stage = "dead"]
<1>2. Abort(c) = Uncharged(d)
  BY DEF Abort
<1> HIDE DEF r
<1>3. r \in BOOLEAN /\ (c.prefix => r)
  BY <1>1 DEF r
<1>4. StreamOK(d)
  BY <1>3, Ended
<1> HIDE DEF d
<1> QED
  BY <1>2, <1>4, UnchargedIs

LEMMA CallIs ==
    ASSUME NEW c, StreamOK(c), c.stage # "unused"
    PROVE  /\ Call(c, "started") \in Calls
           /\ AbortCalls(c) \in Seq(Calls)
           /\ c.header /\ c.got <= Prefix + MaxPayload => Call(c, "frame") \in Calls
<1>1. /\ c.share \in 1 .. MaxShares /\ c.got \in Nat /\ 0 \in 0 .. MaxPayload
      /\ c.header => c.got >= 2
  BY Constants, Field DEF StreamOK, Prefix, Header
<1>2. /\ Call(c, "started") = [kind |-> "started", share |-> c.share, size |-> 0]
      /\ Call(c, "aborted") = [kind |-> "aborted", share |-> c.share, size |-> 0]
      /\ Call(c, "frame") = [kind |-> "frame", share |-> c.share, size |-> c.got - Prefix]
  BY DEF Call
<1>3. Call(c, "started") \in Calls /\ Call(c, "aborted") \in Calls
  BY <1>1, <1>2 DEF Calls, Kinds
<1>4. AbortCalls(c) \in Seq(Calls)
  BY <1>3 DEF AbortCalls
<1>5. ASSUME c.header, c.got <= Prefix + MaxPayload PROVE Call(c, "frame") \in Calls
  <2>1. c.got - Prefix \in 0 .. MaxPayload
    BY <1>1, <1>5, Constants DEF Prefix
  <2> QED
    BY <1>1, <1>2, <2>1 DEF Calls, Kinds
<1> QED
  BY <1>3, <1>4, <1>5

\* n more bytes have arrived, and what they show is noted.
LEMMA Grown ==
    ASSUME NEW c, StreamOK(c), c.stage = "open", NEW n \in Nat
    PROVE  LET charged == [c EXCEPT !.charged = @ + n]
               more == [charged EXCEPT !.got = @ + n]
               known == [more EXCEPT !.prefix = @ \/ more.got >= Prefix]
               seen == [known EXCEPT !.header = @ \/ known.got >= Prefix + Header]
           IN  /\ StreamOK(charged) /\ charged.stage = "open" /\ charged.charged = c.charged + n
               /\ StreamOK(more) /\ more.stage = "open"
               /\ StreamOK(seen) /\ seen.stage = "open" /\ seen.charged = c.charged + n
<1> DEFINE charged == [c EXCEPT !.charged = @ + n]
           more == [charged EXCEPT !.got = @ + n]
           p == more.prefix \/ more.got >= Prefix
           known == [more EXCEPT !.prefix = @ \/ more.got >= Prefix]
           h == known.header \/ known.got >= Prefix + Header
           seen == [known EXCEPT !.header = @ \/ known.got >= Prefix + Header]
<1>0. c \in StreamContexts /\ c.charged \in Nat /\ c.got \in Nat
  BY Field DEF StreamOK
<1>1. /\ charged \in StreamContexts /\ charged.stage = c.stage /\ charged.share = c.share
      /\ charged.got = c.got /\ charged.charged = c.charged + n /\ charged.prefix = c.prefix
      /\ charged.header = c.header /\ charged.finished = c.finished /\ charged.reports = c.reports
  BY <1>0 DEF StreamContexts
<1> HIDE DEF charged
<1>2. StreamOK(charged)
  BY <1>1 DEF StreamOK
<1>3. /\ more \in StreamContexts /\ more.stage = c.stage /\ more.share = c.share
      /\ more.got = c.got + n /\ more.charged = c.charged + n /\ more.prefix = c.prefix
      /\ more.header = c.header /\ more.finished = c.finished /\ more.reports = c.reports
  BY <1>0, <1>1 DEF StreamContexts
<1> HIDE DEF more
<1>4. StreamOK(more)
  BY <1>0, <1>3 DEF StreamOK, Prefix, Header
<1>5. /\ p \in BOOLEAN /\ known = [more EXCEPT !.prefix = p]
      /\ p <=> c.prefix \/ c.got + n >= Prefix
  BY <1>3
<1> HIDE DEF p, known
<1>6. /\ known \in StreamContexts /\ known.stage = c.stage /\ known.share = c.share
      /\ known.got = c.got + n /\ known.charged = c.charged + n /\ known.prefix = p
      /\ known.header = c.header /\ known.finished = c.finished /\ known.reports = c.reports
  BY <1>3, <1>5 DEF StreamContexts
<1>7. /\ h \in BOOLEAN /\ seen = [known EXCEPT !.header = h]
      /\ h <=> c.header \/ c.got + n >= Prefix + Header
  BY <1>6
<1> HIDE DEF h, seen
<1>8. /\ seen \in StreamContexts /\ seen.stage = c.stage /\ seen.share = c.share
      /\ seen.got = c.got + n /\ seen.charged = c.charged + n /\ seen.prefix = p
      /\ seen.header = h /\ seen.finished = c.finished /\ seen.reports = c.reports
  BY <1>6, <1>7 DEF StreamContexts
<1>9. StreamOK(seen)
  <2>1. h => p /\ c.got + n >= Prefix + Header
    BY <1>0, <1>5, <1>7 DEF StreamOK, Prefix, Header
  <2> QED
    BY <1>8, <2>1 DEF StreamOK
<1> QED
  BY <1>1, <1>2, <1>3, <1>4, <1>8, <1>9 DEF charged, more, known, seen

-----------------------------------------------------------------------------
(* A callback replaces the context of one stream, charges or returns its   *)
(* bytes, and leaves calls to make.                                        *)
LEMMA CallbackInv ==
    ASSUME IInv, NEW s \in Streams, NEW c, StreamOK(c),
           stream' = [stream EXCEPT ![s] = c],
           buffered' = buffered - stream[s].charged + c.charged, buffered' <= MaxBuffered,
           todo = <<>> \/ todo' = todo, todo' \in Seq(Calls),
           UNCHANGED <<sharing, share, control, allowed, gen, stops, batch, accepted, hand,
                       queue, pending>>
    PROVE  IInv'
<1>t. stream \in [Streams -> StreamContexts] /\ c \in StreamContexts
  BY DEF IInv, TypeOK, StreamOK
<1>1. stream' \in [Streams -> StreamContexts] /\ StreamsOK'
  BY <1>t DEF IInv, StreamsOK
<1>2. buffered' = Charged(stream')
  <2>1. buffered = Charged(stream)
    BY DEF IInv, BudgetsExact, Charged
  <2> QED
    BY <1>t, <2>1, ChargedChanged
<1>3. buffered' \in Nat
  BY <1>1, <1>2, ChargedIs
<1>4. TypeOK'
  BY <1>1, <1>3 DEF IInv, TypeOK
<1>5. BudgetsExact' /\ BudgetsBounded'
  BY <1>2 DEF IInv, BudgetsExact, BudgetsBounded, Charged
<1>6. CallInProgress'
  BY DEF IInv, CallInProgress
<1>7. Alternates' /\ NoneIsLost' /\ SharesCounted' /\ GenerationsFenced' /\ QueueIsFenced'
  BY DEF IInv, Alternates, NoneIsLost, One, SharesCounted, GenerationsFenced, Fenced,
     QueueIsFenced
<1> QED
  BY <1>1, <1>4, <1>5, <1>6, <1>7 DEF IInv

LEMMA SharerSendInv ==
    ASSUME IInv, NEW s \in Streams, SharerSend(s)
    PROVE  IInv'
<1>t. /\ stream \in [Streams -> StreamContexts] /\ StreamOK(stream[s]) /\ buffered \in Nat
      /\ todo \in Seq(Calls) /\ share \in 0 .. MaxShares /\ share >= 1 /\ buffered <= MaxBuffered
  BY DEF IInv, TypeOK, StreamsOK, SharesCounted, BudgetsBounded, SharerSend
<1> DEFINE c == stream[s]
           d == [c EXCEPT !.stage = "sent", !.share = share]
<1>1. stream' = [stream EXCEPT ![s] = d]
  BY <1>t DEF SharerSend
<1>2. StreamOK(c) /\ c.stage = "unused" /\ c \in StreamContexts
  BY <1>t DEF SharerSend
<1> HIDE DEF c
<1>3. /\ d \in StreamContexts /\ d.stage = "sent" /\ d.share = share /\ d.got = c.got
      /\ d.charged = c.charged /\ d.prefix = c.prefix /\ d.header = c.header
      /\ d.finished = c.finished /\ d.reports = c.reports
  BY <1>t, <1>2 DEF StreamContexts, Stages
<1> HIDE DEF d
<1>4. StreamOK(d)
  BY <1>t, <1>2, <1>3 DEF StreamOK
<1>5. /\ buffered' = buffered - stream[s].charged + d.charged /\ buffered' <= MaxBuffered
  <2>1. c.charged \in Nat /\ buffered' = buffered
    BY <1>2, Field DEF SharerSend
  <2> QED
    BY <1>t, <1>3, <2>1 DEF c
<1>6. /\ todo' = todo
      /\ UNCHANGED <<sharing, share, control, allowed, gen, stops, batch, accepted, hand,
                     queue, pending>>
  BY DEF SharerSend, sharerVars, loopVars
<1> QED
  BY <1>t, <1>1, <1>4, <1>5, <1>6, CallbackInv

LEMMA PeerStreamStartedInv ==
    ASSUME IInv, NEW s \in Streams, PeerStreamStarted(s)
    PROVE  IInv'
<1>t. /\ stream \in [Streams -> StreamContexts] /\ StreamOK(stream[s]) /\ buffered \in Nat
      /\ todo \in Seq(Calls) /\ stream[s].stage = "sent" /\ buffered <= MaxBuffered
  BY DEF IInv, TypeOK, StreamsOK, BudgetsBounded, PeerStreamStarted
<1> DEFINE stage == IF allowed THEN "open" ELSE "closed"
           d == [stream[s] EXCEPT !.stage = stage]
<1>1. stream' = [stream EXCEPT ![s] = d]
  BY <1>t DEF PeerStreamStarted
<1>2. stage \in {"open", "closed"} /\ ~stream[s].finished
  BY <1>t DEF StreamOK
<1> HIDE DEF stage
<1>3. StreamOK(d) /\ d.charged = stream[s].charged
  BY <1>t, <1>2, StageSet
<1>4. stream[s].charged \in Nat /\ buffered' = buffered
  BY <1>t, Field DEF PeerStreamStarted
<1> HIDE DEF d
<1>5. buffered' = buffered - stream[s].charged + d.charged /\ buffered' <= MaxBuffered
  BY <1>t, <1>3, <1>4
<1>6. /\ todo' = todo
      /\ UNCHANGED <<sharing, share, control, allowed, gen, stops, batch, accepted, hand,
                     queue, pending>>
  BY DEF PeerStreamStarted, sharerVars, loopVars
<1> QED
  BY <1>t, <1>1, <1>3, <1>5, <1>6, CallbackInv

LEMMA StreamEndInv ==
    ASSUME IInv, NEW s \in Streams, PeerSendAborted(s) \/ StreamShutdown(s)
    PROVE  IInv'
<1>t. /\ stream \in [Streams -> StreamContexts] /\ StreamOK(stream[s]) /\ buffered \in Nat
      /\ todo \in Seq(Calls) /\ buffered <= MaxBuffered /\ MaxBuffered \in Nat
      /\ buffered = Charged(stream)
  BY Constants DEF IInv, TypeOK, StreamsOK, BudgetsBounded, BudgetsExact, Charged
<1>c. stream[s].charged \in Nat /\ stream[s].charged <= buffered
  BY <1>t, ChargedIs
<1>u. /\ buffered' = buffered - stream[s].charged
      /\ UNCHANGED <<sharing, share, control, allowed, gen, stops, batch, accepted, hand,
                     queue, pending>>
  BY DEF PeerSendAborted, StreamShutdown, sharerVars, loopVars
<1>1. CASE PeerSendAborted(s)
  <2>1. StreamOK(Abort(stream[s])) /\ Abort(stream[s]).charged = 0
    BY <1>t, <1>1, Aborted DEF PeerSendAborted
  <2>2. AbortCalls(stream[s]) \in Seq(Calls)
    BY <1>t, <1>1, CallIs DEF PeerSendAborted
  <2> DEFINE d == Abort(stream[s])
  <2>3. stream' = [stream EXCEPT ![s] = d] /\ todo = <<>> /\ todo' \in Seq(Calls)
    BY <1>1, <1>t, <2>2 DEF PeerSendAborted, WorkerFree
  <2> HIDE DEF d
  <2>4. buffered' = buffered - stream[s].charged + d.charged /\ buffered' <= MaxBuffered
    BY <1>t, <1>c, <1>u, <2>1 DEF d
  <2> QED
    BY <1>u, <2>1, <2>3, <2>4, CallbackInv DEF d
<1>2. CASE StreamShutdown(s)
  <2> DEFINE e == [stream[s] EXCEPT !.stage = "closed"]
             d == Uncharged(e)
  <2>1. StreamOK(e)
    BY <1>t, <1>2, StageSet DEF StreamShutdown
  <2>2. stream' = [stream EXCEPT ![s] = d] /\ todo' = todo
    BY <1>2, <1>t DEF StreamShutdown
  <2> HIDE DEF e
  <2>3. StreamOK(d) /\ d.charged = 0
    BY <2>1, UnchargedIs
  <2> HIDE DEF d
  <2>4. buffered' = buffered - stream[s].charged + d.charged /\ buffered' <= MaxBuffered
    BY <1>t, <1>c, <1>u, <2>3
  <2> QED
    BY <1>t, <1>u, <2>2, <2>3, <2>4, CallbackInv
<1> QED
  BY <1>1, <1>2

LEMMA ReceiveInv ==
    ASSUME IInv, NEW s \in Streams, NEW n \in Nat, NEW fin \in BOOLEAN, Receive(s, n, fin)
    PROVE  IInv'
<1> DEFINE c == stream[s]
           charged == [c EXCEPT !.charged = @ + n]
           more == [charged EXCEPT !.got = @ + n]
           refused == ~more.prefix /\ more.got >= Prefix /\ ~allowed
           known == [more EXCEPT !.prefix = @ \/ more.got >= Prefix]
           seen == [known EXCEPT !.header = @ \/ known.got >= Prefix + Header]
           announce == IF seen.header /\ ~known.header THEN <<Call(seen, "started")>> ELSE <<>>
           oversize == seen.got > Prefix + MaxPayload
           whole == Uncharged([Reported(seen) EXCEPT !.stage = "done"])
           cut == Uncharged([(IF ReportsLost(seen) THEN Reported(seen) ELSE seen)
                                EXCEPT !.stage = "done"])
           Keep(d, calls) ==
               /\ stream' = [stream EXCEPT ![s] = d]
               /\ buffered' = buffered + n
               /\ todo' = calls
           Release(d, calls) ==
               /\ stream' = [stream EXCEPT ![s] = d]
               /\ buffered' = buffered + n - charged.charged
               /\ todo' = calls
<1>r. \/ Release(Abort(charged), AbortCalls(charged))
      \/ Release(Abort(more), AbortCalls(more))
      \/ Release(Abort(seen), announce \o AbortCalls(seen))
      \/ ~OverBudget(n) /\ Keep(seen, announce)
      \/ ~oversize /\ seen.header /\ Release(whole, Append(announce, Call(seen, "frame")))
      \/ ~seen.header /\ Release(cut, AbortCalls(seen))
  BY DEF Receive
<1>u. /\ UNCHANGED <<sharing, share, control, allowed, gen, stops, batch, accepted, hand,
                     queue, pending>>
      /\ todo = <<>> /\ c.stage = "open"
  BY DEF Receive, sharerVars, loopVars, WorkerFree
<1>t. /\ stream \in [Streams -> StreamContexts] /\ StreamOK(c) /\ buffered \in Nat
      /\ buffered <= MaxBuffered /\ MaxBuffered \in Nat /\ MaxPayload \in Nat
      /\ buffered = Charged(stream)
  BY Constants DEF IInv, TypeOK, StreamsOK, BudgetsBounded, BudgetsExact, Charged
<1>c. c.charged \in Nat /\ c.charged <= buffered /\ c \in StreamContexts
  BY <1>t, ChargedIs
<1>g. /\ StreamOK(charged) /\ charged.stage = "open" /\ charged.charged = c.charged + n
      /\ StreamOK(more) /\ more.stage = "open"
      /\ StreamOK(seen) /\ seen.stage = "open" /\ seen.charged = c.charged + n
  BY <1>t, <1>u, Grown
<1> HIDE DEF c, charged, more, known, seen
<1>a. announce \in Seq(Calls)
  BY <1>g, CallIs
<1>o. ~OverBudget(n) => buffered + n <= MaxBuffered
  BY <1>t DEF OverBudget
<1> HIDE DEF announce
<1>1. ASSUME NEW d, NEW calls, Release(d, calls), StreamOK(d), d.charged = 0, calls \in Seq(Calls)
      PROVE  IInv'
  <2>1. buffered' = buffered - stream[s].charged + d.charged /\ buffered' <= MaxBuffered
    BY <1>t, <1>c, <1>g, <1>1 DEF c
  <2> QED
    BY <1>1, <1>u, <2>1, CallbackInv
<1>2. CASE Release(Abort(charged), AbortCalls(charged))
  BY <1>1, <1>2, <1>g, Aborted, CallIs
<1>3. CASE Release(Abort(more), AbortCalls(more))
  BY <1>1, <1>3, <1>g, Aborted, CallIs
<1>4. CASE Release(Abort(seen), announce \o AbortCalls(seen))
  <2>1. StreamOK(Abort(seen)) /\ Abort(seen).charged = 0
    BY <1>g, Aborted
  <2>2. announce \o AbortCalls(seen) \in Seq(Calls)
    BY <1>a, <1>g, CallIs
  <2> QED
    BY <1>1, <1>4, <2>1, <2>2
<1>5. CASE ~OverBudget(n) /\ Keep(seen, announce)
  <2>1. buffered' = buffered - stream[s].charged + seen.charged /\ buffered' <= MaxBuffered
    BY <1>t, <1>c, <1>g, <1>o, <1>5 DEF c
  <2> QED
    BY <1>5, <1>a, <1>g, <1>u, <2>1, CallbackInv
<1>6. CASE ~oversize /\ seen.header /\ Release(whole, Append(announce, Call(seen, "frame")))
  <2> DEFINE yes == TRUE
  <2>1. StreamOK([Reported(seen) EXCEPT !.stage = "done"])
    <3>1. yes \in BOOLEAN
      OBVIOUS
    <3>2. [Reported(seen) EXCEPT !.stage = "done"] =
            [(IF yes THEN Reported(seen) ELSE seen) EXCEPT !.stage = "done"]
      OBVIOUS
    <3> HIDE DEF yes
    <3>3. seen.prefix => yes
      BY DEF yes
    <3>4. StreamOK([(IF yes THEN Reported(seen) ELSE seen) EXCEPT !.stage = "done"])
      BY <1>g, <3>1, <3>3, Ended
    <3> QED
      BY <3>2, <3>4
  <2>2. StreamOK(whole) /\ whole.charged = 0
    BY <2>1, UnchargedIs
  <2>3. seen.got \in Nat
    BY <1>g, Field DEF StreamOK
  <2>4. seen.got <= Prefix + MaxPayload
    BY <1>6, <1>t, <2>3 DEF Prefix
  <2>5. Call(seen, "frame") \in Calls
    BY <1>6, <1>g, <2>4, CallIs
  <2>6. Append(announce, Call(seen, "frame")) \in Seq(Calls)
    BY <1>a, <2>5
  <2> QED
    BY <1>1, <1>6, <2>2, <2>6
<1>7. CASE ~seen.header /\ Release(cut, AbortCalls(seen))
  <2> DEFINE r == ReportsLost(seen)
             d == [(IF r THEN Reported(seen) ELSE seen) EXCEPT !.stage = "done"]
  <2>1. cut = Uncharged(d)
    OBVIOUS
  <2>2. r \in BOOLEAN /\ (seen.prefix => r)
    BY <1>g DEF StreamOK, ReportsLost
  <2> HIDE DEF r
  <2>3. StreamOK(d)
    BY <1>g, <2>2, Ended
  <2> HIDE DEF d
  <2>4. StreamOK(cut) /\ cut.charged = 0
    BY <2>1, <2>3, UnchargedIs
  <2> QED
    BY <1>1, <1>7, <1>g, <2>4, CallIs
<1> QED
  BY <1>r, <1>2, <1>3, <1>4, <1>5, <1>6, <1>7

-----------------------------------------------------------------------------
(* The enqueue calls.                                                      *)
Hands == [step : {"idle", "one", "both"}, gen : 0 .. MaxShares, allowed : BOOLEAN]

LEMMA LoadInv ==
    ASSUME IInv, Load
    PROVE  IInv'
<1>t. /\ hand \in Hands /\ todo \in Seq(Calls) /\ todo # <<>> /\ gen \in 0 .. MaxShares
      /\ gen \in Nat /\ hand.gen <= gen
  BY Constants DEF IInv, TypeOK, Hands, GenerationsFenced, Load
<1>u. UNCHANGED <<sharing, share, control, allowed, gen, stops, batch, accepted, stream, buffered,
                  queue, pending>>
  BY DEF Load, sharerVars, loopVars
<1>1. hand' \in Hands /\ hand'.gen <= gen /\ todo' \in Seq(Calls) /\ (hand'.step # "idle" => todo' # <<>>)
  <2> DEFINE what == Loads(Head(todo).kind, hand.step)
             next == IF hand.step = "idle" THEN "one" ELSE "both"
             g == IF what = "generation" THEN gen ELSE hand.gen
             a == IF what = "flag" THEN TRUE ELSE hand.allowed
  <2>1. \/ hand' = Idle /\ todo' = Tail(todo)
        \/ hand' = [hand EXCEPT !.step = next, !.gen = g, !.allowed = a] /\ todo' = todo
    BY DEF Load
  <2>2. next \in {"idle", "one", "both"} /\ g \in 0 .. MaxShares /\ g <= gen
    BY <1>t DEF Hands
  <2>5. a \in BOOLEAN
    <3>1. hand.allowed \in BOOLEAN
      BY <1>t DEF Hands
    <3>2. CASE what = "flag"
      BY <3>2
    <3>3. CASE what # "flag"
      BY <3>1, <3>3
    <3> QED
      BY <3>2, <3>3
  <2> HIDE DEF what, next, g, a
  <2>3. CASE hand' = Idle /\ todo' = Tail(todo)
    <3>1. Idle \in Hands /\ Idle.gen = 0 /\ Idle.step = "idle"
      BY Constants DEF Idle, Hands
    <3> QED
      BY <1>t, <2>3, <3>1
  <2>4. CASE hand' = [hand EXCEPT !.step = next, !.gen = g, !.allowed = a] /\ todo' = todo
    BY <1>t, <2>2, <2>4, <2>5 DEF Hands
  <2> QED
    BY <2>1, <2>3, <2>4
<1>2. TypeOK'
  BY <1>1, <1>u DEF IInv, TypeOK, Hands
<1>3. GenerationsFenced' /\ CallInProgress'
  BY <1>1, <1>u DEF IInv, GenerationsFenced, Fenced, CallInProgress
<1>4. StreamsOK' /\ Alternates' /\ NoneIsLost' /\ SharesCounted' /\ BudgetsExact' /\ BudgetsBounded' /\ QueueIsFenced'
  BY <1>u DEF IInv, StreamsOK, Alternates, NoneIsLost, One, SharesCounted, BudgetsExact,
              BudgetsBounded, QueueIsFenced
<1> QED
  BY <1>2, <1>3, <1>4 DEF IInv

LEMMA PushInv ==
    ASSUME IInv, Push
    PROVE  IInv'
<1>t. /\ hand \in Hands /\ todo \in Seq(Calls) /\ gen = stops /\ stops \in 0 .. MaxShares
      /\ stops \in Nat /\ hand.gen <= gen /\ hand.step = "both" /\ todo # <<>>
      /\ queue \in Seq(Items) /\ batch \in Seq(Items) /\ pending \in Nat /\ MaxBuffered \in Nat
      /\ hand.gen \in 0 .. MaxShares
  BY Constants DEF IInv, TypeOK, Hands, GenerationsFenced, CallInProgress, Push
<1>u. UNCHANGED <<sharing, share, control, allowed, gen, stops, batch, accepted, stream, buffered>>
  BY DEF Push, sharerVars, loopVars
<1> DEFINE c == Head(todo)
           item == [kind |-> c.kind, share |-> c.share, size |-> c.size,
                    gen |-> hand.gen, at |-> stops]
<1>1. \/ queue' = queue /\ pending' = pending
      \/ ~(pending + c.size > MaxBuffered) /\ pending' = pending + c.size /\ queue' = Append(queue, item)
  BY DEF Push, Dropped
<1>2. todo' = Tail(todo) /\ hand' = Idle
  BY DEF Push
<1>3. c \in Calls
  BY <1>t
<1> HIDE DEF c
<1>4. item \in Items /\ item.size = c.size /\ item.gen = hand.gen /\ item.at = stops
  BY <1>t, <1>3 DEF Calls, Items
<1>5. item.size \in Nat
  BY <1>4, ItemSize
<1> HIDE DEF item
<1>6. hand' \in Hands /\ hand'.gen = 0 /\ hand'.step = "idle"
  BY <1>2, Constants DEF Idle, Hands
<1>7. todo' \in Seq(Calls)
  BY <1>t, <1>2
<1>8. /\ queue' \in Seq(Items) /\ Fenced(queue)' /\ pending' \in Nat /\ pending' <= MaxBuffered
      /\ pending' = Bytes(queue') + Bytes(batch)
  <2>0. /\ pending = Bytes(queue) + Bytes(batch) /\ Fenced(queue) /\ pending <= MaxBuffered
        /\ Bytes(queue) \in Nat /\ Bytes(batch) \in Nat
    BY <1>t, BytesIs DEF IInv, BudgetsExact, BudgetsBounded, GenerationsFenced
  <2>1. CASE queue' = queue /\ pending' = pending
    BY <1>t, <1>u, <2>0, <2>1 DEF Fenced
  <2>2. CASE /\ ~(pending + c.size > MaxBuffered) /\ pending' = pending + c.size
             /\ queue' = Append(queue, item)
    <3>1. Bytes(queue') = Bytes(queue) + c.size
      BY <1>t, <1>4, <2>2, BytesAppended
    <3>2. c.size \in Nat
      BY <1>4, <1>5
    <3>3. pending' \in Nat /\ pending' <= MaxBuffered /\ pending' = Bytes(queue') + Bytes(batch)
      <4> DEFINE n == c.size
                 x == Bytes(queue)
                 y == Bytes(batch)
      <4>1. /\ n \in Nat /\ x \in Nat /\ y \in Nat /\ pending = x + y /\ pending' = pending + n
            /\ ~(pending + n > MaxBuffered) /\ Bytes(queue') = x + n
        BY <2>0, <2>2, <3>1, <3>2
      <4> HIDE DEF n, x, y
      <4>2. pending' \in Nat /\ pending' <= MaxBuffered /\ pending' = Bytes(queue') + y
        BY <1>t, <4>1
      <4> QED
        BY <4>2 DEF y
    <3>4. /\ queue' \in Seq(Items) /\ DOMAIN queue' = 1 .. Len(queue) + 1
          /\ DOMAIN queue = 1 .. Len(queue) /\ Len(queue) \in Nat
          /\ queue'[Len(queue) + 1] = item /\ \A i \in 1 .. Len(queue) : queue'[i] = queue[i]
      BY <1>t, <1>4, <2>2
    <3>5. ASSUME NEW i \in DOMAIN queue'
          PROVE  queue'[i].gen <= queue'[i].at /\ queue'[i].at <= stops'
      <4>1. CASE i \in 1 .. Len(queue)
        BY <1>u, <2>0, <3>4, <4>1 DEF Fenced
      <4>2. CASE i = Len(queue) + 1
        BY <1>t, <1>u, <1>4, <3>4, <4>2
      <4> QED
        BY <3>4, <4>1, <4>2
    <3>6. Fenced(queue)'
      BY <3>5 DEF Fenced
    <3> QED
      BY <3>3, <3>4, <3>6
  <2> QED
    BY <1>1, <2>1, <2>2
<1>9. TypeOK'
  BY <1>6, <1>7, <1>8, <1>u DEF IInv, TypeOK, Hands
<1>10. GenerationsFenced' /\ CallInProgress'
  <2>1. Fenced(batch)'
    BY <1>u DEF IInv, GenerationsFenced, Fenced
  <2> QED
    BY <1>t, <1>6, <1>8, <1>u, <2>1 DEF GenerationsFenced, CallInProgress
<1>11. BudgetsExact' /\ BudgetsBounded'
  BY <1>8, <1>u DEF IInv, BudgetsExact, BudgetsBounded
<1>12. StreamsOK' /\ Alternates' /\ NoneIsLost' /\ SharesCounted' /\ QueueIsFenced'
  BY <1>u DEF IInv, StreamsOK, Alternates, NoneIsLost, One, SharesCounted, QueueIsFenced
<1> QED
  BY <1>9, <1>10, <1>11, <1>12 DEF IInv

-----------------------------------------------------------------------------
(* The main loop.                                                          *)
LEMMA HandleInv ==
    ASSUME IInv, HandleStart \/ HandleStop
    PROVE  IInv'
<1>t. /\ gen = stops /\ stops \in Nat /\ hand.gen <= gen /\ batch = <<>> /\ control # <<>>
      /\ Fenced(queue) /\ queue \in Seq(Items) /\ hand.gen \in Nat /\ stops \in 0 .. MaxShares
  BY Constants DEF IInv, TypeOK, GenerationsFenced, HandleStart, HandleStop
<1>u. /\ UNCHANGED <<sharing, share, stream, buffered, todo, hand, queue, batch, pending>>
      /\ accepted' = NoItem
  BY DEF HandleStart, HandleStop, workerVars
<1>1. /\ control' \in Seq({"start", "stop"}) /\ Alternates' /\ NoneIsLost'
      /\ allowed' \in BOOLEAN /\ stops' \in 0 .. MaxShares /\ gen' = stops' /\ stops' >= stops
  <2>1. CASE HandleStart
    <3>1. Head(control) = "start" /\ control' = Tail(control) /\ allowed' /\ allowed' \in BOOLEAN
          /\ gen' = gen /\ stops' = stops
      BY <2>1 DEF HandleStart
    <3>2. /\ control' \in Seq({"start", "stop"}) /\ Alternates' /\ NoneIsLost'
          /\ stops' \in 0 .. MaxShares
      BY <1>t, <1>u, <3>1, Handled
    <3> QED
      BY <1>t, <3>1, <3>2
  <2>2. CASE HandleStop
    <3>1. Head(control) = "stop" /\ control' = Tail(control) /\ ~allowed' /\ allowed' \in BOOLEAN
          /\ gen' = (IF allowed THEN gen + 1 ELSE gen)
          /\ stops' = (IF allowed THEN stops + 1 ELSE stops)
      BY <2>2 DEF HandleStop, NextGeneration
    <3>0. allowed
      <4>1. control[1] = "stop" /\ control[1] = IF allowed THEN "stop" ELSE "start"
        BY <1>t, <3>1 DEF IInv, TypeOK, Alternates
      <4> QED
        BY <4>1
    <3>2. /\ control' \in Seq({"start", "stop"}) /\ Alternates' /\ NoneIsLost'
          /\ stops' \in 0 .. MaxShares
      BY <1>t, <1>u, <3>0, <3>1, Handled
    <3> QED
      BY <1>t, <3>0, <3>1, <3>2
  <2> QED
    BY <2>1, <2>2
<1>2. TypeOK'
  BY <1>1, <1>u DEF IInv, TypeOK
<1>3. GenerationsFenced'
  <2>1. \A i \in DOMAIN queue : queue[i].at \in Nat
    <3>1. \A i \in DOMAIN queue : queue[i] \in Items
      BY <1>t
    <3> QED
      BY <3>1, Constants DEF Items
  <2>2. stops' \in Nat
    BY <1>1, Constants
  <2>3. Fenced(queue)'
    BY <1>t, <1>1, <1>u, <2>1, <2>2 DEF Fenced
  <2>4. Fenced(batch)'
    BY <1>t, <1>u DEF Fenced
  <2> QED
    BY <1>t, <1>1, <1>u, <2>2, <2>3, <2>4 DEF GenerationsFenced
<1>4. /\ StreamsOK' /\ SharesCounted' /\ CallInProgress' /\ BudgetsExact' /\ BudgetsBounded'
      /\ QueueIsFenced'
  BY <1>u DEF IInv, StreamsOK, SharesCounted, CallInProgress, BudgetsExact, BudgetsBounded,
              QueueIsFenced
<1> QED
  BY <1>1, <1>2, <1>3, <1>4 DEF IInv

LEMMA DrainInv ==
    ASSUME IInv, Drain
    PROVE  IInv'
<1>u. /\ UNCHANGED <<sharing, share, control, allowed, gen, stops, stream, buffered, todo, hand,
                     pending>>
      /\ accepted' = NoItem /\ batch = <<>> /\ batch' = queue /\ queue' = <<>>
  BY DEF Drain, sharerVars, workerVars
<1>t. queue \in Seq(Items) /\ pending = Bytes(queue) + Bytes(batch) /\ Bytes(queue) \in Nat
  BY BytesIs DEF IInv, TypeOK, BudgetsExact
<1>1. pending' = Bytes(queue') + Bytes(batch')
  BY <1>t, <1>u, NoBytes
<1>2. TypeOK'
  BY <1>u DEF IInv, TypeOK
<1>3. GenerationsFenced' /\ QueueIsFenced'
  BY <1>u DEF IInv, GenerationsFenced, Fenced, QueueIsFenced
<1>4. BudgetsExact' /\ BudgetsBounded'
  BY <1>1, <1>u DEF IInv, BudgetsExact, BudgetsBounded
<1>5. StreamsOK' /\ Alternates' /\ NoneIsLost' /\ SharesCounted' /\ CallInProgress'
  BY <1>u DEF IInv, StreamsOK, Alternates, NoneIsLost, One, SharesCounted, CallInProgress
<1> QED
  BY <1>2, <1>3, <1>4, <1>5 DEF IInv

LEMMA ProcessInv ==
    ASSUME IInv, Process
    PROVE  IInv'
<1>u. UNCHANGED <<sharing, share, control, allowed, gen, stops, stream, buffered, todo, hand, queue>>
  BY DEF Process, sharerVars, workerVars
<1> DEFINE item == Head(batch)
<1>1. /\ batch # <<>> /\ batch' = Tail(batch) /\ pending' = pending - item.size
      /\ accepted' = NoItem \/ (accepted' = item /\ item.gen = gen)
  BY DEF Process
<1>t. /\ queue \in Seq(Items) /\ batch \in Seq(Items) /\ pending = Bytes(queue) + Bytes(batch)
      /\ Bytes(queue) \in Nat /\ pending \in Nat /\ pending <= MaxBuffered /\ MaxBuffered \in Nat
      /\ gen = stops /\ Fenced(batch) /\ stops \in Nat
  BY BytesIs, Constants DEF IInv, TypeOK, BudgetsExact, BudgetsBounded, GenerationsFenced
<1>2. item \in Items /\ batch' \in Seq(Items) /\ Bytes(batch') = Bytes(batch) - item.size
  BY <1>t, <1>1, BytesOfTail
<1>3. Bytes(batch) \in Nat /\ Bytes(batch') \in Nat /\ item.size \in Nat
  BY <1>t, <1>2, BytesIs, ItemSize
<1>4. item.gen <= item.at /\ item.at <= stops
  BY <1>t, <1>1 DEF Fenced
<1>5. /\ Fenced(batch)'
  <2>1. \A i \in DOMAIN batch' : i + 1 \in DOMAIN batch /\ batch'[i] = batch[i + 1]
    BY <1>t, <1>1
  <2> QED
    BY <1>t, <1>u, <2>1 DEF Fenced
<1>6. item.gen \in Nat /\ item.at \in Nat
  BY <1>2, Constants DEF Items
<1> HIDE DEF item
<1>7. pending' = Bytes(queue') + Bytes(batch') /\ pending' \in Nat /\ pending' <= MaxBuffered
  <2> DEFINE q == Bytes(queue)
             b == Bytes(batch)
             bb == Bytes(batch')
             sz == item.size
  <2>1. /\ q \in Nat /\ b \in Nat /\ bb \in Nat /\ sz \in Nat /\ MaxBuffered \in Nat
        /\ pending = q + b /\ pending <= MaxBuffered
        /\ pending' = pending - sz /\ bb = b - sz
    BY <1>t, <1>1, <1>2, <1>3
  <2>2. Bytes(queue') = q
    BY <1>u
  <2> HIDE DEF q, b, bb, sz
  <2>3. pending' = q + bb /\ pending' \in Nat /\ pending' <= MaxBuffered
    BY <2>1
  <2> QED
    BY <2>2, <2>3 DEF bb
<1>8. TypeOK'
  BY <1>1, <1>2, <1>7, <1>u DEF IInv, TypeOK
<1>9. QueueIsFenced'
  BY <1>t, <1>1, <1>4, <1>6, <1>u DEF QueueIsFenced
<1>10. GenerationsFenced'
  BY <1>5, <1>u DEF IInv, GenerationsFenced, Fenced
<1>11. BudgetsExact' /\ BudgetsBounded'
  BY <1>7, <1>u DEF IInv, BudgetsExact, BudgetsBounded
<1>12. StreamsOK' /\ Alternates' /\ NoneIsLost' /\ SharesCounted' /\ CallInProgress'
  BY <1>u DEF IInv, StreamsOK, Alternates, NoneIsLost, One, SharesCounted, CallInProgress
<1> QED
  BY <1>8, <1>9, <1>10, <1>11, <1>12 DEF IInv

-----------------------------------------------------------------------------
(* Every step of the sharer, of the connection's worker and of the main    *)
(* loop keeps the inductive invariant.                                     *)
THEOREM Inductive == Spec => []IInv
<1>1. IInv /\ [Next]_vars => IInv'
  <2> SUFFICES ASSUME IInv, [Next]_vars PROVE IInv'
    OBVIOUS
  <2>1. CASE SharerStart \/ SharerStop
    BY <2>1, SharerInv
  <2>2. CASE \E s \in Streams : SharerSend(s)
    BY <2>2, SharerSendInv
  <2>3. CASE \E s \in Streams : PeerStreamStarted(s)
    BY <2>3, PeerStreamStartedInv
  <2>4. CASE \E s \in Streams, n \in 0 .. MaxPayload + 1, fin \in BOOLEAN : Receive(s, n, fin)
    <3>1. PICK s \in Streams, n \in 0 .. MaxPayload + 1, fin \in BOOLEAN : Receive(s, n, fin)
      BY <2>4
    <3>2. n \in Nat
      BY Constants
    <3> QED
      BY <3>1, <3>2, ReceiveInv
  <2>5. CASE \E s \in Streams : PeerSendAborted(s) \/ StreamShutdown(s)
    BY <2>5, StreamEndInv
  <2>6. CASE Load
    BY <2>6, LoadInv
  <2>7. CASE Push
    BY <2>7, PushInv
  <2>8. CASE HandleStart \/ HandleStop
    BY <2>8, HandleInv
  <2>9. CASE Drain
    BY <2>9, DrainInv
  <2>10. CASE Process
    BY <2>10, ProcessInv
  <2>11. CASE UNCHANGED vars
    BY <2>11 DEF vars, IInv, TypeOK, StreamsOK, Alternates, NoneIsLost, One, SharesCounted,
                 GenerationsFenced, Fenced, CallInProgress, BudgetsExact, BudgetsBounded,
                 QueueIsFenced
  <2> QED
    BY <2>1, <2>2, <2>3, <2>4, <2>5, <2>6, <2>7, <2>8, <2>9, <2>10, <2>11 DEF Next
<1> QED
  BY InitInv, <1>1, PTL DEF Spec

(* The session's byte counters are exactly what its unfinished streams and *)
(* its queued frames add up to, and neither passes its budget, however the *)
(* streams end (video_in_stream_callback, enqueue_video_frame).            *)
THEOREM BudgetsAreExact == Spec => []IngressAccounting
<1>1. IInv => IngressAccounting
  BY DEF IInv, IngressAccounting
<1> QED
  BY Inductive, <1>1, PTL

(* A frame stream is delivered or reported lost, once, and a stream whose  *)
(* source is known does not end in silence (VideoInStreamContext::abort,   *)
(* report_lost).                                                           *)
THEOREM StreamsHaveOneOutcome == Spec => []OneOutcome
<1>1. IInv => OneOutcome
  <2> SUFFICES ASSUME IInv, NEW s \in Streams
               PROVE  /\ stream[s].reports <= 1
                      /\ stream[s].stage \in {"dead", "done"} /\ stream[s].prefix =>
                           stream[s].reports = 1
    BY DEF OneOutcome
  <2>1. StreamOK(stream[s])
    BY DEF IInv, StreamsOK
  <2> QED
    BY <2>1 DEF StreamOK
<1> QED
  BY Inductive, <1>1, PTL

(* The generation fences the queue: whatever the worker had loaded and     *)
(* wherever the main loop was when a share stopped, nothing queued before  *)
(* the stop is accepted after it (enqueue_video_frame, stop_video_stream,  *)
(* process_video_frames).                                                  *)
THEOREM StopFencesTheQueue == Spec => []QueueIsFenced
<1>1. IInv => QueueIsFenced
  BY DEF IInv
<1> QED
  BY Inductive, <1>1, PTL
=============================================================================
