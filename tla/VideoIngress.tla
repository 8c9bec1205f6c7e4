---------------------------- MODULE VideoIngress ----------------------------
(***************************************************************************)
(* Video entering the server: one source of one session.  A frame arrives  *)
(* on a QUIC stream of its own (QuicServer::video_in_stream_callback, on   *)
(* the connection's worker), is buffered until FIN, and is queued for the  *)
(* main loop (Server::enqueue_video_frame, enqueue_video_event), which     *)
(* accepts it into the reorder buffer (process_video_frames) unless the    *)
(* share it was queued under has stopped.  The worker reads the share's    *)
(* flag and generation with two atomic loads that the main loop can come   *)
(* between.                                                                *)
(*                                                                         *)
(* Bytes are counted in units: a stream is a prefix of one, a header of    *)
(* one and a payload.  Frame contents and numbers are left out.            *)
(***************************************************************************)
EXTENDS Integers, Sequences, FiniteSets, Functions

CONSTANTS
    Streams,       \* bound: the per-frame streams the sharer opens
    MaxBuffered,   \* VIDEO_INGRESS_MAX_BUFFERED_BYTES
    MaxPayload,    \* VIDEO_FRAME_MAX_PAYLOAD_BYTES
    MaxShares,     \* bound: how often the sharer starts
    NoItem

ASSUME IngressAssumption ==
    /\ MaxBuffered \in Nat
    /\ MaxPayload \in Nat \ {0}
    /\ MaxShares \in Nat
    /\ IsFiniteSet(Streams)

Prefix == 1
Header == 1

VARIABLES
    sharing,   \* external: the sharer believes it is sharing
    share,     \* external: number of its current or last share
    control,   \* START and STOP messages on their way
    allowed,   \* ingress_allowed
    gen,       \* generation
    stops,     \* history: how often a registered share has stopped
    stream,    \* VideoInStreamContext of every stream
    buffered,  \* video_in_buffered_bytes
    todo,      \* enqueue calls the worker's callback still has to make
    hand,      \* values the call it is in has loaded so far
    queue,     \* video_incoming_
    batch,     \* what process_video_frames drained and has not handled
    pending,   \* video_pending_bytes
    accepted   \* history: what the last step put into the reorder buffer

vars == <<sharing, share, control, allowed, gen, stops, stream, buffered, todo,
          hand, queue, batch, pending, accepted>>

Kinds == {"started", "frame", "aborted"}

\* at: history, the value of stops when it was queued.
Items == [kind : Kinds, share : 1 .. MaxShares, size : 0 .. MaxPayload,
          gen : 0 .. MaxShares, at : 0 .. MaxShares]

Calls == [kind : Kinds, share : 1 .. MaxShares, size : 0 .. MaxPayload]

Stages == {"unused", "sent", "open", "dead", "done", "closed"}

StreamContexts == [stage : Stages, share : 0 .. MaxShares, got : Nat, charged : Nat,
                   prefix : BOOLEAN, header : BOOLEAN, finished : BOOLEAN, reports : Nat]

NewStream == [stage |-> "unused", share |-> 0, got |-> 0, charged |-> 0,
              prefix |-> FALSE, header |-> FALSE, finished |-> FALSE, reports |-> 0]

Idle == [step |-> "idle", gen |-> 0, allowed |-> FALSE]

Init ==
    /\ sharing = FALSE /\ share = 0 /\ control = <<>>
    /\ allowed = FALSE /\ gen = 0 /\ stops = 0
    /\ stream = [s \in Streams |-> NewStream]
    /\ buffered = 0
    /\ todo = <<>> /\ hand = Idle
    /\ queue = <<>> /\ batch = <<>> /\ pending = 0
    /\ accepted = NoItem

sharerVars == <<sharing, share, control>>
loopVars == <<allowed, gen, stops, batch, accepted>>
workerVars == <<stream, buffered, todo, hand>>

-----------------------------------------------------------------------------
(* The sharer's client (external to the server).                           *)
SharerStart ==
    /\ ~sharing /\ share < MaxShares
    /\ sharing' = TRUE /\ share' = share + 1
    /\ control' = Append(control, "start")
    /\ UNCHANGED <<loopVars, workerVars, queue, pending>>

SharerStop ==
    /\ sharing
    /\ sharing' = FALSE
    /\ control' = Append(control, "stop")
    /\ UNCHANGED <<share, loopVars, workerVars, queue, pending>>

SharerSend(s) ==
    /\ sharing /\ stream[s].stage = "unused"
    /\ stream' = [stream EXCEPT ![s].stage = "sent", ![s].share = share]
    /\ UNCHANGED <<sharerVars, loopVars, buffered, todo, hand, queue, pending>>

-----------------------------------------------------------------------------
(* The connection's worker: one callback at a time.                        *)
WorkerFree == todo = <<>>

Call(c, kind) == [kind |-> kind, share |-> c.share,
                  size |-> IF kind = "frame" THEN c.got - Prefix ELSE 0]

\* Mutant: a frame that died before its header is forgotten.
ReportsLostWithHeader(c) == c.header /\ ~c.finished

\* report_lost says something only for a known source, and only once.
ReportsLost(c) == c.prefix /\ ~c.finished

Reported(c) == [c EXCEPT !.finished = TRUE, !.reports = @ + 1]

\* uncharge(), after c.charged was taken off video_in_buffered_bytes.
Uncharged(c) == [c EXCEPT !.charged = 0]

\* VideoInStreamContext::abort, what it leaves of c.
Abort(c) ==
    Uncharged([(IF ReportsLost(c) THEN Reported(c) ELSE c) EXCEPT !.stage = "dead"])

AbortCalls(c) == IF ReportsLost(c) THEN <<Call(c, "aborted")>> ELSE <<>>

\* A unidirectional stream is refused unless the session publishes something.
PeerStreamStarted(s) ==
    /\ WorkerFree /\ stream[s].stage = "sent"
    /\ stream' = [stream EXCEPT ![s].stage = IF allowed THEN "open" ELSE "closed"]
    /\ UNCHANGED <<sharerVars, loopVars, buffered, todo, hand, queue, pending>>

OverBudget(n) == buffered + n > MaxBuffered

(* RECEIVE with n bytes, the last ones if fin: charge the budget, find the *)
(* source, announce the header, refuse what is too long, deliver at FIN.   *)
Receive(s, n, fin) ==
    LET charged == [stream[s] EXCEPT !.charged = @ + n]
        more == [charged EXCEPT !.got = @ + n]
        refused == ~more.prefix /\ more.got >= Prefix /\ ~allowed
        known == [more EXCEPT !.prefix = @ \/ more.got >= Prefix]
        seen == [known EXCEPT !.header = @ \/ known.got >= Prefix + Header]
        announce == IF seen.header /\ ~known.header THEN <<Call(seen, "started")>> ELSE <<>>
        oversize == seen.got > Prefix + MaxPayload
        whole == Uncharged([Reported(seen) EXCEPT !.stage = "done"])
        cut == Uncharged([(IF ReportsLost(seen) THEN Reported(seen) ELSE seen)
                              EXCEPT !.stage = "done"])
        Keep(c, calls) ==
            /\ stream' = [stream EXCEPT ![s] = c]
            /\ buffered' = buffered + n
            /\ todo' = calls
        Release(c, calls) ==
            /\ stream' = [stream EXCEPT ![s] = c]
            /\ buffered' = buffered + n - charged.charged
            /\ todo' = calls
    IN  /\ WorkerFree /\ stream[s].stage = "open" /\ (n > 0 \/ fin)
        /\ CASE OverBudget(n) -> Release(Abort(charged), AbortCalls(charged))
             [] ~OverBudget(n) /\ refused -> Release(Abort(more), AbortCalls(more))
             [] ~OverBudget(n) /\ ~refused /\ oversize ->
                  Release(Abort(seen), announce \o AbortCalls(seen))
             [] ~OverBudget(n) /\ ~refused /\ ~oversize /\ ~fin -> Keep(seen, announce)
             [] OTHER ->
                  IF seen.header THEN Release(whole, Append(announce, Call(seen, "frame")))
                  ELSE Release(cut, AbortCalls(seen))
        /\ UNCHANGED <<sharerVars, loopVars, hand, queue, pending>>

\* The sharer gave up on the frame.
PeerSendAborted(s) ==
    /\ WorkerFree /\ stream[s].stage = "open"
    /\ stream' = [stream EXCEPT ![s] = Abort(@)]
    /\ buffered' = buffered - stream[s].charged
    /\ todo' = AbortCalls(stream[s])
    /\ UNCHANGED <<sharerVars, loopVars, hand, queue, pending>>

StreamShutdown(s) ==
    /\ WorkerFree /\ stream[s].stage \in {"open", "dead", "done"}
    /\ stream' = [stream EXCEPT ![s] = Uncharged([@ EXCEPT !.stage = "closed"])]
    /\ buffered' = buffered - stream[s].charged
    /\ UNCHANGED <<sharerVars, loopVars, todo, hand, queue, pending>>

-----------------------------------------------------------------------------
(* The enqueue call at the head of todo.  A frame loads the generation     *)
(* first and the flag second, an event the flag first.                     *)
Loads(kind, step) ==
    IF (kind = "frame") = (step = "idle") THEN "generation" ELSE "flag"

Load ==
    /\ todo # <<>> /\ hand.step \in {"idle", "one"}
    /\ LET what == Loads(Head(todo).kind, hand.step)
           next == IF hand.step = "idle" THEN "one" ELSE "both"
       IN  IF what = "flag" /\ ~allowed
           THEN hand' = Idle /\ todo' = Tail(todo)
           ELSE /\ hand' = [hand EXCEPT !.step = next,
                              !.gen = IF what = "generation" THEN gen ELSE @,
                              !.allowed = IF what = "flag" THEN TRUE ELSE @]
                /\ UNCHANGED todo
    /\ UNCHANGED <<sharerVars, loopVars, stream, buffered, queue, pending>>

\* Mutant: a frame the queue has no room for stays charged.
DroppedStaysCharged(n) == pending + n

\* What pending is after a frame of size n found the queue full.
Dropped(n) == pending

Push ==
    /\ hand.step = "both"
    /\ LET c == Head(todo)
           item == [kind |-> c.kind, share |-> c.share, size |-> c.size,
                    gen |-> hand.gen, at |-> stops]
       IN  IF pending + c.size > MaxBuffered
           THEN pending' = Dropped(c.size) /\ UNCHANGED queue
           ELSE pending' = pending + c.size /\ queue' = Append(queue, item)
    /\ todo' = Tail(todo) /\ hand' = Idle
    /\ UNCHANGED <<sharerVars, loopVars, stream, buffered>>

-----------------------------------------------------------------------------
(* The main loop.                                                          *)
HandleStart ==
    /\ batch = <<>> /\ control # <<>> /\ Head(control) = "start"
    /\ control' = Tail(control)
    /\ allowed' = TRUE
    /\ accepted' = NoItem
    /\ UNCHANGED <<sharing, share, gen, stops, batch, workerVars, queue, pending>>

\* Mutant: stopping does not invalidate what is queued.
StopKeepsGeneration(g) == g

NextGeneration(g) == g + 1

\* SCREEN_SHARE_STOP, and every other way stop_video_stream is reached. Its two
\* stores (flag, then generation) are one step: nothing the worker queues between
\* them passes, as the drain is on this thread and compares the generation after both.
HandleStop ==
    /\ batch = <<>> /\ control # <<>> /\ Head(control) = "stop"
    /\ control' = Tail(control)
    /\ allowed' = FALSE
    /\ gen' = IF allowed THEN NextGeneration(gen) ELSE gen
    /\ stops' = IF allowed THEN stops + 1 ELSE stops
    /\ accepted' = NoItem
    /\ UNCHANGED <<sharing, share, batch, workerVars, queue, pending>>

Drain ==
    /\ batch = <<>> /\ queue # <<>>
    /\ batch' = queue
    /\ queue' = <<>>
    /\ accepted' = NoItem
    /\ UNCHANGED <<sharerVars, allowed, gen, stops, workerVars, pending>>

Process ==
    /\ batch # <<>>
    /\ LET item == Head(batch)
       IN  /\ pending' = pending - item.size
           /\ accepted' = IF allowed /\ item.gen = gen THEN item ELSE NoItem
    /\ batch' = Tail(batch)
    /\ UNCHANGED <<sharerVars, allowed, gen, stops, workerVars, queue>>

-----------------------------------------------------------------------------
Next ==
    \/ SharerStart
    \/ SharerStop
    \/ \E s \in Streams : SharerSend(s)
    \/ \E s \in Streams : PeerStreamStarted(s)
    \/ \E s \in Streams, n \in 0 .. MaxPayload + 1, fin \in BOOLEAN : Receive(s, n, fin)
    \/ \E s \in Streams : PeerSendAborted(s)
    \/ \E s \in Streams : StreamShutdown(s)
    \/ Load
    \/ Push
    \/ HandleStart
    \/ HandleStop
    \/ Drain
    \/ Process

Spec == Init /\ [][Next]_vars

-----------------------------------------------------------------------------
TypeOK ==
    /\ sharing \in BOOLEAN /\ share \in 0 .. MaxShares
    /\ control \in Seq({"start", "stop"})
    /\ allowed \in BOOLEAN /\ gen \in 0 .. MaxShares /\ stops \in 0 .. MaxShares
    /\ stream \in [Streams -> StreamContexts]
    /\ buffered \in Nat /\ pending \in Nat
    /\ todo \in Seq(Calls)
    /\ hand \in [step : {"idle", "one", "both"}, gen : 0 .. MaxShares, allowed : BOOLEAN]
    /\ queue \in Seq(Items) /\ batch \in Seq(Items)
    /\ accepted \in Items \cup {NoItem}

Bytes(items) == SumFunction([i \in DOMAIN items |-> items[i].size])

(* Both ingress budgets are exact in every state: the buffered counter is  *)
(* what the unfinished streams hold, the pending counter what is queued or *)
(* being handled.  A leak would silently end the publisher's video.        *)
BudgetsExact ==
    /\ buffered = SumFunction([s \in Streams |-> stream[s].charged])
    /\ pending = Bytes(queue) + Bytes(batch)

(* Between callbacks a session never pins more than the cap, however many  *)
(* streams it leaves unfinished (session.h, video_in_buffered_bytes).      *)
BudgetsBounded == buffered <= MaxBuffered /\ pending <= MaxBuffered

(* A frame stream has one outcome: delivered, or reported lost so that the *)
(* reorder buffer need not time out, never both and never neither once     *)
(* its data has ended and its source is known.                             *)
OneOutcome ==
    \A s \in Streams :
        /\ stream[s].reports <= 1
        /\ stream[s].stage \in {"dead", "done"} /\ stream[s].prefix => stream[s].reports = 1

(* What was queued before a share stopped is never accepted after it,      *)
(* whatever the worker and the main loop were doing at that moment.        *)
QueueIsFenced == accepted # NoItem => accepted.at = stops

(* Queued frames from a stopped share are invalidated by its generation    *)
(* (docs/video-pipeline.md): a frame in the reorder buffer belongs to the  *)
(* share that is registered.                                               *)
StoppedShareIsInvalidated ==
    accepted # NoItem /\ accepted.kind = "frame" /\ control = <<>> => accepted.share = share

(* The session's byte counters are what its unfinished and queued frames add*)
(* up to, and neither passes its budget.                                   *)
IngressAccounting == TypeOK /\ BudgetsExact /\ BudgetsBounded
=============================================================================
