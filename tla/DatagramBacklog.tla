-------------------------- MODULE DatagramBacklog --------------------------
(***************************************************************************)
(* The gate in front of MsQuic's datagram queue                            *)
(* (src/common/include/parties/datagram_backlog.h) with its users: the     *)
(* threads that send media (send_data of the client, send_datagram of the  *)
(* server) and the MsQuic worker that reports datagrams leaving the queue. *)
(* The gate is lock-free, so the read-modify-writes of its atomics, and    *)
(* the loads and stores a call decides between, are steps of their own.    *)
(* The loads of one comparison (HeadWait), the two stores of a new busy    *)
(* period (BecomesHead) and of a datagram that is out (Sent), and those of *)
(* reset() are made together, in one step each.                            *)
(*                                                                         *)
(* Times are kept relative to now: the age of last_progress_us_, what is   *)
(* left of the holdoff, the age of each queued datagram, and the lag of a  *)
(* sender, which reads the clock once at the start of a call.  Ages stop   *)
(* counting where no comparison can tell them apart any more.              *)
(***************************************************************************)
EXTENDS Integers, Sequences, FiniteSets

CONSTANTS Senders,      \* threads that call send_data / send_datagram
          MaxQueued, MaxDelay, Holdoff,  \* DatagramBacklogLimits
          MaxLag,       \* bound: clock ticks one call of a sender may span
          MaxControls,  \* bound: datagrams that bypass admit() (media = false)
          MaxUnacked    \* bound: datagrams sent and not yet acknowledged or lost

ASSUME SendersFinite == IsFiniteSet(Senders) /\ Senders # {}
ASSUME LimitsPositive ==
  /\ MaxQueued \in Nat \ {0} /\ MaxDelay \in Nat \ {0} /\ Holdoff \in Nat
  /\ MaxLag \in Nat /\ MaxControls \in Nat /\ MaxUnacked \in Nat \ {0}

VARIABLES
  queued, progress, wait, hold, dropping,  \* the gate's atomics
  call,       \* what each sender is doing, with its lag and the count it loaded
  worker,     \* the MsQuic worker inside on_dequeued: "idle", "sub" or "zero"
  transport,  \* MsQuic's queue: age of each datagram not yet written into a packet
  unacked,    \* datagrams written, whose final state is still to come
  connected,  \* the connection is up
  controls,   \* control datagrams sent so far
  intruders   \* history: media admitted during the current holdoff

gate == <<queued, progress, wait, hold, dropping>>
vars == <<gate, call, worker, transport, unacked, connected, controls, intruders>>

AgeCap == MaxDelay + MaxLag
UpTo(cap, age) == IF age < cap THEN age ELSE cap

Steps == {"idle", "load", "empty", "hold", "wait", "clear", "mark",
          "queue", "head", "send", "failed", "zero"}
CallRecords == [at : Steps, lag : 0..MaxLag, media : BOOLEAN]
Idle == [at |-> "idle", lag |-> 0, media |-> TRUE]

TypeOK ==
  /\ queued \in Nat /\ progress \in 0..AgeCap /\ wait \in 0..MaxDelay
  /\ hold \in -MaxLag..Holdoff /\ dropping \in BOOLEAN
  /\ call \in [Senders -> CallRecords]
  /\ worker \in {"idle", "sub", "zero"}
  /\ transport \in Seq(0..MaxDelay)
  /\ unacked \in 0..MaxUnacked /\ connected \in BOOLEAN
  /\ controls \in 0..MaxControls /\ intruders \in Nat

Init ==
  /\ queued = 0 /\ progress = AgeCap /\ wait = 0 /\ hold = -MaxLag /\ dropping = FALSE
  /\ call = [s \in Senders |-> Idle]
  /\ worker = "idle" /\ transport = <<>> /\ unacked = 0
  /\ connected = TRUE /\ controls = 0 /\ intruders = 0

-----------------------------------------------------------------------------
(* A sender's call.                                                        *)

At(s, step) == call[s].at = step
Goes(s, step) == call' = [call EXCEPT ![s].at = step]
Returns(s) == call' = [call EXCEPT ![s] = Idle]
NetUnchanged == UNCHANGED <<worker, transport, unacked, connected, controls>>

(* admit() returns true; ...                                               *)
Admitted(s) ==
  /\ Goes(s, "queue")
  /\ intruders' = IF hold > 0 THEN intruders + 1 ELSE intruders

\* Mutant: the holdoff is not looked at.
AskIgnoresHoldoff(s) ==
  /\ At(s, "idle") /\ connected
  /\ call' = [call EXCEPT ![s] = [Idle EXCEPT !.at = "load"]]
  /\ UNCHANGED <<gate, intruders>> /\ NetUnchanged

(* The sender reads the clock; admit() looks at the holdoff first.         *)
AskMedia(s) ==
  /\ At(s, "idle") /\ connected
  /\ IF hold > 0 THEN UNCHANGED call
     ELSE call' = [call EXCEPT ![s] = [Idle EXCEPT !.at = "load"]]
  /\ UNCHANGED <<gate, intruders>> /\ NetUnchanged

(* The server's control datagrams are accounted, never refused.            *)
SendControl(s) ==
  /\ At(s, "idle") /\ connected /\ controls < MaxControls
  /\ call' = [call EXCEPT ![s] = [Idle EXCEPT !.at = "queue", !.media = FALSE]]
  /\ controls' = controls + 1
  /\ UNCHANGED <<gate, intruders, worker, transport, unacked, connected>>

LoadQueued(s) ==
  /\ At(s, "load")
  /\ Goes(s, IF queued <= 0 THEN "empty"
             ELSE IF queued < MaxQueued THEN "wait" ELSE "mark")
  /\ UNCHANGED <<gate, intruders>> /\ NetUnchanged

\* Mutant: dropping_ is read and not cleared.
EmptyKeepsDropping(s) ==
  /\ At(s, "empty")
  /\ IF dropping /\ Holdoff > 0 THEN Goes(s, "hold") /\ UNCHANGED intruders
     ELSE Admitted(s)
  /\ UNCHANGED gate /\ NetUnchanged

(* An empty queue: exchange(dropping_, false) ...                          *)
ExchangeDropping(s) ==
  /\ At(s, "empty")
  /\ dropping' = FALSE
  /\ IF dropping /\ Holdoff > 0 THEN Goes(s, "hold") /\ UNCHANGED intruders
     ELSE Admitted(s)
  /\ UNCHANGED <<queued, progress, wait, hold>> /\ NetUnchanged

(* ... after a drop episode starts the holdoff, from the time this call    *)
(* read, and refuses.                                                      *)
StoreHoldoff(s) ==
  /\ At(s, "hold") /\ Returns(s)
  /\ hold' = Holdoff - call[s].lag
  /\ intruders' = 0
  /\ UNCHANGED <<queued, progress, wait, dropping>> /\ NetUnchanged


(* head_wait_us against the delay limit: the wait of the last datagram     *)
(* written, or the time since the queue last made progress.                *)
HeadIsLate(s) ==
  queued > 0 /\ (wait >= MaxDelay \/ progress - call[s].lag >= MaxDelay)

HeadWait(s) ==
  /\ At(s, "wait")
  /\ Goes(s, IF HeadIsLate(s) THEN "mark" ELSE "clear")
  /\ UNCHANGED <<gate, intruders>> /\ NetUnchanged

(* Recovered without draining: no holdoff needed.                          *)
ClearDropping(s) ==
  /\ At(s, "clear")
  /\ dropping' = FALSE
  /\ Admitted(s)
  /\ UNCHANGED <<queued, progress, wait, hold>> /\ NetUnchanged

(* Too long or too late: refused, and a drop episode begins.               *)
MarkDropping(s) ==
  /\ At(s, "mark") /\ Returns(s)
  /\ dropping' = TRUE
  /\ UNCHANGED <<queued, progress, wait, hold, intruders>> /\ NetUnchanged

(* on_queued: the count first; a datagram that enters an empty queue is    *)
(* its head and starts a new busy period.                                  *)
OnQueued(s) ==
  /\ At(s, "queue")
  /\ queued' = queued + 1
  /\ Goes(s, IF queued <= 0 THEN "head" ELSE "send")
  /\ UNCHANGED <<progress, wait, hold, dropping, intruders>> /\ NetUnchanged

BecomesHead(s) ==
  /\ At(s, "head")
  /\ progress' = call[s].lag /\ wait' = 0
  /\ Goes(s, "send")
  /\ UNCHANGED <<queued, hold, dropping, intruders>> /\ NetUnchanged

(* DatagramSend queues the datagram, or fails (always once the connection  *)
(* is shutting down).                                                      *)
DatagramSend(s) ==
  /\ At(s, "send") /\ connected /\ Returns(s)
  /\ transport' = Append(transport, UpTo(MaxDelay, call[s].lag))
  /\ UNCHANGED <<gate, worker, unacked, connected, controls, intruders>>

DatagramSendFails(s) ==
  /\ At(s, "send") /\ Goes(s, "failed")
  /\ UNCHANGED <<gate, intruders>> /\ NetUnchanged

\* Mutant: a failed send stays counted.
FailureUncounted(s) ==
  /\ At(s, "failed") /\ Returns(s)
  /\ UNCHANGED <<gate, intruders>> /\ NetUnchanged

(* on_send_failed: leave().                                                *)
OnSendFailed(s) ==
  /\ At(s, "failed")
  /\ queued' = queued - 1
  /\ IF queued <= 1 THEN Goes(s, "zero") ELSE Returns(s)
  /\ UNCHANGED <<progress, wait, hold, dropping, intruders>> /\ NetUnchanged

FailedDrains(s) ==
  /\ At(s, "zero") /\ Returns(s)
  /\ wait' = 0
  /\ UNCHANGED <<queued, progress, hold, dropping, intruders>> /\ NetUnchanged

-----------------------------------------------------------------------------
(* The MsQuic worker: DATAGRAM_SEND_STATE_CHANGED.                         *)

Without(i) == SubSeq(transport, 1, i - 1) \o SubSeq(transport, i + 1, Len(transport))
CallsUnchanged == UNCHANGED <<call, connected, controls, intruders>>

(* SENT: written into a packet.  Priority datagrams overtake others, so    *)
(* any of the queue may be next.                                           *)
Sent(i) ==
  /\ worker = "idle" /\ connected /\ unacked < MaxUnacked
  /\ i <= Len(transport)
  /\ transport' = Without(i)
  /\ progress' = 0 /\ wait' = transport[i]
  /\ worker' = "sub" /\ unacked' = unacked + 1
  /\ UNCHANGED <<queued, hold, dropping>> /\ CallsUnchanged

(* CANCELED: a final state that no SENT preceded.                          *)
Canceled ==
  /\ worker = "idle" /\ ~connected /\ transport # <<>>
  /\ transport' = Tail(transport)
  /\ progress' = 0
  /\ worker' = "sub"
  /\ UNCHANGED <<queued, wait, hold, dropping, unacked>> /\ CallsUnchanged

(* The final state of a datagram that was SENT: its context is freed, and  *)
(* left_queue keeps it from being counted again.                           *)
FinalState ==
  /\ worker = "idle" /\ unacked > 0
  /\ unacked' = unacked - 1
  /\ UNCHANGED <<gate, worker, transport>> /\ CallsUnchanged

(* The rest of on_dequeued: leave().                                       *)
Leave ==
  /\ worker = "sub"
  /\ queued' = queued - 1
  /\ worker' = IF queued <= 1 THEN "zero" ELSE "idle"
  /\ UNCHANGED <<progress, wait, hold, dropping, transport, unacked>> /\ CallsUnchanged

LeaveDrains ==
  /\ worker = "zero" /\ worker' = "idle"
  /\ wait' = 0
  /\ UNCHANGED <<queued, progress, hold, dropping, transport, unacked>> /\ CallsUnchanged

-----------------------------------------------------------------------------
(* The connection and the clock.                                           *)

Shutdown ==
  /\ connected /\ connected' = FALSE
  /\ UNCHANGED <<gate, call, worker, transport, unacked, controls, intruders>>

(* connect(): cleanup_handles waits for every callback and, taking the     *)
(* handles lock, for every sender; then reset().                           *)
Reconnect ==
  /\ ~connected /\ connected' = TRUE
  /\ transport = <<>> /\ unacked = 0 /\ worker = "idle"
  /\ \A s \in Senders : At(s, "idle")
  /\ queued' = 0 /\ progress' = AgeCap /\ wait' = 0 /\ hold' = -MaxLag
  /\ dropping' = FALSE /\ intruders' = 0
  /\ UNCHANGED <<call, worker, transport, unacked, controls>>

Tick ==
  /\ \A s \in Senders : At(s, "idle") \/ call[s].lag < MaxLag
  /\ call' = [s \in Senders |-> IF At(s, "idle") THEN call[s]
                                ELSE [call[s] EXCEPT !.lag = @ + 1]]
  /\ transport' = [i \in DOMAIN transport |-> UpTo(MaxDelay, transport[i] + 1)]
  /\ progress' = UpTo(AgeCap, progress + 1)
  /\ hold' = IF hold > -MaxLag THEN hold - 1 ELSE hold
  /\ UNCHANGED <<queued, wait, dropping, worker, unacked, connected, controls, intruders>>

-----------------------------------------------------------------------------
Admit(s) == LoadQueued(s) \/ ExchangeDropping(s) \/ StoreHoldoff(s) \/ HeadWait(s)
              \/ ClearDropping(s) \/ MarkDropping(s)
Enqueue(s) == OnQueued(s) \/ BecomesHead(s) \/ DatagramSend(s) \/ DatagramSendFails(s)
                \/ OnSendFailed(s) \/ FailedDrains(s)
Sender(s) == AskMedia(s) \/ Admit(s) \/ Enqueue(s)
Indexes == 1..(MaxQueued + Cardinality(Senders) + MaxControls)
Dequeue == (\E i \in Indexes : Sent(i)) \/ Canceled \/ FinalState \/ Leave \/ LeaveDrains

Next ==
  \/ \E s \in Senders : Sender(s) \/ SendControl(s)
  \/ Dequeue \/ Shutdown \/ Reconnect \/ Tick

(* The media threads keep producing (the audio callback is periodic), the  *)
(* path carries something, the clock runs.                                 *)
Spec == Init /\ [][Next]_vars
FairSpec ==
  /\ Spec
  /\ WF_vars(Tick) /\ WF_vars(Dequeue)
  /\ \A s \in Senders : WF_vars(Sender(s))

-----------------------------------------------------------------------------
(* Correctness.                                                            *)

Counted(s) == call[s].at \in {"head", "send", "failed"}

(* The lock-free count is exact: it is MsQuic's queue plus the datagrams   *)
(* whose send or whose report is in progress, across failed sends, sends   *)
(* reported before DatagramSend returned, cancellations and reconnects.    *)
QueuedExact ==
  queued = Len(transport) + Cardinality({s \in Senders : Counted(s)})
             + (IF worker = "sub" THEN 1 ELSE 0)

(* The queue is bounded by its limit, up to the threads that passed        *)
(* admit() together ("at worst one extra ... admission" for each further   *)
(* sender) and the datagrams that bypass it.                               *)
QueueBounded == Len(transport) <= MaxQueued + Cardinality(Senders) - 1 + controls

(* Once a drop episode has drained the queue, stream data has the path for *)
(* the holdoff: a media datagram gets in only from a call that was past    *)
(* the holdoff check when it began, one for each other sender.             *)
HoldoffHolds == intruders <= Cardinality(Senders) - 1

(* Voice comes back: as long as the path carries something, media is       *)
(* admitted again and again; no interleaving leaves the gate shut.         *)
MediaFlows == []<>(~connected \/ \E s \in Senders : At(s, "queue") /\ call[s].media)

(* The estimate of the transport's queue is what the transport has queued, up*)
(* to the calls under way, and the queue stays bounded.                    *)
DatagramAccounting == TypeOK /\ QueuedExact /\ QueueBounded
=============================================================================
