# parties: TLA+ models of the server, the client and the video path

*parties* is a self-hosted voice chat with screen sharing over QUIC: a server
(`src/server`), a client (`src/client`) and code both use (`src/common`).  These
modules model the parts in which order, concurrency and loss decide whether the
program is right: who is in which channel and who publishes what, the client's
connection and camera, and the way of a video frame from the sharer's capture thread
through the server to the viewer's decoder.  Each module is model-checked on small
instances with TLC.  The safety properties of every one of them are also proved with
TLAPS, for every value of the parameters: the reorder buffer and the receive router, the
server's sessions, ingress and forwarding, the client's connection and camera, the screen
share, the send controller, the datagram gate and the decode pipeline.

    sharer's client                    server                              viewer's client
    ScreenShare, CameraShare
      -> VideoSendController
      --one stream per frame---------> VideoIngress                        VideoReceiveRouter
                                         -> VideoFrameReorderBuffer          -> VideoFrameReorderBuffer
                                         -> VideoForwarding --stream/frame-->   -> playout thread
    control messages                                                            -> VideoDecodePipeline
      ClientConnection --------------> ServerSessions --notices----------> roster, streams shown
    keyframe request <--datagram------ VideoForwarding <--PLI------------- paced requests
    voice datagrams: DatagramBacklog (either side)

## Inventory

| Component | State | Operations | What is hard about it | Module |
|---|---|---|---|---|
| Reorder buffer (`common/src/video_frame_reorder.cpp`) | baseline, held frames, gap timer, keyframe in flight, aborted numbers | frame started, arrived, aborted; poll; reset | wrapping counter, eviction, silent recovery, late timers | VideoFrameReorderBuffer, VideoFrameReorder, VideoDelivery |
| Receive router (`common/src/video_receive_router.cpp`) | buffer and pacing per watched stream, playout queue | open, close, tick, frame events, request | four threads, delivery without a lock | VideoReceiveRouter |
| Decode pipeline (`client/src/windows/app.cpp`, `video_decode_gate.h`, `video_decode_backlog.h`) | gate, queue, stale-flush tracker, decode thread | start, stop, frame received, decode loop, retry | batch decoded without the lock, flush and recovery in two sections, rationed requests | VideoDecodePipeline |
| Sessions and channels (`server/src/server.cpp`, `quic_server.cpp`) | session map, user index, authenticated sessions, channels, streams, subscriptions | login, takeover, join, leave, delete, kick, share, view, disconnect | a worker retires a session while the main loop handles its message; late departures | ServerState, ServerSessions |
| Video ingress (`quic_server.cpp`, `server.cpp`) | per-stream accumulators, two byte budgets, queue, generation | stream started, received, aborted, shut down; enqueue; process | atomic loads racing start and stop; every way a stream can end | VideoIngress |
| Video forwarding (`server.cpp`, `video_backlog.h`) | gate and backlog per viewer, coalescer and deferred request per stream | view, unview, PLI, forward, send completion | drops, failed sends, lost requests, cooldowns | VideoForwarding |
| Screen share (`client/src/windows/app.cpp`) | write, ready, active, last slot; encoder; request flags | start, stop, capture, encode loop, keyframe request | four threads, one mutex and one condition variable | ScreenShareState, ScreenShare |
| Send controller (`common/src/video_send_controller.cpp`) | outstanding bytes, bitrate, window | admit, charge, complete, tick, cleanup | lock-free counter zeroed under a send in progress | VideoSendControllerState, VideoSendController |
| Camera (`client/src/app_core.cpp`, `windows/app.cpp`) | capture sessions, task queue, button state, stops in flight | toggle, select, poll, open, close, worker, notices | opens and closes on a thread of their own, echoes told apart by a counter | CameraShare |
| Connection (`client/src/app_core.cpp`, `net_client_msquic.cpp`) | login form, dial, TOFU, reconnect, flags set by the worker | clicks, tick, messages, connection events | a worker's flag consumed in the middle of tick() | ClientConnection |
| Datagram backlog (`common/include/parties/datagram_backlog.h`) | five atomics | admit, queued, failed, dequeued, reset | lock-free, several senders | DatagramBacklog |
| Playout clock, authentication replay guard, rate limits, database, chat, files, configuration, view models, audio, server query, wire format, renderers, designer | | | see *Not modelled* | |

`PROJECT.json` lists every component with its status, every modelled definition with its
source lines, and the hazards the properties are aimed at.

## Modules

**FrameSequence** holds the wrapping frame counter: numbers in `0 .. 2*Half-1` that compare
by signed distance, as `video_seq_newer` does with 2^32.

**VideoFrameReorderBuffer** (operators) and **VideoFrameReorder** (specification).  The
buffer is one record; each public operation is an operator from record to record that
also yields the frames delivered and the losses reported by that call.  `on_frame` is
split along its branches: `StartupDelta`, `FirstKeyframe`, `GapDelta`, `GapKeyframe`,
with `Drain`, `BoundHeld` and `RequireKeyframe` the private helpers of the same
name.  Time stamps are ages: `Elapse` lets them grow up to the largest value a
comparison can tell apart.

**VideoDelivery** is the abstract specification of a receiver: a frame is delivered if it
is a keyframe newer than everything before or directly follows the last one; an
interruption of the chain is reported once, with the number missed, and only a
delivery or a reset ends it.  It knows nothing of held frames, timers, evictions,
aborts or headers.  `VideoFrameReorder!ImplementsDelivery` is `Delivery!Spec` under the
mapping `have`, `last`, `broken`, `told` = the buffer's baseline flag, baseline,
awaiting flag and `loss_reported`.

**ServerState** (operators) and **ServerSessions** (specification).  `srv` is the
server's tables plus what each client was told (`told`: who is where, `seen`: which
streams), so that a property can compare the server's mind with its clients'.  The main
loop takes a message (`TakeMessage`, the `get_session` at the head of `handle_message`)
and then handles it in a second step; between the two a worker may retire the very
session (`ShutdownComplete`).  Departures are a queue that is handled one at a time.
Clients may send any message at any time; `Refuse` stands for every early return.

**VideoIngress**.  One source of one publisher.  A RECEIVE charges the buffered budget,
finds the source, announces the header, refuses what is over budget, over length or not
allowed, and delivers at FIN.  Each enqueue call is three steps of the worker: first
load, second load, push; a frame loads generation then flag, an event flag then
generation, as in the code.  The main loop handles START and STOP and drains the queue
item by item.  The two stores of a STOP are one step: the drain runs on the same thread, so
it compares with the generation after both.

**VideoForwarding**.  One stream and its viewers.  `phase` says which part of
`Server::run` executes: control messages and PLIs, or `process_video_frames`.
`ForwardVideoFrame` is the whole of `forward_video_frame`: budget check and gate
for each viewer, aborts, sends, failed sends, the keyframe request at the end.  QUIC
workers complete, refuse and shut down sends at any moment.  The publisher (`sharer`) is
external: a request is lost, or heard and answered.

**VideoReceiveRouter**.  One stream of the viewer's router, on top of the buffer.
`tick()` is two steps because the decoder predicate and the request run after the lock is
released; the playout thread pops (`PlayoutPop`) and delivers (`PlayoutDeliver`) in
separate steps because it drops its lock in between.  `open` and `close` are one step
each: they take their locks one after the other, but nothing that
runs between can put a frame into a stream that is not in `streams_`.  Its specification is
`RouterSpec` (with fairness `FairRouterSpec`), a name of its own beside the buffer's `Spec`.

**VideoDecodePipeline**.  What the router delivers passes the decode gate into a queue; the
decode thread swaps the queue out and decodes the batch without the lock.  Each section
under `queue_mutex` is one step, except the wait, which is two: predicate, then sleep.
`Resync` and `Recover` are the two sections of a flush; `Ask` is the request that follows
outside the lock, paced by the router.  Frames arrive in any order and decoding fails
whenever it likes.

**ScreenShareState** (state and invariants) and **ScreenShare** (steps).  Capture thread, encode
thread, QUIC worker and message thread around three staging slots.  Sections under
`encode_mutex_` are steps; the wait is two steps, as above, so that a notification without the
mutex can be lost.  A viewer that needs a keyframe repeats its request; sends fail, textures
cannot be created, encoders skip frames or refuse to start.  An encode can fail as well
(`EncodeFails`), and what becomes of a forced keyframe then depends on where: NVENC keeps the
flag when the input cannot be mapped and has cleared it when `EncodePicture` or `LockBitstream`
fails, OpenH264 clears it first and puts it back for a skipped frame only.  The start of a share
resets the slots in one step, since none of its threads runs yet.

**VideoSendControllerState** (state and invariants) and **VideoSendController** (steps).  Each
operation on the atomic `outstanding_` is a step of its own, so `on_completed` is a subtraction
and, if that went below zero, the clamping loop.  Bitrates are small integers with the code's
factors in percent.  `reset_video_sender` fixes the floor for the share, at or below its first
ceiling (`ResetFor`, `rate.floor`); the slider moves the ceiling only.  What goodput and queueing
delay decide is a choice wherever the code can find either.  The cleanup after a lost connection
is three steps of the main thread with the encode thread in between.

**CameraShare**.  A handler of the main thread is a function from client states to client
states, so that `leave_channel` calling `stop_camera` composes as in the code.
`post_camera_task` is a queue the camera thread works off; the capture worker of a session
delivers pictures, fails (also in creating its encoder) and creates its encoder, of which a later
re-creation repeats the UPDATE; the server keeps this user's channel and stream.  It deletes
channels: the members are moved out before the database is asked, which may refuse
(`ServerDeleteFails`).  `poll_camera` announces a stream in two steps (`PollPublish`, `PollLive`)
because the worker reads `live` in between.  Its specification is `CameraSpec` (with
fairness `FairCameraSpec`).

**ClientConnection**.  `tick()` is split at the points where MsQuic's worker can come between:
the flag, the drain before the cleanup, the cleanup, the poll of the dial, the retry, the
messages.  Time is two facts: the backoff elapsed, the session is no longer young.  The
server answers, refuses, kicks or disappears at will.

**DatagramBacklog**.  Two senders and the worker.  Every read-modify-write of the gate's atomics
is a step of its own, and so are the loads and stores a call decides between; the loads of one
comparison, and stores made one right after the other, are one step.  Times are
relative to now; a sender reads the clock once per call and lags behind afterwards.

`MC*` modules only add symmetry sets, the router's set of frames and the sender's
targets.  The `*Proofs` modules hold the theorems about the component they are named
after.  Three of them serve several components that share lemmas or a place in the program:
**VideoFrameReorderProofs** also holds the router's, which rest on the buffer's; **SendingProofs**
those of the three components in front of the transport (DatagramBacklog, ScreenShare,
VideoSendController), the latter two as instances over their state modules; **ShellProofs** those
of the two components in the Windows shell around camera and decoder (VideoDecodePipeline,
CameraShare).  **SumTheorems** has the facts about sums, folds and finite sets that they share.

## Runs

| Run | Properties | Instance |
|---|---|---|
| `reorder` | `BookkeepingExact`, `HeldBeyondGap`, `QuietOnlyForKeyframe`, `ImplementsDelivery`, `GapIsResolved` | 8 frame numbers, 2 held frames, 3 bytes, sizes 1 and 2 |
| `sessions` | `TablesAgree`, `NoticesExact` | 3 sessions, 2 users, 2 channels |
| `sessions_admin` | `IngressOnlyWhileRegistered`, `DepartureIsAnnounced` | 2 sessions, one admin, one channel |
| `ingress` | `IngressAccounting`, `OneOutcome`, `QueueIsFenced` | 2 streams, 2 shares, budget 3 |
| `forwarding` | `ForwardAccounting`, `OpenGateIsWhole`, `NothingStaleAheadOfKeyframe`, `GateReopens` | 1 viewer, 2 frames in flight, budgets 0, 1 and 2 |
| `router` | `DecoderSeesChain`, `NeedIsRequested` | 4 frames, 3 numbers across the wrap |
| `connection` | `LoginDiscipline`, `EndIsFinal`, `RejoinsLostChannel`, `KeepsDialling` | 1 server, 1 channel, flap limit 2, 4 clicks |
| `screen_share` | `SlotDiscipline`, `NoDeltaAfterLoss`, `PublishedIsTaken`, `KeyframeIsServed` | the program's 3 slots, no bound |
| `sender` | `SendAccounting`, `AdmissionReopens`, `EncoderSettles` | targets 9 and 13, floor 10, frames up to 2 |
| `camera` | `CaptureDiscipline`, `CameraAgrees`, `StreamDescribed`, `OpenResolves` | 2 channels, 4 clicks, deletions (carried out or refused) or losses |
| `datagrams` | `DatagramAccounting`, `HoldoffHolds`, `MediaFlows` | 2 senders, limit 2, holdoff 2 |
| `decode` | `FlapGuardHolds`, `DecodesChain`, `DecodingResumes`, `StopReturns` | 2 frame numbers, queue of 2, every limit 1 (slow request 2) |

What the runs show, by hazard:

* *Order and loss.*  Whatever arrives in whatever order, the reorder buffer refines
  `VideoDelivery`: a delta only directly after its predecessor, a keyframe only
  forward, across the wrap of the counter, and one report per interruption.
  `DecoderSeesChain` carries this through the router's unlocked delivery,
  `DecodesChain` through trims, flushes and failures of the decode thread.
* *Silent recovery.*  The buffer stays quiet about a broken chain while a newer keyframe
  is arriving.  `QuietOnlyForKeyframe` and `GapIsResolved` say that it is quiet for that
  reason only and never forgets.
* *Workers against the main loop.*  `TablesAgree` (index, authenticated sessions, streams,
  subscriptions) and `NoticesExact` (rosters and streams shown) hold with sessions retired
  at any moment.  `NoticesExact` sets aside the users that a retired session's own
  JOIN, or a failed channel deletion, left unannounced; see `NoGhostUsers` below.
  `LoginDiscipline` and `EndIsFinal` say the same of the client: a drop flagged anywhere
  in `tick()` is noticed, and a kick received before it stays final.
* *Accounting.*  `ForwardAccounting`, `IngressAccounting`, `SendAccounting` and
  `DatagramAccounting` say that every byte or datagram is charged once and given back
  once, whichever completion comes first, and that the queues stay within their limits.
* *Threads and wake-ups.*  `SlotDiscipline`, `PublishedIsTaken`, `StopReturns` (of the decode
  thread), `CaptureDiscipline`: no picture is overwritten while it is read, no
  announcement is lost, one device is open at a time.
* *Recovery across components.*  `OpenGateIsWhole`: a viewer's gate is open only if it
  has been sent everything since its last keyframe, failed sends included.
  `GateReopens`, `NeedIsRequested`, `KeyframeIsServed` and `DecodingResumes`: backoff,
  cooldown, coalescing, loss, skipped frames and the rationing for slow decoders delay a
  keyframe and never cancel the need for one.
* *Both ends of a protocol.*  `CameraAgrees` and `StreamDescribed`: once the wire is quiet,
  server and client agree on whether there is a camera and what it is.

**Bounds.**  Frame counters need room for a gap, a frame beyond it and a wrap: with `Half = 4`
the signed distance has three numbers on each side.  The decode gate only asks whether a frame
directly follows, so two numbers suffice there; the same properties also hold of four numbers
and of a queue of three with a hard limit of two.  Two held frames let eviction choose between
two victims and a byte limit of 3 makes sizes matter.  Three sessions for two users is the
smallest instance with a takeover and a witness.  Two shares and two streams let one stream
straddle a restart while another competes for the budget. A backoff of up to two ticks is long
enough for a request to fall into the wait of another.  Four clicks reach login, join, a loss and
a click during the retry, and for the camera switch on, switch channel, switch off and on
again.  Flap limit 2 lets the guard count once before it acts.  Targets 9 and 13 with floor 10 put
one ceiling below the floor, give steps smaller and larger than the publish threshold, and one
(from 11 to 12) that the threshold holds back away from both bounds.  Two
senders are what the code has (voice and stream audio), and a lag of one tick lets the clock
move inside a call. `MaxOut`, `MaxPending`, `MaxShares`, `Streams`, `SentFrames`, `MaxClicks`,
`MaxQueue`, `MaxLag`, `MaxControls` and `MaxUnacked` bound the environment in the guards; all
other constants are the program's own parameters, scaled down.

**Fairness.**
`reorder`: the owner polls (`process_video_frames` every loop pass, `tick` every UI
frame) and time passes.
`sessions_admin`: handlers end, and the loop reaches the departure queue in every pass,
however many messages keep arriving (strong fairness, since it is not enabled while a
message is in hand).
`forwarding`: the loop turns, time passes, sends complete or are cancelled (MsQuic
guarantees SHUTDOWN_COMPLETE), the sharer goes on sending frames, and of infinitely many
requests one gets through and is answered.
`router`: the tick and the clock.
`connection`: the main loop ticks, the clock runs, MsQuic ends every dial and every
shutdown, and of infinitely many retries one starts a dial.  Nothing is assumed of user,
server or network.  A connection that is up has its control stream: should MsQuic fail to open
that on an established connection (`net_client_msquic.cpp:757-760`, no memory), the dial stays
awaited until the connection drops, and nothing obliges it to.
`screen_share`: every thread runs, and one that wants the mutex is not overtaken for ever
(captures and requests come at a frame interval and a cooldown, the mutex is held for an
instant); encoders do not refuse to start for ever, and of infinitely many frames due to be
keyframes one is encoded and sent, the others being skipped, failing or unsent (strong fairness
of `KeyframeSent`; the other outcomes of an encode have none of their own).  Captures are not
fair: `KeyframeIsServed` must hold on a screen that never changes again.
`sender`: threads run, windows end, what is in flight completes, the picture changes.
`camera`: the message loop polls and receives, the camera thread works off its queue, an
encoder under construction is finished; no device has to deliver a picture.
`datagrams`: the audio callback is periodic, the clock runs, the path carries something.
`decode`: threads run, `decode()` returns, the main loop ticks, a requested keyframe
arrives.
Runs without deadlock checking are those in which the environment is finite (connections,
streams, shares, clicks) and the system rightly comes to rest.

## Known disagreements

Statements of the repository's comments and documents that the models show not to hold.
Each is a property of the named module; replacing the properties of the named
configuration by it (and the constants, where given) makes TLC print the behaviour.

* `NoGhostUsers` (ServerSessions, `sessions_admin.cfg`).  At SHUTDOWN_COMPLETE the worker
  copies `channel_id` into the departure record while the main loop may be inside a JOIN
  of that session; the record then names no channel, `process_disconnect` returns
  early and the user stays in everyone's roster.  `quic_server.cpp:964-966`: "keeps all
  disconnect-time Session access on the main thread, eliminating the worker/main-loop
  race".
* `RegisteredMeansAccepted` (ServerSessions, `sessions.cfg`).  A departure handled after the
  same identity logged in again and rejoined the channel returns (`server.cpp:1689`)
  before `stop_all_video_streams`: the old session's stream stays registered with nobody
  publishing it.  `server.h:71-72`: "Leaving or switching a channel, disconnecting and
  deleting the channel end all of them."
* `StoppedShareIsInvalidated` (VideoIngress, `ingress.cfg`).  The generation fences what is
  *queued* when a share stops (`QueueIsFenced` holds), but it is read when a finished
  frame is queued (`server.cpp:1728`): a frame stream opened before the stop and finished
  after the next start is accepted, and a keyframe of it becomes the baseline of the fresh
  buffer.  `docs/video-pipeline.md:124`: "Queued frames from a stopped share are
  invalidated by its generation."
* `RefusedIsDeferred` (VideoForwarding, `forwarding.cfg` with `Budgets = {1, 3}`,
  `Cooldown = 2`, `HealthyFrames = 2`, `MaxOut = 3`).  A second refused request does not move
  `pli_deferred_at_us` (`server.cpp:2062`), so a keyframe that came before it cancels it.
  `server.h:146-147`: "A request inside the window is deferred to its end, not dropped,
  unless a keyframe passes through meanwhile."
* `LossIsRetried` (ClientConnection, `connection.cfg`).  Disconnecting on purpose when the
  connection is already gone sets the intent (`app_core.cpp:1082`) and raises no event that
  would clear it; the next session's unexpected loss is then taken for intended.
  `app_core.h:242-244`: "Set true by intentional disconnects [...] so the drop handler
  knows NOT to reconnect. Cleared after each disconnect is processed."
* `CleanupIsOwn` (ClientConnection, `connection.cfg`).  `connect()` closes the old handles,
  whose SHUTDOWN_COMPLETE sets `disconnect_pending_`; the next tick cleans up the
  connection that was just dialled.  `net_client_msquic.cpp:383`: "Nothing of the old
  connection may leak into the new one".
* `FingerprintIsCurrent`, `PinsOwnCertificate` (ClientConnection, `connection.cfg` with
  `Servers = {s1, s2}` and `Spec`).  The fingerprint is cleared by `disconnect()` only, and
  choosing another server while a dial is under way replaces the host
  (`app_core.cpp:3003`) the outcome of that dial is filed under.
* `StopReturns` (ScreenShare, `screen_share.cfg`).  `stop_screen_share` clears
  `encode_running_` and notifies without `encode_mutex_` (`windows/app.cpp:1629-1630`);
  between the encode thread's predicate and its sleep the notification is lost and the join
  waits for ever.  `windows/app.cpp:2176-2180` describes this very window, "that would hang
  the join forever", for the decode thread, where `VideoDecodePipeline!StopReturns`
  holds.
* `LossEndsInKeyframe` (ScreenShare, `screen_share.cfg`).  An encode that fails after the
  encoder has consumed the forced keyframe (`nvenc_encoder.cpp:291`, failures at 299-317;
  `openh264_encoder.cpp:111`, failures at 120 and 182-185) is logged and no keyframe is forced
  again (`windows/app.cpp:2115`): the next frame is sent as a delta after a loss, until a
  viewer asks.  `video_send_controller.h:125-126`: "the next encoded frame must be a keyframe
  because viewers lost a reference frame."
* `NoStrayCamera` (CameraShare, `camera.cfg`).  The notice of a channel that was deleted, or whose
  deletion the database refused after the members were moved out, can cross a
  join of another one and the camera's start there; the client then leaves locally
  without a STOP and the server goes on publishing.  `app_core.cpp:2265-2266`: "The server
  took us out of the channel (it was deleted) and has already ended our streams".
* `ButtonIsTruthful` (CameraShare, `camera.cfg`).  Leaving while a join is unanswered
  (`app_core.cpp:1167`) leaves client and server in different channels, and a stop counted
  as in flight that the server ignored swallows a later, real one.
  `app_core.cpp:2400`: "or the button would claim we are still live".

Two more of `ClientConnection` have no property: a re-established session that drops before
its rejoin is confirmed forgets the channel, and an error answered to a login is shown in
a form that the cleanup of the following drop closes.  In wording only: `server.h` speaks of one
forwarded PLI per 200 ms where the cooldown is 1000 ms (`video_common.h`), and
`docs/protocol.md` gives the reorder buffer's limits as 150 ms and 8 frames where the code
has up to 1.5 s and 240.

## Proofs

| Module | Theorems | Property | Parameters assumed |
|---|---|---|---|
| `VideoFrameReorderProofs` | `TypeCorrect`, `HeldFramesAreBeyondGap`, `SilenceIsJustified`, `BooksAreExact`, `BufferImplementsDelivery` | `TypeOK`, `HeldBeyondGap`, `QuietOnlyForKeyframe`, `BookkeepingExact`, `ImplementsDelivery` | `ReorderAssumption` |
| | `DecoderIsGivenAChain` | `DecoderSeesChain` | `ReorderAssumption`, `RouterAssumption` |
| `ServerSessionsProofs` | `TablesAlwaysAgree`, `NoticesAlwaysExact`, `IngressAlwaysRegistered` | `TablesAgree`, `NoticesExact`, `IngressOnlyWhileRegistered` | `ServerAssumption`: finitely many sessions |
| `VideoIngressProofs` | `BudgetsAreExact`, `StreamsHaveOneOutcome`, `StopFencesTheQueue` | `IngressAccounting`, `OneOutcome`, `QueueIsFenced` | `IngressAssumption`: finitely many streams |
| `VideoForwardingProofs` | `OpenGatesAreWhole`, `KeyframesAreNotDelayed`, `ChargesAreExact` | `OpenGateIsWhole`, `NothingStaleAheadOfKeyframe`, `ForwardAccounting` | `ForwardingAssumption`: some budget |
| `ClientConnectionProofs` | `SessionIsBacked`, `EndedStaysEnded`, `LostChannelIsRejoined` | `LoginDiscipline`, `EndIsFinal`, `RejoinsLostChannel` | `FlapLimitPositive`, `NoneAreFresh`, `BoundAssumption` |
| `SendingProofs` | `SlotsAreExclusive`, `LossIsFollowedByKeyframe` | `SlotDiscipline`, `NoDeltaAfterLoss` | `EncodeSlotsAssumption`: three slots or more |
| | `BytesOutAreExact` | `SendAccounting` | `ControllerAssumption`: finitely many ceilings |
| | `CountIsExact`, `HoldoffIsKept` | `DatagramAccounting`, `HoldoffHolds` | `SendersFinite`, `LimitsPositive` |
| `ShellProofs` | `DecoderFollowsReferences`, `FlapGuard` | `DecodesChain`, `FlapGuardHolds` | `DecodeAssumption` |
| | `CaptureIsDisciplined`, `CameraAlwaysAgrees`, `StreamAlwaysDescribed` | `CaptureDiscipline`, `CameraAgrees`, `StreamDescribed` | `NoChannelIsNone`, `MaxClicksIsNat` |

Each theorem holds of the component's specification (`Spec`, `RouterSpec`, `CameraSpec`),
without fairness, for every value of the constants that the named assumption of its module
admits: any counter width, any number of sessions, users, channels, viewers, streams, senders
and slots, any limit, timeout and frame size.  The assumptions say what kind of value a constant
is, that the sets counted over are finite, and how limits of the program relate (three slots, a
warning level below the hard limit, a first backoff below the largest).  In every module
`Inductive` (for the two instances of `SendingProofs` `ScreenInductive` and
`ControllerInductive`, for the camera `CameraInvHolds`; the router's is inside its theorem) is
`Spec => []Inv` for an inductive invariant; the lemma for its step has a case per action, and
the properties follow from it.

**Reorder buffer.**  `HeldBeyondGap` alone is not inductive: a keyframe that closes a gap
drains the run of held frames behind it, so what stays held must be shown to start beyond
the end of that run, which needs the run's length characterised (the first number that is
not held) and modular distance facts (distance is additive while it stays below half the
range).  `QuietOnlyForKeyframe` needs that the remembered keyframe is newer than the
baseline, and that `ForgetInflight` drops it only together with the baseline passing it
(`Typed`, `Beyond`, `Quiet`, `Ahead`).  `BookkeepingExact` adds `Books`: the byte count is the
sum over the held frames, both limits hold between calls, the gap timer is the age of the
earliest held frame, and an aborted number the chain has stopped in front of means recovery
(`Exact`, `Fits`, `Timed`, `Listed`, `Marked`).  Eviction keeps what fits, so it needs that a
sum over a subset is no larger.  `BufferImplementsDelivery` shows the refinement operation by
operation: the initial buffer maps to the initial receiver, and each call, with all the frames
it drains, to one step of `VideoDelivery` or a stutter.

**Receive router.**  `RouterInv`: what the playout thread has popped and what is still queued,
in that order (`OnTheWay`), continues the chain the decoder has, and the buffer's baseline is
the last frame of it.  The second part is what makes the first inductive: the buffer's own
theorem says that a call delivers a chain from its baseline on, so the frames a call appends
fit the end of the queue.  Closing empties the queue but not the playout thread's hand, and the
fresh buffer of a reopened watch has no baseline, so its first frame is a keyframe whatever
the decoder was given last.  The buffer's lemmas are cited per operation (deliveries of
`on_frame`, `on_frame_aborted` and `poll`; nothing delivered by headers and RTT updates).

**Server sessions.**  The invariant is `Sound(S, P, A)`, a predicate of the tables in which
`P` are the queued departures and `A` the users nobody was told about: the index names a
session of that user (`IndexNamesSession`, `SignedInIsIndexed`, `AuthedIsSignedIn`), channel
membership, registered sources, subscriptions and published streams agree with it
(`ChannelNeedsLogin`, `SourcesRegistered`, `WatchedRunHere`, `Published`), and so do the rosters
and stream lists the clients were sent (`RosterTold`, `StreamsTold`).  It is a predicate and
not a state formula because handlers are compositions - a kick is a loop of leaves, a takeover
a departure followed by a login - and each part is shown to keep it.  `DeparturesAreGone`
and `HandlingCurrent` make it hold across the two steps of a message: a session that a
worker retired meanwhile has its departure queued for as long as its message is in hand.
One removal lemma (`Removed`) serves leave, disconnect and kick; the loops over sessions are
folds, reasoned about through `FoldExists` and induction over finite sets.

**Ingress.**  `Alternates` and `NoneIsLost` say where the main loop is among the sharer's STARTs
and STOPs: every one of them is on the wire or handled.  `GenerationsFenced`: the generation
counts the stops of a registered share, and what is queued carries one read no later than it was
queued, so an item queued before a stop cannot pass the comparison after it.  `StreamsOK`
says of each stream context that it is finished once and only by an outcome.  The budgets are
sums over streams and queue.

**Forwarding.**  A gate that is open has had every frame since its last keyframe
(`OpenGateIsWhole`) because failed and refused sends close it in the same pass;
`OutstandingExact` and `BacklogBounded` say that the charge of a viewer is the sum of
its sends in flight and exceeds no budget it may have by more than one frame.

**Connection.**  The invariant's idea is that an answer belongs to a connection and is
handled before that connection's loss is cleaned up: `AnswerIsOwn`, `AnswerOnce`, `BatchIsOwn`
for the messages, `TofuIsUnasked`, `TofuIsCurrent`, `AwaitedIsUnasked` for the fingerprint
dialogue, `ShownHasNet`, `ShownIsAnswered` for what the user sees, `FlapsPay`, `RejoinIsArmed`,
`SingleConnection`, `EndIsNoted` for retries and final ends.

**Screen share.**  That the write slot is neither ready nor active is not inductive, since a
keyframe request may queue the newest picture again: `WriteIsFree` also keeps it apart from
`last`.  Three slots suffice because a picture becomes the queued and the newest one in the same
section, so that the search for the next write slot has at most two to avoid.  `LossIsRepaired`
says where a keyframe that is still owed is remembered at each point of the encode loop; it is
owed from a loss until it is sent or a failing encode takes it along (`KeyframeIsOwed`).

**Send controller.**  `Balance`: until the cleanup zeroes the counter it is what is in flight
plus what the encode thread has charged and not handed over; afterwards nothing is in flight
and a late refund takes it below zero only until its own clamp.  `RateInRange` needs
the share's own floor; the first attempt at this proof failed because the model compared the
bitrate with a floor that moved with the slider, while `reset_video_sender` fixes it at the
start of the share.  The model was corrected.

**Datagram gate.**  `QueuedIs` counts each sender and the worker by where they are in their
calls; `CountBounded` and `AdmissionsBounded` bound what senders already past a check can still
add, which is why the limits are exceeded by at most one datagram per other sender.

**Decode pipeline.**  `Chain` relates the last frame decoded to the batch in hand and the
queue behind it, across trims and flushes; `OffIsNew` and `WindowIsQuiet` support the flap guard.

**Camera.**  `CameraInv` has four parts, for each of which there are lemmas by kind of change,
so that a handler is shown to keep them by the handlers it calls (the `Fine*` lemmas).

* *Task queue* (`Queue`).  A session is queued exactly while its open task is to run, no close
  of it comes before that open, and the sessions behind it are queued too; a session that has
  the device and is not the main thread's own has its close in the queue, ahead of every
  open.  That is why the camera thread never opens a device another session still has
  (`DeviceExclusive`), though the main thread lets go of a session at once.
* *Capture* (`Devices`, `Flags`).  The main thread has an opening or a live session and never
  both; only an open one has an encoder, and none is left once the button is off.
* *Control stream* (`Told`, `Described`, `Ended`, `Balanced`).  What the server will hold is
  decided by the last message on its way that can still change it (`After`): an announced camera
  is published, unless a later message says otherwise, and a camera taken back is followed by
  the message that ends it.  `Balanced` counts: the stops the server has sent, the stream it
  publishes and the starts on their way are covered by the echoes the client waits for and the
  camera it shows, so that an echo is never taken for a real stop.  This and `Ended`
  hold until a deletion, carried out or refused, moves the user out of its channel, which is the
  code's limit too (`NoStrayCamera`), and the reason why the second half of `CameraAgrees` asks
  that none did (`evicted`).  Channels deleted around the user do not matter.
* *Bounds* (`Args`, `Budget`).  A message names a session that was made, and sessions, with the
  restart still owed, are no more than the clicks.

**Only model-checked.**  The liveness properties and everything that needs ENABLED
(`GapIsResolved`, `DepartureIsAnnounced`, `GateReopens`, `NeedIsRequested`, `KeepsDialling`,
`PublishedIsTaken`, `KeyframeIsServed`, `AdmissionReopens`, `EncoderSettles`, `OpenResolves`,
`MediaFlows`, `DecodingResumes`, `StopReturns`), which are out of the prover's reach.  Every
safety property a run checks is proved.  The library's induction theorems with an operator
parameter cannot be instantiated, so `SumTheorems` states induction over finite sets and over
subsets with a *set* in place of the predicate, and derives the facts on sums and folds from
that.


## Not modelled

Payloads, codecs, wire layout, logging and statistics; the playout clock (the head of the
queue may become due at any time); how a viewer's budget is computed from rates and RTT
(any member of `Budgets`); the token bucket on PLIs (a refused one changes nothing);
several streams competing for one viewer's backlog; chat, files, roles, voice state; the
legacy stream-1 ingress.  Of the client: watches and their notices, chat, settings, view
models, file streams, the self-preview and the macOS and iOS shells; the asynchronous
hardware encoder; the surface leases of NVDEC, which do not hold up `decode()` once a stop
is requested.  `VideoForwarding` has the viewers of protocols before 1.2 (not in
`FrameStreams`), but the run has a per-frame viewer.  The larger part of the
repository's lines is vendored or graphics code (the DX12 renderer with its memory
allocator, `stb_truetype`, the NVENC header), UI binding, SQL and signal processing, in
which no order of events is at stake.  `PROJECT.json` gives the reason for each component.

## Plan

1. `VideoWatch`: the watch protocol between client and server (optimistic `add_watch`,
   ordered notices, frames of an earlier share still in flight toward a fresh buffer), with the
   router's `Open` and `Close` as its client side.
2. The authentication replay guard, chat retention and attachments.
