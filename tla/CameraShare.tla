---------------------------- MODULE CameraShare ----------------------------
(***************************************************************************)
(* One user's camera, end to end.  Four actors interleave:                 *)
(*                                                                         *)
(*   - the main thread: AppCore's channel and camera state                 *)
(*     (src/client/src/app_core.cpp) and the capture sessions of App       *)
(*     (src/client/src/windows/app.cpp), driven by clicks, by poll_camera  *)
(*     and by the server's messages;                                       *)
(*   - the camera thread, which runs opens and closes in posting order;    *)
(*   - the capture worker of an open session: first picture, failure,      *)
(*     encoder creation;                                                   *)
(*   - the server, with its channel and stream tables for this user.       *)
(*                                                                         *)
(* The control stream is one FIFO queue per direction.  A handler of the   *)
(* main thread is a function from client states to client states, so that  *)
(* handlers that call each other compose as they do in the code.           *)
(*                                                                         *)
(* The specification has names of its own, so that one module of proofs    *)
(* can speak of it and of VideoDecodePipeline, the shell's other part.     *)
(***************************************************************************)
EXTENDS Naturals, Sequences

CONSTANTS Channels,    \* voice channels
          NoChannel,   \* channel id 0
          MaxClicks    \* bound: clicks, deletions and connection losses

ASSUME NoChannelIsNone == NoChannel \notin Channels
ASSUME MaxClicksIsNat == MaxClicks \in Nat

VARIABLES
  cl,        \* the client (record below), with its queue to the server
  announcing,  \* session poll_camera is publishing: between camera_started and live (0: none)
  toClient,  \* messages on their way from the server
  srv,       \* the server's view of this user: channel, camera stream
  exists,    \* channels in the database
  evicted,   \* ghost: a deletion moved this user out of its channel since the login
  clicks     \* bounded events so far

cameraVars == <<cl, announcing, toClient, srv, exists, evicted, clicks>>

-----------------------------------------------------------------------------
(* State.                                                                  *)

Session ==
  [st : {"queued", "open", "refused", "closed"},  \* open: the device is held
   frame : BOOLEAN, failed : BOOLEAN, cancelled : BOOLEAN,
   live : BOOLEAN, restart : BOOLEAN,
   enc : {"none", "creating", "running"}]         \* the capture worker's encoder

Ids == 1..MaxClicks                      \* a click opens at most one session
Made(id) == id <= Len(cl.sessions)

NewSession(st, restart) ==
  [st |-> st, frame |-> FALSE, failed |-> FALSE, cancelled |-> FALSE,
   live |-> FALSE, restart |-> restart, enc |-> "none"]

Tasks == [op : {"open", "close"}, id : Nat]
Requests == [type : {"join"}, arg : Channels]
              \cup [type : {"leave", "start", "stop"}, arg : {0}]
              \cup [type : {"update"}, arg : Nat]
Replies == [type : {"list", "left"}, arg : Channels]
             \cup [type : {"started", "stopped", "error"}, arg : {0}]
Msg(t) == [type |-> t, arg |-> 0]

Client ==
  [channel : Channels \cup {NoChannel},   \* current_channel_
   pending : Channels \cup {NoChannel},   \* pending_channel_id_ while awaiting_channel_join_
   on : BOOLEAN, starting : BOOLEAN,      \* is_camera_on, camera_starting_
   preview : BOOLEAN, restart : BOOLEAN,  \* camera_preview_pending_, camera_restart_pending_
   stops : Nat,                           \* camera_stops_in_flight_
   watch : BOOLEAN,                       \* our own camera is among the watched streams
   camera : Nat, opening : Nat,           \* camera_, camera_opening_ (0: null)
   sessions : Seq(Session), tasks : Seq(Tasks), wire : Seq(Requests)]

(* Shapes, and what every handler may rely on: a camera that is starting   *)
(* is shown as on, and never is one session live while another opens.      *)
CameraTypeOK ==
  /\ cl \in Client
  /\ announcing \in 0..Len(cl.sessions)
  /\ toClient \in Seq(Replies)
  /\ srv \in [channel : Channels \cup {NoChannel}, published : BOOLEAN,
              described : 0..Len(cl.sessions)]
  /\ exists \subseteq Channels /\ evicted \in BOOLEAN
  /\ clicks \in 0..MaxClicks
  /\ cl.starting => cl.on
  /\ cl.camera = 0 \/ cl.opening = 0
  /\ Len(cl.sessions) <= MaxClicks

CameraInit ==
  /\ \E c \in Channels :
       /\ cl = [channel |-> c, pending |-> NoChannel, on |-> FALSE,
                starting |-> FALSE, preview |-> FALSE, restart |-> FALSE,
                stops |-> 0, watch |-> FALSE, camera |-> 0, opening |-> 0,
                sessions |-> <<>>, tasks |-> <<>>, wire |-> <<>>]
       /\ srv = [channel |-> c, published |-> FALSE, described |-> 0]
  /\ announcing = 0 /\ toClient = <<>> /\ exists = Channels /\ evicted = FALSE
  /\ clicks = 0

-----------------------------------------------------------------------------
(* Handlers of the main thread.                                            *)

Post(s, op, id) == [s EXCEPT !.tasks = Append(@, [op |-> op, id |-> id])]
Send(s, m) == [s EXCEPT !.wire = Append(@, m)]

(* stop_camera_capture: the opening session is cancelled, the live one is  *)
(* silenced, and both are closed on the camera thread.                     *)
StopCapture(s) ==
  LET dropped == IF s.opening = 0 THEN s
                 ELSE [Post(s, "close", s.opening) EXCEPT
                         !.sessions[s.opening].cancelled = TRUE, !.opening = 0]
  IN IF dropped.camera = 0 THEN dropped
     ELSE [Post(dropped, "close", dropped.camera) EXCEPT
             !.sessions[dropped.camera].live = FALSE, !.camera = 0]

(* start_camera_capture, once the device is known.                         *)
StartCapture(s, restart) ==
  LET id == Len(s.sessions) + 1
  IN [Post(s, "open", id) EXCEPT
        !.sessions = Append(@, NewSession("queued", restart)), !.opening = id]

Reset(s) == [s EXCEPT !.starting = FALSE, !.preview = FALSE, !.restart = FALSE]
Announced(s) == s.on /\ ~s.starting

(* The camera goes off: capture, own tile and, if the server knows of the  *)
(* stream, SCREEN_SHARE_STOP with its echo awaited.                        *)
TurnOff(s, tell) ==
  LET off == [StopCapture(Reset(s)) EXCEPT !.on = FALSE, !.watch = FALSE]
  IN IF tell /\ Announced(s) /\ s.channel # NoChannel
     THEN [Send(off, Msg("stop")) EXCEPT !.stops = @ + 1]
     ELSE off

StopCamera(s, tell) == IF s.on THEN TurnOff(s, tell) ELSE Reset(s)

CameraFailed(s) == TurnOff(s, TRUE)

\* Mutant: the new session is opened before the old one is closed.
OpenBeforeClose(s, ok) ==
  LET old == s.camera
      new == StartCapture([s EXCEPT !.camera = 0, !.opening = 0], TRUE)
  IN IF old = 0 THEN s
     ELSE [Post(new, "close", old) EXCEPT !.sessions[old].live = FALSE]

(* restart_camera_capture: reopen under the announced stream; a reopen in  *)
(* flight is superseded, a first open keeps its settings.                  *)
RestartCapture(s, ok) ==
  IF s.camera = 0 /\ ~(s.opening # 0 /\ s.sessions[s.opening].restart) THEN s
  ELSE IF ok THEN StartCapture(StopCapture(s), TRUE)
       ELSE CameraFailed(StopCapture(s))

RestartCamera(s, ok) ==
  IF ~s.on THEN s
  ELSE IF s.starting THEN [s EXCEPT !.restart = TRUE]
       ELSE RestartCapture(s, ok)

(* camera_started: the first picture is there, so the stream is announced. *)
CameraStarted(s, ok) ==
  LET up == [s EXCEPT !.starting = FALSE]
      told == [Send(up, Msg("start")) EXCEPT !.preview = TRUE, !.restart = FALSE]
  IN IF ~s.starting THEN s
     ELSE IF s.channel = NoChannel THEN StopCamera(up, TRUE)
          ELSE IF s.restart THEN RestartCamera(told, ok) ELSE told

(* leave_channel.                                                          *)
LeaveChannel(s, tell) ==
  LET quiet == StopCamera(s, tell)
      gone == [quiet EXCEPT !.channel = NoChannel, !.watch = FALSE]
  IN IF s.channel = NoChannel THEN s
     ELSE IF tell THEN Send(gone, Msg("leave")) ELSE gone

-----------------------------------------------------------------------------
(* Clicks.  The main thread is free whenever it is not inside poll_camera. *)

Click == announcing = 0 /\ clicks < MaxClicks /\ clicks' = clicks + 1
NetUnchanged == UNCHANGED <<announcing, toClient, srv, exists, evicted>>

(* on_toggle_camera while off: start_camera; ok is the outcome of          *)
(* start_camera_capture (the chosen device may be gone).                   *)
ToggleOn ==
  /\ Click /\ ~cl.on /\ cl.channel # NoChannel
  /\ \E ok \in BOOLEAN :
       LET up == [cl EXCEPT !.on = TRUE, !.starting = TRUE]
       IN cl' = IF ok /\ cl.camera = 0 /\ cl.opening = 0
                THEN StartCapture(up, FALSE) ELSE CameraFailed(up)
  /\ NetUnchanged

ToggleOff ==
  /\ Click /\ cl.on
  /\ cl' = StopCamera(cl, TRUE)
  /\ NetUnchanged

SelectCamera ==
  /\ Click /\ cl.on
  /\ \E ok \in BOOLEAN : cl' = RestartCamera(cl, ok)
  /\ NetUnchanged

JoinChannel(c) ==
  /\ Click /\ c # cl.channel
  /\ cl' = [Send(cl, [type |-> "join", arg |-> c]) EXCEPT !.pending = c]
  /\ NetUnchanged

ClickLeave ==
  /\ Click /\ cl.channel # NoChannel
  /\ cl' = LeaveChannel(cl, TRUE)
  /\ NetUnchanged

-----------------------------------------------------------------------------
(* poll_camera.  At most one of camera_ and camera_opening_ is set, so a   *)
(* poll takes exactly one of the branches below.                           *)

Opening == cl.sessions[cl.opening]
PollSees(st) == announcing = 0 /\ cl.opening # 0 /\ Opening.st = st
PollUnchanged == UNCHANGED <<toClient, srv, exists, evicted, clicks>>

\* Mutant: no first-frame timeout.
PollWithoutTimeout ==
  /\ PollSees("refused") \/ (PollSees("open") /\ Opening.failed)
  /\ cl' = CameraFailed([Post(cl, "close", cl.opening) EXCEPT !.opening = 0])
  /\ UNCHANGED announcing /\ PollUnchanged

(* The open failed, the session failed, or no picture came within the      *)
(* first-frame timeout (which may expire at any time while there is none). *)
PollOpenFails ==
  /\ PollSees("refused") \/ (PollSees("open") /\ (Opening.failed \/ ~Opening.frame))
  /\ cl' = CameraFailed([Post(cl, "close", cl.opening) EXCEPT !.opening = 0])
  /\ UNCHANGED announcing /\ PollUnchanged

(* The first picture of a session that is still wanted: it becomes the     *)
(* camera, and a session that is no reopening is announced.                *)
PollPublish ==
  /\ PollSees("open") /\ ~Opening.failed /\ Opening.frame
  /\ announcing' = cl.opening
  /\ \E ok \in BOOLEAN :
       LET up == [cl EXCEPT !.camera = cl.opening, !.opening = 0]
       IN cl' = IF Opening.restart THEN up ELSE CameraStarted(up, ok)
  /\ PollUnchanged

(* ... and only then the capture worker may encode, unless camera_started  *)
(* stopped or replaced the session.                                        *)
PollLive ==
  /\ announcing # 0
  /\ announcing' = 0
  /\ cl' = IF cl.camera = announcing
           THEN [cl EXCEPT !.sessions[announcing].live = TRUE] ELSE cl
  /\ PollUnchanged

PollFailed ==
  /\ announcing = 0 /\ cl.camera # 0 /\ cl.sessions[cl.camera].failed
  /\ cl' = CameraFailed(cl)
  /\ UNCHANGED announcing /\ PollUnchanged

-----------------------------------------------------------------------------
(* The camera thread and the capture worker.                               *)

OthersUnchanged == UNCHANGED <<announcing, toClient, srv, exists, evicted, clicks>>

(* An open task: skipped when cancelled (opened is published all the same),*)
(* else CameraCapture::start, which may fail.                              *)
OpenTask ==
  /\ cl.tasks # <<>> /\ Head(cl.tasks).op = "open"
  /\ LET id == Head(cl.tasks).id
     IN \E st \in IF cl.sessions[id].cancelled THEN {"refused"} ELSE {"open", "refused"} :
          cl' = [cl EXCEPT !.tasks = Tail(@), !.sessions[id].st = st]
  /\ OthersUnchanged

\* Mutant: closing does not join the capture worker.
CloseWithoutJoin ==
  /\ cl.tasks # <<>> /\ Head(cl.tasks).op = "close"
  /\ cl' = [cl EXCEPT !.tasks = Tail(@), !.sessions[Head(cl.tasks).id].st = "closed"]
  /\ OthersUnchanged

(* A close task joins the capture worker, so it waits for an encoder that  *)
(* is being created; it was the session's last owner.                      *)
CloseTask ==
  /\ cl.tasks # <<>> /\ Head(cl.tasks).op = "close"
  /\ LET id == Head(cl.tasks).id
     IN /\ cl.sessions[id].enc # "creating"
        /\ cl' = [cl EXCEPT !.tasks = Tail(@),
                             !.sessions[id] = NewSession("closed", FALSE)]
  /\ OthersUnchanged

WorkerFrame(id) ==
  /\ Made(id) /\ cl.sessions[id].st = "open" /\ ~cl.sessions[id].frame
  /\ cl' = [cl EXCEPT !.sessions[id].frame = TRUE]
  /\ OthersUnchanged

WorkerFails(id) ==
  /\ Made(id) /\ cl.sessions[id].st = "open" /\ ~cl.sessions[id].failed
  /\ cl' = [cl EXCEPT !.sessions[id].failed = TRUE]
  /\ OthersUnchanged

(* on_camera_frame sees live and starts to create the encoder ...          *)
WorkerSeesLive(id) ==
  /\ Made(id) /\ cl.sessions[id].st = "open" /\ cl.sessions[id].frame
  /\ cl.sessions[id].live /\ cl.sessions[id].enc = "none"
  /\ cl' = [cl EXCEPT !.sessions[id].enc = "creating"]
  /\ OthersUnchanged

(* ... and reports its codec and size.                                     *)
WorkerUpdates(id) ==
  /\ Made(id) /\ cl.sessions[id].enc = "creating"
  /\ cl' = [Send(cl, [type |-> "update", arg |-> id]) EXCEPT
              !.sessions[id].enc = "running"]
  /\ OthersUnchanged

-----------------------------------------------------------------------------
(* The client receives.                                                    *)

Receives(t) == announcing = 0 /\ toClient # <<>> /\ Head(toClient).type = t
Received == toClient' = Tail(toClient) /\ UNCHANGED <<announcing, srv, exists, evicted, clicks>>

(* on_channel_user_list: the acknowledgement of the join we wait for moves *)
(* us, and turns off a camera of the old channel; others only refresh the  *)
(* lobby.                                                                  *)
ReceiveList ==
  LET c == Head(toClient).arg
  IN /\ Receives("list") /\ Received
     /\ cl' = IF cl.pending # c THEN cl
              ELSE IF cl.channel = c THEN [cl EXCEPT !.pending = NoChannel]
              ELSE [StopCamera(cl, TRUE) EXCEPT !.pending = NoChannel,
                      !.channel = c, !.watch = FALSE]

(* on_screen_share_started for our own camera.                             *)
ReceiveStarted ==
  /\ Receives("started") /\ Received
  /\ cl' = IF cl.channel # NoChannel /\ cl.preview /\ cl.stops = 0
           THEN [cl EXCEPT !.preview = FALSE, !.watch = TRUE] ELSE cl

\* Mutant: the echo of our own stop is taken for an end by the server.
StoppedIgnoresEcho ==
  /\ Receives("stopped") /\ Received
  /\ cl' = IF Announced(cl)
           THEN [StopCapture(cl) EXCEPT !.on = FALSE, !.preview = FALSE,
                   !.watch = FALSE, !.stops = IF @ > 0 THEN @ - 1 ELSE @]
           ELSE [cl EXCEPT !.watch = FALSE, !.stops = IF @ > 0 THEN @ - 1 ELSE @]

(* on_screen_share_stopped for our own camera: the echo of a stop we sent, *)
(* else the server ended the stream and the capture ends too.              *)
ReceiveStopped ==
  /\ Receives("stopped") /\ Received
  /\ cl' = IF cl.stops > 0 THEN [cl EXCEPT !.watch = FALSE, !.stops = @ - 1]
           ELSE IF Announced(cl)
                THEN [StopCapture(cl) EXCEPT !.watch = FALSE, !.preview = FALSE,
                                             !.on = FALSE]
                ELSE [cl EXCEPT !.watch = FALSE]

(* on_user_left about ourselves: the channel was deleted.                  *)
ReceiveLeft ==
  /\ Receives("left") /\ Received
  /\ cl' = IF Head(toClient).arg = cl.channel THEN LeaveChannel(cl, FALSE) ELSE cl

(* on_server_error: a refused join is only logged; the client keeps        *)
(* waiting for it.                                                         *)
ReceiveError == Receives("error") /\ Received /\ UNCHANGED cl

-----------------------------------------------------------------------------
(* The server handles one request of this user at a time.                  *)

Handles(t) == cl.wire # <<>> /\ Head(cl.wire).type = t
Handled == cl' = [cl EXCEPT !.wire = Tail(@)] /\ UNCHANGED <<announcing, exists, evicted, clicks>>
NotPublished(ch) == [channel |-> ch, published |-> FALSE, described |-> srv.described]

(* stop_video_stream notifies the members, the publisher included.         *)
StoppedMsgs == IF srv.published THEN <<Msg("stopped")>> ELSE <<>>

(* CHANNEL_JOIN: unknown channel, missing permission or no room ...        *)
ServerRefusesJoin ==
  /\ Handles("join") /\ Handled
  /\ toClient' = Append(toClient, Msg("error"))
  /\ UNCHANGED srv

(* ... or the streams of the old channel end, the user moves, and gets the *)
(* user list and a replay of the streams of the new one.                   *)
ServerJoins ==
  LET c == Head(cl.wire).arg
      list == [type |-> "list", arg |-> c]
  IN /\ Handles("join") /\ Handled
     /\ c \in exists
     /\ IF c = srv.channel
        THEN /\ toClient' = Append(toClient, list) \o
                              IF srv.published THEN <<Msg("started")>> ELSE <<>>
             /\ UNCHANGED srv
        ELSE /\ toClient' = Append(toClient \o StoppedMsgs, list)
             /\ srv' = NotPublished(c)

ServerLeaves ==
  /\ Handles("leave") /\ Handled
  /\ IF srv.channel = NoChannel THEN UNCHANGED <<srv, toClient>>
     ELSE /\ toClient' = toClient \o StoppedMsgs
          /\ srv' = NotPublished(NoChannel)

ServerStarts ==
  /\ Handles("start") /\ Handled
  /\ IF srv.channel = NoChannel THEN UNCHANGED <<srv, toClient>>
     ELSE /\ toClient' = Append(toClient, Msg("started"))
          /\ srv' = [srv EXCEPT !.published = TRUE, !.described = 0]

ServerStops ==
  /\ Handles("stop") /\ Handled
  /\ toClient' = toClient \o StoppedMsgs
  /\ srv' = [srv EXCEPT !.published = FALSE]

ServerUpdates ==
  /\ Handles("update") /\ Handled
  /\ srv' = IF srv.published THEN [srv EXCEPT !.described = Head(cl.wire).arg] ELSE srv
  /\ UNCHANGED toClient

(* ADMIN_DELETE_CHANNEL of another user: the members' streams end, then    *)
(* they are out of the channel ...                                         *)
MovesMembersOut(c) ==
  /\ clicks < MaxClicks /\ clicks' = clicks + 1
  /\ c \in exists
  /\ IF srv.channel = c
     THEN /\ toClient' = Append(toClient \o StoppedMsgs, [type |-> "left", arg |-> c])
          /\ srv' = NotPublished(NoChannel)
          /\ evicted' = TRUE
     ELSE UNCHANGED <<srv, toClient, evicted>>
  /\ UNCHANGED <<cl, announcing>>

(* ... and only then the database is asked, which may refuse: the members  *)
(* are out of a channel that stays.                                        *)
ServerDeletes(c) == MovesMembersOut(c) /\ exists' = exists \ {c}
ServerDeleteFails(c) == MovesMembersOut(c) /\ UNCHANGED exists

(* The connection is lost: on_disconnect_cleanup here, process_disconnect  *)
(* there, and a later login starts over.  Nothing in flight survives, the  *)
(* posted camera tasks do.                                                 *)
ConnectionLost ==
  /\ announcing = 0 /\ clicks < MaxClicks /\ clicks' = clicks + 1
  /\ cl' = [StopCamera(cl, FALSE) EXCEPT !.channel = NoChannel,
              !.pending = NoChannel, !.stops = 0, !.watch = FALSE, !.wire = <<>>]
  /\ toClient' = <<>>
  /\ srv' = [channel |-> NoChannel, published |-> FALSE, described |-> 0]
  /\ evicted' = FALSE
  /\ UNCHANGED <<announcing, exists>>

-----------------------------------------------------------------------------
Poll == PollOpenFails \/ PollPublish \/ PollLive \/ PollFailed
CameraTask == OpenTask \/ CloseTask
Worker(id) == WorkerFrame(id) \/ WorkerFails(id) \/ WorkerSeesLive(id) \/ WorkerUpdates(id)
Receive == ReceiveList \/ ReceiveStarted \/ ReceiveStopped \/ ReceiveLeft \/ ReceiveError
Serve == ServerRefusesJoin \/ ServerJoins \/ ServerLeaves \/ ServerStarts
           \/ ServerStops \/ ServerUpdates

CameraNext ==
  \/ ToggleOn \/ ToggleOff \/ SelectCamera \/ ClickLeave
  \/ \E c \in Channels : JoinChannel(c) \/ ServerDeletes(c) \/ ServerDeleteFails(c)
  \/ Poll \/ CameraTask \/ Receive \/ Serve \/ ConnectionLost
  \/ \E id \in Ids : Worker(id)

(* The message loop polls and receives, the camera thread runs its queue,  *)
(* a worker that began to create an encoder finishes.  Nothing obliges a   *)
(* device to deliver a picture or the user to click.                       *)
CameraSpec == CameraInit /\ [][CameraNext]_cameraVars
FairCameraSpec ==
  /\ CameraSpec
  /\ WF_cameraVars(Poll) /\ WF_cameraVars(CameraTask) /\ WF_cameraVars(Receive) /\ WF_cameraVars(Serve)
  /\ \A id \in Ids : WF_cameraVars(WorkerUpdates(id))

-----------------------------------------------------------------------------
(* Correctness.                                                            *)

(* "a device that is being closed is released before the next open": no    *)
(* two sessions hold the device, whatever is clicked while the camera      *)
(* thread lags behind.                                                     *)
DeviceExclusive ==
  \A i, j \in 1..Len(cl.sessions) :
    cl.sessions[i].st = "open" /\ cl.sessions[j].st = "open" => i = j

(* Nothing of this user is in flight and both sides have it in the same    *)
(* channel.                                                                *)
Settled ==
  /\ cl.wire = <<>> /\ toClient = <<>> /\ announcing = 0
  /\ cl.channel = srv.channel

(* Once everything in flight has arrived, the server publishes the camera  *)
(* the client shows as live: stops that crossed a switch, a deletion or an *)
(* earlier echo have not turned off the wrong one.  And, as long as no     *)
(* deletion, carried out or refused by the database, moved the user out of *)
(* a channel (see NoStrayCamera), it publishes nothing else.               *)
CameraAgrees ==
  Settled => /\ Announced(cl) => srv.published
             /\ srv.published /\ ~evicted => Announced(cl)

(* Once everything in flight has arrived, the server describes the stream  *)
(* by the encoder that produces it: no SCREEN_SHARE_UPDATE overtakes the   *)
(* START that makes the server accept it, and none of a session closed     *)
(* since is left standing.                                                 *)
StreamDescribed ==
  Settled /\ srv.published /\ cl.camera # 0 /\ cl.sessions[cl.camera].enc = "running"
    => srv.described = cl.camera

(* A camera that is opening becomes live, fails or is turned off: a device *)
(* that never delivers does not keep the button lit for ever.              *)
OpenResolves == cl.starting ~> ~cl.starting

(* "The server took us out of the channel (it was deleted) and has already *)
(* ended our streams": with nothing in flight, a camera that is off is not *)
(* published.                                                              *)
NoStrayCamera == Settled /\ ~cl.on => ~srv.published

(* "or the button would claim we are still live": with nothing in flight,  *)
(* the button is lit only for a stream the server publishes.               *)
ButtonIsTruthful ==
  cl.wire = <<>> /\ toClient = <<>> /\ announcing = 0 /\ Announced(cl) => srv.published

(* The camera's state is consistent on both threads, and one capture device*)
(* is open at a time, whatever was clicked while the last one opened.      *)
CaptureDiscipline == CameraTypeOK /\ DeviceExclusive
=============================================================================
