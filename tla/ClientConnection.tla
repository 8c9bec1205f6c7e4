-------------------------- MODULE ClientConnection --------------------------
(***************************************************************************)
(* The client's connection life cycle: the login form, dialling, TOFU,     *)
(* authentication, the loss of a connection and the automatic reconnect    *)
(* (src/client/src/app_core.cpp), over the QUIC transport                  *)
(* (src/client/src/net_client_msquic.cpp).  Three actors interleave:       *)
(*                                                                         *)
(*   - the main thread: handlers of the user's clicks, and tick(), whose   *)
(*     steps are separate actions (phase says which comes next) because    *)
(*     the transport's worker runs between them;                           *)
(*   - the MsQuic worker: connection events and received messages;         *)
(*   - the server at the other end: answers, refuses, kicks, goes away.    *)
(*                                                                         *)
(* A server stands for its host, its certificate and its saved entry.      *)
(* Time is reduced to the two comparisons the code makes: whether the      *)
(* backoff has elapsed (due) and whether a session is younger than five    *)
(* seconds (young).                                                        *)
(***************************************************************************)
EXTENDS Naturals, Sequences

CONSTANTS Servers, Channels,    \* saved servers, voice channels
          NoServer, NoChannel,  \* id 0 of either, also the empty fingerprint
          OldCert,              \* a certificate no server presents any more
          FlapLimit,            \* reconnect_flaps_ at which the client gives up
          MaxClicks             \* bound: clicks of the user in one behaviour

ASSUME NoneAreFresh ==
  /\ NoServer \notin Servers /\ OldCert \notin Servers \cup {NoServer}
  /\ NoChannel \notin Channels
ASSUME FlapLimitPositive == FlapLimit \in Nat \ {0}
ASSUME BoundAssumption == MaxClicks \in Nat

VARIABLES
  app,       \* AppCore's connection state (record, fields named after it)
  phase,     \* where the main thread is: "ui" or "clicked" between ticks, else in tick()
  batch,     \* messages drain() handed to the running process_server_messages
  disconnect_pending,  \* atomic flag the worker sets, tick() consumes
  net,       \* NetClient::Impl: connection handle, peer, fingerprint, outcome
  inbox,     \* NetClient::incoming(): messages received, not yet drained
  wire,      \* requests on their way to the server
  session,   \* the server's session of this connection is authenticated
  trusted,   \* settings: pinned certificate of each host
  saved,     \* settings: ids of the saved servers
  ended,     \* history: the user, or a received error, ended the session for good
  lost,      \* history: channel held when the session was last lost
  reauths,   \* history: automatic logins since the user's last or an aged session
  overlap,   \* history: a dial began before the previous loss was processed
  clicks     \* clicks so far (bounds the model only)

appVars == <<app, phase, batch>>
netVars == <<disconnect_pending, net, inbox, wire, session>>
setVars == <<trusted, saved>>
ghosts  == <<ended, lost, reauths, overlap>>
history == <<ghosts, clicks>>
vars == <<appVars, netVars, setVars, history>>

Phases == {"ui", "clicked", "drain", "poll", "retry", "messages"}
Replies == {[type |-> t, channel |-> NoChannel] : t \in {"auth_response", "error", "terminal"}}
             \cup [type : {"user_list"}, channel : Channels]
Requests == {[type |-> t, channel |-> NoChannel] : t \in {"auth", "leave"}}
             \cup [type : {"join"}, channel : Channels]
Reply(t) == [type |-> t, channel |-> NoChannel]

(* Handle states: none; ConnectionStart called; CONNECTED seen; SHUTDOWN_  *)
(* INITIATED seen; SHUTDOWN_COMPLETE seen with the handle still held.      *)
NetStates == {"none", "dialing", "up", "closing", "closed"}
Live == {"dialing", "up", "closing"}    \* SHUTDOWN_COMPLETE still to come

AppState ==
  [authenticated : BOOLEAN, awaiting_connection : BOOLEAN, show_login : BOOLEAN,
   tofu_pending : BOOLEAN, intentional : BOOLEAN, reconnecting : BOOLEAN,
   rejoin_pending : BOOLEAN, reconnect_channel : Channels \cup {NoChannel},
   current_channel : Channels \cup {NoChannel},
   pending_channel : Channels \cup {NoChannel},
   flaps : 0..(FlapLimit - 1), due : BOOLEAN, young : BOOLEAN,
   target : Servers \cup {NoServer}]

TypeOK ==
  /\ app \in AppState
  /\ phase \in Phases
  /\ batch \in Seq(Replies)
  /\ disconnect_pending \in BOOLEAN
  /\ net \in [st : NetStates, srv : Servers \cup {NoServer},
              fp : Servers \cup {NoServer}, failed : BOOLEAN]
  /\ inbox \in Seq(Replies)
  /\ wire \in Seq(Requests)
  /\ session \in BOOLEAN
  /\ trusted \in [Servers -> Servers \cup {NoServer, OldCert}]
  /\ saved \subseteq Servers
  /\ ended \in BOOLEAN
  /\ lost \in Channels \cup {NoChannel}
  /\ reauths \in 0..(FlapLimit + 1)
  /\ overlap \in BOOLEAN
  /\ clicks \in 0..MaxClicks

Init ==
  /\ app = [authenticated |-> FALSE, awaiting_connection |-> FALSE,
            show_login |-> FALSE, tofu_pending |-> FALSE, intentional |-> FALSE,
            reconnecting |-> FALSE, rejoin_pending |-> FALSE,
            reconnect_channel |-> NoChannel, current_channel |-> NoChannel,
            pending_channel |-> NoChannel, flaps |-> 0, due |-> TRUE,
            young |-> FALSE, target |-> NoServer]
  /\ phase = "ui" /\ batch = <<>>
  /\ disconnect_pending = FALSE
  /\ net = [st |-> "none", srv |-> NoServer, fp |-> NoServer, failed |-> FALSE]
  /\ inbox = <<>> /\ wire = <<>> /\ session = FALSE
  /\ trusted \in {t \in [Servers -> Servers \cup {NoServer, OldCert}] :
                    \A s \in Servers : t[s] \in {s, NoServer, OldCert}}
  /\ saved = Servers
  /\ ended = FALSE /\ lost = NoChannel /\ reauths = 0
  /\ overlap = FALSE /\ clicks = 0

-----------------------------------------------------------------------------
(* The transport, as the main thread calls it.                             *)

Connected == net.st = "up"

(* send_message: dropped unless the control stream is up.                  *)
SendMessage(m) ==
  wire' = IF Connected THEN Append(wire, m) ELSE wire

(* disconnect(): waits for SHUTDOWN_COMPLETE (whose callback raises        *)
(* disconnect_pending) and closes the handles.  A handle whose             *)
(* SHUTDOWN_COMPLETE already came reports nothing again.                   *)
NetDisconnect ==
  /\ disconnect_pending' = (disconnect_pending \/ net.st \in Live)
  /\ net' = IF net.st = "none" THEN net
            ELSE [st |-> "none", srv |-> NoServer, fp |-> NoServer, failed |-> FALSE]
  /\ wire' = <<>> /\ session' = FALSE

(* connect() once it is known not to be connected: the previous handles    *)
(* are closed, which delivers a SHUTDOWN_COMPLETE still outstanding, then  *)
(* the dial starts or fails at once.                                       *)
NetConnect(s, started) ==
  /\ overlap' = (overlap \/ net.st \in Live \/ disconnect_pending)
  /\ disconnect_pending' = (disconnect_pending \/ net.st \in Live)
  /\ net' = IF started
            THEN [st |-> "dialing", srv |-> s, fp |-> net.fp, failed |-> FALSE]
            ELSE [st |-> "none", srv |-> NoServer, fp |-> net.fp, failed |-> FALSE]
  /\ wire' = <<>> /\ session' = FALSE

-----------------------------------------------------------------------------
(* Helpers of AppCore.                                                     *)

CancelReconnect(a) ==
  [a EXCEPT !.reconnecting = FALSE, !.rejoin_pending = FALSE,
            !.reconnect_channel = NoChannel]

(* The backoff timer is armed; its length is not modelled.                 *)
ArmRetry(a) == [a EXCEPT !.due = FALSE]

(* finish_connect and send_auth_identity on state a: check the certificate *)
(* (an empty fingerprint is a resumed session) and authenticate.           *)
FinishConnect(a) ==
  LET mismatch == /\ net.fp # NoServer
                  /\ trusted[a.target] \notin {NoServer, net.fp}
  IN  \/ /\ mismatch
         /\ app' = [a EXCEPT !.tofu_pending = TRUE, !.show_login = FALSE]
         /\ UNCHANGED <<wire, trusted>>
      \/ /\ ~mismatch
         /\ app' = a
         /\ trusted' = IF net.fp = NoServer THEN trusted
                       ELSE [trusted EXCEPT ![a.target] = net.fp]
         /\ SendMessage(Reply("auth"))

(* do_connect on state a0 (target chosen, login form as it is).            *)
DoConnect(a0) ==
  LET a == CancelReconnect(a0)
  IN  /\ \/ /\ Connected
            /\ FinishConnect(a)
            /\ UNCHANGED <<disconnect_pending, net, session, overlap>>
         \/ /\ net.st = "dialing"
            /\ app' = a
            /\ UNCHANGED <<disconnect_pending, net, wire, session, trusted, overlap>>
         \/ /\ ~Connected /\ net.st # "dialing"
            /\ \E started \in BOOLEAN :
                 /\ NetConnect(a.target, started)
                 /\ app' = IF started THEN [a EXCEPT !.awaiting_connection = TRUE]
                           ELSE [a EXCEPT !.show_login = TRUE]
            /\ UNCHANGED trusted
      /\ ended' = FALSE /\ lost' = NoChannel /\ reauths' = 0
      /\ UNCHANGED inbox

DisconnectIntentionally(a) ==
  /\ app' = CancelReconnect([a EXCEPT !.intentional = TRUE])
  /\ NetDisconnect
  /\ ended' = TRUE
  /\ UNCHANGED <<inbox, lost, reauths, overlap>>

(* join_channel: nothing to do for the channel we are in.                  *)
JoinChannel(a, ch) ==
  IF ch = a.current_channel
  THEN app' = a /\ UNCHANGED wire
  ELSE /\ app' = [a EXCEPT !.pending_channel = ch]
       /\ SendMessage([type |-> "join", channel |-> ch])

-----------------------------------------------------------------------------
(* The user's clicks.  The home screen is shown while not authenticated,   *)
(* and the login form and the certificate warning cover it.  At most one   *)
(* click is handled between two ticks (one per rendered frame).            *)

Click ==
  /\ phase = "ui" /\ phase' = "clicked"
  /\ clicks < MaxClicks /\ clicks' = clicks + 1

(* on_connect_server: a server without a password is dialled at once, for  *)
(* another one the login form opens.                                       *)
SelectServer(s) ==
  /\ Click /\ ~app.authenticated /\ ~app.show_login /\ ~app.tofu_pending
  /\ s \in saved
  /\ \/ DoConnect([app EXCEPT !.target = s])
     \/ /\ app' = [app EXCEPT !.target = s, !.show_login = TRUE]
        /\ UNCHANGED <<netVars, trusted, ghosts>>
  /\ UNCHANGED <<batch, saved>>

SubmitLogin ==
  /\ Click /\ app.show_login
  /\ DoConnect(app)
  /\ UNCHANGED <<batch, saved>>

CancelLogin ==
  /\ Click /\ app.show_login
  /\ DisconnectIntentionally([app EXCEPT !.show_login = FALSE,
                                         !.awaiting_connection = FALSE])
  /\ UNCHANGED <<batch, setVars>>

DisconnectServer ==
  /\ Click /\ app.authenticated
  /\ DisconnectIntentionally(app)
  /\ UNCHANGED <<batch, setVars>>

TofuAccept ==
  /\ Click /\ app.tofu_pending
  /\ trusted' = [trusted EXCEPT ![app.target] = net.fp]
  /\ app' = [app EXCEPT !.tofu_pending = FALSE, !.show_login = TRUE]
  /\ SendMessage(Reply("auth"))
  /\ UNCHANGED <<batch, disconnect_pending, net, inbox, session, saved, ghosts>>

TofuReject ==
  /\ Click /\ app.tofu_pending
  /\ DisconnectIntentionally([app EXCEPT !.tofu_pending = FALSE, !.show_login = FALSE])
  /\ UNCHANGED <<batch, setVars>>

DeleteServer(s) ==
  /\ Click /\ ~app.authenticated /\ ~app.show_login
  /\ saved' = saved \ {s}
  /\ UNCHANGED <<app, batch, netVars, trusted, ghosts>>

SelectChannel(ch) ==
  /\ Click /\ app.authenticated
  /\ JoinChannel(app, ch)
  /\ UNCHANGED <<batch, disconnect_pending, net, inbox, session, setVars, ghosts>>

LeaveChannel ==
  /\ Click /\ app.authenticated /\ app.current_channel # NoChannel
  /\ app' = [app EXCEPT !.current_channel = NoChannel]
  /\ SendMessage(Reply("leave"))
  /\ UNCHANGED <<batch, disconnect_pending, net, inbox, session, setVars, ghosts>>

-----------------------------------------------------------------------------
(* tick().                                                                 *)

(* drain(): the running pass handles what is queued now.                   *)
Drain == batch' = inbox /\ inbox' = <<>>

\* Mutant: the drop is cleaned up before the messages that preceded it.
BeginWithoutDrain ==
  /\ phase \in {"ui", "clicked"}
  /\ phase' = IF disconnect_pending THEN "drain" ELSE "poll"
  /\ disconnect_pending' = FALSE
  /\ UNCHANGED <<app, batch, net, inbox, wire, session, setVars, history>>

TickBegin ==
  /\ phase \in {"ui", "clicked"}
  /\ IF disconnect_pending
     THEN phase' = "drain" /\ Drain
     ELSE phase' = "poll" /\ UNCHANGED <<batch, inbox>>
  /\ disconnect_pending' = FALSE
  /\ UNCHANGED <<app, net, wire, session, setVars, history>>

\* Mutant: a failed attempt takes the (already cleared) channel again.
RetryForgetsChannel(a, cleared) ==
  CASE a.intentional ->
         [CancelReconnect(cleared) EXCEPT !.intentional = FALSE]
    [] ~a.intentional /\ (a.authenticated \/ a.reconnecting) ->
         ArmRetry([cleared EXCEPT !.reconnecting = TRUE,
                                  !.reconnect_channel = a.current_channel])
    [] OTHER -> cleared

\* Mutant: the flap guard counts one drop too many.
FlapGuardOffByOne(a, cleared) ==
  CASE a.intentional ->
         [CancelReconnect(cleared) EXCEPT !.intentional = FALSE]
    [] ~a.intentional /\ a.authenticated /\ a.young /\ a.flaps >= FlapLimit ->
         [CancelReconnect(cleared) EXCEPT !.flaps = 0]
    [] ~a.intentional /\ a.authenticated /\ ~(a.young /\ a.flaps >= FlapLimit) ->
         ArmRetry([cleared EXCEPT !.flaps = IF a.young THEN a.flaps + 1 ELSE 0,
                                  !.reconnecting = TRUE,
                                  !.reconnect_channel = a.current_channel])
    [] OTHER -> cleared

(* The tail of on_disconnect_cleanup: what follows the loss of a           *)
(* connection, from the state a before the reset.                          *)
AfterLoss(a, cleared) ==
  CASE a.intentional ->
         [CancelReconnect(cleared) EXCEPT !.intentional = FALSE]
    [] ~a.intentional /\ a.authenticated /\ a.young /\ a.flaps + 1 >= FlapLimit ->
         [CancelReconnect(cleared) EXCEPT !.flaps = 0]
    [] ~a.intentional /\ a.authenticated /\ ~(a.young /\ a.flaps + 1 >= FlapLimit) ->
         ArmRetry([cleared EXCEPT !.flaps = IF a.young THEN a.flaps + 1 ELSE 0,
                                  !.reconnecting = TRUE, !.rejoin_pending = FALSE,
                                  !.reconnect_channel = a.current_channel])
    [] ~a.intentional /\ ~a.authenticated /\ a.reconnecting -> ArmRetry(cleared)
    [] OTHER -> cleared

\* Mutant: the dial that died stays awaited.
CleanupKeepsAwaiting(a) ==
  AfterLoss(a, [a EXCEPT !.authenticated = FALSE, !.current_channel = NoChannel,
                         !.pending_channel = NoChannel,
                         !.tofu_pending = FALSE, !.show_login = FALSE])

OnDisconnectCleanup(a) ==
  AfterLoss(a, [a EXCEPT !.authenticated = FALSE, !.current_channel = NoChannel,
                         !.awaiting_connection = FALSE, !.pending_channel = NoChannel,
                         !.tofu_pending = FALSE, !.show_login = FALSE])

TickCleanup ==
  /\ phase = "drain" /\ batch = <<>>
  /\ app' = OnDisconnectCleanup(app)
  /\ lost' = IF app.authenticated THEN app.current_channel ELSE lost
  /\ phase' = "poll"
  /\ UNCHANGED <<batch, netVars, setVars, ended, reauths, overlap, clicks>>

(* poll_connecting: the outcome of the dial, if there is one.              *)
TickPoll ==
  /\ phase = "poll" /\ phase' = "retry"
  /\ \/ /\ ~app.awaiting_connection \/ (~net.failed /\ ~Connected)
        /\ UNCHANGED <<app, netVars, trusted>>
     \/ /\ app.awaiting_connection /\ net.failed
        /\ NetDisconnect
        /\ LET a == [app EXCEPT !.awaiting_connection = FALSE]
           IN  app' = IF a.reconnecting THEN ArmRetry(a)
                      ELSE [a EXCEPT !.show_login = TRUE]
        /\ UNCHANGED trusted
     \/ /\ app.awaiting_connection /\ ~net.failed /\ Connected
        /\ FinishConnect([app EXCEPT !.awaiting_connection = FALSE])
        /\ UNCHANGED <<disconnect_pending, net, session>>
  /\ UNCHANGED <<batch, inbox, saved, history>>

RetryDue == app.reconnecting /\ ~app.awaiting_connection /\ ~app.authenticated /\ app.due

(* attempt_reconnect: give up when the entry is gone; otherwise dial, or   *)
(* arm the next attempt when connect() refuses or fails at once.           *)
AttemptReconnect ==
  \/ /\ app.target \notin saved
     /\ app' = CancelReconnect(app)
     /\ UNCHANGED <<disconnect_pending, net, wire, session, overlap>>
  \/ /\ app.target \in saved /\ Connected
     /\ app' = ArmRetry(app)
     /\ UNCHANGED <<disconnect_pending, net, wire, session, overlap>>
  \/ /\ app.target \in saved /\ ~Connected
     /\ \E started \in BOOLEAN :
          /\ NetConnect(app.target, started)
          /\ app' = IF started
                    THEN [app EXCEPT !.awaiting_connection = TRUE,
                                     !.rejoin_pending = (app.reconnect_channel # NoChannel)]
                    ELSE ArmRetry(app)

TickRetry ==
  /\ phase = "retry" /\ phase' = "messages"
  /\ IF RetryDue THEN AttemptReconnect
     ELSE UNCHANGED <<app, disconnect_pending, net, wire, session, overlap>>
  /\ Drain
  /\ UNCHANGED <<setVars, ended, lost, reauths, clicks>>

TickEnd ==
  /\ phase = "messages" /\ batch = <<>>
  /\ phase' = "ui"
  /\ UNCHANGED <<app, batch, netVars, setVars, history>>

-----------------------------------------------------------------------------
(* process_server_messages, one message at a time.                         *)

Handles(type) ==
  /\ phase \in {"drain", "messages"} /\ batch # <<>> /\ Head(batch).type = type
  /\ batch' = Tail(batch)

(* on_auth_response: the login succeeded; a reconnect cycle ends and asks  *)
(* for the channel the loss interrupted.                                   *)
OnAuthResponse ==
  /\ Handles("auth_response")
  /\ LET a == CancelReconnect([app EXCEPT !.authenticated = TRUE, !.young = TRUE,
                                          !.show_login = FALSE])
     IN  IF app.rejoin_pending /\ app.reconnect_channel # NoChannel
         THEN JoinChannel(a, app.reconnect_channel)
         ELSE app' = a /\ UNCHANGED wire
  /\ reauths' = IF app.reconnecting /\ reauths <= FlapLimit THEN reauths + 1 ELSE reauths
  /\ UNCHANGED <<phase, disconnect_pending, net, inbox, session, setVars, ended, lost, overlap, clicks>>

(* on_server_error, Kicked or Replaced.                                    *)
OnTerminalError ==
  /\ Handles("terminal")
  /\ app' = [app EXCEPT !.intentional = app.authenticated \/ @,
                        !.show_login = @ \/ ~app.authenticated]
  /\ ended' = (ended \/ app.authenticated)
  /\ UNCHANGED <<phase, netVars, setVars, lost, reauths, overlap, clicks>>

(* on_server_error, anything else: before the login it shows in the form.  *)
OnServerError ==
  /\ Handles("error")
  /\ app' = [app EXCEPT !.show_login = @ \/ ~app.authenticated]
  /\ UNCHANGED <<phase, netVars, setVars, history>>

(* on_channel_user_list: the answer to our join moves us there.            *)
OnChannelUserList ==
  /\ Handles("user_list")
  /\ app' = IF Head(batch).channel = app.pending_channel
            THEN [app EXCEPT !.current_channel = app.pending_channel,
                             !.pending_channel = NoChannel]
            ELSE app
  /\ UNCHANGED <<phase, netVars, setVars, history>>

-----------------------------------------------------------------------------
(* The worker's connection events.                                         *)

(* CONNECTED.  A certificate is received only in a full handshake; a       *)
(* ticket exists only for a server whose certificate was pinned before.    *)
ConnectionUp ==
  /\ net.st = "dialing"
  /\ \E resumed \in BOOLEAN :
       /\ resumed => trusted[net.srv] = net.srv
       /\ net' = [net EXCEPT !.st = "up", !.fp = IF resumed THEN @ ELSE net.srv]
  /\ UNCHANGED <<appVars, disconnect_pending, inbox, wire, session, setVars, history>>

(* SHUTDOWN_INITIATED_BY_TRANSPORT / _BY_PEER.                             *)
ShutdownInitiated ==
  /\ net.st \in {"dialing", "up"}
  /\ net' = [net EXCEPT !.st = "closing", !.failed = @ \/ net.st = "dialing"]
  /\ wire' = <<>> /\ session' = FALSE
  /\ UNCHANGED <<appVars, disconnect_pending, inbox, setVars, history>>

ShutdownComplete ==
  /\ net.st = "closing"
  /\ net' = [net EXCEPT !.st = "closed"]
  /\ disconnect_pending' = TRUE
  /\ UNCHANGED <<appVars, inbox, wire, session, setVars, history>>

-----------------------------------------------------------------------------
(* The server's side of the connection.                                    *)

Serves(type) == Connected /\ wire # <<>> /\ Head(wire).type = type /\ wire' = Tail(wire)
Answer(m) == inbox' = Append(inbox, m)

(* AUTH_IDENTITY: ignored once authenticated; refused without closing the  *)
(* connection (password, stale timestamp, version).                        *)
ServeAuth ==
  /\ Serves("auth")
  /\ \/ session /\ UNCHANGED <<session, inbox>>
     \/ ~session /\ session' = TRUE /\ Answer(Reply("auth_response"))
     \/ ~session /\ UNCHANGED session /\ Answer(Reply("error"))
  /\ UNCHANGED <<appVars, disconnect_pending, net, setVars, history>>

(* CHANNEL_JOIN: the user list, or an error (unknown or full channel).     *)
ServeJoin ==
  /\ Serves("join")
  /\ \/ session /\ Answer([type |-> "user_list", channel |-> Head(wire).channel])
     \/ session /\ Answer(Reply("error"))
     \/ ~session /\ UNCHANGED inbox
  /\ UNCHANGED <<appVars, disconnect_pending, net, session, setVars, history>>

ServeLeave ==
  /\ Serves("leave")
  /\ UNCHANGED <<appVars, disconnect_pending, net, inbox, session, setVars, history>>

(* ADMIN_KICK_USER or a login from elsewhere: SERVER_ERROR followed by     *)
(* ConnectionShutdown, which may overtake it.                              *)
ServeKick ==
  /\ Connected /\ session
  /\ \/ Answer(Reply("terminal")) /\ ended' = TRUE
     \/ UNCHANGED <<inbox, ended>>
  /\ net' = [net EXCEPT !.st = "closing"]
  /\ wire' = <<>> /\ session' = FALSE
  /\ UNCHANGED <<appVars, disconnect_pending, setVars, lost, reauths, overlap, clicks>>

-----------------------------------------------------------------------------
(* Time.                                                                   *)

BackoffElapses ==
  /\ app.reconnecting /\ ~app.due
  /\ app' = [app EXCEPT !.due = TRUE]
  /\ UNCHANGED <<phase, batch, netVars, setVars, history>>

SessionAges ==
  /\ app.authenticated /\ app.young
  /\ app' = [app EXCEPT !.young = FALSE]
  /\ reauths' = 0
  /\ UNCHANGED <<phase, batch, netVars, setVars, ended, lost, overlap, clicks>>

-----------------------------------------------------------------------------
User ==
  \/ \E s \in Servers : SelectServer(s) \/ DeleteServer(s)
  \/ SubmitLogin \/ CancelLogin \/ DisconnectServer \/ TofuAccept \/ TofuReject
  \/ \E ch \in Channels : SelectChannel(ch)
  \/ LeaveChannel

Tick ==
  \/ TickBegin \/ TickCleanup \/ TickPoll \/ TickRetry \/ TickEnd
  \/ OnAuthResponse \/ OnTerminalError \/ OnServerError \/ OnChannelUserList

Worker == ConnectionUp \/ ShutdownInitiated \/ ShutdownComplete

Server == ServeAuth \/ ServeJoin \/ ServeLeave \/ ServeKick

Time == BackoffElapses \/ SessionAges

Next == User \/ Tick \/ Worker \/ Server \/ Time

Spec == Init /\ [][Next]_vars

(* The main loop keeps calling tick(), the clock runs, and MsQuic ends     *)
(* every dial and every shutdown.  Nothing is assumed of the user, of the  *)
(* server or of the network.                                               *)
Fairness ==
  /\ WF_vars(Tick)
  /\ WF_vars(BackoffElapses)
  /\ WF_vars(ConnectionUp \/ ShutdownInitiated)
  /\ WF_vars(ShutdownComplete)
  /\ SF_vars(TickRetry /\ net'.st = "dialing")

FairSpec == Spec /\ Fairness

-----------------------------------------------------------------------------
Queued == {(batch \o inbox)[i] : i \in DOMAIN (batch \o inbox)}

(* Once the user disconnected, or the server's Kicked / Replaced was       *)
(* received, no automatic reconnect is under way until the user connects   *)
(* again, whatever order the error, the drop and the tick come in (and     *)
(* whatever the flag of an overlapping older connection does, see          *)
(* CleanupIsOwn).                                                          *)
EndIsFinal ==
  (ended /\ ~overlap /\ \A m \in Queued : m.type # "terminal") => ~app.reconnecting

(* A session shown as authenticated has a connection, or the loss of its   *)
(* connection is still to be noticed: on_disconnect_cleanup will run.      *)
NoZombieSession ==
  app.authenticated =>
    Connected \/ net.st = "closing" \/ disconnect_pending \/ phase = "drain"

(* The flap guard: a session that always drops soon after it came up is    *)
(* not re-established more than FlapLimit times on the client's own        *)
(* initiative (two clients replacing each other do not fight forever).     *)
PingPongBounded == reauths <= FlapLimit

(* However many dials fail in between, the automatic login asks for the    *)
(* channel the session held when it was lost.                              *)
RejoinsLostChannel ==
  [][(app.reconnecting /\ ~app.authenticated /\ app'.authenticated /\ lost # NoChannel)
       => app'.pending_channel = lost]_vars

(* An armed reconnect is never forgotten: until it succeeds or is called   *)
(* off the client dials again and again.                                   *)
KeepsDialling ==
  app.reconnecting ~> (~app.reconnecting \/ net.st \in {"dialing", "up"})

(* "Unexpected drop while connected": when a session that nobody ended is  *)
(* cleaned up and the flap guard does not object, a reconnect is armed.    *)
LossIsRetried ==
  [][(/\ phase = "drain" /\ phase' = "poll" /\ app.authenticated /\ ~ended /\ ~overlap
      /\ ~(app.young /\ app.flaps + 1 >= FlapLimit))
       => app'.reconnecting]_vars

(* The loss that is cleaned up is the current connection's: nothing of an  *)
(* old connection reaches the one that was dialled after it.               *)
CleanupIsOwn ==
  [][(phase = "drain" /\ phase' = "poll") => net.st \in {"none", "closed"}]_vars

(* The fingerprint belongs to the connected server, or none was received.  *)
FingerprintIsCurrent == Connected => net.fp \in {NoServer, net.srv}

(* A host is only ever trusted with its own certificate.                   *)
PinsOwnCertificate == \A s \in Servers : trusted[s] \notin Servers \ {s}

(* The client's connection state is consistent: a session that is shown has*)
(* a connection or a loss to be noticed, and two clients of one identity stop*)
(* taking the session from each other after FlapLimit losses.              *)
LoginDiscipline == TypeOK /\ NoZombieSession /\ PingPongBounded
=============================================================================
