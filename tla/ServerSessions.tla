--------------------------- MODULE ServerSessions ---------------------------
(***************************************************************************)
(* The server's control plane: the main loop handles one message or one    *)
(* reported departure at a time, while QUIC workers accept connections and *)
(* retire them at any moment.  A handler first looks its session up        *)
(* (handle_message, get_session) and only then works on it, so a worker    *)
(* can retire the session in between: that window is the state             *)
(* handling # Idle.  Clients may send any message at any time.             *)
(***************************************************************************)
EXTENDS ServerState

VARIABLES
    srv,          \* the server's state
    disconnects,  \* QuicServer::disconnects_, the queue of departures
    handling,     \* the message being handled: its session, the session list
    unannounced,  \* history: users left in a channel with nobody told
    orphaned      \* history: sessions authenticated after they were retired

vars == <<srv, disconnects, handling, unannounced, orphaned>>

Idle == [sid |-> NoSession, all |-> {}]

Init ==
    /\ srv = NewServer
    /\ disconnects = <<>>
    /\ handling = Idle
    /\ unannounced = {}
    /\ orphaned = {}

-----------------------------------------------------------------------------
(* QUIC workers.                                                           *)
NewConnection(s) ==
    /\ srv.conn[s] = "new"
    /\ srv' = [srv EXCEPT !.conn[s] = "open"]
    /\ UNCHANGED <<disconnects, handling, unannounced, orphaned>>

ShutdownComplete(s) ==
    /\ InMap(srv, s)
    /\ srv' = Retire(srv, s)
    /\ disconnects' = disconnects \o Departure(srv, s)
    /\ UNCHANGED <<handling, unannounced, orphaned>>

-----------------------------------------------------------------------------
(* The main loop.                                                          *)
TakeMessage(s) ==
    /\ handling = Idle
    /\ InMap(srv, s)
    /\ handling' = [sid |-> s, all |-> GetSessions(srv)]
    /\ UNCHANGED <<srv, disconnects, unannounced, orphaned>>

\* Any early return of a handler: not authenticated, malformed, denied, full.
Refuse ==
    /\ handling # Idle
    /\ handling' = Idle
    /\ UNCHANGED <<srv, disconnects, unannounced, orphaned>>

\* The handler of the current message ends with the server in state S.
Handled(S) ==
    /\ srv' = S
    /\ handling' = Idle
    /\ UNCHANGED disconnects

Me == handling.sid

HandleAuth(u) ==
    /\ handling # Idle
    /\ ~srv.auth[Me]
    /\ Handled(AuthIdentity(srv, Me, u, handling.all))
    /\ orphaned' = IF InMap(srv, Me) THEN orphaned ELSE orphaned \cup {Me}
    /\ UNCHANGED unannounced

HandleJoin(c) ==
    /\ handling # Idle
    /\ CanJoin(srv, Me, c)
    /\ Handled(ChannelJoin(srv, Me, c))
    /\ unannounced' = LET p == {<<srv.user[Me], c>>}
                      IN  IF InMap(srv, Me) THEN unannounced \ p ELSE unannounced \cup p
    /\ UNCHANGED orphaned

HandleLeave ==
    /\ handling # Idle
    /\ InChannel(srv, Me)
    /\ Handled(ChannelLeave(srv, Me))
    /\ UNCHANGED <<unannounced, orphaned>>

HandleDeleteChannel(c) ==
    /\ handling # Idle
    /\ IsAdmin(srv, Me)
    /\ c \in srv.channels
    /\ Handled(AdminDeleteChannel(srv, c))
    /\ UNCHANGED <<unannounced, orphaned>>

\* The database refuses the delete after the channel was emptied.
HandleDeleteFails(c) ==
    /\ handling # Idle
    /\ IsAdmin(srv, Me)
    /\ c \in srv.channels
    /\ Handled(EmptyChannel(srv, c))
    /\ unannounced' = unannounced \cup InRoster(srv, c)
    /\ UNCHANGED orphaned

HandleKick(u) ==
    /\ handling # Idle
    /\ IsAdmin(srv, Me)
    /\ Handled(AdminKickUser(srv, u, handling.all))
    /\ UNCHANGED <<unannounced, orphaned>>

HandleShareStart(src) ==
    /\ handling # Idle
    /\ InChannel(srv, Me)
    /\ Handled(ScreenShareStart(srv, Me, src))
    /\ UNCHANGED <<unannounced, orphaned>>

HandleShareStop(src) ==
    /\ handling # Idle
    /\ InChannel(srv, Me)
    /\ Handled(ScreenShareStop(srv, Me, src))
    /\ UNCHANGED <<unannounced, orphaned>>

HandleView(st) ==
    /\ handling # Idle
    /\ InChannel(srv, Me)
    /\ st \in srv.streams[srv.chan[Me]]
    /\ Handled(ViewAdd(srv, Me, st)) \/ Handled(ViewOnly(srv, Me, st))
    /\ UNCHANGED <<unannounced, orphaned>>

HandleUnview(st) ==
    /\ handling # Idle
    /\ InChannel(srv, Me)
    /\ \/ Handled(ViewRemove(srv, Me, st))
       \/ Handled(ClearViewerSubscriptions(srv, Me))
    /\ UNCHANGED <<unannounced, orphaned>>

HandleDisconnect ==
    /\ handling = Idle
    /\ disconnects # <<>>
    /\ LET d == Head(disconnects)
       IN  srv' = ProcessDisconnect(srv, d.sid, d.uid, d.cid)
    /\ disconnects' = Tail(disconnects)
    /\ UNCHANGED <<handling, unannounced, orphaned>>

-----------------------------------------------------------------------------
HandleMessage ==
    \/ Refuse
    \/ \E u \in Users : HandleAuth(u)
    \/ \E c \in Channels : HandleJoin(c)
    \/ HandleLeave
    \/ \E c \in Channels : HandleDeleteChannel(c)
    \/ \E c \in Channels : HandleDeleteFails(c)
    \/ \E u \in Users : HandleKick(u)
    \/ \E src \in Sources : HandleShareStart(src)
    \/ \E src \in Sources : HandleShareStop(src)
    \/ \E st \in Streams : HandleView(st)
    \/ \E st \in Streams : HandleUnview(st)

Next ==
    \/ \E s \in Sessions : NewConnection(s)
    \/ \E s \in Sessions : ShutdownComplete(s)
    \/ \E s \in Sessions : TakeMessage(s)
    \/ HandleMessage
    \/ HandleDisconnect

Spec == Init /\ [][Next]_vars

\* The main loop runs forever: every handler ends and every queued departure
\* is reached.
FairSpec == Spec /\ WF_vars(HandleMessage) /\ SF_vars(HandleDisconnect)

-----------------------------------------------------------------------------
Pending(s, u, c) ==
    \E i \in DOMAIN disconnects : disconnects[i] = [sid |-> s, uid |-> u, cid |-> c]

\* Departures of user u that the main loop has not processed yet.
Departing(u) == \E i \in DOMAIN disconnects : disconnects[i].uid = u

TypeOK ==
    /\ srv \in Server
    /\ handling \in [sid : Sessions \cup {NoSession}, all : SUBSET Sessions]
    /\ \A i \in DOMAIN disconnects :
         disconnects[i] \in [sid : Sessions, uid : Users, cid : Channels \cup {NoChannel}]
    /\ unannounced \in Roster
    /\ orphaned \subseteq Sessions

(* The user index names the one live session of a signed-in user: two      *)
(* sessions of one identity never stay signed in together, and the late    *)
(* departure of a replaced session never makes its successor unreachable   *)
(* (AUTH_IDENTITY's kick loop, process_disconnect).                        *)
IndexExact ==
    \A s \in Sessions :
        InMap(srv, s) /\ srv.auth[s] => srv.index[srv.user[s]] = s /\ s \in srv.authed

(* authed_sessions_ does not leak: an entry belongs to a live session or   *)
(* to a departure still queued, unless the session was retired while its   *)
(* own AUTH_IDENTITY was being handled.                                    *)
AuthedSessionsEnd ==
    \A s \in srv.authed \ orphaned :
        InMap(srv, s) \/ \E i \in DOMAIN disconnects : disconnects[i].sid = s

(* A registered stream has a publisher: its owner is in that channel, or   *)
(* was when a departure still queued was captured.  Nobody is offered the  *)
(* stream of a user who has left.                                          *)
StreamsHavePublishers ==
    \A c \in Channels : \A st \in srv.streams[c] :
        \/ \E s \in Members(srv, c) : srv.user[s] = Owner(st)
        \/ \E s \in Sessions : Pending(s, Owner(st), c)

(* The server buffers per-frame streams only for registered sources        *)
(* (session.h, ingress_allowed).                                           *)
IngressOnlyWhileRegistered ==
    \A s \in GetSessions(srv) : \A src \in srv.allowed[s] :
        srv.chan[s] # NoChannel /\ <<srv.user[s], src>> \in srv.streams[srv.chan[s]]

(* A viewer is subscribed only to streams running in its own channel, so   *)
(* no frame is ever forwarded across channels.                             *)
SubscriptionsInChannel ==
    \A v \in GetSessions(srv) :
        srv.subs[v] # {} => srv.chan[v] # NoChannel /\ srv.subs[v] \subseteq srv.streams[srv.chan[v]]

(* Every client shows every other user where the server has them, once the *)
(* departures of that user are processed; the exceptions are the users the *)
(* two paths above left behind unannounced.                                *)
RosterExact ==
    \A v \in Sessions : Hears(srv, v) =>
        \A u \in Users \ {srv.user[v]}, c \in srv.channels :
            ~Departing(u) /\ <<u, c>> \notin unannounced =>
                (<<u, c>> \in srv.told[v] <=> <<u, c>> \in InRoster(srv, c))

(* A user whose connection is lost does not stay on anyone's screen: the   *)
(* captured departure is processed and announced, whatever messages keep   *)
(* the main loop busy.                                                     *)
Shown(v, u, c) == Hears(srv, v) /\ srv.user[v] # u /\ <<u, c>> \in srv.told[v]
Excused(u, c) == <<u, c>> \in InRoster(srv, c) \/ <<u, c>> \in unannounced

DepartureIsAnnounced ==
    \A v \in Sessions, u \in Users, c \in Channels :
        Shown(v, u, c) /\ ~Excused(u, c) ~> ~Shown(v, u, c) \/ Excused(u, c)

(* A client never shows a stream that is not running in its channel, and   *)
(* shows every stream there whose publisher the server accepts.            *)
StreamsShown ==
    \A v \in Sessions : Hears(srv, v) /\ srv.chan[v] # NoChannel =>
        /\ srv.seen[v] \subseteq srv.streams[srv.chan[v]]
        /\ \A s \in Members(srv, srv.chan[v]) : \A src \in srv.allowed[s] :
             <<srv.user[s], src>> \in srv.seen[v]

(* A registered stream of a user with no departure queued is one a live    *)
(* session started and the server accepts frames for: leaving, switching   *)
(* and disconnecting end a user's streams (server.h, stop_video_stream).   *)
RegisteredMeansAccepted ==
    \A c \in Channels : \A st \in srv.streams[c] :
        ~Departing(Owner(st)) =>
            \E s \in Members(srv, c) : srv.user[s] = Owner(st) /\ st[2] \in srv.allowed[s]

(* Nobody is shown in a channel they are not in once all departures are    *)
(* processed: handing disconnects to the main loop leaves no race between  *)
(* it and the workers (quic_server.cpp, SHUTDOWN_COMPLETE).                *)
NoGhostUsers ==
    disconnects = <<>> =>
        \A v \in Sessions : Hears(srv, v) =>
            \A p \in srv.told[v] :
                p[1] # srv.user[v] /\ p[2] \in srv.channels => p \in InRoster(srv, p[2])

(* The server's tables agree with each other: the identity index names live*)
(* sessions, every login is live or has a departure record, a stream belongs*)
(* to a member of its channel and is watched from that channel only.       *)
TablesAgree ==
    TypeOK /\ IndexExact /\ AuthedSessionsEnd /\ StreamsHavePublishers /\ SubscriptionsInChannel

(* What the clients were told, notice by notice, adds up to the server's   *)
(* rosters and stream tables.                                              *)
NoticesExact == RosterExact /\ StreamsShown
=============================================================================
