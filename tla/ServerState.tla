---------------------------- MODULE ServerState ----------------------------
(***************************************************************************)
(* What the main loop of the server (server/src/server.cpp) and the QUIC   *)
(* session map (server/src/quic_server.cpp) know about connections, and    *)
(* what the handlers do to it.  A server is a record S; every operator     *)
(* below returns the record a handler leaves behind.                       *)
(*                                                                         *)
(*   conn[s]     the connection: "new", "open", "closing" (disconnect      *)
(*               cleared alive, the map still holds it) or "gone"          *)
(*   auth, user, chan, subs, allowed                                       *)
(*               Session::authenticated, user_id, channel_id (NoChannel is *)
(*               0), subscribed_sharers, the sources with ingress_allowed  *)
(*   index       user_sessions_          authed   authed_sessions_         *)
(*   streams[c]  channel_video_streams_  channels the channels table       *)
(*   told, seen  what the client of a session shows, from the messages the *)
(*               server sent it: users in channels, running streams        *)
(***************************************************************************)
EXTENDS Naturals, Sequences, FiniteSets, FiniteSetsExt

CONSTANTS
    Sessions,    \* session ids, never reused
    Users,       \* identities: a public key and its user id
    Channels,    \* voice channel ids
    Sources,     \* protocol::VideoSource
    Admins,      \* users whose role has DeleteChannel and KickFromServer
    MaxUsers,    \* max_users of every channel
    NoSession,
    NoUser,
    NoChannel

ASSUME ServerAssumption ==
    /\ NoSession \notin Sessions /\ IsFiniteSet(Sessions)
    /\ NoUser \notin Users
    /\ NoChannel \notin Channels
    /\ Admins \subseteq Users
    /\ MaxUsers \in Nat

Streams == Users \X Sources
Owner(st) == st[1]
StreamsOf(u) == {u} \X Sources
Roster == SUBSET (Users \X Channels)

Server ==
    [conn : [Sessions -> {"new", "open", "closing", "gone"}],
     auth : [Sessions -> BOOLEAN],
     user : [Sessions -> Users \cup {NoUser}],
     chan : [Sessions -> Channels \cup {NoChannel}],
     subs : [Sessions -> SUBSET Streams],
     allowed : [Sessions -> SUBSET Sources],
     index : [Users -> Sessions \cup {NoSession}],
     authed : SUBSET Sessions,
     streams : [Channels -> SUBSET Streams],
     channels : SUBSET Channels,
     told : [Sessions -> Roster],
     seen : [Sessions -> SUBSET Streams]]

NewServer ==
    [conn |-> [s \in Sessions |-> "new"],
     auth |-> [s \in Sessions |-> FALSE],
     user |-> [s \in Sessions |-> NoUser],
     chan |-> [s \in Sessions |-> NoChannel],
     subs |-> [s \in Sessions |-> {}],
     allowed |-> [s \in Sessions |-> {}],
     index |-> [u \in Users |-> NoSession],
     authed |-> {},
     streams |-> [c \in Channels |-> {}],
     channels |-> Channels,
     told |-> [s \in Sessions |-> {}],
     seen |-> [s \in Sessions |-> {}]]

-----------------------------------------------------------------------------
(* QuicServer::get_sessions, Server::session_for_user, and whom a control  *)
(* message reaches: send_to needs the map entry and alive.                 *)
InMap(S, s) == S.conn[s] \in {"open", "closing"}
GetSessions(S) == {s \in Sessions : InMap(S, s)}
Hears(S, v) == S.conn[v] = "open" /\ S.auth[v]
Members(S, c) == {v \in GetSessions(S) : S.auth[v] /\ S.chan[v] = c}

SessionForUser(S, u) ==
    IF S.index[u] # NoSession /\ InMap(S, S.index[u]) THEN S.index[u] ELSE NoSession

InRoster(S, c) == {<<S.user[v], c>> : v \in Members(S, c)}

-----------------------------------------------------------------------------
(* USER_LEFT_CHANNEL to everyone but the session that left.  The receiving *)
(* client (AppCore::on_user_left) also drops that user's streams when it   *)
(* is in the same channel.                                                 *)
UserLeft(S, s, u, c) ==
    [S EXCEPT
       !.told = [v \in Sessions |->
                   IF v # s /\ Hears(S, v) THEN @[v] \ {<<u, c>>} ELSE @[v]],
       !.seen = [v \in Sessions |->
                   IF v # s /\ Hears(S, v) /\ S.chan[v] = c
                   THEN @[v] \ StreamsOf(u) ELSE @[v]]]

UserJoined(S, s, u, c) ==
    [S EXCEPT !.told = [v \in Sessions |->
       IF v # s /\ Hears(S, v) THEN @[v] \cup {<<u, c>>} ELSE @[v]]]

(* stop_video_stream leaves another user's streams and another channel     *)
(* alone; the publisher is the session the user index names.               *)
StopVideoStreams(S, c, u, ended) ==
    LET gone == S.streams[c] \cap ended
        sharer == SessionForUser(S, u)
    IN  IF gone = {} THEN S
        ELSE [S EXCEPT
                !.streams[c] = @ \ gone,
                !.allowed = [s \in Sessions |->
                   IF s = sharer THEN @[s] \ {st[2] : st \in gone} ELSE @[s]],
                !.subs = [v \in Sessions |-> IF InMap(S, v) THEN @[v] \ gone ELSE @[v]],
                !.seen = [v \in Sessions |->
                   IF Hears(S, v) /\ S.chan[v] = c THEN @[v] \ gone ELSE @[v]]]

StopAllVideoStreams(S, c, u) == StopVideoStreams(S, c, u, StreamsOf(u))

ClearViewerSubscriptions(S, s) == [S EXCEPT !.subs[s] = {}]

-----------------------------------------------------------------------------
\* Mutant: evicts a user who is back in the channel through a newer session.
NeverSuperseded(S, s, u, c) == FALSE

(* The per-session bookkeeping that process_disconnect does first.         *)
ForgetSession(S, s, u) ==
    [S EXCEPT
       !.index[u] = IF @ = s THEN NoSession ELSE @,
       !.authed = @ \ {s},
       !.allowed[s] = IF s \in S.authed THEN {} ELSE @]

(* The same user is already back in this channel through another session.  *)
Superseded(S, s, u, c) ==
    LET current == SessionForUser(S, u)
    IN  current # NoSession /\ current # s /\ S.chan[current] = c

ProcessDisconnect(S, s, u, c) ==
    LET F == ForgetSession(S, s, u)
        Unsubscribe(T) == IF s \in S.authed THEN ClearViewerSubscriptions(T, s) ELSE T
    IN  CASE c = NoChannel -> F
          [] c # NoChannel /\ Superseded(F, s, u, c) -> Unsubscribe(F)
          [] OTHER -> UserLeft(Unsubscribe(StopAllVideoStreams(F, c, u)), s, u, c)

-----------------------------------------------------------------------------
(* AUTH_IDENTITY, accepted.  all is the session list of the kick loop; it  *)
(* can still hold a session that a QUIC worker has retired since.          *)
QuicDisconnect(S, s) ==
    IF S.conn[s] # "open" THEN S
    ELSE [S EXCEPT !.conn[s] = "closing", !.told[s] = {}, !.seen[s] = {}]

KickDuplicate(t, S) ==
    QuicDisconnect(
        [ProcessDisconnect(S, t, S.user[t], S.chan[t]) EXCEPT
           !.chan[t] = NoChannel, !.auth[t] = FALSE], t)

Duplicates(S, s, u, all) == {t \in all \ {s} : S.auth[t] /\ S.user[t] = u}

AuthIdentity(S, s, u, all) ==
    LET K == FoldSet(KickDuplicate, S, Duplicates(S, s, u, all))
        A == [K EXCEPT !.auth[s] = TRUE, !.user[s] = u,
                       !.index[u] = s, !.authed = @ \cup {s}]
    IN  IF A.conn[s] # "open" THEN A
        ELSE [A EXCEPT !.told[s] = UNION {InRoster(A, c) : c \in A.channels},
                       !.seen[s] = {}]

-----------------------------------------------------------------------------
(* CHANNEL_JOIN: leave the old channel, enter the new one, then the user   *)
(* list and the replay of the running streams to the joiner and            *)
(* USER_JOINED_CHANNEL to the others.                                      *)
CanJoin(S, s, c) ==
    /\ S.auth[s]
    /\ c \in S.channels
    /\ MaxUsers > 0 => Cardinality(Members(S, c)) < MaxUsers

LeaveChannel(S, s) ==
    LET u == S.user[s]
        c == S.chan[s]
    IN  UserLeft([ClearViewerSubscriptions(StopAllVideoStreams(S, c, u), s)
                    EXCEPT !.chan[s] = NoChannel], s, u, c)

ReplayedStreams(S, c) ==
    {st \in S.streams[c] :
        LET p == SessionForUser(S, Owner(st)) IN p # NoSession /\ S.auth[p]}

ChannelJoin(S, s, c) ==
    LET moved == S.chan[s] \notin {NoChannel, c}
        L == IF moved THEN LeaveChannel(S, s) ELSE S
        J == [L EXCEPT !.chan[s] = c]
        kept == IF S.chan[s] = c THEN J.seen[s] ELSE {}
        T == IF ~Hears(J, s) THEN J
             ELSE [J EXCEPT
                     !.told[s] = {p \in @ : p[2] # c} \cup InRoster(J, c),
                     !.seen[s] = kept \cup ReplayedStreams(J, c)]
    IN  UserJoined(T, s, S.user[s], c)

ChannelLeave(S, s) == [LeaveChannel(S, s) EXCEPT !.seen[s] = {}]

(* ADMIN_DELETE_CHANNEL: everyone is taken out of the channel first; the   *)
(* others learn of it only from the channel list that follows a delete     *)
(* that succeeded.                                                         *)
(* Mutant: the members leave, their streams stay.                          *)
EmptyChannelKeepsStreams(S, c) ==
    [S EXCEPT !.chan = [v \in Sessions |-> IF v \in Members(S, c) THEN NoChannel ELSE @[v]],
              !.subs = [v \in Sessions |-> IF v \in Members(S, c) THEN {} ELSE @[v]]]

EmptyChannel(S, c) ==
    LET out == Members(S, c)
        StopAllOf(v, T) == StopAllVideoStreams(T, c, T.user[v])
        E == FoldSet(StopAllOf, S, out)
    IN  [E EXCEPT
           !.chan = [v \in Sessions |-> IF v \in out THEN NoChannel ELSE @[v]],
           !.subs = [v \in Sessions |-> IF v \in out THEN {} ELSE @[v]],
           !.told = [v \in Sessions |->
              IF v \in out /\ Hears(S, v) THEN @[v] \ {<<S.user[v], c>>} ELSE @[v]],
           !.seen = [v \in Sessions |->
              IF v \in out /\ Hears(S, v) THEN {} ELSE @[v]]]

AdminDeleteChannel(S, c) ==
    LET E == EmptyChannel(S, c)
    IN  [E EXCEPT
           !.channels = @ \ {c},
           !.told = [v \in Sessions |->
              IF Hears(E, v) THEN {p \in @[v] : p[2] # c} ELSE @[v]]]

IsAdmin(S, s) == S.auth[s] /\ S.user[s] \in Admins

AdminKickUser(S, u, all) ==
    LET Kick(t, T) == QuicDisconnect(T, t)
    IN  FoldSet(Kick, S, {t \in all : S.auth[t] /\ S.user[t] = u})

-----------------------------------------------------------------------------
(* SCREEN_SHARE_START, STOP and VIEW.                                      *)
InChannel(S, s) == S.auth[s] /\ S.chan[s] # NoChannel

ScreenShareStart(S, s, src) ==
    LET st == <<S.user[s], src>>
        c == S.chan[s]
    IN  [S EXCEPT
           !.streams[c] = @ \cup {st},
           !.allowed[s] = @ \cup {src},
           !.seen = [v \in Sessions |->
              IF Hears(S, v) /\ S.chan[v] = c THEN @[v] \cup {st} ELSE @[v]]]

ScreenShareStop(S, s, src) ==
    StopVideoStreams(S, S.chan[s], S.user[s], {<<S.user[s], src>>})

ViewAdd(S, s, st) == [S EXCEPT !.subs[s] = @ \cup {st}]
ViewOnly(S, s, st) == [S EXCEPT !.subs[s] = {st}]
ViewRemove(S, s, st) == [S EXCEPT !.subs[s] = @ \ {st}]

-----------------------------------------------------------------------------
(* SHUTDOWN_COMPLETE on a QUIC worker: retire the connection.  The main    *)
(* loop is told only of sessions that were authenticated at that moment.   *)
(* The client of the session shows nothing any more.                       *)
Retire(S, s) == [S EXCEPT !.conn[s] = "gone", !.told[s] = {}, !.seen[s] = {}]

(* Mutant: a session the server itself shut down is not reported.          *)
DepartureIfAlive(S, s) ==
    IF S.auth[s] /\ S.conn[s] = "open"
    THEN <<[sid |-> s, uid |-> S.user[s], cid |-> S.chan[s]]>> ELSE <<>>

Departure(S, s) == IF S.auth[s] THEN <<[sid |-> s, uid |-> S.user[s], cid |-> S.chan[s]]>>
                   ELSE <<>>
============================================================================
