----------------------- MODULE ServerSessionsProofs -----------------------
(***************************************************************************)
(* Proofs about ServerSessions, for any finite set of sessions and any     *)
(* users, channels and video sources: the server's tables agree with each  *)
(* other, and the notices its clients were sent add up to them.            *)
(***************************************************************************)
EXTENDS ServerSessions, SequenceTheorems, SumTheorems

-----------------------------------------------------------------------------
(* The inductive invariant, of the server's record S with P for the queued *)
(* departures and A for the users nobody was told of.                      *)

(* Entries of user_sessions_ name a signed-in session of that user.        *)
IndexNamesSession(S) ==
    \A u \in Users : S.index[u] # NoSession =>
        S.auth[S.index[u]] /\ S.user[S.index[u]] = u

(* ... and every signed-in session that is still in the map is the one.    *)
SignedInIsIndexed(S) ==
    \A s \in Sessions : InMap(S, s) /\ S.auth[s] => S.index[S.user[s]] = s /\ s \in S.authed

(* An entry of authed_sessions_ is signed in, or its session is retired.   *)
AuthedIsSignedIn(S) == \A s \in S.authed : InMap(S, s) \/ S.conn[s] = "new" => S.auth[s]

(* A session is in a channel only while signed in, and starts with nothing.*)
ChannelNeedsLogin(S) ==
    \A s \in Sessions :
        /\ S.chan[s] # NoChannel => S.auth[s]
        /\ S.auth[s] => S.user[s] \in Users /\ S.conn[s] # "new"
        /\ S.conn[s] = "new" => S.subs[s] = {} /\ S.allowed[s] = {}

SourcesRegistered(S) ==
    \A s \in GetSessions(S) : \A src \in S.allowed[s] :
        S.chan[s] # NoChannel /\ <<S.user[s], src>> \in S.streams[S.chan[s]]

WatchedRunHere(S) ==
    \A v \in GetSessions(S) :
        S.subs[v] # {} => S.chan[v] # NoChannel /\ S.subs[v] \subseteq S.streams[S.chan[v]]

(* P holds the users and channels of the departures that are still queued. *)
Published(S, P) ==
    \A c \in Channels : \A st \in S.streams[c] :
        <<Owner(st), c>> \in InRoster(S, c) \cup P

(* A is the set of users in channels that nobody was told of.              *)
RosterTold(S, P, A) ==
    \A v \in Sessions : Hears(S, v) =>
        \A u \in Users \ {S.user[v]}, c \in S.channels :
            /\ <<u, c>> \in InRoster(S, c) \ A => <<u, c>> \in S.told[v]
            /\ <<u, c>> \in S.told[v] => <<u, c>> \in InRoster(S, c) \cup A \cup P

StreamsTold(S) ==
    \A v \in Sessions : Hears(S, v) /\ S.chan[v] # NoChannel =>
        /\ S.seen[v] \subseteq S.streams[S.chan[v]]
        /\ \A s \in Members(S, S.chan[v]) : \A src \in S.allowed[s] :
             <<S.user[s], src>> \in S.seen[v]

Sound(S, P, A) ==
    /\ S \in Server
    /\ IndexNamesSession(S) /\ SignedInIsIndexed(S) /\ AuthedIsSignedIn(S)
    /\ ChannelNeedsLogin(S) /\ SourcesRegistered(S) /\ WatchedRunHere(S)
    /\ Published(S, P) /\ RosterTold(S, P, A) /\ StreamsTold(S)

Departures == [sid : Sessions, uid : Users, cid : Channels \cup {NoChannel}]

Queued == {<<disconnects[i].uid, disconnects[i].cid>> : i \in DOMAIN disconnects}

(* A departure is queued after its session left the map for good.          *)
DeparturesAreGone ==
    \A i \in DOMAIN disconnects : srv.conn[disconnects[i].sid] = "gone"

(* While a message is handled no departure is taken off the queue: if its  *)
(* session was retired meanwhile, its departure is there, and the user     *)
(* index still names it.  The list of sessions it took covers everyone who *)
(* is signed in.                                                           *)
HandlingCurrent ==
    handling # Idle =>
        /\ Me \in Sessions /\ srv.conn[Me] # "new"
        /\ srv.auth[Me] => srv.index[srv.user[Me]] = Me
        /\ ~InMap(srv, Me) /\ srv.auth[Me] => Pending(Me, srv.user[Me], srv.chan[Me])
        /\ \A t \in GetSessions(srv) : srv.auth[t] => t \in handling.all

IInv ==
    /\ TypeOK /\ disconnects \in Seq(Departures)
    /\ Sound(srv, Queued, unannounced)
    /\ AuthedSessionsEnd /\ DeparturesAreGone /\ HandlingCurrent

-----------------------------------------------------------------------------
(* Fields and what depends on few of them.                                 *)
LEMMA FieldTypes ==
    ASSUME NEW S \in Server
    PROVE  /\ S.conn \in [Sessions -> {"new", "open", "closing", "gone"}]
           /\ S.auth \in [Sessions -> BOOLEAN]
           /\ S.user \in [Sessions -> Users \cup {NoUser}]
           /\ S.chan \in [Sessions -> Channels \cup {NoChannel}]
           /\ S.subs \in [Sessions -> SUBSET Streams]
           /\ S.allowed \in [Sessions -> SUBSET Sources]
           /\ S.index \in [Users -> Sessions \cup {NoSession}]
           /\ S.authed \in SUBSET Sessions
           /\ S.streams \in [Channels -> SUBSET Streams]
           /\ S.channels \in SUBSET Channels
           /\ S.told \in [Sessions -> Roster]
           /\ S.seen \in [Sessions -> SUBSET Streams]
BY DEF Server

(* Who is where, as far as the tables are concerned.                       *)
SamePlaces(S, T) ==
    T.conn = S.conn /\ T.auth = S.auth /\ T.user = S.user /\ T.chan = S.chan

(* The maps and rosters of the server follow from these four fields.       *)
LEMMA SamePlacesSame ==
    ASSUME NEW S, NEW T, SamePlaces(S, T)
    PROVE  /\ \A s : (InMap(T, s) <=> InMap(S, s)) /\ (Hears(T, s) <=> Hears(S, s))
           /\ GetSessions(T) = GetSessions(S)
           /\ \A c : Members(T, c) = Members(S, c) /\ InRoster(T, c) = InRoster(S, c)
BY DEF SamePlaces, InMap, Hears, GetSessions, Members, InRoster

(* Who is in the roster of a channel.                                      *)
LEMMA RosterIs ==
    ASSUME NEW S, NEW u, NEW c, NEW d
    PROVE  <<u, d>> \in InRoster(S, c) <=>
             d = c /\ \E s \in Sessions : InMap(S, s) /\ S.auth[s] /\ S.chan[s] = c /\ S.user[s] = u
BY DEF InRoster, Members, GetSessions

(* What clients show of the rosters depends on these.                      *)
LEMMA RosterToldSame ==
    ASSUME NEW S, NEW T, NEW P, NEW A, RosterTold(S, P, A),
           T.told = S.told, T.channels = S.channels, T.user = S.user,
           \A v \in Sessions : Hears(T, v) => Hears(S, v),
           \A d : InRoster(T, d) = InRoster(S, d)
    PROVE  RosterTold(T, P, A)
BY DEF RosterTold

(* stop_video_stream, field by field.                                      *)
Stopped(S, T, c, u, ended) ==
    /\ T \in Server /\ SamePlaces(S, T)
    /\ T.index = S.index /\ T.authed = S.authed /\ T.channels = S.channels
    /\ T.told = S.told
    /\ \A d \in Channels : T.streams[d] = IF d = c THEN S.streams[d] \ ended ELSE S.streams[d]
    /\ \A s \in Sessions : T.allowed[s] =
         IF s = SessionForUser(S, u)
         THEN S.allowed[s] \ {st[2] : st \in S.streams[c] \cap ended} ELSE S.allowed[s]
    /\ \A s \in Sessions : T.subs[s] =
         IF InMap(S, s) THEN S.subs[s] \ (S.streams[c] \cap ended) ELSE S.subs[s]
    /\ \A s \in Sessions : T.seen[s] =
         IF Hears(S, s) /\ S.chan[s] = c
         THEN S.seen[s] \ (S.streams[c] \cap ended) ELSE S.seen[s]

LEMMA StopIs ==
    ASSUME NEW S \in Server, NEW c \in Channels, NEW u \in Users,
           NEW ended \in SUBSET StreamsOf(u), NEW T, T = StopVideoStreams(S, c, u, ended)
    PROVE  Stopped(S, T, c, u, ended)
<1> DEFINE gone == S.streams[c] \cap ended
           sources == {st[2] : st \in gone}
           sharer == SessionForUser(S, u)
           streams == [S.streams EXCEPT ![c] = @ \ gone]
           allowed == [s \in Sessions |-> IF s = sharer THEN S.allowed[s] \ sources ELSE S.allowed[s]]
           subs == [v \in Sessions |-> IF InMap(S, v) THEN S.subs[v] \ gone ELSE S.subs[v]]
           seen == [v \in Sessions |-> IF Hears(S, v) /\ S.chan[v] = c
                                       THEN S.seen[v] \ gone ELSE S.seen[v]]
           R == [S EXCEPT !.streams = streams, !.allowed = allowed, !.subs = subs, !.seen = seen]
<1>1. /\ streams \in [Channels -> SUBSET Streams] /\ allowed \in [Sessions -> SUBSET Sources]
      /\ subs \in [Sessions -> SUBSET Streams] /\ seen \in [Sessions -> SUBSET Streams]
  BY FieldTypes
<1>2. \A d \in Channels : streams[d] = IF d = c THEN S.streams[d] \ ended ELSE S.streams[d]
  BY FieldTypes
<1>5. \A s \in Sessions :
        /\ allowed[s] = IF s = sharer THEN S.allowed[s] \ sources ELSE S.allowed[s]
        /\ subs[s] = IF InMap(S, s) THEN S.subs[s] \ gone ELSE S.subs[s]
        /\ seen[s] = IF Hears(S, s) /\ S.chan[s] = c THEN S.seen[s] \ gone ELSE S.seen[s]
  OBVIOUS
<1>3. CASE gone = {}
  <2>1. T = S
    BY <1>3 DEF StopVideoStreams
  <2>2. sources = {}
    BY <1>3
  <2>3. \A d \in Channels : S.streams[d] = IF d = c THEN S.streams[d] \ ended ELSE S.streams[d]
    BY <1>3
  <2> QED
    BY <1>3, <2>1, <2>2, <2>3 DEF Stopped, SamePlaces
<1>4. CASE gone # {}
  <2>1. T = R
    BY <1>4 DEF StopVideoStreams
  <2> HIDE DEF streams, allowed, subs, seen
  <2>2. /\ R \in Server /\ R.streams = streams /\ R.allowed = allowed /\ R.subs = subs
        /\ R.seen = seen /\ R.index = S.index /\ R.authed = S.authed
        /\ R.channels = S.channels /\ R.told = S.told /\ SamePlaces(S, R)
    BY <1>1 DEF Server, SamePlaces
  <2> HIDE DEF R
  <2>3. \A d \in Channels : T.streams[d] = IF d = c THEN S.streams[d] \ ended ELSE S.streams[d]
    BY <1>2, <2>1, <2>2
  <2>4. \A s \in Sessions : T.allowed[s] = IF s = sharer THEN S.allowed[s] \ sources ELSE S.allowed[s]
    BY <1>5, <2>1, <2>2
  <2>5. \A s \in Sessions : T.subs[s] = IF InMap(S, s) THEN S.subs[s] \ gone ELSE S.subs[s]
    BY <1>5, <2>1, <2>2
  <2>6. \A s \in Sessions :
          T.seen[s] = IF Hears(S, s) /\ S.chan[s] = c THEN S.seen[s] \ gone ELSE S.seen[s]
    BY <1>5, <2>1, <2>2
  <2> QED
    BY <2>1, <2>2, <2>3, <2>4, <2>5, <2>6 DEF Stopped
<1> QED
  BY <1>3, <1>4

(* USER_LEFT_CHANNEL and USER_JOINED_CHANNEL, field by field.              *)
Noticed(S, T, s, u, c) ==
    /\ T \in Server /\ SamePlaces(S, T)
    /\ T.index = S.index /\ T.authed = S.authed /\ T.channels = S.channels
    /\ T.streams = S.streams /\ T.allowed = S.allowed /\ T.subs = S.subs
    /\ \A v \in Sessions : T.told[v] =
         IF v # s /\ Hears(S, v) THEN S.told[v] \ {<<u, c>>} ELSE S.told[v]
    /\ \A v \in Sessions : T.seen[v] =
         IF v # s /\ Hears(S, v) /\ S.chan[v] = c
         THEN S.seen[v] \ StreamsOf(u) ELSE S.seen[v]

LEMMA UserLeftIs ==
    ASSUME NEW S \in Server, NEW s \in Sessions, NEW u \in Users, NEW c \in Channels,
           NEW T, T = UserLeft(S, s, u, c)
    PROVE  Noticed(S, T, s, u, c)
<1> DEFINE told == [v \in Sessions |-> IF v # s /\ Hears(S, v)
                                       THEN S.told[v] \ {<<u, c>>} ELSE S.told[v]]
           seen == [v \in Sessions |-> IF v # s /\ Hears(S, v) /\ S.chan[v] = c
                                       THEN S.seen[v] \ StreamsOf(u) ELSE S.seen[v]]
<1>1. told \in [Sessions -> Roster] /\ seen \in [Sessions -> SUBSET Streams]
  BY FieldTypes DEF Roster
<1>2. T = [S EXCEPT !.told = told, !.seen = seen]
  BY DEF UserLeft
<1>3. \A v \in Sessions :
        /\ told[v] = IF v # s /\ Hears(S, v) THEN S.told[v] \ {<<u, c>>} ELSE S.told[v]
        /\ seen[v] = IF v # s /\ Hears(S, v) /\ S.chan[v] = c
                     THEN S.seen[v] \ StreamsOf(u) ELSE S.seen[v]
  OBVIOUS
<1> HIDE DEF told, seen
<1>4. /\ T \in Server /\ SamePlaces(S, T)
      /\ T.index = S.index /\ T.authed = S.authed /\ T.channels = S.channels
      /\ T.streams = S.streams /\ T.allowed = S.allowed /\ T.subs = S.subs
      /\ T.told = told /\ T.seen = seen
  BY <1>1, <1>2 DEF Server, SamePlaces
<1> QED
  BY <1>3, <1>4 DEF Noticed

Welcomed(S, T, s, u, c) ==
    /\ T \in Server /\ SamePlaces(S, T)
    /\ T.index = S.index /\ T.authed = S.authed /\ T.channels = S.channels
    /\ T.streams = S.streams /\ T.allowed = S.allowed /\ T.subs = S.subs
    /\ T.seen = S.seen
    /\ \A v \in Sessions : T.told[v] =
         IF v # s /\ Hears(S, v) THEN S.told[v] \cup {<<u, c>>} ELSE S.told[v]

LEMMA UserJoinedIs ==
    ASSUME NEW S \in Server, NEW s \in Sessions, NEW u \in Users, NEW c \in Channels,
           NEW T, T = UserJoined(S, s, u, c)
    PROVE  Welcomed(S, T, s, u, c)
<1> DEFINE told == [v \in Sessions |-> IF v # s /\ Hears(S, v)
                                       THEN S.told[v] \cup {<<u, c>>} ELSE S.told[v]]
<1>1. told \in [Sessions -> Roster]
  BY FieldTypes DEF Roster
<1>2. T = [S EXCEPT !.told = told]
  BY DEF UserJoined
<1>3. \A v \in Sessions :
        told[v] = IF v # s /\ Hears(S, v) THEN S.told[v] \cup {<<u, c>>} ELSE S.told[v]
  OBVIOUS
<1> HIDE DEF told
<1>4. /\ T \in Server /\ SamePlaces(S, T)
      /\ T.index = S.index /\ T.authed = S.authed /\ T.channels = S.channels
      /\ T.streams = S.streams /\ T.allowed = S.allowed /\ T.subs = S.subs
      /\ T.told = told /\ T.seen = S.seen
  BY <1>1, <1>2 DEF Server, SamePlaces
<1> QED
  BY <1>3, <1>4 DEF Welcomed

(* process_disconnect's bookkeeping, field by field.                       *)
Forgotten(S, T, s, u) ==
    /\ T \in Server /\ SamePlaces(S, T)
    /\ \A w \in Users : T.index[w] = IF w = u /\ S.index[w] = s THEN NoSession ELSE S.index[w]
    /\ T.authed = S.authed \ {s} /\ T.channels = S.channels
    /\ T.streams = S.streams /\ T.subs = S.subs
    /\ \A v \in Sessions : T.allowed[v] = IF v = s /\ s \in S.authed THEN {} ELSE S.allowed[v]
    /\ T.told = S.told /\ T.seen = S.seen

LEMMA ForgetIs ==
    ASSUME NEW S \in Server, NEW s \in Sessions, NEW u \in Users, NEW T, T = ForgetSession(S, s, u)
    PROVE  Forgotten(S, T, s, u)
<1> DEFINE index == [S.index EXCEPT ![u] = IF @ = s THEN NoSession ELSE @]
           allowed == [S.allowed EXCEPT ![s] = IF s \in S.authed THEN {} ELSE @]
           authed == S.authed \ {s}
<1>1. /\ index \in [Users -> Sessions \cup {NoSession}] /\ allowed \in [Sessions -> SUBSET Sources]
      /\ authed \in SUBSET Sessions
  BY FieldTypes
<1>2. T = [S EXCEPT !.index = index, !.authed = authed, !.allowed = allowed]
  BY DEF ForgetSession
<1>3. /\ \A w \in Users : index[w] = IF w = u /\ S.index[w] = s THEN NoSession ELSE S.index[w]
      /\ \A v \in Sessions : allowed[v] = IF v = s /\ s \in S.authed THEN {} ELSE S.allowed[v]
  BY FieldTypes
<1> HIDE DEF index, allowed, authed
<1>4. /\ T \in Server /\ SamePlaces(S, T)
      /\ T.index = index /\ T.authed = authed /\ T.channels = S.channels
      /\ T.streams = S.streams /\ T.allowed = allowed /\ T.subs = S.subs
      /\ T.told = S.told /\ T.seen = S.seen
  BY <1>1, <1>2 DEF Server, SamePlaces
<1> QED
  BY <1>3, <1>4 DEF authed, Forgotten

Cleared(S, T, s) ==
    /\ T \in Server /\ SamePlaces(S, T)
    /\ T.index = S.index /\ T.authed = S.authed /\ T.channels = S.channels
    /\ T.streams = S.streams /\ T.allowed = S.allowed
    /\ \A v \in Sessions : T.subs[v] = IF v = s THEN {} ELSE S.subs[v]
    /\ T.told = S.told /\ T.seen = S.seen

LEMMA ClearIs ==
    ASSUME NEW S \in Server, NEW s \in Sessions, NEW T, T = ClearViewerSubscriptions(S, s)
    PROVE  Cleared(S, T, s)
<1> DEFINE subs == [S.subs EXCEPT ![s] = {}]
<1>1. subs \in [Sessions -> SUBSET Streams]
  BY FieldTypes
<1>2. T = [S EXCEPT !.subs = subs]
  BY DEF ClearViewerSubscriptions
<1>3. \A v \in Sessions : subs[v] = IF v = s THEN {} ELSE S.subs[v]
  BY FieldTypes
<1> HIDE DEF subs
<1>4. /\ T \in Server /\ SamePlaces(S, T)
      /\ T.index = S.index /\ T.authed = S.authed /\ T.channels = S.channels
      /\ T.streams = S.streams /\ T.allowed = S.allowed /\ T.subs = subs
      /\ T.told = S.told /\ T.seen = S.seen
  BY <1>1, <1>2 DEF Server, SamePlaces
<1> QED
  BY <1>3, <1>4 DEF Cleared

-----------------------------------------------------------------------------
(* Each operation keeps the invariant.                                     *)

(* A signed-in session in the map is the session of its user.              *)
LEMMA SessionIs ==
    ASSUME NEW S, NEW P, NEW A, Sound(S, P, A), NEW s \in Sessions, InMap(S, s), S.auth[s]
    PROVE  /\ S.user[s] \in Users /\ SessionForUser(S, S.user[s]) = s
           /\ S.index[S.user[s]] = s /\ s \in S.authed
           /\ \A t \in Sessions : InMap(S, t) /\ S.auth[t] /\ S.user[t] = S.user[s] => t = s
<1>1. s # NoSession
  BY ServerAssumption
<1>2. /\ S.user[s] \in Users /\ S.index[S.user[s]] = s /\ s \in S.authed
      /\ \A t \in Sessions : InMap(S, t) /\ S.auth[t] => S.index[S.user[t]] = t
  BY DEF Sound, ChannelNeedsLogin, SignedInIsIndexed
<1> QED
  BY <1>1, <1>2 DEF SessionForUser

(* stop_video_stream keeps the invariant.                                  *)
LEMMA StopKeepsSound ==
    ASSUME NEW S, NEW P, NEW A, Sound(S, P, A), NEW c \in Channels, NEW u \in Users,
           NEW ended \in SUBSET StreamsOf(u), NEW T, T = StopVideoStreams(S, c, u, ended)
    PROVE  Sound(T, P, A)
<1> DEFINE gone == S.streams[c] \cap ended
<1>0. S \in Server
  BY DEF Sound
<1>s. Stopped(S, T, c, u, ended)
  BY <1>0, StopIs
<1>1. /\ T \in Server /\ SamePlaces(S, T)
      /\ T.index = S.index /\ T.authed = S.authed /\ T.channels = S.channels
      /\ T.told = S.told
      /\ \A d \in Channels : T.streams[d] = IF d = c THEN S.streams[d] \ ended ELSE S.streams[d]
      /\ \A s \in Sessions : T.allowed[s] =
           IF s = SessionForUser(S, u) THEN S.allowed[s] \ {st[2] : st \in gone} ELSE S.allowed[s]
      /\ \A s \in Sessions : T.subs[s] = IF InMap(S, s) THEN S.subs[s] \ gone ELSE S.subs[s]
      /\ \A s \in Sessions : T.seen[s] =
           IF Hears(S, s) /\ S.chan[s] = c THEN S.seen[s] \ gone ELSE S.seen[s]
  BY <1>s DEF Stopped
<1>2. /\ \A s : (InMap(T, s) <=> InMap(S, s)) /\ (Hears(T, s) <=> Hears(S, s))
      /\ GetSessions(T) = GetSessions(S)
      /\ \A d : Members(T, d) = Members(S, d) /\ InRoster(T, d) = InRoster(S, d)
      /\ T.conn = S.conn /\ T.auth = S.auth /\ T.user = S.user /\ T.chan = S.chan
  BY <1>1, SamePlacesSame DEF SamePlaces
<1>3. /\ S.chan \in [Sessions -> Channels \cup {NoChannel}] /\ GetSessions(S) \subseteq Sessions
      /\ S.streams \in [Channels -> SUBSET Streams]
  BY <1>0, FieldTypes DEF GetSessions
<1>4. IndexNamesSession(T) /\ SignedInIsIndexed(T) /\ AuthedIsSignedIn(T)
  BY <1>1, <1>2 DEF Sound, IndexNamesSession, SignedInIsIndexed, AuthedIsSignedIn
<1>5. ChannelNeedsLogin(T)
  BY <1>1, <1>2 DEF Sound, ChannelNeedsLogin
<1>6. ASSUME NEW s \in GetSessions(S), NEW src \in T.allowed[s]
      PROVE  S.chan[s] # NoChannel /\ src \in S.allowed[s] /\ <<S.user[s], src>> \in T.streams[S.chan[s]]
  <2>1. src \in S.allowed[s] /\ s \in Sessions
    BY <1>1, <1>3, <1>6
  <2>2. S.chan[s] \in Channels /\ <<S.user[s], src>> \in S.streams[S.chan[s]]
    BY <1>3, <1>6, <2>1 DEF Sound, SourcesRegistered
  <2>3. CASE S.chan[s] # c
    BY <1>1, <2>1, <2>2, <2>3, ServerAssumption
  <2>4. CASE S.chan[s] = c /\ S.user[s] # u
    <3>1. <<S.user[s], src>> \notin StreamsOf(u)
      BY <2>4 DEF StreamsOf
    <3> QED
      BY <1>1, <2>1, <2>2, <2>4, <3>1, ServerAssumption
  <2>5. CASE S.chan[s] = c /\ S.user[s] = u
    <3>1. InMap(S, s) /\ S.auth[s]
      BY <2>1, <2>2, <2>5, ServerAssumption DEF Sound, ChannelNeedsLogin, GetSessions
    <3>2. s = SessionForUser(S, u)
      BY <2>1, <2>5, <3>1, SessionIs
    <3>3. src \notin {st[2] : st \in gone}
      BY <1>1, <1>6, <2>1, <3>2
    <3>4. <<u, src>>[2] = src
      OBVIOUS
    <3>5. <<u, src>> \notin gone
      BY <3>3, <3>4
    <3>6. <<u, src>> \in S.streams[c] \ ended
      BY <2>2, <2>5, <3>5
    <3>7. T.streams[c] = S.streams[c] \ ended
      BY <1>1
    <3> QED
      BY <2>1, <2>2, <2>5, <3>6, <3>7, ServerAssumption
  <2> QED
    BY <2>3, <2>4, <2>5
<1>7. SourcesRegistered(T)
  BY <1>2, <1>6 DEF SourcesRegistered
<1>8. WatchedRunHere(T)
  <2> SUFFICES ASSUME NEW v \in GetSessions(S), T.subs[v] # {}
               PROVE  S.chan[v] # NoChannel /\ T.subs[v] \subseteq T.streams[S.chan[v]]
    BY <1>2 DEF WatchedRunHere
  <2>1. T.subs[v] = S.subs[v] \ gone
    BY <1>1, <1>3 DEF GetSessions
  <2>2. S.chan[v] \in Channels /\ S.chan[v] # NoChannel /\ S.subs[v] \subseteq S.streams[S.chan[v]]
    BY <1>3, <2>1 DEF Sound, WatchedRunHere
  <2> QED
    BY <1>1, <2>1, <2>2
<1>9. Published(T, P)
  BY <1>1, <1>2 DEF Sound, Published
<1>10. RosterTold(T, P, A)
  <2>1. T.told = S.told /\ T.channels = S.channels /\ T.user = S.user
    BY <1>1, <1>2
  <2>2. /\ \A v : Hears(T, v) <=> Hears(S, v)
        /\ \A d : InRoster(T, d) = InRoster(S, d)
    BY <1>2
  <2>3. RosterTold(S, P, A)
    BY DEF Sound
  <2> QED
    BY <2>1, <2>2, <2>3, RosterToldSame
<1>11. StreamsTold(T)
  <2> SUFFICES ASSUME NEW v \in Sessions, Hears(S, v), S.chan[v] # NoChannel
               PROVE  /\ T.seen[v] \subseteq T.streams[S.chan[v]]
                      /\ \A s \in Members(S, S.chan[v]) : \A src \in T.allowed[s] :
                           <<S.user[s], src>> \in T.seen[v]
    BY <1>2 DEF StreamsTold
  <2>1. S.chan[v] \in Channels /\ S.seen[v] \subseteq S.streams[S.chan[v]]
    BY <1>3 DEF Sound, StreamsTold
  <2>2. T.seen[v] \subseteq T.streams[S.chan[v]]
    BY <1>1, <2>1
  <2>3. ASSUME NEW s \in Members(S, S.chan[v]), NEW src \in T.allowed[s]
        PROVE  <<S.user[s], src>> \in T.seen[v]
    <3>1. s \in GetSessions(S) /\ S.chan[s] = S.chan[v]
      BY DEF Members
    <3>2. src \in S.allowed[s] /\ <<S.user[s], src>> \in T.streams[S.chan[v]]
      BY <1>6, <3>1
    <3>3. <<S.user[s], src>> \in S.seen[v]
      BY <3>2 DEF Sound, StreamsTold
    <3> QED
      BY <1>1, <2>1, <3>2, <3>3
  <2> QED
    BY <2>2, <2>3
<1> QED
  BY <1>1, <1>4, <1>5, <1>7, <1>8, <1>9, <1>10, <1>11 DEF Sound

-----------------------------------------------------------------------------
(* A session leaves: LeaveChannel, process_disconnect and the kick of a    *)
(* duplicate all take session s out of its channel, and those of them that *)
(* end user u's presence in channel c (K = {<<u, c>>}) end u's streams     *)
(* there and tell everyone.                                                *)
Removed(S, T, s, c, ended, K) ==
    /\ T \in Server /\ T.user = S.user /\ T.channels = S.channels
    /\ \A v \in Sessions \ {s} :
         T.conn[v] = S.conn[v] /\ (T.auth[v] <=> S.auth[v]) /\ T.chan[v] = S.chan[v]
    /\ (InMap(T, s) <=> InMap(S, s)) /\ (T.conn[s] = "new" <=> S.conn[s] = "new")
    /\ (T.auth[s] => S.auth[s]) /\ (Hears(T, s) => Hears(S, s) /\ T.told[s] = S.told[s])
    /\ T.chan[s] # NoChannel => T.auth[s] /\ ~InMap(T, s)
    /\ \A w \in Users :
         \/ T.index[w] = S.index[w] /\ (T.index[w] = s => T.auth[s])
         \/ T.index[w] = NoSession /\ S.index[w] = s /\ ~(InMap(T, s) /\ T.auth[s])
    /\ \/ T.authed = S.authed /\ (T.auth[s] <=> S.auth[s])
       \/ T.authed = S.authed \ {s} /\ ~(InMap(T, s) /\ T.auth[s])
    /\ \A d \in Channels : T.streams[d] = IF d = c THEN S.streams[d] \ ended ELSE S.streams[d]
    /\ \A v \in Sessions : T.allowed[v] \subseteq S.allowed[v] /\ T.subs[v] \subseteq S.subs[v]
    /\ InMap(S, s) => T.allowed[s] = {} /\ T.subs[s] = {}
    /\ \A v \in Sessions : InMap(S, v) /\ S.chan[v] = c => T.subs[v] \cap ended = {}
    /\ \A v \in Sessions \ {s} : Hears(S, v) =>
         /\ T.told[v] = S.told[v] \ K
         /\ T.seen[v] = IF S.chan[v] = c THEN S.seen[v] \ ended ELSE S.seen[v]

EndsPresence(S, s, u, c, ended, K) ==
    /\ K = {<<u, c>>} /\ ended = StreamsOf(u)
    /\ \A t \in Members(S, c) \ {s} : S.user[t] # u
    /\ InMap(S, s) => S.user[s] = u /\ S.chan[s] = c

KeepsPresence(S, s, ended, K) ==
    /\ K = {} /\ ended = {}
    /\ InMap(S, s) => S.chan[s] = NoChannel

(* A removal takes at most <<u, c>> out of the rosters.                    *)
LEMMA RemovedRoster ==
    ASSUME NEW S, NEW T, NEW s \in Sessions, NEW u, NEW c, NEW ended, NEW K,
           Removed(S, T, s, c, ended, K),
           EndsPresence(S, s, u, c, ended, K) \/ KeepsPresence(S, s, ended, K)
    PROVE  \A d \in Channels : \A w : <<w, d>> \in InRoster(T, d) <=> <<w, d>> \in InRoster(S, d) \ K
<1> SUFFICES ASSUME NEW d \in Channels, NEW w
             PROVE  <<w, d>> \in InRoster(T, d) <=> <<w, d>> \in InRoster(S, d) \ K
  OBVIOUS
<1>1. d # NoChannel
  BY ServerAssumption
<1>2. \A v \in Sessions \ {s} : InMap(T, v) <=> InMap(S, v)
  BY DEF Removed, InMap
<1>3. ~(InMap(T, s) /\ T.chan[s] = d)
  BY <1>1 DEF Removed
<1>4. <<w, d>> \in InRoster(T, d) <=>
        \E v \in Sessions \ {s} : InMap(S, v) /\ S.auth[v] /\ S.chan[v] = d /\ S.user[v] = w
  BY <1>2, <1>3, RosterIs DEF Removed
<1>5. <<w, d>> \in InRoster(S, d) <=>
        \E v \in Sessions : InMap(S, v) /\ S.auth[v] /\ S.chan[v] = d /\ S.user[v] = w
  BY RosterIs
<1>6. CASE KeepsPresence(S, s, ended, K)
  BY <1>1, <1>4, <1>5, <1>6 DEF KeepsPresence
<1>7. CASE EndsPresence(S, s, u, c, ended, K)
  <2>1. \A v \in Sessions \ {s} : InMap(S, v) /\ S.auth[v] /\ S.chan[v] = c => S.user[v] # u
    BY <1>7 DEF EndsPresence, Members, GetSessions
  <2>2. <<w, d>> \in K <=> w = u /\ d = c
    BY <1>7 DEF EndsPresence
  <2>3. InMap(S, s) => S.user[s] = u /\ S.chan[s] = c
    BY <1>7 DEF EndsPresence
  <2> QED
    BY <1>4, <1>5, <2>1, <2>2, <2>3
<1> QED
  BY <1>6, <1>7

(* A removal keeps the invariant.                                          *)
LEMMA RemovedSound ==
    ASSUME NEW S, NEW P, NEW A, Sound(S, P, A), NEW T, NEW s \in Sessions, NEW u, NEW c,
           NEW ended, NEW K, Removed(S, T, s, c, ended, K),
           EndsPresence(S, s, u, c, ended, K) \/ KeepsPresence(S, s, ended, K)
    PROVE  Sound(T, P \ K, A)
<1>0. S \in Server /\ T \in Server /\ NoSession \notin Sessions /\ NoChannel \notin Channels
  BY ServerAssumption DEF Sound, Removed
<1>1. \A d \in Channels : \A w : <<w, d>> \in InRoster(T, d) <=> <<w, d>> \in InRoster(S, d) \ K
  BY RemovedRoster
<1>2. \A v \in Sessions : /\ InMap(T, v) <=> InMap(S, v)
                          /\ Hears(T, v) => Hears(S, v)
                          /\ T.auth[v] => S.auth[v]
  BY DEF Removed, InMap, Hears
<1>3. GetSessions(T) = GetSessions(S) /\ GetSessions(S) \subseteq Sessions
  BY <1>2 DEF GetSessions
<1>4. IndexNamesSession(T)
  <2> SUFFICES ASSUME NEW w \in Users, T.index[w] # NoSession
               PROVE  T.auth[T.index[w]] /\ T.user[T.index[w]] = w
    BY DEF IndexNamesSession
  <2>1. T.index[w] = S.index[w] /\ (T.index[w] = s => T.auth[s])
    BY DEF Removed
  <2>2. S.auth[S.index[w]] /\ S.user[S.index[w]] = w /\ S.index[w] \in Sessions
    BY <1>0, <2>1, FieldTypes DEF Sound, IndexNamesSession
  <2> QED
    BY <2>1, <2>2 DEF Removed
<1>5. SignedInIsIndexed(T)
  <2> SUFFICES ASSUME NEW v \in Sessions, InMap(T, v), T.auth[v]
               PROVE  T.index[T.user[v]] = v /\ v \in T.authed
    BY DEF SignedInIsIndexed
  <2>1. InMap(S, v) /\ S.auth[v] /\ T.user[v] = S.user[v] /\ S.user[v] \in Users
    BY <1>2 DEF Removed, Sound, ChannelNeedsLogin
  <2>2. S.index[S.user[v]] = v /\ v \in S.authed
    BY <2>1 DEF Sound, SignedInIsIndexed
  <2> QED
    BY <2>1, <2>2 DEF Removed
<1>6. AuthedIsSignedIn(T)
  <2> SUFFICES ASSUME NEW v \in T.authed, InMap(T, v) \/ T.conn[v] = "new" PROVE T.auth[v]
    BY DEF AuthedIsSignedIn
  <2>1. v \in Sessions /\ v \in S.authed
    BY <1>0, FieldTypes DEF Removed
  <2>2. T.conn[v] = "new" <=> S.conn[v] = "new"
    BY <2>1 DEF Removed
  <2>3. S.auth[v]
    BY <1>2, <2>1, <2>2 DEF Sound, AuthedIsSignedIn
  <2>4. v = s => (T.auth[s] <=> S.auth[s])
    BY DEF Removed
  <2> QED
    BY <2>1, <2>3, <2>4 DEF Removed
<1>7. ChannelNeedsLogin(T)
  <2> SUFFICES ASSUME NEW v \in Sessions
               PROVE  /\ T.chan[v] # NoChannel => T.auth[v]
                      /\ T.auth[v] => T.user[v] \in Users /\ T.conn[v] # "new"
                      /\ T.conn[v] = "new" => T.subs[v] = {} /\ T.allowed[v] = {}
    BY DEF ChannelNeedsLogin
  <2>1. /\ S.chan[v] # NoChannel => S.auth[v]
        /\ S.auth[v] => S.user[v] \in Users /\ S.conn[v] # "new"
        /\ S.conn[v] = "new" => S.subs[v] = {} /\ S.allowed[v] = {}
    BY DEF Sound, ChannelNeedsLogin
  <2>2. /\ T.user[v] = S.user[v]
        /\ T.subs[v] \subseteq S.subs[v] /\ T.allowed[v] \subseteq S.allowed[v]
    BY DEF Removed
  <2>3. CASE v = s
    <3>1. (T.conn[s] = "new" <=> S.conn[s] = "new") /\ (T.chan[s] # NoChannel => T.auth[s])
      BY DEF Removed
    <3> QED
      BY <1>2, <2>1, <2>2, <2>3, <3>1
  <2>4. CASE v # s
    <3>1. T.conn[v] = S.conn[v] /\ (T.auth[v] <=> S.auth[v]) /\ T.chan[v] = S.chan[v]
      BY <2>4 DEF Removed
    <3> QED
      BY <2>1, <2>2, <3>1
  <2> QED
    BY <2>3, <2>4
<1>8. ASSUME NEW v \in GetSessions(S), NEW src \in T.allowed[v]
      PROVE  /\ v # s /\ S.chan[v] \in Channels /\ src \in S.allowed[v] /\ T.chan[v] = S.chan[v]
             /\ T.user[v] = S.user[v] /\ <<S.user[v], src>> \in T.streams[S.chan[v]]
  <2>1. v \in Sessions /\ InMap(S, v) /\ v # s /\ src \in S.allowed[v]
    BY <1>3, <1>8 DEF Removed, GetSessions
  <2>2. S.chan[v] \in Channels /\ <<S.user[v], src>> \in S.streams[S.chan[v]] /\ S.auth[v]
    BY <1>0, <2>1, FieldTypes DEF Sound, SourcesRegistered, ChannelNeedsLogin
  <2>3. S.chan[v] = c => <<S.user[v], src>> \notin ended
    <3>1. CASE KeepsPresence(S, s, ended, K)
      BY <3>1 DEF KeepsPresence
    <3>2. CASE EndsPresence(S, s, u, c, ended, K)
      <4>1. S.chan[v] = c => S.user[v] # u
        BY <2>1, <2>2, <3>2 DEF EndsPresence, Members
      <4> QED
        BY <3>2, <4>1 DEF EndsPresence, StreamsOf
    <3> QED
      BY <3>1, <3>2
  <2>4. T.streams[S.chan[v]] =
          IF S.chan[v] = c THEN S.streams[S.chan[v]] \ ended ELSE S.streams[S.chan[v]]
    BY <2>2 DEF Removed
  <2>5. T.user[v] = S.user[v] /\ T.chan[v] = S.chan[v]
    BY <2>1 DEF Removed
  <2> QED
    BY <2>1, <2>2, <2>3, <2>4, <2>5
<1>9. SourcesRegistered(T)
  <2> SUFFICES ASSUME NEW v \in GetSessions(S), NEW src \in T.allowed[v]
               PROVE  T.chan[v] # NoChannel /\ <<T.user[v], src>> \in T.streams[T.chan[v]]
    BY <1>3 DEF SourcesRegistered
  <2> QED
    BY <1>0, <1>8
<1>10. WatchedRunHere(T)
  <2> SUFFICES ASSUME NEW v \in GetSessions(S), T.subs[v] # {}
               PROVE  T.chan[v] # NoChannel /\ T.subs[v] \subseteq T.streams[T.chan[v]]
    BY <1>3 DEF WatchedRunHere
  <2>1. v \in Sessions /\ InMap(S, v) /\ v # s /\ T.chan[v] = S.chan[v]
    BY <1>3 DEF Removed, GetSessions
  <2>2. T.subs[v] \subseteq S.subs[v] /\ (S.chan[v] = c => T.subs[v] \cap ended = {})
    BY <2>1 DEF Removed
  <2>3. S.chan[v] \in Channels /\ S.subs[v] \subseteq S.streams[S.chan[v]]
    BY <1>0, <2>1, <2>2, FieldTypes DEF Sound, WatchedRunHere
  <2>4. T.streams[S.chan[v]] =
          IF S.chan[v] = c THEN S.streams[S.chan[v]] \ ended ELSE S.streams[S.chan[v]]
    BY <2>3 DEF Removed
  <2> QED
    BY <1>0, <2>1, <2>2, <2>3, <2>4
<1>11. Published(T, P \ K)
  <2> SUFFICES ASSUME NEW d \in Channels, NEW st \in T.streams[d]
               PROVE  <<Owner(st), d>> \in InRoster(T, d) \cup (P \ K)
    BY DEF Published
  <2>0. T.streams[d] = IF d = c THEN S.streams[d] \ ended ELSE S.streams[d]
    BY DEF Removed
  <2>1. st \in S.streams[d] /\ (d = c => st \notin ended)
    BY <2>0
  <2>2. <<Owner(st), d>> \in InRoster(S, d) \cup P
    BY <2>1 DEF Sound, Published
  <2>3. st \in Streams
    BY <1>0, <2>1, FieldTypes
  <2>4. <<Owner(st), d>> \notin K
    <3>1. CASE KeepsPresence(S, s, ended, K)
      BY <3>1 DEF KeepsPresence
    <3>2. CASE EndsPresence(S, s, u, c, ended, K)
      <4>1. Owner(st) = u => st \in StreamsOf(u)
        BY <2>3 DEF Streams, StreamsOf, Owner
      <4> QED
        BY <2>1, <3>2, <4>1 DEF EndsPresence
    <3> QED
      BY <3>1, <3>2
  <2> QED
    BY <1>1, <2>2, <2>4
<1>12. RosterTold(T, P \ K, A)
  <2> SUFFICES ASSUME NEW v \in Sessions, Hears(T, v), NEW w \in Users \ {T.user[v]},
                      NEW d \in T.channels
               PROVE  /\ <<w, d>> \in InRoster(T, d) \ A => <<w, d>> \in T.told[v]
                      /\ <<w, d>> \in T.told[v] => <<w, d>> \in InRoster(T, d) \cup A \cup (P \ K)
    BY DEF RosterTold
  <2>1. /\ Hears(S, v) /\ w \in Users \ {S.user[v]} /\ d \in S.channels /\ d \in Channels
    BY <1>0, <1>2, FieldTypes DEF Removed
  <2>2. /\ <<w, d>> \in InRoster(S, d) \ A => <<w, d>> \in S.told[v]
        /\ <<w, d>> \in S.told[v] => <<w, d>> \in InRoster(S, d) \cup A \cup P
    BY <2>1 DEF Sound, RosterTold
  <2>3. CASE v # s
    <3>1. T.told[v] = S.told[v] \ K
      BY <2>1, <2>3 DEF Removed
    <3> QED
      BY <1>1, <2>1, <2>2, <3>1
  <2>4. CASE v = s
    <3>1. T.told[v] = S.told[v] /\ InMap(S, s)
      BY <1>2, <2>4 DEF Removed, Hears, InMap
    <3>2. <<w, d>> \notin K
      BY <2>1, <2>4, <3>1 DEF EndsPresence, KeepsPresence
    <3> QED
      BY <1>1, <2>1, <2>2, <3>1, <3>2
  <2> QED
    BY <2>3, <2>4
<1>13. StreamsTold(T)
  <2> SUFFICES ASSUME NEW v \in Sessions, Hears(T, v), T.chan[v] # NoChannel
               PROVE  /\ T.seen[v] \subseteq T.streams[T.chan[v]]
                      /\ \A t \in Members(T, T.chan[v]) : \A src \in T.allowed[t] :
                           <<T.user[t], src>> \in T.seen[v]
    BY DEF StreamsTold
  <2>1. v # s /\ Hears(S, v) /\ T.chan[v] = S.chan[v] /\ S.chan[v] \in Channels
    <3>1. InMap(T, v)
      BY DEF Hears, InMap
    <3> QED
      BY <1>0, <1>2, <3>1, FieldTypes DEF Removed
  <2>2. T.seen[v] = IF S.chan[v] = c THEN S.seen[v] \ ended ELSE S.seen[v]
    BY <2>1 DEF Removed
  <2>3. T.streams[S.chan[v]] =
          IF S.chan[v] = c THEN S.streams[S.chan[v]] \ ended ELSE S.streams[S.chan[v]]
    BY <2>1 DEF Removed
  <2>4. /\ S.seen[v] \subseteq S.streams[S.chan[v]]
        /\ \A t \in Members(S, S.chan[v]) : \A src \in S.allowed[t] :
             <<S.user[t], src>> \in S.seen[v]
    BY <1>0, <2>1 DEF Sound, StreamsTold
  <2>5. T.seen[v] \subseteq T.streams[T.chan[v]]
    BY <2>1, <2>2, <2>3, <2>4
  <2>6. ASSUME NEW t \in Members(T, T.chan[v]), NEW src \in T.allowed[t]
        PROVE  <<T.user[t], src>> \in T.seen[v]
    <3>1. t \in GetSessions(S) /\ T.chan[t] = S.chan[v] /\ T.auth[t] /\ t \in Sessions
      BY <1>3, <2>1 DEF Members
    <3>2. /\ t # s /\ src \in S.allowed[t] /\ T.chan[t] = S.chan[t] /\ T.user[t] = S.user[t]
          /\ <<S.user[t], src>> \in T.streams[S.chan[t]]
      BY <1>8, <3>1
    <3>3. t \in Members(S, S.chan[v])
      BY <1>2, <3>1, <3>2 DEF Members
    <3>4. <<S.user[t], src>> \in S.seen[v]
      BY <2>4, <3>2, <3>3
    <3> QED
      BY <2>1, <2>2, <2>3, <3>1, <3>2, <3>4
  <2> QED
    BY <2>5, <2>6
<1> QED
  BY <1>0, <1>4, <1>5, <1>6, <1>7, <1>9, <1>10, <1>11, <1>12, <1>13 DEF Sound

-----------------------------------------------------------------------------
(* process_disconnect.  It ends a presence unless the session was in no    *)
(* channel or the user is back in it through another session.              *)
Parted(S, T, s, u, c, ended, K) ==
    /\ T \in Server /\ SamePlaces(S, T) /\ T.channels = S.channels
    /\ \A w \in Users : T.index[w] = IF w = u /\ S.index[w] = s THEN NoSession ELSE S.index[w]
    /\ T.authed = S.authed \ {s}
    /\ \A d \in Channels : T.streams[d] = IF d = c THEN S.streams[d] \ ended ELSE S.streams[d]
    /\ \A v \in Sessions : T.allowed[v] \subseteq S.allowed[v] /\ T.subs[v] \subseteq S.subs[v]
    /\ s \in S.authed => T.allowed[s] = {} /\ (c # NoChannel => T.subs[s] = {})
    /\ \A v \in Sessions : InMap(S, v) /\ S.chan[v] = c => T.subs[v] \cap ended = {}
    /\ \A v \in Sessions \ {s} : Hears(S, v) =>
         /\ T.told[v] = S.told[v] \ K
         /\ T.seen[v] = IF S.chan[v] = c THEN S.seen[v] \ ended ELSE S.seen[v]

StaysPresent(S, s, u, c) == c = NoChannel \/ Superseded(ForgetSession(S, s, u), s, u, c)

(* process_disconnect is a removal, of the user's presence or of nothing.  *)
LEMMA PartedIs ==
    ASSUME NEW S, NEW P, NEW A, Sound(S, P, A), NEW s \in Sessions, NEW u \in Users,
           NEW c \in Channels \cup {NoChannel}, NEW T, T = ProcessDisconnect(S, s, u, c)
    PROVE  IF StaysPresent(S, s, u, c) THEN Parted(S, T, s, u, c, {}, {})
           ELSE Parted(S, T, s, u, c, StreamsOf(u), {<<u, c>>})
<1>0. S \in Server /\ NoChannel \notin Channels
  BY ServerAssumption DEF Sound
<1>1. PICK F : F = ForgetSession(S, s, u)
  OBVIOUS
<1>2. Forgotten(S, F, s, u)
  BY <1>0, <1>1, ForgetIs
<1>3. F \in Server /\ SamePlaces(S, F)
  BY <1>2 DEF Forgotten
<1>4. CASE c = NoChannel
  <2>1. T = F
    BY <1>1, <1>4 DEF ProcessDisconnect
  <2>2. Parted(S, F, s, u, c, {}, {})
    BY <1>0, <1>2, <1>4 DEF Forgotten, Parted
  <2> QED
    BY <1>4, <2>1, <2>2 DEF StaysPresent
<1>5. CASE c # NoChannel /\ Superseded(F, s, u, c)
  <2>1. T = IF s \in S.authed THEN ClearViewerSubscriptions(F, s) ELSE F
    BY <1>1, <1>5 DEF ProcessDisconnect
  <2>2. Parted(S, T, s, u, c, {}, {})
    <3>1. CASE s \in S.authed
      <4>1. Cleared(F, T, s)
        BY <1>3, <2>1, <3>1, ClearIs
      <4>2. SamePlaces(S, T)
        BY <1>3, <4>1 DEF Cleared, SamePlaces
      <4>3. \A v \in Sessions : T.subs[v] \subseteq S.subs[v] /\ T.allowed[v] \subseteq S.allowed[v]
        BY <1>2, <4>1 DEF Forgotten, Cleared
      <4>4. T.subs[s] = {} /\ T.allowed[s] = {}
        BY <1>2, <3>1, <4>1 DEF Forgotten, Cleared
      <4> QED
        BY <1>2, <4>1, <4>2, <4>3, <4>4 DEF Forgotten, Cleared, Parted
    <3>2. CASE s \notin S.authed
      <4>1. T = F
        BY <2>1, <3>2
      <4> QED
        BY <1>2, <3>2, <4>1 DEF Forgotten, Parted
    <3> QED
      BY <3>1, <3>2
  <2> QED
    BY <1>1, <1>5, <2>2 DEF StaysPresent
<1>6. CASE c # NoChannel /\ ~Superseded(F, s, u, c)
  <2>0. c \in Channels /\ ~StaysPresent(S, s, u, c)
    BY <1>1, <1>6 DEF StaysPresent
  <2>1. PICK X : X = StopAllVideoStreams(F, c, u)
    OBVIOUS
  <2>2. PICK Y : Y = IF s \in S.authed THEN ClearViewerSubscriptions(X, s) ELSE X
    OBVIOUS
  <2>3. T = UserLeft(Y, s, u, c)
    BY <1>1, <1>6, <2>1, <2>2 DEF ProcessDisconnect
  <2>4. Stopped(F, X, c, u, StreamsOf(u))
    BY <1>3, <2>0, <2>1, StopIs DEF StopAllVideoStreams
  <2>5. /\ Y \in Server /\ SamePlaces(X, Y) /\ Y.index = X.index /\ Y.authed = X.authed
        /\ Y.channels = X.channels /\ Y.streams = X.streams /\ Y.allowed = X.allowed
        /\ Y.told = X.told /\ Y.seen = X.seen
        /\ \A v \in Sessions : Y.subs[v] = IF v = s /\ s \in S.authed THEN {} ELSE X.subs[v]
    <3>1. CASE s \in S.authed
      <4>1. Cleared(X, Y, s)
        BY <2>2, <2>4, <3>1, ClearIs DEF Stopped
      <4> QED
        BY <3>1, <4>1 DEF Cleared
    <3>2. CASE s \notin S.authed
      BY <2>2, <2>4, <3>2 DEF Stopped, SamePlaces
    <3> QED
      BY <3>1, <3>2
  <2>6. Noticed(Y, T, s, u, c)
    BY <2>0, <2>3, <2>5, UserLeftIs
  <2>7. SamePlaces(S, F) /\ SamePlaces(S, X) /\ SamePlaces(S, Y) /\ SamePlaces(S, T)
    BY <1>3, <2>4, <2>5, <2>6 DEF Stopped, Noticed, SamePlaces
  <2>8. \A v : (InMap(F, v) <=> InMap(S, v)) /\ (Hears(F, v) <=> Hears(S, v))
               /\ (Hears(Y, v) <=> Hears(S, v))
    BY <2>7, SamePlacesSame
  <2>9. F.chan = S.chan /\ Y.chan = S.chan
    BY <2>7 DEF SamePlaces
  <2>10. /\ T \in Server /\ T.channels = S.channels /\ T.authed = S.authed \ {s}
         /\ \A w \in Users : T.index[w] = IF w = u /\ S.index[w] = s THEN NoSession ELSE S.index[w]
    BY <1>2, <2>4, <2>5, <2>6 DEF Forgotten, Stopped, Noticed
  <2>11. \A d \in Channels : T.streams[d] = IF d = c THEN S.streams[d] \ StreamsOf(u) ELSE S.streams[d]
    <3>1. F.streams = S.streams /\ T.streams = X.streams
      BY <1>2, <2>5, <2>6 DEF Forgotten, Noticed
    <3> QED
      BY <2>4, <3>1 DEF Stopped
  <2>12. ASSUME NEW v \in Sessions
         PROVE  /\ T.allowed[v] \subseteq F.allowed[v]
                /\ T.subs[v] \subseteq S.subs[v]
                /\ v = s /\ s \in S.authed => T.subs[v] = {}
                /\ InMap(S, v) => T.subs[v] \subseteq S.subs[v] \ (S.streams[c] \cap StreamsOf(u))
    <3>1. T.allowed = X.allowed /\ T.subs = Y.subs /\ F.subs = S.subs /\ F.streams = S.streams
      BY <1>2, <2>5, <2>6 DEF Forgotten, Noticed
    <3>2. X.allowed[v] \subseteq F.allowed[v]
      BY <2>4 DEF Stopped
    <3>3. X.subs[v] = IF InMap(S, v) THEN S.subs[v] \ (S.streams[c] \cap StreamsOf(u)) ELSE S.subs[v]
      BY <2>4, <2>8, <3>1 DEF Stopped
    <3>4. Y.subs[v] = IF v = s /\ s \in S.authed THEN {} ELSE X.subs[v]
      BY <2>5
    <3> QED
      BY <3>1, <3>2, <3>3, <3>4
  <2>13. \A v \in Sessions : F.allowed[v] \subseteq S.allowed[v] /\ (s \in S.authed => F.allowed[s] = {})
    BY <1>2 DEF Forgotten
  <2>14. ASSUME NEW v \in Sessions, InMap(S, v), S.chan[v] = c
         PROVE  T.subs[v] \cap StreamsOf(u) = {}
    <3>1. S.subs[v] \subseteq S.streams[c]
      <4>1. v \in GetSessions(S)
        BY <2>14 DEF GetSessions
      <4> QED
        BY <2>14, <4>1 DEF Sound, WatchedRunHere
    <3> QED
      BY <2>12, <2>14, <3>1
  <2>15. ASSUME NEW v \in Sessions \ {s}, Hears(S, v)
         PROVE  /\ T.told[v] = S.told[v] \ {<<u, c>>}
                /\ T.seen[v] = IF S.chan[v] = c THEN S.seen[v] \ StreamsOf(u) ELSE S.seen[v]
    <3>1. F.told = S.told /\ F.seen = S.seen /\ F.streams = S.streams
      BY <1>2 DEF Forgotten
    <3>2. Y.told = S.told /\ Y.seen = X.seen
      BY <2>4, <2>5, <3>1 DEF Stopped
    <3>3. X.seen[v] = IF S.chan[v] = c THEN S.seen[v] \ (S.streams[c] \cap StreamsOf(u)) ELSE S.seen[v]
      BY <2>4, <2>8, <2>9, <2>15, <3>1 DEF Stopped
    <3>4. T.told[v] = Y.told[v] \ {<<u, c>>}
      BY <2>6, <2>8, <2>15 DEF Noticed
    <3>5. T.seen[v] = IF S.chan[v] = c THEN Y.seen[v] \ StreamsOf(u) ELSE Y.seen[v]
      BY <2>6, <2>8, <2>9, <2>15 DEF Noticed
    <3> QED
      BY <3>2, <3>3, <3>4, <3>5
  <2>16. Parted(S, T, s, u, c, StreamsOf(u), {<<u, c>>})
    BY <2>7, <2>10, <2>11, <2>12, <2>13, <2>14, <2>15 DEF Parted
  <2> QED
    BY <2>0, <2>16
<1> QED
  BY <1>0, <1>4, <1>5, <1>6

(* What is allowed of queued departures and unannounced users may grow.    *)
LEMMA SoundGrows ==
    ASSUME NEW S, NEW P, NEW A, Sound(S, P, A), NEW Q, P \subseteq Q
    PROVE  Sound(S, Q, A)
<1>1. Published(S, Q)
  BY DEF Sound, Published
<1>2. RosterTold(S, Q, A)
  BY DEF Sound, RosterTold
<1> QED
  BY <1>1, <1>2 DEF Sound

(* A departure of a user who is still there excuses nothing.               *)
LEMMA SoundWithout ==
    ASSUME NEW S, NEW P, NEW A, Sound(S, P, A), NEW u, NEW c,
           c \in Channels => <<u, c>> \in InRoster(S, c)
    PROVE  Sound(S, P \ {<<u, c>>}, A)
<1>0. S.channels \subseteq Channels
  BY FieldTypes DEF Sound
<1>1. Published(S, P \ {<<u, c>>})
  <2> SUFFICES ASSUME NEW d \in Channels, NEW st \in S.streams[d]
               PROVE  <<Owner(st), d>> \in InRoster(S, d) \cup (P \ {<<u, c>>})
    BY DEF Published
  <2>1. <<Owner(st), d>> \in InRoster(S, d) \cup P
    BY DEF Sound, Published
  <2> QED
    BY <2>1
<1>2. RosterTold(S, P \ {<<u, c>>}, A)
  <2> SUFFICES ASSUME NEW v \in Sessions, Hears(S, v), NEW w \in Users \ {S.user[v]},
                      NEW d \in S.channels
               PROVE  /\ <<w, d>> \in InRoster(S, d) \ A => <<w, d>> \in S.told[v]
                      /\ <<w, d>> \in S.told[v] =>
                           <<w, d>> \in InRoster(S, d) \cup A \cup (P \ {<<u, c>>})
    BY DEF RosterTold
  <2>1. /\ <<w, d>> \in InRoster(S, d) \ A => <<w, d>> \in S.told[v]
        /\ <<w, d>> \in S.told[v] => <<w, d>> \in InRoster(S, d) \cup A \cup P
    BY DEF Sound, RosterTold
  <2> QED
    BY <1>0, <2>1
<1> QED
  BY <1>1, <1>2 DEF Sound

(* Whether process_disconnect ends the presence, in terms of the rosters.  *)
LEMMA PresenceIs ==
    ASSUME NEW S, NEW P, NEW A, Sound(S, P, A), NEW s \in Sessions, NEW u \in Users,
           NEW c \in Channels \cup {NoChannel}
    PROVE  /\ ~StaysPresent(S, s, u, c) =>
                c \in Channels /\ \A t \in Members(S, c) \ {s} : S.user[t] # u
           /\ StaysPresent(S, s, u, c) =>
                c = NoChannel \/ \E t \in Members(S, c) \ {s} : S.user[t] = u
<1>1. PICK F : F = ForgetSession(S, s, u)
  OBVIOUS
<1>2. Forgotten(S, F, s, u)
  BY <1>1, ForgetIs DEF Sound
<1>3. F.chan = S.chan /\ \A v : InMap(F, v) <=> InMap(S, v)
  BY <1>2, SamePlacesSame DEF Forgotten, SamePlaces
<1>4. F.index[u] = IF S.index[u] = s THEN NoSession ELSE S.index[u]
  BY <1>2 DEF Forgotten
<1>5. S.index[u] \in Sessions \cup {NoSession} /\ NoSession \notin Sessions /\ NoChannel \notin Channels
  BY FieldTypes, ServerAssumption DEF Sound
<1>6. Superseded(F, s, u, c) <=>
        LET t == S.index[u] IN t # s /\ t \in Sessions /\ InMap(S, t) /\ S.chan[t] = c
  BY <1>3, <1>4, <1>5 DEF Superseded, SessionForUser
<1>7. StaysPresent(S, s, u, c) <=> c = NoChannel \/ Superseded(F, s, u, c)
  BY <1>1 DEF StaysPresent
<1>8. ASSUME ~StaysPresent(S, s, u, c), NEW t \in Members(S, c) \ {s}, S.user[t] = u
      PROVE  FALSE
  <2>1. t \in Sessions /\ InMap(S, t) /\ S.auth[t] /\ S.chan[t] = c
    BY DEF Members, GetSessions
  <2>2. S.index[u] = t
    BY <1>8, <2>1, SessionIs
  <2> QED
    BY <1>6, <1>7, <1>8, <2>1, <2>2
<1>9. ASSUME StaysPresent(S, s, u, c), c # NoChannel
      PROVE  \E t \in Members(S, c) \ {s} : S.user[t] = u
  <2>1. PICK t \in Sessions : t = S.index[u] /\ t # s /\ InMap(S, t) /\ S.chan[t] = c
    BY <1>6, <1>7, <1>9
  <2>2. S.auth[t] /\ S.user[t] = u
    BY <1>5, <2>1 DEF Sound, IndexNamesSession
  <2> QED
    BY <2>1, <2>2 DEF Members, GetSessions
<1>10. ~StaysPresent(S, s, u, c) => c \in Channels
  BY <1>7
<1> QED
  BY <1>8, <1>9, <1>10

(* A departure is processed after its session left the map.                *)
LEMMA DisconnectSound ==
    ASSUME NEW S, NEW P, NEW A, Sound(S, P, A), NEW s \in Sessions, S.conn[s] = "gone",
           NEW u \in Users, NEW c \in Channels \cup {NoChannel},
           NEW T, T = ProcessDisconnect(S, s, u, c)
    PROVE  Sound(T, P \ {<<u, c>>}, A) /\ SamePlaces(S, T) /\ T.authed = S.authed \ {s}
<1>0. ~InMap(S, s) /\ ~Hears(S, s)
  BY DEF InMap, Hears
<1> DEFINE Turns(ended, K) == Parted(S, T, s, u, c, ended, K)
<1>1. ASSUME NEW ended, NEW K, Turns(ended, K)
      PROVE  /\ \A w \in Users : T.index[w] = s => T.auth[s]
             /\ ~InMap(T, s) /\ ~Hears(T, s) /\ SamePlaces(S, T)
             /\ T.authed = S.authed \ {s}
  <2>1. SamePlaces(S, T) /\ ~InMap(T, s) /\ ~Hears(T, s) /\ T.auth = S.auth
    BY <1>0, <1>1, SamePlacesSame DEF Parted, SamePlaces
  <2>2. ASSUME NEW w \in Users, T.index[w] = s PROVE S.auth[s]
    <3>1. S.index[w] = s
      BY <1>1, <2>2, ServerAssumption DEF Parted
    <3> QED
      BY <3>1, ServerAssumption DEF Sound, IndexNamesSession
  <2> QED
    BY <1>1, <2>1, <2>2 DEF Parted
<1>2. ASSUME NEW ended, NEW K, Turns(ended, K)
      PROVE  Removed(S, T, s, c, ended, K)
  <2>1. /\ T.user = S.user /\ T.conn = S.conn /\ T.auth = S.auth /\ T.chan = S.chan
    BY <1>2 DEF Parted, SamePlaces
  <2>2. S.chan[s] # NoChannel => S.auth[s]
    BY DEF Sound, ChannelNeedsLogin
  <2>3. \A w \in Users :
         \/ T.index[w] = S.index[w] /\ (T.index[w] = s => T.auth[s])
         \/ T.index[w] = NoSession /\ S.index[w] = s
    BY <1>1, <1>2 DEF Parted
  <2>4. ~InMap(T, s) /\ ~Hears(T, s) /\ T.authed = S.authed \ {s}
    BY <1>1, <1>2
  <2> QED
    BY <1>0, <1>2, <2>1, <2>2, <2>3, <2>4 DEF Parted, Removed
<1>3. CASE StaysPresent(S, s, u, c)
  <2>1. Parted(S, T, s, u, c, {}, {})
    BY <1>3, PartedIs
  <2>2. Removed(S, T, s, c, {}, {}) /\ KeepsPresence(S, s, {}, {})
    BY <1>0, <1>2, <2>1 DEF KeepsPresence
  <2>3. Sound(T, P \ {}, A)
    BY <2>2, RemovedSound
  <2>4. c \in Channels => <<u, c>> \in InRoster(S, c)
    BY <1>3, PresenceIs, ServerAssumption DEF InRoster
  <2>5. InRoster(T, c) = InRoster(S, c)
    BY <1>1, <2>1, SamePlacesSame
  <2>6. Sound(T, P, A)
    BY <2>3, SoundGrows
  <2>7. Sound(T, P \ {<<u, c>>}, A)
    BY <2>4, <2>5, <2>6, SoundWithout
  <2> QED
    BY <1>1, <2>1, <2>7
<1>4. CASE ~StaysPresent(S, s, u, c)
  <2>1. Parted(S, T, s, u, c, StreamsOf(u), {<<u, c>>})
    BY <1>4, PartedIs
  <2>2. EndsPresence(S, s, u, c, StreamsOf(u), {<<u, c>>})
    BY <1>0, <1>4, PresenceIs DEF EndsPresence
  <2>3. Removed(S, T, s, c, StreamsOf(u), {<<u, c>>})
    BY <1>2, <2>1
  <2>4. Sound(T, P \ {<<u, c>>}, A)
    BY <2>2, <2>3, RemovedSound
  <2> QED
    BY <1>1, <2>1, <2>4
<1> QED
  BY <1>3, <1>4

-----------------------------------------------------------------------------
(* AUTH_IDENTITY's kick of an older session of the same user: its channel  *)
(* and login are dropped, and its connection is shut down.                 *)
ShutOut(D, T, t) ==
    /\ T \in Server /\ T.user = D.user /\ T.index = D.index /\ T.authed = D.authed
    /\ T.channels = D.channels /\ T.streams = D.streams /\ T.allowed = D.allowed
    /\ T.subs = D.subs
    /\ \A v \in Sessions \ {t} : /\ T.conn[v] = D.conn[v] /\ (T.auth[v] <=> D.auth[v])
                                 /\ T.chan[v] = D.chan[v] /\ T.told[v] = D.told[v]
                                 /\ T.seen[v] = D.seen[v]
    /\ T.chan[t] = NoChannel /\ ~T.auth[t]
    /\ T.conn[t] = IF D.conn[t] = "open" THEN "closing" ELSE D.conn[t]

(* QuicServer::disconnect after the kick's assignments, field by field.    *)
LEMMA ShutOutIs ==
    ASSUME NEW D \in Server, NEW t \in Sessions, NEW T,
           T = QuicDisconnect([D EXCEPT !.chan[t] = NoChannel, !.auth[t] = FALSE], t)
    PROVE  ShutOut(D, T, t)
<1> DEFINE chan == [D.chan EXCEPT ![t] = NoChannel]
           auth == [D.auth EXCEPT ![t] = FALSE]
           conn == [D.conn EXCEPT ![t] = "closing"]
           told == [D.told EXCEPT ![t] = {}]
           seen == [D.seen EXCEPT ![t] = {}]
           E == [D EXCEPT !.chan = chan, !.auth = auth]
           Q == [E EXCEPT !.conn = conn, !.told = told, !.seen = seen]
<1>1. /\ chan \in [Sessions -> Channels \cup {NoChannel}] /\ auth \in [Sessions -> BOOLEAN]
      /\ conn \in [Sessions -> {"new", "open", "closing", "gone"}]
      /\ told \in [Sessions -> Roster] /\ seen \in [Sessions -> SUBSET Streams]
  BY FieldTypes DEF Roster
<1>2. /\ chan[t] = NoChannel /\ ~auth[t] /\ conn[t] = "closing"
      /\ \A v \in Sessions \ {t} : /\ chan[v] = D.chan[v] /\ (auth[v] <=> D.auth[v])
                                   /\ conn[v] = D.conn[v] /\ told[v] = D.told[v]
                                   /\ seen[v] = D.seen[v]
  BY FieldTypes
<1> HIDE DEF chan, auth
<1>3. /\ E \in Server /\ E.chan = chan /\ E.auth = auth /\ E.user = D.user /\ E.conn = D.conn
      /\ E.told = D.told /\ E.seen = D.seen /\ E.index = D.index /\ E.authed = D.authed
      /\ E.channels = D.channels /\ E.streams = D.streams /\ E.allowed = D.allowed
      /\ E.subs = D.subs
  BY <1>1 DEF Server
<1>4. E = [D EXCEPT !.chan[t] = NoChannel, !.auth[t] = FALSE]
  BY DEF chan, auth
<1> HIDE DEF E
<1>5. T = IF D.conn[t] # "open" THEN E ELSE Q
  BY <1>3, <1>4 DEF QuicDisconnect
<1> HIDE DEF conn, told, seen
<1>6. /\ Q \in Server /\ Q.chan = chan /\ Q.auth = auth /\ Q.user = D.user /\ Q.conn = conn
      /\ Q.told = told /\ Q.seen = seen /\ Q.index = D.index /\ Q.authed = D.authed
      /\ Q.channels = D.channels /\ Q.streams = D.streams /\ Q.allowed = D.allowed
      /\ Q.subs = D.subs
  BY <1>1, <1>3 DEF Server
<1> HIDE DEF Q
<1>7. CASE D.conn[t] # "open"
  BY <1>2, <1>3, <1>5, <1>7 DEF ShutOut
<1>8. CASE D.conn[t] = "open"
  BY <1>2, <1>5, <1>6, <1>8 DEF ShutOut
<1> QED
  BY <1>7, <1>8

(* What a kick of t leaves alone.                                          *)
OnlyOut(S, T, t) ==
    /\ T.user = S.user /\ ~T.auth[t] /\ T.authed \subseteq S.authed
    /\ \A v \in Sessions \ {t} : (T.auth[v] <=> S.auth[v]) /\ T.conn[v] = S.conn[v]
    /\ \A v \in Sessions : /\ (InMap(T, v) <=> InMap(S, v))
                           /\ (T.conn[v] = "gone" <=> S.conn[v] = "gone")

(* One kick is a removal and keeps the invariant.                          *)
LEMMA KickSound ==
    ASSUME NEW S, NEW P, NEW A, Sound(S, P, A), NEW t \in Sessions, S.auth[t],
           NEW T, T = KickDuplicate(t, S)
    PROVE  Sound(T, P, A) /\ OnlyOut(S, T, t)
<1>1. PICK u : u = S.user[t]
  OBVIOUS
<1>2. PICK c : c = S.chan[t]
  OBVIOUS
<1>3. PICK D : D = ProcessDisconnect(S, t, u, c)
  OBVIOUS
<1>4. u \in Users /\ c \in Channels \cup {NoChannel} /\ S.conn[t] # "new"
  BY <1>1, <1>2, FieldTypes DEF Sound, ChannelNeedsLogin
<1>5. T = QuicDisconnect([D EXCEPT !.chan[t] = NoChannel, !.auth[t] = FALSE], t)
  BY <1>1, <1>2, <1>3 DEF KickDuplicate
<1>a. ASSUME NEW ended, NEW K, Parted(S, D, t, u, c, ended, K)
      PROVE  OnlyOut(S, T, t) /\ Removed(S, T, t, c, ended, K)
  <2>1. ShutOut(D, T, t)
    BY <1>5, <1>a, ShutOutIs DEF Parted
  <2>2. D.conn = S.conn /\ D.auth = S.auth /\ D.user = S.user /\ D.chan = S.chan
    BY <1>a DEF Parted, SamePlaces
  <2>3. /\ T.conn[t] = IF S.conn[t] = "open" THEN "closing" ELSE S.conn[t]
        /\ \A v \in Sessions \ {t} : T.conn[v] = S.conn[v]
    BY <2>1, <2>2 DEF ShutOut
  <2>4. \A v \in Sessions : /\ InMap(T, v) <=> InMap(S, v)
                            /\ T.conn[v] = "gone" <=> S.conn[v] = "gone"
    BY <2>3 DEF InMap
  <2>5. \A v \in Sessions \ {t} : (T.auth[v] <=> S.auth[v]) /\ T.chan[v] = S.chan[v]
    BY <2>1, <2>2 DEF ShutOut
  <2>6. ~T.auth[t] /\ T.chan[t] = NoChannel /\ T.user = S.user /\ T \in Server
    BY <2>1, <2>2 DEF ShutOut
  <2>7. T.authed = S.authed \ {t} /\ T.channels = S.channels
    BY <1>a, <2>1 DEF Parted, ShutOut
  <2>8. OnlyOut(S, T, t)
    BY <2>3, <2>4, <2>5, <2>6, <2>7 DEF OnlyOut
  <2>9. \A w \in Users :
         \/ T.index[w] = S.index[w] /\ (T.index[w] = t => T.auth[t])
         \/ T.index[w] = NoSession /\ S.index[w] = t
    <3> SUFFICES ASSUME NEW w \in Users
                 PROVE  \/ T.index[w] = S.index[w] /\ T.index[w] # t
                        \/ T.index[w] = NoSession /\ S.index[w] = t
      OBVIOUS
    <3>4. T.index = D.index
      BY <2>1 DEF ShutOut
    <3>1. T.index[w] = IF w = u /\ S.index[w] = t THEN NoSession ELSE S.index[w]
      BY <1>a, <3>4 DEF Parted
    <3>2. S.index[w] = t => w = u
      BY <1>1, ServerAssumption DEF Sound, IndexNamesSession
    <3> QED
      BY <3>1, <3>2
  <2>10. InMap(S, t) => T.allowed[t] = {} /\ T.subs[t] = {}
    <3> SUFFICES ASSUME InMap(S, t) PROVE T.allowed[t] = {} /\ T.subs[t] = {}
      OBVIOUS
    <3>1. t \in S.authed /\ t \in GetSessions(S)
      BY SessionIs DEF GetSessions
    <3>4. T.allowed = D.allowed /\ T.subs = D.subs
      BY <2>1 DEF ShutOut
    <3>5. D.allowed[t] = {} /\ (c # NoChannel => D.subs[t] = {}) /\ D.subs[t] \subseteq S.subs[t]
      BY <1>a, <3>1 DEF Parted
    <3>2. T.allowed[t] = {} /\ (c # NoChannel => T.subs[t] = {}) /\ T.subs[t] \subseteq S.subs[t]
      BY <3>4, <3>5
    <3>3. c = NoChannel => S.subs[t] = {}
      BY <1>2, <3>1 DEF Sound, WatchedRunHere
    <3> QED
      BY <3>2, <3>3
  <2>11. /\ \A v \in Sessions : T.allowed[v] \subseteq S.allowed[v] /\ T.subs[v] \subseteq S.subs[v]
         /\ \A v \in Sessions : InMap(S, v) /\ S.chan[v] = c => T.subs[v] \cap ended = {}
         /\ \A d \in Channels : T.streams[d] = IF d = c THEN S.streams[d] \ ended ELSE S.streams[d]
    <3>1. T.allowed = D.allowed /\ T.subs = D.subs /\ T.streams = D.streams
      BY <2>1 DEF ShutOut
    <3>2. /\ \A v \in Sessions : D.allowed[v] \subseteq S.allowed[v] /\ D.subs[v] \subseteq S.subs[v]
          /\ \A v \in Sessions : InMap(S, v) /\ S.chan[v] = c => D.subs[v] \cap ended = {}
          /\ \A d \in Channels : D.streams[d] = IF d = c THEN S.streams[d] \ ended ELSE S.streams[d]
      BY <1>a DEF Parted
    <3> QED
      BY <3>1, <3>2
  <2>12. \A v \in Sessions \ {t} : Hears(S, v) =>
         /\ T.told[v] = S.told[v] \ K
         /\ T.seen[v] = IF S.chan[v] = c THEN S.seen[v] \ ended ELSE S.seen[v]
    <3>1. \A v \in Sessions \ {t} : T.told[v] = D.told[v] /\ T.seen[v] = D.seen[v]
      BY <2>1 DEF ShutOut
    <3>2. \A v \in Sessions \ {t} : Hears(S, v) =>
            /\ D.told[v] = S.told[v] \ K
            /\ D.seen[v] = IF S.chan[v] = c THEN S.seen[v] \ ended ELSE S.seen[v]
      BY <1>a DEF Parted
    <3> QED
      BY <3>1, <3>2
  <2>13. ~Hears(T, t) /\ (T.conn[t] = "new" <=> S.conn[t] = "new")
    BY <2>3, <2>6 DEF Hears
  <2>14. Removed(S, T, t, c, ended, K)
    BY <2>3, <2>4, <2>5, <2>6, <2>7, <2>9, <2>10, <2>11, <2>12, <2>13 DEF Removed
  <2> QED
    BY <2>8, <2>14
<1>6. ASSUME InMap(S, t), c # NoChannel PROVE ~StaysPresent(S, t, u, c)
  <2>1. \A v \in Members(S, c) \ {t} : S.user[v] # u
    BY <1>1, <1>6, SessionIs DEF Members, GetSessions
  <2> QED
    BY <1>4, <1>6, <2>1, PresenceIs
<1>7. CASE StaysPresent(S, t, u, c)
  <2>1. Parted(S, D, t, u, c, {}, {})
    BY <1>3, <1>4, <1>7, PartedIs
  <2>2. KeepsPresence(S, t, {}, {})
    BY <1>2, <1>6, <1>7 DEF KeepsPresence
  <2>3. Sound(T, P \ {}, A)
    BY <1>a, <2>1, <2>2, RemovedSound
  <2>4. Sound(T, P, A)
    BY <2>3, SoundGrows
  <2> QED
    BY <1>a, <2>1, <2>4
<1>8. CASE ~StaysPresent(S, t, u, c)
  <2>1. Parted(S, D, t, u, c, StreamsOf(u), {<<u, c>>})
    BY <1>3, <1>4, <1>8, PartedIs
  <2>2. EndsPresence(S, t, u, c, StreamsOf(u), {<<u, c>>})
    BY <1>1, <1>2, <1>4, <1>8, PresenceIs DEF EndsPresence
  <2>3. Sound(T, P \ {<<u, c>>}, A)
    BY <1>a, <2>1, <2>2, RemovedSound
  <2>4. Sound(T, P, A)
    BY <2>3, SoundGrows
  <2> QED
    BY <1>a, <2>1, <2>4
<1> QED
  BY <1>7, <1>8

-----------------------------------------------------------------------------
(* LeaveChannel by the session the index names, in the map or not.         *)
LEMMA LeaveSound ==
    ASSUME NEW S, NEW P, NEW A, Sound(S, P, A), NEW s \in Sessions, S.auth[s],
           S.index[S.user[s]] = s, S.chan[s] # NoChannel, NEW T, T = LeaveChannel(S, s)
    PROVE  /\ Sound(T, P, A) /\ T.conn = S.conn /\ T.auth = S.auth /\ T.user = S.user
           /\ T.index = S.index /\ T.authed = S.authed /\ T.channels = S.channels
           /\ T.chan = [S.chan EXCEPT ![s] = NoChannel]
<1>1. PICK u : u = S.user[s]
  OBVIOUS
<1>2. PICK c : c = S.chan[s]
  OBVIOUS
<1>3. S \in Server /\ u \in Users /\ c \in Channels /\ NoSession \notin Sessions
  BY <1>1, <1>2, FieldTypes, ServerAssumption DEF Sound, ChannelNeedsLogin
<1>4. PICK X : X = StopAllVideoStreams(S, c, u)
  OBVIOUS
<1>5. PICK Y : Y = ClearViewerSubscriptions(X, s)
  OBVIOUS
<1>6. PICK Z : Z = [Y EXCEPT !.chan[s] = NoChannel]
  OBVIOUS
<1>7. T = UserLeft(Z, s, u, c)
  BY <1>1, <1>2, <1>4, <1>5, <1>6 DEF LeaveChannel
<1>8. Stopped(S, X, c, u, StreamsOf(u))
  BY <1>3, <1>4, StopIs DEF StopAllVideoStreams
<1>9. Cleared(X, Y, s)
  BY <1>5, <1>8, ClearIs DEF Stopped
<1>10. /\ Z \in Server /\ Z.conn = Y.conn /\ Z.auth = Y.auth /\ Z.user = Y.user
       /\ Z.chan = [Y.chan EXCEPT ![s] = NoChannel]
       /\ Z.index = Y.index /\ Z.authed = Y.authed /\ Z.channels = Y.channels
       /\ Z.streams = Y.streams /\ Z.allowed = Y.allowed /\ Z.subs = Y.subs
       /\ Z.told = Y.told /\ Z.seen = Y.seen
  <2> DEFINE chan == [Y.chan EXCEPT ![s] = NoChannel]
  <2>1. Y \in Server
    BY <1>9 DEF Cleared
  <2>2. chan \in [Sessions -> Channels \cup {NoChannel}]
    BY <2>1, FieldTypes
  <2>3. Z = [Y EXCEPT !.chan = chan]
    BY <1>6
  <2> HIDE DEF chan
  <2>4. /\ Z \in Server /\ Z.conn = Y.conn /\ Z.auth = Y.auth /\ Z.user = Y.user
        /\ Z.chan = chan
        /\ Z.index = Y.index /\ Z.authed = Y.authed /\ Z.channels = Y.channels
        /\ Z.streams = Y.streams /\ Z.allowed = Y.allowed /\ Z.subs = Y.subs
        /\ Z.told = Y.told /\ Z.seen = Y.seen
    BY <2>1, <2>2, <2>3 DEF Server
  <2> QED
    BY <2>4 DEF chan
<1>11. Noticed(Z, T, s, u, c)
  BY <1>3, <1>7, <1>10, UserLeftIs
<1>12. /\ T \in Server /\ T.conn = S.conn /\ T.auth = S.auth /\ T.user = S.user
       /\ T.index = S.index /\ T.authed = S.authed /\ T.channels = S.channels
       /\ Z.conn = S.conn /\ Z.auth = S.auth /\ T.chan = Z.chan
       /\ Z.chan = [S.chan EXCEPT ![s] = NoChannel]
       /\ T.streams = X.streams /\ T.allowed = X.allowed /\ T.subs = Y.subs
       /\ Z.told = S.told /\ Z.seen = X.seen
  BY <1>8, <1>9, <1>10, <1>11 DEF Stopped, Cleared, Noticed, SamePlaces
<1>13. T.chan[s] = NoChannel /\ Z.chan[s] = NoChannel
       /\ \A v \in Sessions \ {s} : T.chan[v] = S.chan[v] /\ Z.chan[v] = S.chan[v]
  BY <1>3, <1>12, FieldTypes
<1>14. \A v : (InMap(T, v) <=> InMap(S, v)) /\ (Hears(T, v) <=> Hears(S, v))
              /\ (Hears(Z, v) <=> Hears(S, v))
  BY <1>12 DEF InMap, Hears
<1>15. \A d \in Channels : T.streams[d] = IF d = c THEN S.streams[d] \ StreamsOf(u) ELSE S.streams[d]
  BY <1>8, <1>12 DEF Stopped
<1>16. \A v \in Sessions :
         /\ T.allowed[v] \subseteq S.allowed[v]
         /\ T.subs[v] = IF v = s THEN {} ELSE X.subs[v]
         /\ X.subs[v] = IF InMap(S, v) THEN S.subs[v] \ (S.streams[c] \cap StreamsOf(u)) ELSE S.subs[v]
  <2>4. T.allowed = X.allowed /\ T.subs = Y.subs
    BY <1>12
  <2> SUFFICES ASSUME NEW v \in Sessions
               PROVE  /\ X.allowed[v] \subseteq S.allowed[v]
                      /\ Y.subs[v] = IF v = s THEN {} ELSE X.subs[v]
                      /\ X.subs[v] = IF InMap(S, v)
                                     THEN S.subs[v] \ (S.streams[c] \cap StreamsOf(u)) ELSE S.subs[v]
    BY <2>4
  <2>1. X.allowed[v] \subseteq S.allowed[v]
    BY <1>8 DEF Stopped
  <2>2. Y.subs[v] = IF v = s THEN {} ELSE X.subs[v]
    BY <1>9 DEF Cleared
  <2>3. X.subs[v] = IF InMap(S, v)
                    THEN S.subs[v] \ (S.streams[c] \cap StreamsOf(u)) ELSE S.subs[v]
    BY <1>8 DEF Stopped
  <2> QED
    BY <2>1, <2>2, <2>3
<1>17. ASSUME InMap(S, s) PROVE T.allowed[s] = {}
  <2>1. SessionForUser(S, u) = s
    BY <1>1, <1>17, SessionIs
  <2>4. X.allowed[s] = S.allowed[s] \ {st[2] : st \in S.streams[c] \cap StreamsOf(u)}
    BY <1>8, <2>1 DEF Stopped
  <2>2. T.allowed[s] = S.allowed[s] \ {st[2] : st \in S.streams[c] \cap StreamsOf(u)}
    BY <1>12, <2>4
  <2>3. ASSUME NEW src \in S.allowed[s] PROVE src \in {st[2] : st \in S.streams[c] \cap StreamsOf(u)}
    <3>1. <<u, src>> \in S.streams[c] /\ src \in Sources
      BY <1>1, <1>2, <1>3, <1>17, FieldTypes DEF Sound, SourcesRegistered, GetSessions
    <3>2. <<u, src>> \in StreamsOf(u) /\ <<u, src>>[2] = src
      BY <3>1 DEF StreamsOf
    <3> QED
      BY <3>1, <3>2
  <2> QED
    BY <2>2, <2>3
<1>18. ASSUME NEW v \in Sessions, InMap(S, v), S.chan[v] = c
       PROVE  T.subs[v] \cap StreamsOf(u) = {}
  <2>1. S.subs[v] \subseteq S.streams[c]
    BY <1>18 DEF Sound, WatchedRunHere, GetSessions
  <2> QED
    BY <1>16, <1>18, <2>1
<1>19. ASSUME NEW v \in Sessions \ {s}, Hears(S, v)
       PROVE  /\ T.told[v] = S.told[v] \ {<<u, c>>}
              /\ T.seen[v] = IF S.chan[v] = c THEN S.seen[v] \ StreamsOf(u) ELSE S.seen[v]
  <2>1. X.seen[v] = IF S.chan[v] = c THEN S.seen[v] \ (S.streams[c] \cap StreamsOf(u)) ELSE S.seen[v]
    BY <1>8, <1>19 DEF Stopped
  <2>2. T.told[v] = Z.told[v] \ {<<u, c>>}
    BY <1>11, <1>14, <1>19 DEF Noticed
  <2>3. T.seen[v] = IF S.chan[v] = c THEN Z.seen[v] \ StreamsOf(u) ELSE Z.seen[v]
    BY <1>11, <1>13, <1>14, <1>19 DEF Noticed
  <2>4. Z.told = S.told /\ Z.seen = X.seen
    BY <1>12
  <2>5. T.told[v] = S.told[v] \ {<<u, c>>}
    BY <2>2, <2>4
  <2>6. S.chan[v] = c =>
          T.seen[v] = (S.seen[v] \ (S.streams[c] \cap StreamsOf(u))) \ StreamsOf(u)
    BY <2>1, <2>3, <2>4
  <2>7. S.chan[v] = c => T.seen[v] = S.seen[v] \ StreamsOf(u)
    BY <2>6
  <2>8. S.chan[v] # c => T.seen[v] = S.seen[v]
    BY <2>1, <2>3, <2>4
  <2> QED
    BY <2>5, <2>7, <2>8
<1>20. Hears(T, s) => T.told[s] = S.told[s]
  <2>1. T.told[s] = Z.told[s]
    BY <1>11 DEF Noticed
  <2> QED
    BY <1>12, <2>1
<1>21. \A w \in Users : T.index[w] = s => T.auth[s]
  BY <1>12
<1>22. Removed(S, T, s, c, StreamsOf(u), {<<u, c>>})
  <2>1. \A v \in Sessions : T.subs[v] \subseteq S.subs[v]
    BY <1>16
  <2> QED
    BY <1>12, <1>13, <1>14, <1>15, <1>16, <1>17, <1>18, <1>19, <1>20, <1>21, <2>1 DEF Removed
<1>23. EndsPresence(S, s, u, c, StreamsOf(u), {<<u, c>>})
  <2>1. ASSUME NEW v \in Members(S, c) \ {s} PROVE S.user[v] # u
    <3>1. v \in Sessions /\ InMap(S, v) /\ S.auth[v]
      BY DEF Members, GetSessions
    <3>2. S.index[S.user[v]] = v
      BY <3>1, SessionIs
    <3> QED
      BY <1>1, <3>2
  <2> QED
    BY <1>1, <1>2, <2>1 DEF EndsPresence
<1>24. Sound(T, P, A)
  <2>1. Sound(T, P \ {<<u, c>>}, A)
    BY <1>22, <1>23, RemovedSound
  <2> QED
    BY <2>1, SoundGrows
<1> QED
  BY <1>12, <1>24

-----------------------------------------------------------------------------
(* The second half of CHANNEL_JOIN: session s of user u enters channel c.  *)
Entered(L, T, s, u, c) ==
    /\ T \in Server /\ T.conn = L.conn /\ T.auth = L.auth /\ T.user = L.user
    /\ T.index = L.index /\ T.authed = L.authed /\ T.channels = L.channels
    /\ T.streams = L.streams /\ T.allowed = L.allowed /\ T.subs = L.subs
    /\ \A v \in Sessions : T.chan[v] = IF v = s THEN c ELSE L.chan[v]
    /\ \A v \in Sessions \ {s} :
         /\ T.seen[v] = L.seen[v]
         /\ Hears(L, v) => T.told[v] = L.told[v] \cup {<<u, c>>}
    /\ Hears(L, s) =>
         /\ T.told[s] = {p \in L.told[s] : p[2] # c} \cup InRoster(T, c)
         /\ T.seen[s] = (IF L.chan[s] = c THEN L.seen[s] ELSE {}) \cup ReplayedStreams(L, c)

Enter(L, s, u, c) ==
    LET J == [L EXCEPT !.chan[s] = c]
        kept == IF L.chan[s] = c THEN J.seen[s] ELSE {}
        T == IF ~Hears(J, s) THEN J
             ELSE [J EXCEPT
                     !.told[s] = {p \in @ : p[2] # c} \cup InRoster(J, c),
                     !.seen[s] = kept \cup ReplayedStreams(J, c)]
    IN  UserJoined(T, s, u, c)

(* What entering a channel changes, field by field.                        *)
LEMMA EnteredIs ==
    ASSUME NEW L, NEW P, NEW A, Sound(L, P, A), NEW s \in Sessions, NEW u \in Users,
           NEW c \in Channels, NEW T, T = Enter(L, s, u, c)
    PROVE  Entered(L, T, s, u, c)
<1>0. L \in Server
  BY DEF Sound
<1>1. PICK J : J = [L EXCEPT !.chan[s] = c]
  OBVIOUS
<1>2. /\ J \in Server /\ J.conn = L.conn /\ J.auth = L.auth /\ J.user = L.user
      /\ J.index = L.index /\ J.authed = L.authed /\ J.channels = L.channels
      /\ J.streams = L.streams /\ J.allowed = L.allowed /\ J.subs = L.subs
      /\ J.told = L.told /\ J.seen = L.seen
      /\ \A v \in Sessions : J.chan[v] = IF v = s THEN c ELSE L.chan[v]
  <2> DEFINE chan == [L.chan EXCEPT ![s] = c]
  <2>1. /\ chan \in [Sessions -> Channels \cup {NoChannel}]
        /\ \A v \in Sessions : chan[v] = IF v = s THEN c ELSE L.chan[v]
    BY <1>0, FieldTypes
  <2>2. J = [L EXCEPT !.chan = chan]
    BY <1>1
  <2> HIDE DEF chan
  <2>3. /\ J \in Server /\ J.conn = L.conn /\ J.auth = L.auth /\ J.user = L.user
        /\ J.index = L.index /\ J.authed = L.authed /\ J.channels = L.channels
        /\ J.streams = L.streams /\ J.allowed = L.allowed /\ J.subs = L.subs
        /\ J.told = L.told /\ J.seen = L.seen /\ J.chan = chan
    BY <1>0, <2>1, <2>2 DEF Server
  <2> QED
    BY <2>1, <2>3
<1>3. \A v : (Hears(J, v) <=> Hears(L, v)) /\ (InMap(J, v) <=> InMap(L, v))
  BY <1>2 DEF Hears, InMap
<1>4. ReplayedStreams(J, c) = ReplayedStreams(L, c)
  BY <1>2, <1>3 DEF ReplayedStreams, SessionForUser
<1>5. PICK shows : shows = {p \in J.told[s] : p[2] # c} \cup InRoster(J, c)
  OBVIOUS
<1>6. PICK plays : plays = (IF L.chan[s] = c THEN J.seen[s] ELSE {}) \cup ReplayedStreams(J, c)
  OBVIOUS
<1>7. PICK W : W = IF ~Hears(J, s) THEN J ELSE [J EXCEPT !.told[s] = shows, !.seen[s] = plays]
  OBVIOUS
<1>8. T = UserJoined(W, s, u, c)
  BY <1>1, <1>5, <1>6, <1>7 DEF Enter
<1>9. shows \in Roster /\ plays \in SUBSET Streams
  <2>1. J.told[s] \in Roster /\ J.seen[s] \in SUBSET Streams /\ J.streams[c] \in SUBSET Streams
    BY <1>2, FieldTypes
  <2>2. InRoster(J, c) \subseteq Users \X Channels
    <3>1. \A v \in Sessions : J.auth[v] => J.user[v] \in Users
      BY <1>2 DEF Sound, ChannelNeedsLogin
    <3> QED
      BY <3>1 DEF InRoster, Members, GetSessions
  <2>3. ReplayedStreams(J, c) \subseteq J.streams[c]
    BY DEF ReplayedStreams
  <2>4. shows \subseteq Users \X Channels
    BY <1>5, <2>1, <2>2 DEF Roster
  <2> QED
    BY <1>6, <2>1, <2>3, <2>4 DEF Roster
<1>10. /\ W \in Server /\ SamePlaces(J, W)
       /\ W.index = J.index /\ W.authed = J.authed /\ W.channels = J.channels
       /\ W.streams = J.streams /\ W.allowed = J.allowed /\ W.subs = J.subs
       /\ \A v \in Sessions : /\ W.told[v] = IF v = s /\ Hears(J, s) THEN shows ELSE J.told[v]
                              /\ W.seen[v] = IF v = s /\ Hears(J, s) THEN plays ELSE J.seen[v]
  <2>1. CASE ~Hears(J, s)
    BY <1>2, <1>7, <2>1 DEF SamePlaces
  <2>2. CASE Hears(J, s)
    <3> DEFINE told == [J.told EXCEPT ![s] = shows]
               seen == [J.seen EXCEPT ![s] = plays]
    <3>1. /\ told \in [Sessions -> Roster] /\ seen \in [Sessions -> SUBSET Streams]
          /\ \A v \in Sessions : told[v] = IF v = s THEN shows ELSE J.told[v]
          /\ \A v \in Sessions : seen[v] = IF v = s THEN plays ELSE J.seen[v]
      BY <1>2, <1>9, FieldTypes
    <3>2. W = [J EXCEPT !.told = told, !.seen = seen]
      BY <1>7, <2>2
    <3> HIDE DEF told, seen
    <3>3. /\ W \in Server /\ SamePlaces(J, W)
          /\ W.index = J.index /\ W.authed = J.authed /\ W.channels = J.channels
          /\ W.streams = J.streams /\ W.allowed = J.allowed /\ W.subs = J.subs
          /\ W.told = told /\ W.seen = seen
      BY <1>2, <3>1, <3>2 DEF Server, SamePlaces
    <3> QED
      BY <2>2, <3>1, <3>3
  <2> QED
    BY <2>1, <2>2
<1>11. Welcomed(W, T, s, u, c)
  BY <1>8, <1>10, UserJoinedIs
<1>12. SamePlaces(J, W) /\ SamePlaces(J, T)
  BY <1>10, <1>11 DEF Welcomed, SamePlaces
<1>13. InRoster(T, c) = InRoster(J, c) /\ \A v : Hears(W, v) <=> Hears(L, v)
  BY <1>3, <1>12, SamePlacesSame
<1>14. /\ T \in Server /\ T.conn = L.conn /\ T.auth = L.auth /\ T.user = L.user
       /\ T.index = L.index /\ T.authed = L.authed /\ T.channels = L.channels
       /\ T.streams = L.streams /\ T.allowed = L.allowed /\ T.subs = L.subs
       /\ T.chan = J.chan /\ T.seen = W.seen
  BY <1>2, <1>10, <1>11, <1>12 DEF Welcomed, SamePlaces
<1>15. ASSUME NEW v \in Sessions \ {s}
       PROVE  /\ T.seen[v] = L.seen[v]
              /\ Hears(L, v) => T.told[v] = L.told[v] \cup {<<u, c>>}
  <2>1. W.told[v] = L.told[v] /\ W.seen[v] = L.seen[v]
    BY <1>2, <1>10
  <2>2. Hears(L, v) => T.told[v] = W.told[v] \cup {<<u, c>>}
    BY <1>11, <1>13 DEF Welcomed
  <2> QED
    BY <1>14, <2>1, <2>2
<1>16. ASSUME Hears(L, s) PROVE T.told[s] = shows /\ T.seen[s] = plays
  <2>1. T.told[s] = W.told[s]
    BY <1>11 DEF Welcomed
  <2> QED
    BY <1>3, <1>10, <1>14, <1>16, <2>1
<1>17. /\ shows = {p \in L.told[s] : p[2] # c} \cup InRoster(T, c)
       /\ plays = (IF L.chan[s] = c THEN L.seen[s] ELSE {}) \cup ReplayedStreams(L, c)
  BY <1>2, <1>4, <1>5, <1>6, <1>13
<1>18. \A v \in Sessions : T.chan[v] = IF v = s THEN c ELSE L.chan[v]
  BY <1>2, <1>14
<1> QED
  BY <1>14, <1>15, <1>16, <1>17, <1>18 DEF Entered

(* Users of whom the others were told when s entered, or were not.         *)
Untold(S, s, u, c, A) == IF InMap(S, s) THEN A \ {<<u, c>>} ELSE A \cup {<<u, c>>}

(* Entering a channel keeps the invariant.                                 *)
LEMMA EnterSound ==
    ASSUME NEW L, NEW P, NEW A, Sound(L, P, A), NEW s \in Sessions, L.auth[s],
           NEW u, u = L.user[s], L.index[u] = s, NEW c \in L.channels,
           L.chan[s] \in {NoChannel, c}, NEW T, T = Enter(L, s, u, c)
    PROVE  Sound(T, P, Untold(L, s, u, c, A))
<1>0. L \in Server /\ NoSession \notin Sessions /\ NoChannel \notin Channels /\ u \in Users
      /\ c \in Channels /\ c # NoChannel
  BY FieldTypes, ServerAssumption DEF Sound, ChannelNeedsLogin
<1>1. Entered(L, T, s, u, c)
  BY <1>0, EnteredIs
<1>2. /\ T \in Server /\ T.conn = L.conn /\ T.auth = L.auth /\ T.user = L.user
      /\ T.index = L.index /\ T.authed = L.authed /\ T.channels = L.channels
      /\ T.streams = L.streams /\ T.allowed = L.allowed /\ T.subs = L.subs
      /\ \A v \in Sessions : T.chan[v] = IF v = s THEN c ELSE L.chan[v]
  BY <1>1 DEF Entered
<1>3. /\ \A v : (InMap(T, v) <=> InMap(L, v)) /\ (Hears(T, v) <=> Hears(L, v))
      /\ GetSessions(T) = GetSessions(L) /\ GetSessions(L) \subseteq Sessions
  BY <1>2 DEF InMap, Hears, GetSessions
<1>4. \A d \in Channels : \A w : <<w, d>> \in InRoster(T, d) <=>
        <<w, d>> \in InRoster(L, d) \/ (InMap(L, s) /\ w = u /\ d = c)
  <2> SUFFICES ASSUME NEW d \in Channels, NEW w
               PROVE  <<w, d>> \in InRoster(T, d) <=>
                        <<w, d>> \in InRoster(L, d) \/ (InMap(L, s) /\ w = u /\ d = c)
    OBVIOUS
  <2>1. <<w, d>> \in InRoster(T, d) <=>
          \E v \in Sessions : InMap(L, v) /\ L.auth[v] /\ T.chan[v] = d /\ L.user[v] = w
    BY <1>2, <1>3, RosterIs
  <2>2. <<w, d>> \in InRoster(L, d) <=>
          \E v \in Sessions : InMap(L, v) /\ L.auth[v] /\ L.chan[v] = d /\ L.user[v] = w
    BY RosterIs
  <2>3. d # NoChannel
    BY <1>0
  <2> QED
    BY <1>2, <2>1, <2>2, <2>3
<1>5. IndexNamesSession(T) /\ SignedInIsIndexed(T) /\ AuthedIsSignedIn(T)
  BY <1>2, <1>3 DEF Sound, IndexNamesSession, SignedInIsIndexed, AuthedIsSignedIn
<1>6. ChannelNeedsLogin(T)
  BY <1>2 DEF Sound, ChannelNeedsLogin
<1>7. ASSUME NEW v \in GetSessions(L), NEW src \in L.allowed[v]
      PROVE  /\ v \in Sessions /\ L.auth[v] /\ L.chan[v] \in Channels /\ T.chan[v] = L.chan[v]
             /\ <<L.user[v], src>> \in L.streams[L.chan[v]]
  <2>1. v \in Sessions /\ L.chan[v] # NoChannel /\ <<L.user[v], src>> \in L.streams[L.chan[v]]
    BY <1>3, <1>7 DEF Sound, SourcesRegistered
  <2>2. L.auth[v] /\ L.chan[v] \in Channels
    BY <1>0, <2>1, FieldTypes DEF Sound, ChannelNeedsLogin
  <2> QED
    BY <1>2, <2>1, <2>2
<1>8. SourcesRegistered(T)
  <2> SUFFICES ASSUME NEW v \in GetSessions(L), NEW src \in L.allowed[v]
               PROVE  T.chan[v] # NoChannel /\ <<L.user[v], src>> \in L.streams[T.chan[v]]
    BY <1>2, <1>3 DEF SourcesRegistered
  <2> QED
    BY <1>0, <1>7
<1>9. WatchedRunHere(T)
  <2> SUFFICES ASSUME NEW v \in GetSessions(L), L.subs[v] # {}
               PROVE  T.chan[v] # NoChannel /\ L.subs[v] \subseteq L.streams[T.chan[v]]
    BY <1>2, <1>3 DEF WatchedRunHere
  <2>1. v \in Sessions /\ L.chan[v] # NoChannel /\ L.subs[v] \subseteq L.streams[L.chan[v]]
    BY <1>3 DEF Sound, WatchedRunHere
  <2>2. T.chan[v] = L.chan[v]
    BY <1>2, <2>1
  <2> QED
    BY <2>1, <2>2
<1>10. Published(T, P)
  <2> SUFFICES ASSUME NEW d \in Channels, NEW st \in L.streams[d]
               PROVE  <<Owner(st), d>> \in InRoster(T, d) \cup P
    BY <1>2 DEF Published
  <2>1. <<Owner(st), d>> \in InRoster(L, d) \cup P
    BY DEF Sound, Published
  <2> QED
    BY <1>4, <2>1
<1>11. RosterTold(T, P, Untold(L, s, u, c, A))
  <2>0. PICK B : B = Untold(L, s, u, c, A)
    OBVIOUS
  <2>7. T.user = L.user /\ T.channels = L.channels /\ \A v \in Sessions : Hears(T, v) => Hears(L, v)
    BY <1>2, <1>3
  <2> SUFFICES RosterTold(T, P, B)
    BY <2>0
  <2> SUFFICES ASSUME NEW v \in Sessions, Hears(T, v), NEW w \in Users \ {T.user[v]},
                      NEW d \in T.channels
               PROVE  /\ <<w, d>> \in InRoster(T, d) \ B => <<w, d>> \in T.told[v]
                      /\ <<w, d>> \in T.told[v] => <<w, d>> \in InRoster(T, d) \cup B \cup P
    BY DEF RosterTold
  <2>1. d \in Channels /\ Hears(L, v) /\ w \in Users \ {L.user[v]} /\ d \in L.channels
    BY <1>0, <2>7, FieldTypes
  <2>2. /\ <<w, d>> \in InRoster(L, d) \ A => <<w, d>> \in L.told[v]
        /\ <<w, d>> \in L.told[v] => <<w, d>> \in InRoster(L, d) \cup A \cup P
    BY <2>1 DEF Sound, RosterTold
  <2>3. <<w, d>> \in InRoster(T, d) <=>
          <<w, d>> \in InRoster(L, d) \/ (InMap(L, s) /\ w = u /\ d = c)
    BY <1>4, <2>1
  <2>4. IF w = u /\ d = c THEN <<w, d>> \in B <=> ~InMap(L, s)
        ELSE <<w, d>> \in B <=> <<w, d>> \in A
    BY <2>0 DEF Untold
  <2>5. CASE v # s
    <3>1. T.told[v] = L.told[v] \cup {<<u, c>>}
      BY <1>1, <2>1, <2>5 DEF Entered
    <3>2. <<w, d>> \in T.told[v] <=> <<w, d>> \in L.told[v] \/ (w = u /\ d = c)
      BY <3>1
    <3> QED
      BY <2>2, <2>3, <2>4, <3>2
  <2>6. CASE v = s
    <3>1. T.told[s] = {p \in L.told[s] : p[2] # c} \cup InRoster(T, c)
      BY <1>1, <2>1, <2>6 DEF Entered
    <3>2. w # u
      BY <2>1, <2>6
    <3>3. <<w, d>>[2] = d
      OBVIOUS
    <3>4. d # c => <<w, d>> \notin InRoster(T, c)
      BY DEF InRoster
    <3>5. <<w, d>> \in T.told[v] <=>
            IF d = c THEN <<w, d>> \in InRoster(T, d) ELSE <<w, d>> \in L.told[v]
      BY <2>6, <3>1, <3>3, <3>4
    <3> QED
      BY <2>2, <2>3, <2>4, <3>2, <3>5
  <2> QED
    BY <2>5, <2>6
<1>12. StreamsTold(T)
  <2> SUFFICES ASSUME NEW v \in Sessions, Hears(L, v), T.chan[v] # NoChannel
               PROVE  /\ T.seen[v] \subseteq L.streams[T.chan[v]]
                      /\ \A m \in Members(T, T.chan[v]) : \A src \in L.allowed[m] :
                           <<L.user[m], src>> \in T.seen[v]
    <3>1. T.streams = L.streams /\ T.allowed = L.allowed /\ T.user = L.user
      BY <1>2
    <3>2. \A v \in Sessions : Hears(T, v) <=> Hears(L, v)
      BY <1>3
    <3> QED
      BY <3>1, <3>2 DEF StreamsTold
  <2>1. ASSUME NEW m \in Members(T, T.chan[v]), NEW src \in L.allowed[m]
        PROVE  /\ m \in Sessions /\ InMap(L, m) /\ L.auth[m] /\ L.chan[m] = T.chan[v]
               /\ <<L.user[m], src>> \in L.streams[T.chan[v]]
    <3>1. m \in GetSessions(L) /\ T.chan[m] = T.chan[v]
      BY <1>3 DEF Members
    <3>2. InMap(L, m)
      BY <3>1 DEF GetSessions
    <3> QED
      BY <1>7, <2>1, <3>1, <3>2
  <2>2. CASE v # s
    <3>1. T.seen[v] = L.seen[v] /\ T.chan[v] = L.chan[v]
      BY <1>1, <1>2, <2>2 DEF Entered
    <3>2. /\ L.seen[v] \subseteq L.streams[L.chan[v]]
          /\ \A m \in Members(L, L.chan[v]) : \A src \in L.allowed[m] :
               <<L.user[m], src>> \in L.seen[v]
      BY <3>1 DEF Sound, StreamsTold
    <3>3. ASSUME NEW m \in Members(T, T.chan[v]), NEW src \in L.allowed[m]
          PROVE  m \in Members(L, L.chan[v])
      BY <2>1, <3>1, <3>3 DEF Members, GetSessions
    <3> QED
      BY <3>1, <3>2, <3>3
  <2>3. CASE v = s
    <3>1. /\ T.chan[v] = c
          /\ T.seen[v] = (IF L.chan[s] = c THEN L.seen[s] ELSE {}) \cup ReplayedStreams(L, c)
      BY <1>1, <1>2, <2>3 DEF Entered
    <3>2. L.chan[s] = c => L.seen[s] \subseteq L.streams[c]
      BY <1>0, <2>3 DEF Sound, StreamsTold
    <3>3. ReplayedStreams(L, c) \subseteq L.streams[c]
      BY DEF ReplayedStreams
    <3>4. ASSUME NEW m \in Members(T, c), NEW src \in L.allowed[m]
          PROVE  <<L.user[m], src>> \in ReplayedStreams(L, c)
      <4>1. /\ m \in Sessions /\ InMap(L, m) /\ L.auth[m]
            /\ <<L.user[m], src>> \in L.streams[c]
        BY <2>1, <3>1, <3>4
      <4>2. SessionForUser(L, L.user[m]) = m
        BY <4>1, SessionIs
      <4>3. Owner(<<L.user[m], src>>) = L.user[m] /\ m # NoSession
        BY <1>0, <4>1 DEF Owner
      <4> QED
        BY <4>1, <4>2, <4>3 DEF ReplayedStreams
    <3> QED
      BY <3>1, <3>2, <3>3, <3>4
  <2> QED
    BY <2>2, <2>3
<1> QED
  BY <1>2, <1>5, <1>6, <1>8, <1>9, <1>10, <1>11, <1>12 DEF Sound

(* CHANNEL_JOIN.                                                           *)
LEMMA JoinSound ==
    ASSUME NEW S, NEW P, NEW A, Sound(S, P, A), NEW s \in Sessions, S.auth[s],
           S.index[S.user[s]] = s, NEW c \in S.channels, NEW T, T = ChannelJoin(S, s, c)
    PROVE  /\ Sound(T, P, Untold(S, s, S.user[s], c, A))
           /\ T.conn = S.conn /\ T.authed = S.authed
<1>0. S \in Server /\ c \in Channels /\ NoChannel \notin Channels /\ S.user[s] \in Users
  BY FieldTypes, ServerAssumption DEF Sound, ChannelNeedsLogin
<1>1. PICK L : L = IF S.chan[s] \notin {NoChannel, c} THEN LeaveChannel(S, s) ELSE S
  OBVIOUS
<1>2. /\ Sound(L, P, A) /\ L.conn = S.conn /\ L.auth = S.auth /\ L.user = S.user
      /\ L.index = S.index /\ L.authed = S.authed /\ L.channels = S.channels
      /\ L.chan[s] \in {NoChannel, c} /\ (L.chan[s] = c <=> S.chan[s] = c)
  <2>1. CASE S.chan[s] \notin {NoChannel, c}
    <3>1. /\ Sound(L, P, A) /\ L.conn = S.conn /\ L.auth = S.auth /\ L.user = S.user
          /\ L.index = S.index /\ L.authed = S.authed /\ L.channels = S.channels
          /\ L.chan = [S.chan EXCEPT ![s] = NoChannel]
      BY <1>1, <2>1, LeaveSound
    <3>2. L.chan[s] = NoChannel
      BY <1>0, <3>1, FieldTypes
    <3> QED
      BY <1>0, <2>1, <3>1, <3>2
  <2>2. CASE S.chan[s] \in {NoChannel, c}
    BY <1>1, <2>2
  <2> QED
    BY <2>1, <2>2
<1>3. T = Enter(L, s, L.user[s], c)
  BY <1>1, <1>2 DEF ChannelJoin, Enter
<1>4. Sound(T, P, Untold(L, s, L.user[s], c, A))
  BY <1>2, <1>3, EnterSound
<1>5. InMap(L, s) <=> InMap(S, s)
  BY <1>2 DEF InMap
<1>6. Untold(L, s, L.user[s], c, A) = Untold(S, s, S.user[s], c, A)
  BY <1>2, <1>5 DEF Untold
<1>7. Entered(L, T, s, L.user[s], c)
  BY <1>0, <1>2, <1>3, EnteredIs
<1>8. T.conn = S.conn /\ T.authed = S.authed
  BY <1>2, <1>7 DEF Entered
<1> QED
  BY <1>4, <1>6, <1>8

-----------------------------------------------------------------------------
(* The kick loop of AUTH_IDENTITY is a fold over the duplicates; g is the  *)
(* recursion it stands for.  It is well defined because every intermediate *)
(* state is sound, which the function h of FoldExists needs in turn.       *)
KickFold(S, D, g) ==
    g = [s \in SUBSET D |-> IF s = {} THEN S ELSE KickDuplicate(First(s), g[s \ {First(s)}])]

(* AUTH_IDENTITY is a sign-in after the recursion.                         *)
LEMMA KickFoldIs ==
    ASSUME NEW S, NEW D
    PROVE  FoldSet(KickDuplicate, S, D) = (CHOOSE g : KickFold(S, D, g))[D]
BY DEF FoldSet, MapThenFoldSet, KickFold, First

(* The state after the sessions in T were kicked.                          *)
Kicked(S, Q, T, P, A) ==
    /\ Sound(Q, P, A) /\ Q.user = S.user /\ Q.authed \subseteq S.authed
    /\ \A t \in T : ~Q.auth[t]
    /\ \A v \in Sessions \ T : (Q.auth[v] <=> S.auth[v]) /\ Q.conn[v] = S.conn[v]
    /\ \A v \in Sessions : /\ (InMap(Q, v) <=> InMap(S, v))
                           /\ (Q.conn[v] = "gone" <=> S.conn[v] = "gone")

KicksInTurn(S, D, g) ==
    /\ g[{}] = S
    /\ \A T \in SUBSET D : T # {} /\ g[T \ {First(T)}] \in Server =>
         g[T] = KickDuplicate(First(T), g[T \ {First(T)}])

(* One more kick.                                                          *)
LEMMA KickedStep ==
    ASSUME NEW S, NEW P, NEW A, NEW T \in SUBSET Sessions, NEW x \in T, S.auth[x],
           NEW Q, Kicked(S, Q, T \ {x}, P, A), NEW R, R = KickDuplicate(x, Q)
    PROVE  Kicked(S, R, T, P, A)
<1>1. Sound(Q, P, A) /\ x \in Sessions \ (T \ {x})
  BY DEF Kicked
<1>2. Q.auth[x]
  BY <1>1 DEF Kicked
<1>3. Sound(R, P, A) /\ OnlyOut(Q, R, x)
  BY <1>1, <1>2, KickSound
<1>4. R.user = S.user /\ R.authed \subseteq S.authed
  BY <1>3 DEF Kicked, OnlyOut
<1>5. \A t \in T : ~R.auth[t]
  <2> SUFFICES ASSUME NEW t \in T, t # x PROVE ~R.auth[t]
    BY <1>3 DEF OnlyOut
  <2>1. t \in Sessions \ {x} /\ ~Q.auth[t]
    BY DEF Kicked
  <2> QED
    BY <1>3, <2>1 DEF OnlyOut
<1>6. ASSUME NEW v \in Sessions \ T PROVE (R.auth[v] <=> S.auth[v]) /\ R.conn[v] = S.conn[v]
  <2>1. v \in Sessions \ {x} /\ v \in Sessions \ (T \ {x})
    OBVIOUS
  <2> QED
    BY <1>3, <2>1 DEF OnlyOut, Kicked
<1>7. \A v \in Sessions : /\ (InMap(R, v) <=> InMap(S, v))
                          /\ (R.conn[v] = "gone" <=> S.conn[v] = "gone")
  BY <1>3 DEF OnlyOut, Kicked
<1> QED
  BY <1>3, <1>4, <1>5, <1>6, <1>7 DEF Kicked

(* By induction over the duplicates, their kicks keep the invariant.       *)
LEMMA KicksSound ==
    ASSUME NEW S, NEW P, NEW A, Sound(S, P, A), NEW D \in SUBSET Sessions,
           \A t \in D : S.auth[t], NEW g, KicksInTurn(S, D, g)
    PROVE  \A T \in SUBSET D : Kicked(S, g[T], T, P, A)
<1> DEFINE Good == {T \in SUBSET D : Kicked(S, g[T], T, P, A)}
<1>0. IsFiniteSet(D)
  BY ServerAssumption, FS_Subset
<1>1. ASSUME NEW T \in SUBSET D, \A x \in T : T \ {x} \in Good
      PROVE  T \in Good
  <2>1. CASE T = {}
    BY <2>1 DEF KicksInTurn, Kicked
  <2>2. CASE T # {}
    <3>1. PICK x : x = First(T)
      OBVIOUS
    <3>2. PICK Q : Q = g[T \ {x}]
      OBVIOUS
    <3>3. x \in T /\ S.auth[x] /\ T \in SUBSET Sessions
      BY <2>2, <3>1, FirstIn
    <3>4. Kicked(S, Q, T \ {x}, P, A)
      BY <1>1, <3>2, <3>3
    <3>5. Q \in Server
      BY <3>4 DEF Kicked, Sound
    <3>6. g[T] = KickDuplicate(x, Q)
      BY <2>2, <3>1, <3>2, <3>5 DEF KicksInTurn
    <3> QED
      BY <3>3, <3>4, <3>6, KickedStep
  <2> QED
    BY <2>1, <2>2
<1>2. Good = SUBSET D
  <2> HIDE DEF Good
  <2>1. Good \in SUBSET (SUBSET D)
    BY DEF Good
  <2> QED
    BY <1>0, <1>1, <2>1, SubsetInduction
<1> QED
  BY <1>2

(* The recursion exists, so the fold of the kick loop keeps it too.        *)
LEMMA KickLoopSound ==
    ASSUME NEW S, NEW P, NEW A, Sound(S, P, A), NEW D \in SUBSET Sessions,
           \A t \in D : S.auth[t]
    PROVE  Kicked(S, FoldSet(KickDuplicate, S, D), D, P, A)
<1>0. IsFiniteSet(D)
  BY ServerAssumption, FS_Subset
<1> DEFINE h == [p \in D \X Server |-> KickDuplicate(p[1], p[2])]
<1>1. PICK f : FoldsWith(h, S, SUBSET D, f)
  <2> HIDE DEF h
  <2> QED
    BY <1>0, FoldExists
<1>2. \A T \in SUBSET D : f[T] = IF T = {} THEN S ELSE h[<<First(T), f[T \ {First(T)}]>>]
  <2> HIDE DEF h
  <2> QED
    BY <1>1 DEF FoldsWith
<1>3. KicksInTurn(S, D, f)
  <2>1. f[{}] = S
    BY <1>2
  <2>2. ASSUME NEW T \in SUBSET D, T # {}, f[T \ {First(T)}] \in Server
        PROVE  f[T] = KickDuplicate(First(T), f[T \ {First(T)}])
    <3>1. PICK x : x = First(T)
      OBVIOUS
    <3>2. PICK Q : Q = f[T \ {x}]
      OBVIOUS
    <3>3. x \in D /\ Q \in Server /\ <<x, Q>> \in D \X Server
      BY <2>2, <3>1, <3>2, FirstIn
    <3>4. h[<<x, Q>>] = KickDuplicate(<<x, Q>>[1], <<x, Q>>[2])
      BY <3>3
    <3>5. <<x, Q>>[1] = x /\ <<x, Q>>[2] = Q
      OBVIOUS
    <3>6. f[T] = h[<<x, Q>>]
      <4> HIDE DEF h
      <4> QED
        BY <1>2, <2>2, <3>1, <3>2
    <3> HIDE DEF h
    <3> QED
      BY <3>1, <3>2, <3>4, <3>5, <3>6
  <2> QED
    BY <2>1, <2>2 DEF KicksInTurn
<1> HIDE DEF h
<1>4. \A T \in SUBSET D : Kicked(S, f[T], T, P, A)
  BY <1>3, KicksSound
<1>5. KickFold(S, D, f)
  <2>1. \A T \in SUBSET D : f[T] \in Server
    BY <1>4 DEF Kicked, Sound
  <2>2. \A T \in SUBSET D : f[T] = IF T = {} THEN S
                                   ELSE KickDuplicate(First(T), f[T \ {First(T)}])
    <3> SUFFICES ASSUME NEW T \in SUBSET D, T # {}
                 PROVE  f[T] = KickDuplicate(First(T), f[T \ {First(T)}])
      BY <1>2
    <3>1. T \ {First(T)} \in SUBSET D
      OBVIOUS
    <3> QED
      BY <1>3, <2>1, <3>1 DEF KicksInTurn
  <2>3. f = [T \in SUBSET D |-> f[T]]
    BY <1>1 DEF FoldsWith
  <2> QED
    BY <2>2, <2>3 DEF KickFold
<1>6. PICK g : g = CHOOSE k : KickFold(S, D, k)
  OBVIOUS
<1>7. KickFold(S, D, g)
  BY <1>5, <1>6
<1>8. KicksInTurn(S, D, g)
  <2>1. \A T \in SUBSET D : g[T] = IF T = {} THEN S
                                   ELSE KickDuplicate(First(T), g[T \ {First(T)}])
    BY <1>7 DEF KickFold
  <2> QED
    BY <2>1 DEF KicksInTurn
<1>9. Kicked(S, g[D], D, P, A)
  BY <1>8, KicksSound
<1> QED
  BY <1>6, <1>9, KickFoldIs

-----------------------------------------------------------------------------
(* The rest of AUTH_IDENTITY: session s signs in as user u, of whom no     *)
(* other session is left in the map.                                       *)
SignIn(K, s, u) ==
    LET T == [K EXCEPT !.auth[s] = TRUE, !.user[s] = u,
                       !.index[u] = s, !.authed = @ \cup {s}]
    IN  IF T.conn[s] # "open" THEN T
        ELSE [T EXCEPT !.told[s] = UNION {InRoster(T, c) : c \in T.channels},
                       !.seen[s] = {}]

SignedIn(K, T, s, u) ==
    /\ T \in Server /\ T.conn = K.conn /\ T.chan = K.chan /\ T.subs = K.subs
    /\ T.allowed = K.allowed /\ T.streams = K.streams /\ T.channels = K.channels
    /\ T.authed = K.authed \cup {s}
    /\ T.auth[s] /\ T.user[s] = u
    /\ \A v \in Sessions \ {s} : /\ (T.auth[v] <=> K.auth[v]) /\ T.user[v] = K.user[v]
                                 /\ T.told[v] = K.told[v] /\ T.seen[v] = K.seen[v]
    /\ \A w \in Users : T.index[w] = IF w = u THEN s ELSE K.index[w]
    /\ T.conn[s] = "open" => T.told[s] = UNION {InRoster(T, c) : c \in T.channels}

(* What the sign-in changes, field by field.                               *)
LEMMA SignedInIs ==
    ASSUME NEW K, NEW P, NEW A, Sound(K, P, A), NEW s \in Sessions, NEW u \in Users,
           NEW T, T = SignIn(K, s, u)
    PROVE  SignedIn(K, T, s, u)
<1>0. K \in Server
  BY DEF Sound
<1> DEFINE auth == [K.auth EXCEPT ![s] = TRUE]
           user == [K.user EXCEPT ![s] = u]
           index == [K.index EXCEPT ![u] = s]
           authed == K.authed \cup {s}
<1>1. /\ auth \in [Sessions -> BOOLEAN] /\ user \in [Sessions -> Users \cup {NoUser}]
      /\ index \in [Users -> Sessions \cup {NoSession}] /\ authed \in SUBSET Sessions
      /\ auth[s] /\ user[s] = u
      /\ \A v \in Sessions \ {s} : (auth[v] <=> K.auth[v]) /\ user[v] = K.user[v]
      /\ \A w \in Users : index[w] = IF w = u THEN s ELSE K.index[w]
  BY <1>0, FieldTypes
<1>2. PICK J : J = [K EXCEPT !.auth = auth, !.user = user, !.index = index, !.authed = authed]
  OBVIOUS
<1>3. J = [K EXCEPT !.auth[s] = TRUE, !.user[s] = u, !.index[u] = s, !.authed = @ \cup {s}]
  BY <1>2
<1>4. PICK shows : shows = UNION {InRoster(J, c) : c \in J.channels}
  OBVIOUS
<1>5. T = IF J.conn[s] # "open" THEN J ELSE [J EXCEPT !.told[s] = shows, !.seen[s] = {}]
  BY <1>3, <1>4 DEF SignIn
<1>6. authed = K.authed \cup {s}
  OBVIOUS
<1> HIDE DEF auth, user, index, authed
<1>7. /\ J \in Server /\ J.conn = K.conn /\ J.chan = K.chan /\ J.subs = K.subs
      /\ J.allowed = K.allowed /\ J.streams = K.streams /\ J.channels = K.channels
      /\ J.authed = authed /\ J.auth = auth /\ J.user = user /\ J.index = index
      /\ J.told = K.told /\ J.seen = K.seen
  BY <1>0, <1>1, <1>2 DEF Server
<1>8. shows \in Roster
  <2>1. ASSUME NEW c \in J.channels PROVE InRoster(J, c) \subseteq Users \X Channels
    <3>1. \A v \in Sessions : J.auth[v] => J.user[v] \in Users
      <4>1. \A v \in Sessions : K.auth[v] => K.user[v] \in Users
        BY DEF Sound, ChannelNeedsLogin
      <4> QED
        BY <1>1, <1>7, <4>1
    <3>2. c \in Channels
      BY <1>7, FieldTypes
    <3> QED
      BY <3>1, <3>2 DEF InRoster, Members, GetSessions
  <2> QED
    BY <1>4, <2>1 DEF Roster
<1>9. /\ T \in Server /\ SamePlaces(J, T) /\ T.subs = J.subs
      /\ T.allowed = J.allowed /\ T.streams = J.streams /\ T.channels = J.channels
      /\ T.authed = J.authed /\ T.index = J.index
      /\ \A v \in Sessions \ {s} : T.told[v] = J.told[v] /\ T.seen[v] = J.seen[v]
      /\ T.conn[s] = "open" => T.told[s] = shows
  <2>1. CASE J.conn[s] # "open"
    BY <1>5, <1>7, <2>1 DEF SamePlaces
  <2>2. CASE J.conn[s] = "open"
    <3> DEFINE told == [J.told EXCEPT ![s] = shows]
               seen == [J.seen EXCEPT ![s] = {}]
    <3>1. /\ told \in [Sessions -> Roster] /\ seen \in [Sessions -> SUBSET Streams]
          /\ told[s] = shows
          /\ \A v \in Sessions \ {s} : told[v] = J.told[v] /\ seen[v] = J.seen[v]
      BY <1>7, <1>8, FieldTypes
    <3>2. T = [J EXCEPT !.told = told, !.seen = seen]
      BY <1>5, <2>2
    <3> HIDE DEF told, seen
    <3>4. J \in Server
      BY <1>7
    <3>5. T \in Server
      BY <3>1, <3>2, <3>4 DEF Server
    <3>3. /\ T \in Server /\ SamePlaces(J, T) /\ T.subs = J.subs
          /\ T.allowed = J.allowed /\ T.streams = J.streams /\ T.channels = J.channels
          /\ T.authed = J.authed /\ T.index = J.index /\ T.told = told /\ T.seen = seen
      BY <3>2, <3>4, <3>5 DEF Server, SamePlaces
    <3> QED
      BY <3>1, <3>3
  <2> QED
    BY <2>1, <2>2
<1>10. shows = UNION {InRoster(T, c) : c \in T.channels}
  <2>1. \A c : InRoster(T, c) = InRoster(J, c)
    BY <1>9, SamePlacesSame
  <2> QED
    BY <1>4, <1>9, <2>1
<1> QED
  BY <1>1, <1>6, <1>7, <1>9, <1>10 DEF SignedIn, SamePlaces

(* The sign-in keeps the invariant.                                        *)
LEMMA SignInSound ==
    ASSUME NEW K, NEW P, NEW A, Sound(K, P, A), NEW s \in Sessions, NEW u \in Users,
           ~K.auth[s], K.conn[s] # "new",
           \A t \in Sessions : InMap(K, t) /\ K.auth[t] => K.user[t] # u,
           NEW T, T = SignIn(K, s, u)
    PROVE  Sound(T, P, A)
<1>0. K \in Server /\ NoSession \notin Sessions /\ NoChannel \notin Channels
  BY ServerAssumption DEF Sound
<1>1. SignedIn(K, T, s, u)
  BY SignedInIs
<1>2. /\ T \in Server /\ T.conn = K.conn /\ T.chan = K.chan /\ T.subs = K.subs
      /\ T.allowed = K.allowed /\ T.streams = K.streams /\ T.channels = K.channels
      /\ T.authed = K.authed \cup {s} /\ T.auth[s] /\ T.user[s] = u
  BY <1>1 DEF SignedIn
<1>3. \A v \in Sessions \ {s} : (T.auth[v] <=> K.auth[v]) /\ T.user[v] = K.user[v]
  BY <1>1 DEF SignedIn
<1>4. \A w \in Users : T.index[w] = IF w = u THEN s ELSE K.index[w]
  BY <1>1 DEF SignedIn
<1>5. /\ \A v : InMap(T, v) <=> InMap(K, v)
      /\ GetSessions(T) = GetSessions(K) /\ GetSessions(K) \subseteq Sessions
  BY <1>2 DEF InMap, GetSessions
<1>6. K.chan[s] = NoChannel
  BY DEF Sound, ChannelNeedsLogin
<1>7. \A d \in Channels : \A w : <<w, d>> \in InRoster(T, d) <=> <<w, d>> \in InRoster(K, d)
  <2> SUFFICES ASSUME NEW d \in Channels, NEW w
               PROVE  <<w, d>> \in InRoster(T, d) <=> <<w, d>> \in InRoster(K, d)
    OBVIOUS
  <2>1. /\ <<w, d>> \in InRoster(T, d) <=>
             \E v \in Sessions : InMap(K, v) /\ T.auth[v] /\ K.chan[v] = d /\ T.user[v] = w
        /\ <<w, d>> \in InRoster(K, d) <=>
             \E v \in Sessions : InMap(K, v) /\ K.auth[v] /\ K.chan[v] = d /\ K.user[v] = w
    BY <1>2, <1>5, RosterIs
  <2>2. d # NoChannel
    BY <1>0
  <2> QED
    BY <1>3, <1>6, <2>1, <2>2
<1>8. IndexNamesSession(T)
  <2> SUFFICES ASSUME NEW w \in Users, T.index[w] # NoSession
               PROVE  T.auth[T.index[w]] /\ T.user[T.index[w]] = w
    BY DEF IndexNamesSession
  <2>1. CASE w = u
    BY <1>2, <1>4, <2>1
  <2>2. CASE w # u
    <3>1. T.index[w] = K.index[w] /\ K.index[w] \in Sessions
      BY <1>0, <1>4, <2>2, FieldTypes
    <3>2. K.auth[K.index[w]] /\ K.user[K.index[w]] = w
      BY <1>0, <3>1 DEF Sound, IndexNamesSession
    <3> QED
      BY <1>3, <3>1, <3>2
  <2> QED
    BY <2>1, <2>2
<1>9. SignedInIsIndexed(T)
  <2> SUFFICES ASSUME NEW v \in Sessions, InMap(T, v), T.auth[v]
               PROVE  T.index[T.user[v]] = v /\ v \in T.authed
    BY DEF SignedInIsIndexed
  <2>1. CASE v = s
    BY <1>2, <1>4, <2>1
  <2>2. CASE v # s
    <3>1. InMap(K, v) /\ K.auth[v] /\ T.user[v] = K.user[v]
      BY <1>3, <1>5, <2>2
    <3>2. K.user[v] # u /\ K.user[v] \in Users /\ K.index[K.user[v]] = v /\ v \in K.authed
      BY <3>1, SessionIs
    <3> QED
      BY <1>2, <1>4, <3>1, <3>2
  <2> QED
    BY <2>1, <2>2
<1>10. AuthedIsSignedIn(T)
  <2> SUFFICES ASSUME NEW v \in T.authed, InMap(T, v) \/ T.conn[v] = "new", v # s
               PROVE  T.auth[v]
    BY <1>2 DEF AuthedIsSignedIn
  <2>1. v \in K.authed /\ v \in Sessions \ {s}
    BY <1>0, <1>2, FieldTypes
  <2>2. K.auth[v]
    BY <1>2, <1>5, <2>1 DEF Sound, AuthedIsSignedIn
  <2> QED
    BY <1>3, <2>1, <2>2
<1>11. ChannelNeedsLogin(T)
  <2> SUFFICES ASSUME NEW v \in Sessions
               PROVE  /\ T.chan[v] # NoChannel => T.auth[v]
                      /\ T.auth[v] => T.user[v] \in Users /\ T.conn[v] # "new"
                      /\ T.conn[v] = "new" => T.subs[v] = {} /\ T.allowed[v] = {}
    BY DEF ChannelNeedsLogin
  <2>1. /\ K.chan[v] # NoChannel => K.auth[v]
        /\ K.auth[v] => K.user[v] \in Users /\ K.conn[v] # "new"
        /\ K.conn[v] = "new" => K.subs[v] = {} /\ K.allowed[v] = {}
    BY DEF Sound, ChannelNeedsLogin
  <2> QED
    BY <1>2, <1>3, <2>1
<1>12. SourcesRegistered(T)
  <2> SUFFICES ASSUME NEW v \in GetSessions(K), NEW src \in K.allowed[v]
               PROVE  K.chan[v] # NoChannel /\ <<T.user[v], src>> \in K.streams[K.chan[v]]
    BY <1>2, <1>5 DEF SourcesRegistered
  <2>1. K.chan[v] # NoChannel /\ <<K.user[v], src>> \in K.streams[K.chan[v]] /\ v \in Sessions
    BY <1>5 DEF Sound, SourcesRegistered
  <2>2. T.user[v] = K.user[v]
    BY <1>3, <1>6, <2>1
  <2> QED
    BY <2>1, <2>2
<1>13. WatchedRunHere(T)
  BY <1>2, <1>5 DEF Sound, WatchedRunHere
<1>14. Published(T, P)
  <2> SUFFICES ASSUME NEW d \in Channels, NEW st \in K.streams[d]
               PROVE  <<Owner(st), d>> \in InRoster(T, d) \cup P
    BY <1>2 DEF Published
  <2>1. <<Owner(st), d>> \in InRoster(K, d) \cup P
    BY DEF Sound, Published
  <2> QED
    BY <1>7, <2>1
<1>15. RosterTold(T, P, A)
  <2> SUFFICES ASSUME NEW v \in Sessions, Hears(T, v), NEW w \in Users \ {T.user[v]},
                      NEW d \in T.channels
               PROVE  /\ <<w, d>> \in InRoster(T, d) \ A => <<w, d>> \in T.told[v]
                      /\ <<w, d>> \in T.told[v] => <<w, d>> \in InRoster(T, d) \cup A \cup P
    BY DEF RosterTold
  <2>1. d \in K.channels /\ d \in Channels
    BY <1>0, <1>2, FieldTypes
  <2>2. CASE v = s
    <3>1. T.told[s] = UNION {InRoster(T, c) : c \in T.channels}
      BY <1>1, <2>2 DEF SignedIn, Hears
    <3>2. \A c : <<w, d>> \in InRoster(T, c) => c = d
      BY DEF InRoster
    <3>3. <<w, d>> \in T.told[s] <=> <<w, d>> \in InRoster(T, d)
      BY <3>1, <3>2
    <3> QED
      BY <2>2, <3>3
  <2>3. CASE v # s
    <3>1. Hears(K, v) /\ w \in Users \ {K.user[v]} /\ T.told[v] = K.told[v]
      BY <1>1, <1>2, <1>3, <2>3 DEF SignedIn, Hears
    <3>2. /\ <<w, d>> \in InRoster(K, d) \ A => <<w, d>> \in K.told[v]
          /\ <<w, d>> \in K.told[v] => <<w, d>> \in InRoster(K, d) \cup A \cup P
      BY <2>1, <3>1 DEF Sound, RosterTold
    <3> QED
      BY <1>7, <2>1, <3>1, <3>2
  <2> QED
    BY <2>2, <2>3
<1>16. StreamsTold(T)
  <2> SUFFICES ASSUME NEW v \in Sessions, Hears(T, v), T.chan[v] # NoChannel
               PROVE  /\ T.seen[v] \subseteq T.streams[T.chan[v]]
                      /\ \A t \in Members(T, T.chan[v]) : \A src \in T.allowed[t] :
                           <<T.user[t], src>> \in T.seen[v]
    BY DEF StreamsTold
  <2>1. v # s /\ T.chan[v] = K.chan[v] /\ T.streams = K.streams /\ T.allowed = K.allowed
    BY <1>2, <1>6
  <2>2. Hears(K, v) /\ T.seen[v] = K.seen[v]
    BY <1>1, <1>2, <1>3, <2>1 DEF SignedIn, Hears
  <2>3. /\ K.seen[v] \subseteq K.streams[K.chan[v]]
        /\ \A t \in Members(K, K.chan[v]) : \A src \in K.allowed[t] :
             <<K.user[t], src>> \in K.seen[v]
    BY <2>1, <2>2 DEF Sound, StreamsTold
  <2>4. ASSUME NEW t \in Members(T, T.chan[v])
        PROVE  t \in Members(K, K.chan[v]) /\ T.user[t] = K.user[t]
    <3>1. t \in Sessions /\ InMap(K, t) /\ T.auth[t] /\ K.chan[t] = K.chan[v]
      BY <1>2, <1>5, <2>1 DEF Members, GetSessions
    <3>2. t # s
      BY <1>6, <2>1, <3>1
    <3> QED
      BY <1>3, <3>1, <3>2 DEF Members, GetSessions
  <2> QED
    BY <2>1, <2>2, <2>3, <2>4
<1> QED
  BY <1>2, <1>8, <1>9, <1>10, <1>11, <1>12, <1>13, <1>14, <1>15, <1>16 DEF Sound

(* Connections stay in the map or out of it, and nobody else is entered in *)
(* authed_sessions_.                                                       *)
SameMap(S, T) ==
    \A v \in Sessions : /\ (InMap(T, v) <=> InMap(S, v))
                        /\ (T.conn[v] = "gone" <=> S.conn[v] = "gone")

(* AUTH_IDENTITY.                                                          *)
LEMMA AuthSound ==
    ASSUME NEW S, NEW P, NEW A, Sound(S, P, A), NEW s \in Sessions, ~S.auth[s],
           S.conn[s] # "new", NEW u \in Users, NEW all \in SUBSET Sessions,
           \A t \in GetSessions(S) : S.auth[t] => t \in all,
           NEW T, T = AuthIdentity(S, s, u, all)
    PROVE  Sound(T, P, A) /\ SameMap(S, T) /\ T.authed \subseteq S.authed \cup {s}
<1>1. PICK D : D = Duplicates(S, s, u, all)
  OBVIOUS
<1>2. PICK K : K = FoldSet(KickDuplicate, S, D)
  OBVIOUS
<1>3. D \in SUBSET Sessions /\ s \notin D /\ \A t \in D : S.auth[t]
  BY <1>1 DEF Duplicates
<1>4. Kicked(S, K, D, P, A)
  BY <1>2, <1>3, KickLoopSound
<1>5. T = SignIn(K, s, u)
  BY <1>1, <1>2 DEF AuthIdentity, SignIn
<1>6. Sound(K, P, A) /\ ~K.auth[s] /\ K.conn[s] # "new"
  BY <1>3, <1>4 DEF Kicked
<1>7. ASSUME NEW t \in Sessions, InMap(K, t), K.auth[t] PROVE K.user[t] # u
  <2>1. t \notin D /\ InMap(S, t) /\ S.auth[t] /\ K.user[t] = S.user[t] /\ t # s
    BY <1>4, <1>6, <1>7 DEF Kicked
  <2>2. t \in all
    BY <2>1 DEF GetSessions
  <2> QED
    BY <1>1, <2>1, <2>2 DEF Duplicates
<1>8. Sound(T, P, A)
  BY <1>5, <1>6, <1>7, SignInSound
<1>9. T.conn = K.conn /\ T.authed = K.authed \cup {s}
  BY <1>5, <1>6, SignedInIs DEF SignedIn
<1>10. SameMap(S, T) /\ T.authed \subseteq S.authed \cup {s}
  BY <1>4, <1>9 DEF Kicked, SameMap, InMap
<1> QED
  BY <1>8, <1>10

-----------------------------------------------------------------------------
(* ADMIN_DELETE_CHANNEL first ends the streams of every member, a fold     *)
(* like the kick loop ...                                                  *)
StopFold(S, c, D, g) ==
    g = [s \in SUBSET D |-> IF s = {} THEN S
           ELSE StopAllVideoStreams(g[s \ {First(s)}], c, g[s \ {First(s)}].user[First(s)])]

(* ... and then takes the members out of the channel.                      *)
Vacate(S, E, c) ==
    [E EXCEPT
       !.chan = [v \in Sessions |-> IF v \in Members(S, c) THEN NoChannel ELSE @[v]],
       !.subs = [v \in Sessions |-> IF v \in Members(S, c) THEN {} ELSE @[v]],
       !.told = [v \in Sessions |->
          IF v \in Members(S, c) /\ Hears(S, v) THEN @[v] \ {<<S.user[v], c>>} ELSE @[v]],
       !.seen = [v \in Sessions |->
          IF v \in Members(S, c) /\ Hears(S, v) THEN {} ELSE @[v]]]

(* EmptyChannel is those two steps.                                        *)
LEMMA EmptyIs ==
    ASSUME NEW S, NEW c
    PROVE  LET D == Members(S, c)
           IN  EmptyChannel(S, c) = Vacate(S, (CHOOSE g : StopFold(S, c, D, g))[D], c)
BY DEF EmptyChannel, Vacate, FoldSet, MapThenFoldSet, StopFold, First

(* The state after the streams of the sessions in T were stopped.          *)
AllStopped(S, Q, T, c, P, A) ==
    /\ Sound(Q, P, A) /\ SamePlaces(S, Q) /\ Q.index = S.index /\ Q.authed = S.authed
    /\ Q.channels = S.channels
    /\ \A t \in T : Q.streams[c] \cap StreamsOf(S.user[t]) = {}

StopsInTurn(S, c, D, g) ==
    /\ g[{}] = S
    /\ \A T \in SUBSET D : T # {} /\ g[T \ {First(T)}] \in Server =>
         g[T] = StopAllVideoStreams(g[T \ {First(T)}], c, g[T \ {First(T)}].user[First(T)])

(* One more member's streams.                                              *)
LEMMA AllStoppedStep ==
    ASSUME NEW S, NEW P, NEW A, NEW c \in Channels, NEW T \in SUBSET Sessions, NEW x \in T,
           S.user[x] \in Users, NEW Q, AllStopped(S, Q, T \ {x}, c, P, A),
           NEW R, R = StopAllVideoStreams(Q, c, Q.user[x])
    PROVE  AllStopped(S, R, T, c, P, A)
<1>1. Sound(Q, P, A) /\ Q \in Server /\ Q.user = S.user
  BY DEF AllStopped, Sound, SamePlaces
<1>2. PICK u \in Users : u = S.user[x]
  OBVIOUS
<1>3. R = StopVideoStreams(Q, c, u, StreamsOf(u))
  BY <1>1, <1>2 DEF StopAllVideoStreams
<1>4. Sound(R, P, A)
  BY <1>1, <1>3, StopKeepsSound
<1>5. Stopped(Q, R, c, u, StreamsOf(u))
  BY <1>1, <1>3, StopIs
<1>6. /\ SamePlaces(S, R) /\ R.index = S.index /\ R.authed = S.authed
      /\ R.channels = S.channels
  BY <1>5 DEF Stopped, AllStopped, SamePlaces
<1>7. R.streams[c] = Q.streams[c] \ StreamsOf(u)
  BY <1>5 DEF Stopped
<1>8. ASSUME NEW t \in T PROVE R.streams[c] \cap StreamsOf(S.user[t]) = {}
  <2>1. CASE t = x
    BY <1>2, <1>7, <2>1
  <2>2. CASE t # x
    <3>1. Q.streams[c] \cap StreamsOf(S.user[t]) = {}
      BY <2>2 DEF AllStopped
    <3> QED
      BY <1>7, <3>1
  <2> QED
    BY <2>1, <2>2
<1> QED
  BY <1>4, <1>6, <1>8 DEF AllStopped

(* By induction over the members, ending their streams keeps it.           *)
LEMMA StopsSound ==
    ASSUME NEW S, NEW P, NEW A, Sound(S, P, A), NEW c \in Channels, NEW D \in SUBSET Sessions,
           \A t \in D : S.user[t] \in Users, NEW g, StopsInTurn(S, c, D, g)
    PROVE  \A T \in SUBSET D : AllStopped(S, g[T], T, c, P, A)
<1> DEFINE Good == {T \in SUBSET D : AllStopped(S, g[T], T, c, P, A)}
<1>0. IsFiniteSet(D)
  BY ServerAssumption, FS_Subset
<1>1. ASSUME NEW T \in SUBSET D, \A x \in T : T \ {x} \in Good
      PROVE  T \in Good
  <2>1. CASE T = {}
    BY <2>1 DEF StopsInTurn, AllStopped, SamePlaces
  <2>2. CASE T # {}
    <3>1. PICK x : x = First(T)
      OBVIOUS
    <3>2. PICK Q : Q = g[T \ {x}]
      OBVIOUS
    <3>3. x \in T /\ S.user[x] \in Users /\ T \in SUBSET Sessions
      BY <2>2, <3>1, FirstIn
    <3>4. AllStopped(S, Q, T \ {x}, c, P, A)
      BY <1>1, <3>2, <3>3
    <3>5. Q \in Server
      BY <3>4 DEF AllStopped, Sound
    <3>6. g[T] = StopAllVideoStreams(Q, c, Q.user[x])
      BY <2>2, <3>1, <3>2, <3>5 DEF StopsInTurn
    <3> QED
      BY <3>3, <3>4, <3>6, AllStoppedStep
  <2> QED
    BY <2>1, <2>2
<1>2. Good = SUBSET D
  <2> HIDE DEF Good
  <2>1. Good \in SUBSET (SUBSET D)
    BY DEF Good
  <2> QED
    BY <1>0, <1>1, <2>1, SubsetInduction
<1> QED
  BY <1>2

(* The recursion exists, so the fold over the members keeps it too.        *)
LEMMA StopLoopSound ==
    ASSUME NEW S, NEW P, NEW A, Sound(S, P, A), NEW c \in Channels, NEW D \in SUBSET Sessions,
           \A t \in D : S.user[t] \in Users
    PROVE  AllStopped(S, (CHOOSE g : StopFold(S, c, D, g))[D], D, c, P, A)
<1>0. IsFiniteSet(D)
  BY ServerAssumption, FS_Subset
<1> DEFINE h == [p \in D \X Server |-> StopAllVideoStreams(p[2], c, p[2].user[p[1]])]
<1>1. PICK f : FoldsWith(h, S, SUBSET D, f)
  <2> HIDE DEF h
  <2> QED
    BY <1>0, FoldExists
<1>2. \A T \in SUBSET D : f[T] = IF T = {} THEN S ELSE h[<<First(T), f[T \ {First(T)}]>>]
  <2> HIDE DEF h
  <2> QED
    BY <1>1 DEF FoldsWith
<1>3. StopsInTurn(S, c, D, f)
  <2>1. f[{}] = S
    BY <1>2
  <2>2. ASSUME NEW T \in SUBSET D, T # {}, f[T \ {First(T)}] \in Server
        PROVE  f[T] = StopAllVideoStreams(f[T \ {First(T)}], c, f[T \ {First(T)}].user[First(T)])
    <3>1. PICK x : x = First(T)
      OBVIOUS
    <3>2. PICK Q : Q = f[T \ {x}]
      OBVIOUS
    <3>3. x \in D /\ Q \in Server /\ <<x, Q>> \in D \X Server
      BY <2>2, <3>1, <3>2, FirstIn
    <3>4. h[<<x, Q>>] = StopAllVideoStreams(<<x, Q>>[2], c, <<x, Q>>[2].user[<<x, Q>>[1]])
      BY <3>3
    <3>5. <<x, Q>>[1] = x /\ <<x, Q>>[2] = Q
      OBVIOUS
    <3>6. f[T] = h[<<x, Q>>]
      <4> HIDE DEF h
      <4> QED
        BY <1>2, <2>2, <3>1, <3>2
    <3> HIDE DEF h
    <3> QED
      BY <3>1, <3>2, <3>4, <3>5, <3>6
  <2> QED
    BY <2>1, <2>2 DEF StopsInTurn
<1> HIDE DEF h
<1>4. \A T \in SUBSET D : AllStopped(S, f[T], T, c, P, A)
  BY <1>3, StopsSound
<1>5. StopFold(S, c, D, f)
  <2>1. \A T \in SUBSET D : f[T] \in Server
    BY <1>4 DEF AllStopped, Sound
  <2>2. \A T \in SUBSET D : f[T] = IF T = {} THEN S
          ELSE StopAllVideoStreams(f[T \ {First(T)}], c, f[T \ {First(T)}].user[First(T)])
    <3> SUFFICES ASSUME NEW T \in SUBSET D, T # {}
                 PROVE  f[T] = StopAllVideoStreams(f[T \ {First(T)}], c,
                                                   f[T \ {First(T)}].user[First(T)])
      BY <1>2
    <3>1. T \ {First(T)} \in SUBSET D
      OBVIOUS
    <3> QED
      BY <1>3, <2>1, <3>1 DEF StopsInTurn
  <2>3. f = [T \in SUBSET D |-> f[T]]
    BY <1>1 DEF FoldsWith
  <2> QED
    BY <2>2, <2>3 DEF StopFold
<1>6. PICK g : g = CHOOSE k : StopFold(S, c, D, k)
  OBVIOUS
<1>7. StopFold(S, c, D, g)
  BY <1>5, <1>6
<1>8. StopsInTurn(S, c, D, g)
  <2>1. \A T \in SUBSET D : g[T] = IF T = {} THEN S
          ELSE StopAllVideoStreams(g[T \ {First(T)}], c, g[T \ {First(T)}].user[First(T)])
    BY <1>7 DEF StopFold
  <2> QED
    BY <2>1 DEF StopsInTurn
<1>9. AllStopped(S, g[D], D, c, P, A)
  BY <1>8, StopsSound
<1> QED
  BY <1>6, <1>9

Vacated(S, E, T, c) ==
    /\ T \in Server /\ T.conn = E.conn /\ T.auth = E.auth /\ T.user = E.user
    /\ T.index = E.index /\ T.authed = E.authed /\ T.channels = E.channels
    /\ T.streams = E.streams /\ T.allowed = E.allowed
    /\ \A v \in Sessions :
         /\ T.chan[v] = IF v \in Members(S, c) THEN NoChannel ELSE E.chan[v]
         /\ T.subs[v] = IF v \in Members(S, c) THEN {} ELSE E.subs[v]
         /\ T.told[v] = IF v \in Members(S, c) /\ Hears(S, v)
                        THEN E.told[v] \ {<<S.user[v], c>>} ELSE E.told[v]
         /\ T.seen[v] = IF v \in Members(S, c) /\ Hears(S, v) THEN {} ELSE E.seen[v]

(* What emptying the channel changes, field by field.                      *)
LEMMA VacatedIs ==
    ASSUME NEW S, NEW E \in Server, NEW c, NEW T, T = Vacate(S, E, c)
    PROVE  Vacated(S, E, T, c)
<1> DEFINE chan == [v \in Sessions |-> IF v \in Members(S, c) THEN NoChannel ELSE E.chan[v]]
           subs == [v \in Sessions |-> IF v \in Members(S, c) THEN {} ELSE E.subs[v]]
           told == [v \in Sessions |-> IF v \in Members(S, c) /\ Hears(S, v)
                                       THEN E.told[v] \ {<<S.user[v], c>>} ELSE E.told[v]]
           seen == [v \in Sessions |-> IF v \in Members(S, c) /\ Hears(S, v)
                                       THEN {} ELSE E.seen[v]]
<1>1. /\ chan \in [Sessions -> Channels \cup {NoChannel}] /\ subs \in [Sessions -> SUBSET Streams]
      /\ told \in [Sessions -> Roster] /\ seen \in [Sessions -> SUBSET Streams]
  BY FieldTypes DEF Roster
<1>2. T = [E EXCEPT !.chan = chan, !.subs = subs, !.told = told, !.seen = seen]
  BY DEF Vacate
<1>3. \A v \in Sessions :
         /\ chan[v] = IF v \in Members(S, c) THEN NoChannel ELSE E.chan[v]
         /\ subs[v] = IF v \in Members(S, c) THEN {} ELSE E.subs[v]
         /\ told[v] = IF v \in Members(S, c) /\ Hears(S, v)
                      THEN E.told[v] \ {<<S.user[v], c>>} ELSE E.told[v]
         /\ seen[v] = IF v \in Members(S, c) /\ Hears(S, v) THEN {} ELSE E.seen[v]
  OBVIOUS
<1> HIDE DEF chan, subs, told, seen
<1>4. /\ T \in Server /\ T.conn = E.conn /\ T.auth = E.auth /\ T.user = E.user
      /\ T.index = E.index /\ T.authed = E.authed /\ T.channels = E.channels
      /\ T.streams = E.streams /\ T.allowed = E.allowed
      /\ T.chan = chan /\ T.subs = subs /\ T.told = told /\ T.seen = seen
  BY <1>1, <1>2 DEF Server
<1> QED
  BY <1>3, <1>4 DEF Vacated

(* Nobody is told that the members of c left it, so they are excused.      *)
LEMMA EmptySound ==
    ASSUME NEW S, NEW P, NEW A, Sound(S, P, A), NEW c \in Channels, NEW T, T = EmptyChannel(S, c)
    PROVE  /\ Sound(T, P, A \cup InRoster(S, c)) /\ T.conn = S.conn /\ T.auth = S.auth
           /\ T.authed = S.authed /\ T.channels = S.channels /\ InRoster(T, c) = {}
<1>0. NoChannel \notin Channels /\ c # NoChannel
  BY ServerAssumption
<1>1. PICK D : D = Members(S, c)
  OBVIOUS
<1>2. PICK E : E = (CHOOSE g : StopFold(S, c, D, g))[D]
  OBVIOUS
<1>3. T = Vacate(S, E, c)
  BY <1>1, <1>2, EmptyIs
<1>4. D \in SUBSET Sessions /\ \A t \in D : S.user[t] \in Users
  BY <1>1 DEF Members, GetSessions, Sound, ChannelNeedsLogin
<1>5. AllStopped(S, E, D, c, P, A)
  BY <1>2, <1>4, StopLoopSound
<1>6. /\ Sound(E, P, A) /\ E \in Server /\ E.conn = S.conn /\ E.auth = S.auth /\ E.user = S.user
      /\ E.chan = S.chan /\ E.index = S.index /\ E.authed = S.authed /\ E.channels = S.channels
  BY <1>5 DEF AllStopped, Sound, SamePlaces
<1>7. Vacated(S, E, T, c)
  BY <1>3, <1>6, VacatedIs
<1>8. /\ T \in Server /\ T.conn = E.conn /\ T.auth = E.auth /\ T.user = E.user
      /\ T.index = E.index /\ T.authed = E.authed /\ T.channels = E.channels
      /\ T.streams = E.streams /\ T.allowed = E.allowed
  BY <1>7 DEF Vacated
<1>9. \A v \in Sessions : v \in D <=> InMap(E, v) /\ E.auth[v] /\ E.chan[v] = c
  BY <1>1, <1>6 DEF Members, GetSessions, InMap
<1>10. \A v \in Sessions : /\ T.chan[v] = IF v \in D THEN NoChannel ELSE E.chan[v]
                           /\ T.subs[v] = IF v \in D THEN {} ELSE E.subs[v]
  BY <1>1, <1>7 DEF Vacated
<1>11. /\ \A v : (InMap(T, v) <=> InMap(E, v)) /\ (Hears(T, v) <=> Hears(E, v))
                 /\ (Hears(S, v) <=> Hears(E, v))
       /\ GetSessions(T) = GetSessions(E) /\ GetSessions(E) \subseteq Sessions
  BY <1>6, <1>8 DEF InMap, Hears, GetSessions
<1>12. ASSUME NEW d \in Channels, NEW w
       PROVE  <<w, d>> \in InRoster(T, d) <=> d # c /\ <<w, d>> \in InRoster(E, d)
  <2>1. /\ <<w, d>> \in InRoster(T, d) <=>
             \E v \in Sessions : InMap(E, v) /\ E.auth[v] /\ T.chan[v] = d /\ E.user[v] = w
        /\ <<w, d>> \in InRoster(E, d) <=>
             \E v \in Sessions : InMap(E, v) /\ E.auth[v] /\ E.chan[v] = d /\ E.user[v] = w
    BY <1>8, <1>11, RosterIs
  <2>2. d # NoChannel
    BY <1>0
  <2> QED
    BY <1>9, <1>10, <2>1, <2>2
<1>13. ASSUME NEW w PROVE <<w, c>> \in InRoster(S, c) <=> \E v \in D : S.user[v] = w
  BY <1>1 DEF InRoster
<1>e. InRoster(E, c) = InRoster(S, c)
  BY <1>5, SamePlacesSame DEF AllStopped
<1>14. IndexNamesSession(T) /\ SignedInIsIndexed(T) /\ AuthedIsSignedIn(T)
  BY <1>6, <1>8, <1>11 DEF Sound, IndexNamesSession, SignedInIsIndexed, AuthedIsSignedIn
<1>15. ChannelNeedsLogin(T)
  <2> SUFFICES ASSUME NEW v \in Sessions
               PROVE  /\ T.chan[v] # NoChannel => T.auth[v]
                      /\ T.auth[v] => T.user[v] \in Users /\ T.conn[v] # "new"
                      /\ T.conn[v] = "new" => T.subs[v] = {} /\ T.allowed[v] = {}
    BY DEF ChannelNeedsLogin
  <2>1. /\ E.chan[v] # NoChannel => E.auth[v]
        /\ E.auth[v] => E.user[v] \in Users /\ E.conn[v] # "new"
        /\ E.conn[v] = "new" => E.subs[v] = {} /\ E.allowed[v] = {}
    BY <1>6 DEF Sound, ChannelNeedsLogin
  <2> QED
    BY <1>8, <1>10, <2>1
<1>16. ASSUME NEW v \in GetSessions(E), NEW src \in E.allowed[v]
       PROVE  /\ v \in Sessions /\ v \notin D /\ E.chan[v] # NoChannel
              /\ <<E.user[v], src>> \in E.streams[E.chan[v]]
  <2>1. /\ v \in Sessions /\ E.chan[v] # NoChannel
        /\ <<E.user[v], src>> \in E.streams[E.chan[v]]
    BY <1>6, <1>11, <1>16 DEF Sound, SourcesRegistered
  <2>2. CASE v \in D
    <3>1. E.chan[v] = c /\ E.streams[c] \cap StreamsOf(S.user[v]) = {}
      BY <1>5, <1>9, <2>1, <2>2 DEF AllStopped
    <3>2. src \in Sources
      BY <1>6, <2>1, FieldTypes
    <3>3. <<E.user[v], src>> \in StreamsOf(S.user[v])
      BY <1>6, <3>2 DEF StreamsOf
    <3> QED
      BY <2>1, <3>1, <3>3
  <2> QED
    BY <2>1, <2>2
<1>17. SourcesRegistered(T)
  <2> SUFFICES ASSUME NEW v \in GetSessions(T), NEW src \in T.allowed[v]
               PROVE  T.chan[v] # NoChannel /\ <<T.user[v], src>> \in T.streams[T.chan[v]]
    BY DEF SourcesRegistered
  <2> QED
    BY <1>8, <1>10, <1>11, <1>16
<1>18. WatchedRunHere(T)
  <2> SUFFICES ASSUME NEW v \in GetSessions(T), T.subs[v] # {}
               PROVE  T.chan[v] # NoChannel /\ T.subs[v] \subseteq T.streams[T.chan[v]]
    BY DEF WatchedRunHere
  <2>1. v \in Sessions /\ v \in GetSessions(E) /\ T.subs[v] = E.subs[v] /\ T.chan[v] = E.chan[v]
    BY <1>10, <1>11
  <2>2. E.chan[v] # NoChannel /\ E.subs[v] \subseteq E.streams[E.chan[v]]
    BY <1>6, <2>1 DEF Sound, WatchedRunHere
  <2> QED
    BY <1>8, <2>1, <2>2
<1>19. Published(T, P)
  <2> SUFFICES ASSUME NEW d \in Channels, NEW st \in E.streams[d]
               PROVE  <<Owner(st), d>> \in InRoster(T, d) \cup P
    BY <1>8 DEF Published
  <2>1. <<Owner(st), d>> \in InRoster(E, d) \cup P
    BY <1>6 DEF Sound, Published
  <2>2. CASE d # c
    BY <1>12, <2>1, <2>2
  <2>3. CASE d = c
    <3>1. ASSUME <<Owner(st), c>> \in InRoster(S, c) PROVE FALSE
      <4>1. PICK v \in D : S.user[v] = Owner(st)
        BY <1>13, <3>1
      <4>2. E.streams[c] \cap StreamsOf(Owner(st)) = {}
        BY <1>5, <4>1 DEF AllStopped
      <4>3. st \in Streams
        BY <1>6, FieldTypes
      <4>4. st \in StreamsOf(Owner(st))
        BY <4>3 DEF Streams, StreamsOf, Owner
      <4> QED
        BY <2>3, <4>2, <4>4
    <3> QED
      BY <1>e, <2>1, <2>3, <3>1
  <2> QED
    BY <2>2, <2>3
<1>20. RosterTold(T, P, A \cup InRoster(S, c))
  <2> SUFFICES ASSUME NEW v \in Sessions, Hears(T, v), NEW w \in Users \ {T.user[v]},
                      NEW d \in T.channels
               PROVE  /\ <<w, d>> \in InRoster(T, d) \ (A \cup InRoster(S, c)) => <<w, d>> \in T.told[v]
                      /\ <<w, d>> \in T.told[v] =>
                           <<w, d>> \in InRoster(T, d) \cup (A \cup InRoster(S, c)) \cup P
    BY DEF RosterTold
  <2>1. /\ Hears(E, v) /\ w \in Users \ {E.user[v]} /\ d \in E.channels /\ d \in Channels
    BY <1>6, <1>8, <1>11, FieldTypes
  <2>2. /\ <<w, d>> \in InRoster(E, d) \ A => <<w, d>> \in E.told[v]
        /\ <<w, d>> \in E.told[v] => <<w, d>> \in InRoster(E, d) \cup A \cup P
    BY <1>6, <2>1 DEF Sound, RosterTold
  <2>3. T.told[v] = IF v \in D /\ Hears(S, v) THEN E.told[v] \ {<<S.user[v], c>>} ELSE E.told[v]
    BY <1>1, <1>7 DEF Vacated
  <2>4. <<w, d>> \in T.told[v] <=> <<w, d>> \in E.told[v]
    <3>1. <<w, d>> # <<S.user[v], c>>
      BY <1>6, <2>1
    <3> QED
      BY <2>3, <3>1
  <2>5. <<w, d>> \in InRoster(T, d) <=> d # c /\ <<w, d>> \in InRoster(E, d)
    BY <1>12, <2>1
  <2>6. d = c => (<<w, d>> \in InRoster(E, d) <=> <<w, d>> \in InRoster(S, c))
    BY <1>e
  <2> QED
    BY <2>2, <2>4, <2>5, <2>6
<1>21. StreamsTold(T)
  <2> SUFFICES ASSUME NEW v \in Sessions, Hears(T, v), T.chan[v] # NoChannel
               PROVE  /\ T.seen[v] \subseteq T.streams[T.chan[v]]
                      /\ \A t \in Members(T, T.chan[v]) : \A src \in T.allowed[t] :
                           <<T.user[t], src>> \in T.seen[v]
    BY DEF StreamsTold
  <2>1. v \notin D /\ T.chan[v] = E.chan[v] /\ Hears(E, v)
    BY <1>10, <1>11
  <2>2. T.seen[v] = E.seen[v]
    BY <1>1, <1>7, <2>1 DEF Vacated
  <2>3. /\ E.seen[v] \subseteq E.streams[E.chan[v]]
        /\ \A t \in Members(E, E.chan[v]) : \A src \in E.allowed[t] :
             <<E.user[t], src>> \in E.seen[v]
    BY <1>6, <2>1 DEF Sound, StreamsTold
  <2>4. ASSUME NEW t \in Members(T, T.chan[v]) PROVE t \in Members(E, E.chan[v])
    <3>1. t \in Sessions /\ t \in GetSessions(E) /\ E.auth[t] /\ T.chan[t] = E.chan[v]
      BY <1>8, <1>11, <2>1 DEF Members
    <3>2. T.chan[t] = E.chan[t]
      BY <1>10, <2>1, <3>1
    <3> QED
      BY <3>1, <3>2 DEF Members
  <2> QED
    BY <1>8, <2>1, <2>2, <2>3, <2>4
<1>22. Sound(T, P, A \cup InRoster(S, c))
  BY <1>8, <1>14, <1>15, <1>17, <1>18, <1>19, <1>20, <1>21 DEF Sound
<1>23. InRoster(T, c) = {}
  <2>1. \A w : <<w, c>> \notin InRoster(T, c)
    BY <1>12
  <2> QED
    BY <2>1 DEF InRoster
<1> QED
  BY <1>6, <1>8, <1>22, <1>23

(* ADMIN_DELETE_CHANNEL: once the channel is gone nobody shows it.         *)
LEMMA DeleteSound ==
    ASSUME NEW S, NEW P, NEW A, Sound(S, P, A), NEW c \in Channels,
           NEW T, T = AdminDeleteChannel(S, c)
    PROVE  Sound(T, P, A) /\ T.conn = S.conn /\ T.authed = S.authed
<1>1. PICK E : E = EmptyChannel(S, c)
  OBVIOUS
<1>2. /\ Sound(E, P, A \cup InRoster(S, c)) /\ E.conn = S.conn /\ E.authed = S.authed
  BY <1>1, EmptySound
<1>3. E \in Server
  BY <1>2 DEF Sound
<1> DEFINE told == [v \in Sessions |-> IF Hears(E, v) THEN {p \in E.told[v] : p[2] # c}
                                       ELSE E.told[v]]
           channels == E.channels \ {c}
<1>4. told \in [Sessions -> Roster] /\ channels \in SUBSET Channels
  BY <1>3, FieldTypes DEF Roster
<1>5. T = [E EXCEPT !.channels = channels, !.told = told]
  BY <1>1 DEF AdminDeleteChannel
<1>6. \A v \in Sessions : Hears(E, v) => told[v] = {p \in E.told[v] : p[2] # c}
  OBVIOUS
<1>7. \A d : d \in channels <=> d \in E.channels /\ d # c
  OBVIOUS
<1> HIDE DEF told, channels
<1>8. /\ T \in Server /\ SamePlaces(E, T) /\ T.index = E.index /\ T.authed = E.authed
      /\ T.streams = E.streams /\ T.allowed = E.allowed /\ T.subs = E.subs /\ T.seen = E.seen
      /\ T.told = told /\ T.channels = channels
  BY <1>3, <1>4, <1>5 DEF Server, SamePlaces
<1>9. /\ \A v : (InMap(T, v) <=> InMap(E, v)) /\ (Hears(T, v) <=> Hears(E, v))
      /\ GetSessions(T) = GetSessions(E)
      /\ \A d : Members(T, d) = Members(E, d) /\ InRoster(T, d) = InRoster(E, d)
      /\ T.conn = E.conn /\ T.auth = E.auth /\ T.user = E.user /\ T.chan = E.chan
  BY <1>8, SamePlacesSame DEF SamePlaces
<1>10. IndexNamesSession(T) /\ SignedInIsIndexed(T) /\ AuthedIsSignedIn(T)
  BY <1>2, <1>8, <1>9 DEF Sound, IndexNamesSession, SignedInIsIndexed, AuthedIsSignedIn
<1>11. ChannelNeedsLogin(T) /\ SourcesRegistered(T) /\ WatchedRunHere(T)
  BY <1>2, <1>8, <1>9 DEF Sound, ChannelNeedsLogin, SourcesRegistered, WatchedRunHere
<1>12. Published(T, P)
  BY <1>2, <1>8, <1>9 DEF Sound, Published
<1>13. StreamsTold(T)
  BY <1>2, <1>8, <1>9 DEF Sound, StreamsTold
<1>14. RosterTold(T, P, A)
  <2> SUFFICES ASSUME NEW v \in Sessions, Hears(T, v), NEW w \in Users \ {T.user[v]},
                      NEW d \in T.channels
               PROVE  /\ <<w, d>> \in InRoster(T, d) \ A => <<w, d>> \in T.told[v]
                      /\ <<w, d>> \in T.told[v] => <<w, d>> \in InRoster(T, d) \cup A \cup P
    BY DEF RosterTold
  <2>1. Hears(E, v) /\ w \in Users \ {E.user[v]} /\ d \in E.channels /\ d # c
    BY <1>7, <1>8, <1>9
  <2>2. /\ <<w, d>> \in InRoster(E, d) \ (A \cup InRoster(S, c)) => <<w, d>> \in E.told[v]
        /\ <<w, d>> \in E.told[v] => <<w, d>> \in InRoster(E, d) \cup (A \cup InRoster(S, c)) \cup P
    BY <1>2, <2>1 DEF Sound, RosterTold
  <2>3. <<w, d>> \notin InRoster(S, c)
    BY <2>1 DEF InRoster
  <2>4. <<w, d>> \in T.told[v] <=> <<w, d>> \in E.told[v]
    BY <1>6, <1>8, <2>1
  <2> QED
    BY <1>9, <2>2, <2>3, <2>4
<1> QED
  BY <1>2, <1>8, <1>9, <1>10, <1>11, <1>12, <1>13, <1>14 DEF Sound

-----------------------------------------------------------------------------
(* Operations that only shut a connection down, or change what a session   *)
(* watches within its channel.                                             *)
Quieter(S, T) ==
    /\ T \in Server /\ T.auth = S.auth /\ T.user = S.user /\ T.chan = S.chan
    /\ T.index = S.index /\ T.authed = S.authed /\ T.channels = S.channels
    /\ T.streams = S.streams /\ T.allowed = S.allowed
    /\ \A v \in Sessions :
         /\ (InMap(T, v) <=> InMap(S, v)) /\ (T.conn[v] = "new" <=> S.conn[v] = "new")
         /\ (T.conn[v] = "gone" <=> S.conn[v] = "gone")
         /\ Hears(T, v) => Hears(S, v) /\ T.told[v] = S.told[v]
         /\ Hears(T, v) /\ S.chan[v] # NoChannel => T.seen[v] = S.seen[v]
         /\ \/ T.subs[v] \subseteq S.subs[v]
            \/ /\ S.conn[v] # "new" /\ S.chan[v] # NoChannel
               /\ T.subs[v] \subseteq S.subs[v] \cup S.streams[S.chan[v]]

(* They keep the invariant.                                                *)
LEMMA QuieterSound ==
    ASSUME NEW S, NEW P, NEW A, Sound(S, P, A), NEW T, Quieter(S, T)
    PROVE  Sound(T, P, A) /\ SameMap(S, T)
<1>1. /\ T \in Server /\ T.auth = S.auth /\ T.user = S.user /\ T.chan = S.chan
      /\ T.index = S.index /\ T.authed = S.authed /\ T.channels = S.channels
      /\ T.streams = S.streams /\ T.allowed = S.allowed
  BY DEF Quieter
<1>2. /\ \A v \in Sessions : (InMap(T, v) <=> InMap(S, v)) /\ (Hears(T, v) => Hears(S, v))
      /\ GetSessions(T) = GetSessions(S) /\ GetSessions(S) \subseteq Sessions
  BY DEF Quieter, GetSessions
<1>3. \A d : Members(T, d) = Members(S, d) /\ InRoster(T, d) = InRoster(S, d)
  BY <1>1, <1>2 DEF Members, InRoster
<1>4. IndexNamesSession(T) /\ SignedInIsIndexed(T) /\ AuthedIsSignedIn(T)
  <2>1. S.authed \subseteq Sessions
    BY FieldTypes DEF Sound
  <2> QED
    BY <1>1, <1>2, <2>1
       DEF Quieter, Sound, IndexNamesSession, SignedInIsIndexed, AuthedIsSignedIn
<1>5. ChannelNeedsLogin(T)
  <2> SUFFICES ASSUME NEW v \in Sessions
               PROVE  /\ T.chan[v] # NoChannel => T.auth[v]
                      /\ T.auth[v] => T.user[v] \in Users /\ T.conn[v] # "new"
                      /\ T.conn[v] = "new" => T.subs[v] = {} /\ T.allowed[v] = {}
    BY DEF ChannelNeedsLogin
  <2>1. /\ S.chan[v] # NoChannel => S.auth[v]
        /\ S.auth[v] => S.user[v] \in Users /\ S.conn[v] # "new"
        /\ S.conn[v] = "new" => S.subs[v] = {} /\ S.allowed[v] = {}
    BY DEF Sound, ChannelNeedsLogin
  <2>2. /\ T.conn[v] = "new" <=> S.conn[v] = "new"
        /\ T.subs[v] \subseteq S.subs[v] \/ S.conn[v] # "new"
    BY DEF Quieter
  <2> QED
    BY <1>1, <2>1, <2>2
<1>6. SourcesRegistered(T)
  BY <1>1, <1>2 DEF Sound, SourcesRegistered
<1>7. WatchedRunHere(T)
  <2> SUFFICES ASSUME NEW v \in GetSessions(S), T.subs[v] # {}
               PROVE  S.chan[v] # NoChannel /\ T.subs[v] \subseteq S.streams[S.chan[v]]
    BY <1>1, <1>2 DEF WatchedRunHere
  <2>1. \/ T.subs[v] \subseteq S.subs[v]
        \/ S.chan[v] # NoChannel /\ T.subs[v] \subseteq S.subs[v] \cup S.streams[S.chan[v]]
    BY <1>2 DEF Quieter
  <2>2. S.subs[v] # {} => S.chan[v] # NoChannel /\ S.subs[v] \subseteq S.streams[S.chan[v]]
    BY DEF Sound, WatchedRunHere
  <2> QED
    BY <2>1, <2>2
<1>8. Published(T, P)
  BY <1>1, <1>3 DEF Sound, Published
<1>9. RosterTold(T, P, A)
  <2> SUFFICES ASSUME NEW v \in Sessions, Hears(T, v), NEW w \in Users \ {T.user[v]},
                      NEW d \in T.channels
               PROVE  /\ <<w, d>> \in InRoster(T, d) \ A => <<w, d>> \in T.told[v]
                      /\ <<w, d>> \in T.told[v] => <<w, d>> \in InRoster(T, d) \cup A \cup P
    BY DEF RosterTold
  <2>1. Hears(S, v) /\ w \in Users \ {S.user[v]} /\ d \in S.channels /\ T.told[v] = S.told[v]
    BY <1>1 DEF Quieter
  <2>2. /\ <<w, d>> \in InRoster(S, d) \ A => <<w, d>> \in S.told[v]
        /\ <<w, d>> \in S.told[v] => <<w, d>> \in InRoster(S, d) \cup A \cup P
    BY <2>1 DEF Sound, RosterTold
  <2> QED
    BY <1>3, <2>1, <2>2
<1>10. StreamsTold(T)
  <2> SUFFICES ASSUME NEW v \in Sessions, Hears(T, v), T.chan[v] # NoChannel
               PROVE  /\ T.seen[v] \subseteq T.streams[T.chan[v]]
                      /\ \A t \in Members(T, T.chan[v]) : \A src \in T.allowed[t] :
                           <<T.user[t], src>> \in T.seen[v]
    BY DEF StreamsTold
  <2>1. Hears(S, v) /\ S.chan[v] # NoChannel /\ T.seen[v] = S.seen[v]
    BY <1>1 DEF Quieter
  <2>2. /\ S.seen[v] \subseteq S.streams[S.chan[v]]
        /\ \A t \in Members(S, S.chan[v]) : \A src \in S.allowed[t] :
             <<S.user[t], src>> \in S.seen[v]
    BY <2>1 DEF Sound, StreamsTold
  <2> QED
    BY <1>1, <1>3, <2>1, <2>2
<1>11. SameMap(S, T)
  BY DEF Quieter, SameMap
<1> QED
  BY <1>1, <1>4, <1>5, <1>6, <1>7, <1>8, <1>9, <1>10, <1>11 DEF Sound

(* QuicServer::disconnect.                                                 *)
LEMMA QuitSound ==
    ASSUME NEW S, NEW P, NEW A, Sound(S, P, A), NEW t \in Sessions, NEW T, T = QuicDisconnect(S, t)
    PROVE  Sound(T, P, A) /\ SameMap(S, T) /\ T.authed = S.authed
<1>0. S \in Server
  BY DEF Sound
<1>1. CASE S.conn[t] # "open"
  BY <1>1 DEF QuicDisconnect, SameMap
<1>2. CASE S.conn[t] = "open"
  <2> DEFINE conn == [S.conn EXCEPT ![t] = "closing"]
             told == [S.told EXCEPT ![t] = {}]
             seen == [S.seen EXCEPT ![t] = {}]
  <2>1. /\ conn \in [Sessions -> {"new", "open", "closing", "gone"}]
        /\ told \in [Sessions -> Roster] /\ seen \in [Sessions -> SUBSET Streams]
        /\ conn[t] = "closing"
        /\ \A v \in Sessions \ {t} : /\ conn[v] = S.conn[v] /\ told[v] = S.told[v]
                                     /\ seen[v] = S.seen[v]
    BY <1>0, FieldTypes DEF Roster
  <2>2. T = [S EXCEPT !.conn = conn, !.told = told, !.seen = seen]
    BY <1>2 DEF QuicDisconnect
  <2> HIDE DEF conn, told, seen
  <2>3. /\ T \in Server /\ T.auth = S.auth /\ T.user = S.user /\ T.chan = S.chan
        /\ T.index = S.index /\ T.authed = S.authed /\ T.channels = S.channels
        /\ T.streams = S.streams /\ T.allowed = S.allowed /\ T.subs = S.subs
        /\ T.conn = conn /\ T.told = told /\ T.seen = seen
    BY <1>0, <2>1, <2>2 DEF Server
  <2>4. ASSUME NEW v \in Sessions
        PROVE  /\ (InMap(T, v) <=> InMap(S, v)) /\ (T.conn[v] = "new" <=> S.conn[v] = "new")
               /\ (T.conn[v] = "gone" <=> S.conn[v] = "gone")
               /\ Hears(T, v) => Hears(S, v) /\ T.told[v] = S.told[v] /\ T.seen[v] = S.seen[v]
    <3>1. CASE v = t
      BY <1>2, <2>1, <2>3, <3>1 DEF InMap, Hears
    <3>2. CASE v # t
      BY <2>1, <2>3, <3>2 DEF InMap, Hears
    <3> QED
      BY <3>1, <3>2
  <2>5. Quieter(S, T)
    BY <2>3, <2>4 DEF Quieter
  <2> QED
    BY <2>3, <2>5, QuieterSound
<1> QED
  BY <1>1, <1>2

(* SCREEN_SHARE_VIEW and its stop, for a session that may watch.           *)
Watching(S, s, subs) == [S EXCEPT !.subs[s] = subs]

LEMMA ViewSound ==
    ASSUME NEW S, NEW P, NEW A, Sound(S, P, A), NEW s \in Sessions, S.conn[s] # "new",
           S.chan[s] # NoChannel, NEW subs \in SUBSET (S.subs[s] \cup S.streams[S.chan[s]]),
           NEW T, T = Watching(S, s, subs)
    PROVE  Sound(T, P, A) /\ T.conn = S.conn /\ T.authed = S.authed
<1>0. S \in Server
  BY DEF Sound
<1> DEFINE all == [S.subs EXCEPT ![s] = subs]
<1>1. /\ all \in [Sessions -> SUBSET Streams] /\ all[s] = subs
      /\ \A v \in Sessions \ {s} : all[v] = S.subs[v]
  <2>1. S.chan[s] \in Channels
    BY <1>0, FieldTypes
  <2>2. S.streams[S.chan[s]] \subseteq Streams
    BY <1>0, <2>1, FieldTypes
  <2> QED
    BY <1>0, <2>2, FieldTypes
<1>2. T = [S EXCEPT !.subs = all]
  BY DEF Watching
<1> HIDE DEF all
<1>3. /\ T \in Server /\ T.conn = S.conn /\ T.auth = S.auth /\ T.user = S.user
      /\ T.chan = S.chan /\ T.index = S.index /\ T.authed = S.authed
      /\ T.channels = S.channels /\ T.streams = S.streams /\ T.allowed = S.allowed
      /\ T.told = S.told /\ T.seen = S.seen /\ T.subs = all
  BY <1>0, <1>1, <1>2 DEF Server
<1>4. \A v \in Sessions :
         \/ T.subs[v] \subseteq S.subs[v]
         \/ /\ S.conn[v] # "new" /\ S.chan[v] # NoChannel
            /\ T.subs[v] \subseteq S.subs[v] \cup S.streams[S.chan[v]]
  BY <1>1, <1>3
<1>5. Quieter(S, T)
  BY <1>3, <1>4 DEF Quieter, InMap, Hears
<1> QED
  BY <1>3, <1>5, QuieterSound

(* CHANNEL_LEAVE.                                                          *)
LEMMA ChannelLeaveSound ==
    ASSUME NEW S, NEW P, NEW A, Sound(S, P, A), NEW s \in Sessions, S.auth[s],
           S.index[S.user[s]] = s, S.chan[s] # NoChannel, NEW T, T = ChannelLeave(S, s)
    PROVE  Sound(T, P, A) /\ T.conn = S.conn /\ T.authed = S.authed
<1>1. PICK L : L = LeaveChannel(S, s)
  OBVIOUS
<1>2. /\ Sound(L, P, A) /\ L.conn = S.conn /\ L.authed = S.authed
      /\ L.chan = [S.chan EXCEPT ![s] = NoChannel]
  BY <1>1, LeaveSound
<1>3. L \in Server /\ L.chan[s] = NoChannel
  BY <1>2, FieldTypes DEF Sound
<1> DEFINE seen == [L.seen EXCEPT ![s] = {}]
<1>4. /\ seen \in [Sessions -> SUBSET Streams]
      /\ \A v \in Sessions \ {s} : seen[v] = L.seen[v]
  BY <1>3, FieldTypes
<1>5. T = [L EXCEPT !.seen = seen]
  BY <1>1 DEF ChannelLeave
<1> HIDE DEF seen
<1>6. /\ T \in Server /\ T.conn = L.conn /\ T.auth = L.auth /\ T.user = L.user
      /\ T.chan = L.chan /\ T.index = L.index /\ T.authed = L.authed
      /\ T.channels = L.channels /\ T.streams = L.streams /\ T.allowed = L.allowed
      /\ T.told = L.told /\ T.seen = seen /\ T.subs = L.subs
  BY <1>3, <1>4, <1>5 DEF Server
<1>7. \A v \in Sessions : L.chan[v] # NoChannel => T.seen[v] = L.seen[v]
  BY <1>3, <1>4, <1>6
<1>8. Quieter(L, T)
  BY <1>6, <1>7 DEF Quieter, InMap, Hears
<1> QED
  BY <1>2, <1>6, <1>8, QuieterSound

-----------------------------------------------------------------------------
(* ADMIN_KICK_USER shuts every session of the user down, the third fold.   *)
QuitFold(S, D, g) ==
    g = [s \in SUBSET D |-> IF s = {} THEN S ELSE QuicDisconnect(g[s \ {First(s)}], First(s))]

Logins(S, u, all) == {t \in all : S.auth[t] /\ S.user[t] = u}

(* ADMIN_KICK_USER is a fold over the logins of the user.                  *)
LEMMA AdminKickIs ==
    ASSUME NEW S, NEW u, NEW all, NEW D, D = Logins(S, u, all)
    PROVE  AdminKickUser(S, u, all) = (CHOOSE g : QuitFold(S, D, g))[D]
BY DEF AdminKickUser, FoldSet, MapThenFoldSet, QuitFold, First, Logins

AllQuit(S, Q, P, A) == Sound(Q, P, A) /\ SameMap(S, Q) /\ Q.authed = S.authed

QuitsInTurn(S, D, g) ==
    /\ g[{}] = S
    /\ \A T \in SUBSET D : T # {} /\ g[T \ {First(T)}] \in Server =>
         g[T] = QuicDisconnect(g[T \ {First(T)}], First(T))

(* By induction over them, their shutdowns keep the invariant.             *)
LEMMA QuitsSound ==
    ASSUME NEW S, NEW P, NEW A, Sound(S, P, A), NEW D \in SUBSET Sessions,
           NEW g, QuitsInTurn(S, D, g)
    PROVE  \A T \in SUBSET D : AllQuit(S, g[T], P, A)
<1> DEFINE Good == {T \in SUBSET D : AllQuit(S, g[T], P, A)}
<1>0. IsFiniteSet(D)
  BY ServerAssumption, FS_Subset
<1>1. ASSUME NEW T \in SUBSET D, \A x \in T : T \ {x} \in Good
      PROVE  T \in Good
  <2>1. CASE T = {}
    BY <2>1 DEF QuitsInTurn, AllQuit, SameMap
  <2>2. CASE T # {}
    <3>1. PICK x : x = First(T)
      OBVIOUS
    <3>2. PICK Q : Q = g[T \ {x}]
      OBVIOUS
    <3>3. x \in T /\ x \in Sessions
      BY <2>2, <3>1, FirstIn
    <3>4. AllQuit(S, Q, P, A)
      BY <1>1, <3>2, <3>3
    <3>5. Q \in Server
      BY <3>4 DEF AllQuit, Sound
    <3>6. PICK R : R = g[T]
      OBVIOUS
    <3>7. R = QuicDisconnect(Q, x)
      BY <2>2, <3>1, <3>2, <3>5, <3>6 DEF QuitsInTurn
    <3>8. Sound(R, P, A) /\ SameMap(Q, R) /\ R.authed = Q.authed
      BY <3>3, <3>4, <3>7, QuitSound DEF AllQuit
    <3>9. AllQuit(S, R, P, A)
      BY <3>4, <3>8 DEF AllQuit, SameMap
    <3> QED
      BY <3>6, <3>9
  <2> QED
    BY <2>1, <2>2
<1>2. Good = SUBSET D
  <2> HIDE DEF Good
  <2>1. Good \in SUBSET (SUBSET D)
    BY DEF Good
  <2> QED
    BY <1>0, <1>1, <2>1, SubsetInduction
<1> QED
  BY <1>2

(* ADMIN_KICK_USER.                                                        *)
LEMMA AdminKickSound ==
    ASSUME NEW S, NEW P, NEW A, Sound(S, P, A), NEW u, NEW all \in SUBSET Sessions
    PROVE  AllQuit(S, AdminKickUser(S, u, all), P, A)
<1>a. PICK D : D = Logins(S, u, all)
  OBVIOUS
<1>0. IsFiniteSet(D) /\ D \in SUBSET Sessions
  BY <1>a, ServerAssumption, FS_Subset DEF Logins
<1> DEFINE h == [p \in D \X Server |-> QuicDisconnect(p[2], p[1])]
<1>1. PICK f : FoldsWith(h, S, SUBSET D, f)
  <2> HIDE DEF h
  <2> QED
    BY <1>0, FoldExists
<1>2. \A T \in SUBSET D : f[T] = IF T = {} THEN S ELSE h[<<First(T), f[T \ {First(T)}]>>]
  <2> HIDE DEF h
  <2> QED
    BY <1>1 DEF FoldsWith
<1>3. QuitsInTurn(S, D, f)
  <2>1. f[{}] = S
    BY <1>2
  <2>2. ASSUME NEW T \in SUBSET D, T # {}, f[T \ {First(T)}] \in Server
        PROVE  f[T] = QuicDisconnect(f[T \ {First(T)}], First(T))
    <3>1. PICK x : x = First(T)
      OBVIOUS
    <3>2. PICK Q : Q = f[T \ {x}]
      OBVIOUS
    <3>3. x \in D /\ Q \in Server /\ <<x, Q>> \in D \X Server
      BY <2>2, <3>1, <3>2, FirstIn
    <3>4. h[<<x, Q>>] = QuicDisconnect(<<x, Q>>[2], <<x, Q>>[1])
      BY <3>3
    <3>5. <<x, Q>>[1] = x /\ <<x, Q>>[2] = Q
      OBVIOUS
    <3>6. f[T] = h[<<x, Q>>]
      <4> HIDE DEF h
      <4> QED
        BY <1>2, <2>2, <3>1, <3>2
    <3> HIDE DEF h
    <3> QED
      BY <3>1, <3>2, <3>4, <3>5, <3>6
  <2> QED
    BY <2>1, <2>2 DEF QuitsInTurn
<1> HIDE DEF h
<1>4. \A T \in SUBSET D : AllQuit(S, f[T], P, A)
  BY <1>0, <1>3, QuitsSound
<1>5. QuitFold(S, D, f)
  <2>1. \A T \in SUBSET D : f[T] \in Server
    BY <1>4 DEF AllQuit, Sound
  <2>2. \A T \in SUBSET D : f[T] = IF T = {} THEN S
          ELSE QuicDisconnect(f[T \ {First(T)}], First(T))
    <3> SUFFICES ASSUME NEW T \in SUBSET D, T # {}
                 PROVE  f[T] = QuicDisconnect(f[T \ {First(T)}], First(T))
      BY <1>2
    <3>1. T \ {First(T)} \in SUBSET D
      OBVIOUS
    <3> QED
      BY <1>3, <2>1, <3>1 DEF QuitsInTurn
  <2>3. f = [T \in SUBSET D |-> f[T]]
    BY <1>1 DEF FoldsWith
  <2> QED
    BY <2>2, <2>3 DEF QuitFold
<1>6. PICK g : g = CHOOSE k : QuitFold(S, D, k)
  OBVIOUS
<1>7. QuitFold(S, D, g)
  BY <1>5, <1>6
<1>8. QuitsInTurn(S, D, g)
  <2>1. \A T \in SUBSET D : g[T] = IF T = {} THEN S
          ELSE QuicDisconnect(g[T \ {First(T)}], First(T))
    BY <1>7 DEF QuitFold
  <2> QED
    BY <2>1 DEF QuitsInTurn
<1>9. AllQuit(S, g[D], P, A)
  BY <1>0, <1>8, QuitsSound
<1>10. AdminKickUser(S, u, all) = g[D]
  BY <1>a, <1>6, AdminKickIs
<1> QED
  BY <1>9, <1>10

-----------------------------------------------------------------------------
(* SCREEN_SHARE_START by a session in a channel, or whose departure from   *)
(* that channel is queued.                                                 *)
LEMMA ShareStartSound ==
    ASSUME NEW S, NEW P, NEW A, Sound(S, P, A), NEW s \in Sessions, S.auth[s],
           S.chan[s] # NoChannel, InMap(S, s) \/ <<S.user[s], S.chan[s]>> \in P,
           NEW src \in Sources, NEW T, T = ScreenShareStart(S, s, src)
    PROVE  Sound(T, P, A) /\ T.conn = S.conn /\ T.authed = S.authed
<1>0. S \in Server /\ NoChannel \notin Channels
  BY ServerAssumption DEF Sound
<1>1. PICK st : st = <<S.user[s], src>>
  OBVIOUS
<1>2. PICK c : c = S.chan[s]
  OBVIOUS
<1>3. S.user[s] \in Users /\ c \in Channels /\ st \in Streams /\ S.conn[s] # "new"
  BY <1>0, <1>1, <1>2, FieldTypes DEF Sound, ChannelNeedsLogin, Streams
<1> DEFINE streams == [S.streams EXCEPT ![c] = @ \cup {st}]
           allowed == [S.allowed EXCEPT ![s] = @ \cup {src}]
           seen == [v \in Sessions |-> IF Hears(S, v) /\ S.chan[v] = c
                                       THEN S.seen[v] \cup {st} ELSE S.seen[v]]
<1>4. /\ streams \in [Channels -> SUBSET Streams] /\ allowed \in [Sessions -> SUBSET Sources]
      /\ seen \in [Sessions -> SUBSET Streams]
      /\ \A d \in Channels : streams[d] = IF d = c THEN S.streams[d] \cup {st} ELSE S.streams[d]
      /\ \A v \in Sessions : allowed[v] = IF v = s THEN S.allowed[v] \cup {src} ELSE S.allowed[v]
      /\ \A v \in Sessions : seen[v] = IF Hears(S, v) /\ S.chan[v] = c
                                       THEN S.seen[v] \cup {st} ELSE S.seen[v]
  <2>1. /\ S.streams \in [Channels -> SUBSET Streams] /\ S.allowed \in [Sessions -> SUBSET Sources]
        /\ S.seen \in [Sessions -> SUBSET Streams]
    BY <1>0, FieldTypes
  <2>2. streams \in [Channels -> SUBSET Streams]
    BY <1>3, <2>1
  <2>3. allowed \in [Sessions -> SUBSET Sources]
    BY <2>1
  <2>4. seen \in [Sessions -> SUBSET Streams]
    BY <1>3, <2>1
  <2>5. \A d \in Channels : streams[d] = IF d = c THEN S.streams[d] \cup {st} ELSE S.streams[d]
    BY <2>1
  <2>6. \A v \in Sessions : allowed[v] = IF v = s THEN S.allowed[v] \cup {src} ELSE S.allowed[v]
    BY <2>1
  <2> HIDE DEF streams, allowed
  <2> QED
    BY <2>2, <2>3, <2>4, <2>5, <2>6
<1>5. T = [S EXCEPT !.streams = streams, !.allowed = allowed, !.seen = seen]
  BY <1>1, <1>2 DEF ScreenShareStart
<1> HIDE DEF streams, allowed, seen
<1>6. /\ T \in Server /\ SamePlaces(S, T) /\ T.index = S.index /\ T.authed = S.authed
      /\ T.channels = S.channels /\ T.subs = S.subs /\ T.told = S.told
      /\ T.streams = streams /\ T.allowed = allowed /\ T.seen = seen
  <2>1. /\ streams \in [Channels -> SUBSET Streams] /\ allowed \in [Sessions -> SUBSET Sources]
        /\ seen \in [Sessions -> SUBSET Streams]
    BY <1>4
  <2>2. T \in Server
    BY <1>0, <1>5, <2>1 DEF Server
  <2> QED
    BY <1>0, <1>5, <2>2 DEF Server, SamePlaces
<1>7. /\ \A v : (InMap(T, v) <=> InMap(S, v)) /\ (Hears(T, v) <=> Hears(S, v))
      /\ GetSessions(T) = GetSessions(S) /\ GetSessions(S) \subseteq Sessions
      /\ \A d : Members(T, d) = Members(S, d) /\ InRoster(T, d) = InRoster(S, d)
      /\ T.conn = S.conn /\ T.auth = S.auth /\ T.user = S.user /\ T.chan = S.chan
  BY <1>6, SamePlacesSame DEF SamePlaces, GetSessions
<1>8. IndexNamesSession(T) /\ SignedInIsIndexed(T) /\ AuthedIsSignedIn(T)
  BY <1>6, <1>7 DEF Sound, IndexNamesSession, SignedInIsIndexed, AuthedIsSignedIn
<1>9. ChannelNeedsLogin(T)
  <2> SUFFICES ASSUME NEW v \in Sessions, T.conn[v] = "new" PROVE T.allowed[v] = {}
    BY <1>6, <1>7 DEF Sound, ChannelNeedsLogin
  <2>1. v # s /\ S.allowed[v] = {}
    BY <1>3, <1>7 DEF Sound, ChannelNeedsLogin
  <2> QED
    BY <1>4, <1>6, <2>1
<1>10. \A d \in Channels : S.streams[d] \subseteq T.streams[d] /\ st \in T.streams[c]
  BY <1>3, <1>4, <1>6
<1>11. SourcesRegistered(T)
  <2> SUFFICES ASSUME NEW v \in GetSessions(S), NEW k \in T.allowed[v]
               PROVE  S.chan[v] # NoChannel /\ <<S.user[v], k>> \in T.streams[S.chan[v]]
    BY <1>7 DEF SourcesRegistered
  <2>1. CASE k \in S.allowed[v]
    <3>1. S.chan[v] # NoChannel /\ <<S.user[v], k>> \in S.streams[S.chan[v]] /\ S.chan[v] \in Channels
      BY <1>0, <1>7, <2>1, FieldTypes DEF Sound, SourcesRegistered
    <3> QED
      BY <1>10, <3>1
  <2>2. CASE k \notin S.allowed[v]
    <3>1. v = s /\ k = src
      BY <1>4, <1>6, <1>7, <2>2
    <3> QED
      BY <1>0, <1>1, <1>2, <1>3, <1>10, <3>1
  <2> QED
    BY <2>1, <2>2
<1>12. WatchedRunHere(T)
  <2> SUFFICES ASSUME NEW v \in GetSessions(S), S.subs[v] # {}
               PROVE  S.chan[v] # NoChannel /\ S.subs[v] \subseteq T.streams[S.chan[v]]
    BY <1>6, <1>7 DEF WatchedRunHere
  <2>1. S.chan[v] # NoChannel /\ S.subs[v] \subseteq S.streams[S.chan[v]] /\ S.chan[v] \in Channels
    BY <1>0, <1>7, FieldTypes DEF Sound, WatchedRunHere
  <2> QED
    BY <1>10, <2>1
<1>13. Published(T, P)
  <2> SUFFICES ASSUME NEW d \in Channels, NEW x \in T.streams[d]
               PROVE  <<Owner(x), d>> \in InRoster(S, d) \cup P
    BY <1>7 DEF Published
  <2>1. CASE x \in S.streams[d]
    BY <2>1 DEF Sound, Published
  <2>2. CASE x \notin S.streams[d]
    <3>1. d = c /\ x = st
      BY <1>4, <1>6, <2>2
    <3>2. Owner(x) = S.user[s]
      BY <1>1, <3>1 DEF Owner
    <3>3. InMap(S, s) => <<S.user[s], c>> \in InRoster(S, c)
      BY <1>2 DEF InRoster, Members, GetSessions
    <3> QED
      BY <1>2, <3>1, <3>2, <3>3
  <2> QED
    BY <2>1, <2>2
<1>14. RosterTold(T, P, A)
  <2>1. T.told = S.told /\ T.channels = S.channels /\ T.user = S.user
    BY <1>6 DEF SamePlaces
  <2>2. RosterTold(S, P, A)
    BY DEF Sound
  <2>3. /\ \A v \in Sessions : Hears(T, v) => Hears(S, v)
        /\ \A d : InRoster(T, d) = InRoster(S, d)
    BY <1>7
  <2> QED
    BY <2>1, <2>2, <2>3, RosterToldSame
<1>15. StreamsTold(T)
  <2> SUFFICES ASSUME NEW v \in Sessions, Hears(S, v), S.chan[v] # NoChannel
               PROVE  /\ T.seen[v] \subseteq T.streams[S.chan[v]]
                      /\ \A t \in Members(S, S.chan[v]) : \A k \in T.allowed[t] :
                           <<S.user[t], k>> \in T.seen[v]
    BY <1>7 DEF StreamsTold
  <2>1. S.chan[v] \in Channels
    BY <1>0, FieldTypes
  <2>2. /\ S.seen[v] \subseteq S.streams[S.chan[v]]
        /\ \A t \in Members(S, S.chan[v]) : \A k \in S.allowed[t] :
             <<S.user[t], k>> \in S.seen[v]
    BY DEF Sound, StreamsTold
  <2>3. T.seen[v] = IF S.chan[v] = c THEN S.seen[v] \cup {st} ELSE S.seen[v]
    BY <1>4, <1>6
  <2>4. T.seen[v] \subseteq T.streams[S.chan[v]]
    BY <1>10, <2>1, <2>2, <2>3
  <2>5. ASSUME NEW t \in Members(S, S.chan[v]), NEW k \in T.allowed[t]
        PROVE  <<S.user[t], k>> \in T.seen[v]
    <3>1. CASE k \in S.allowed[t]
      BY <2>2, <2>3, <3>1
    <3>2. CASE k \notin S.allowed[t]
      <4>1. t \in Sessions /\ S.chan[t] = S.chan[v]
        BY DEF Members, GetSessions
      <4>2. t = s /\ k = src
        BY <1>4, <1>6, <3>2, <4>1
      <4> QED
        BY <1>1, <1>2, <2>3, <4>1, <4>2
    <3> QED
      BY <3>1, <3>2
  <2> QED
    BY <2>4, <2>5
<1> QED
  BY <1>6, <1>7, <1>8, <1>9, <1>11, <1>12, <1>13, <1>14, <1>15 DEF Sound

-----------------------------------------------------------------------------
(* The QUIC workers: a connection opens; a connection is retired, and the  *)
(* departure of a signed-in user is queued.                                *)
Opened(S, s) == [S EXCEPT !.conn[s] = "open"]

OnlyConn(S, T, s, state) ==
    /\ T.auth = S.auth /\ T.user = S.user /\ T.chan = S.chan
    /\ T.authed = S.authed /\ T.index = S.index
    /\ T.conn[s] = state /\ \A v \in Sessions \ {s} : T.conn[v] = S.conn[v]

LEMMA OpenSound ==
    ASSUME NEW S, NEW P, NEW A, Sound(S, P, A), NEW s \in Sessions, S.conn[s] = "new",
           NEW T, T = Opened(S, s)
    PROVE  Sound(T, P, A) /\ OnlyConn(S, T, s, "open") /\ ~S.auth[s]
<1>0. S \in Server
  BY DEF Sound
<1>1. ~S.auth[s] /\ S.chan[s] = NoChannel /\ S.subs[s] = {} /\ S.allowed[s] = {} /\ ~InMap(S, s)
  BY DEF Sound, ChannelNeedsLogin, InMap
<1> DEFINE conn == [S.conn EXCEPT ![s] = "open"]
<1>2. /\ conn \in [Sessions -> {"new", "open", "closing", "gone"}] /\ conn[s] = "open"
      /\ \A v \in Sessions \ {s} : conn[v] = S.conn[v]
  BY <1>0, FieldTypes
<1>3. T = [S EXCEPT !.conn = conn]
  BY DEF Opened
<1> HIDE DEF conn
<1>4. /\ T \in Server /\ T.auth = S.auth /\ T.user = S.user /\ T.chan = S.chan
      /\ T.index = S.index /\ T.authed = S.authed /\ T.channels = S.channels
      /\ T.streams = S.streams /\ T.allowed = S.allowed /\ T.subs = S.subs
      /\ T.told = S.told /\ T.seen = S.seen /\ T.conn = conn
  BY <1>0, <1>2, <1>3 DEF Server
<1>5. \A v \in Sessions \ {s} : (InMap(T, v) <=> InMap(S, v)) /\ (Hears(T, v) <=> Hears(S, v))
  BY <1>2, <1>4 DEF InMap, Hears
<1>6. ~Hears(T, s) /\ ~T.auth[s]
  BY <1>1, <1>4 DEF Hears
<1>7. \A d : Members(T, d) = Members(S, d)
  BY <1>1, <1>4, <1>5 DEF Members, GetSessions
<1>8. \A d : InRoster(T, d) = InRoster(S, d)
  BY <1>4, <1>7 DEF InRoster
<1>9. \A v \in GetSessions(T) : v = s \/ v \in GetSessions(S)
  BY <1>5 DEF GetSessions
<1>10. IndexNamesSession(T)
  BY <1>4 DEF Sound, IndexNamesSession
<1>11. SignedInIsIndexed(T)
  BY <1>4, <1>5, <1>6 DEF Sound, SignedInIsIndexed
<1>12. AuthedIsSignedIn(T)
  <2>1. s \notin S.authed
    BY <1>1 DEF Sound, AuthedIsSignedIn
  <2>2. S.authed \subseteq Sessions
    BY <1>0, FieldTypes
  <2> SUFFICES ASSUME NEW v \in S.authed, InMap(T, v) \/ T.conn[v] = "new" PROVE S.auth[v]
    BY <1>4 DEF AuthedIsSignedIn
  <2>3. v \in Sessions \ {s} /\ T.conn[v] = S.conn[v]
    BY <1>2, <1>4, <2>1, <2>2
  <2> QED
    BY <1>5, <2>3 DEF Sound, AuthedIsSignedIn
<1>13. ChannelNeedsLogin(T)
  <2> SUFFICES ASSUME NEW v \in Sessions
               PROVE  /\ T.chan[v] # NoChannel => T.auth[v]
                      /\ T.auth[v] => T.user[v] \in Users /\ T.conn[v] # "new"
                      /\ T.conn[v] = "new" => T.subs[v] = {} /\ T.allowed[v] = {}
    BY DEF ChannelNeedsLogin
  <2>1. /\ S.chan[v] # NoChannel => S.auth[v]
        /\ S.auth[v] => S.user[v] \in Users /\ S.conn[v] # "new"
        /\ S.conn[v] = "new" => S.subs[v] = {} /\ S.allowed[v] = {}
    BY DEF Sound, ChannelNeedsLogin
  <2>2. v # s => T.conn[v] = S.conn[v]
    BY <1>2, <1>4
  <2> QED
    BY <1>2, <1>4, <2>1, <2>2
<1>14. SourcesRegistered(T)
  BY <1>1, <1>4, <1>9 DEF Sound, SourcesRegistered
<1>15. WatchedRunHere(T)
  BY <1>1, <1>4, <1>9 DEF Sound, WatchedRunHere
<1>16. Published(T, P)
  BY <1>4, <1>8 DEF Sound, Published
<1>17. RosterTold(T, P, A)
  <2>1. \A v \in Sessions : Hears(T, v) => Hears(S, v)
    BY <1>5, <1>6
  <2> QED
    BY <1>4, <1>8, <2>1 DEF Sound, RosterTold
<1>18. StreamsTold(T)
  <2>1. \A v \in Sessions : Hears(T, v) => Hears(S, v)
    BY <1>5, <1>6
  <2> QED
    BY <1>4, <1>7, <2>1 DEF Sound, StreamsTold
<1> QED
  BY <1>1, <1>2, <1>4, <1>10, <1>11, <1>12, <1>13, <1>14, <1>15, <1>16, <1>17, <1>18
  DEF Sound, OnlyConn

(* SHUTDOWN_COMPLETE.                                                      *)
LEMMA RetireSound ==
    ASSUME NEW S, NEW P, NEW A, Sound(S, P, A), NEW s \in Sessions, InMap(S, s),
           NEW Q, P \subseteq Q, S.auth[s] => <<S.user[s], S.chan[s]>> \in Q,
           NEW T, T = Retire(S, s)
    PROVE  Sound(T, Q, A) /\ OnlyConn(S, T, s, "gone")
<1>0. S \in Server
  BY DEF Sound
<1> DEFINE conn == [S.conn EXCEPT ![s] = "gone"]
           told == [S.told EXCEPT ![s] = {}]
           seen == [S.seen EXCEPT ![s] = {}]
<1>1. /\ conn \in [Sessions -> {"new", "open", "closing", "gone"}]
      /\ told \in [Sessions -> Roster] /\ seen \in [Sessions -> SUBSET Streams]
      /\ conn[s] = "gone"
      /\ \A v \in Sessions \ {s} : /\ conn[v] = S.conn[v] /\ told[v] = S.told[v]
                                   /\ seen[v] = S.seen[v]
  BY <1>0, FieldTypes DEF Roster
<1>2. T = [S EXCEPT !.conn = conn, !.told = told, !.seen = seen]
  BY DEF Retire
<1> HIDE DEF conn, told, seen
<1>3. /\ T \in Server /\ T.auth = S.auth /\ T.user = S.user /\ T.chan = S.chan
      /\ T.index = S.index /\ T.authed = S.authed /\ T.channels = S.channels
      /\ T.streams = S.streams /\ T.allowed = S.allowed /\ T.subs = S.subs
      /\ T.conn = conn /\ T.told = told /\ T.seen = seen
  BY <1>0, <1>1, <1>2 DEF Server
<1>4. /\ \A v \in Sessions \ {s} :
           /\ (InMap(T, v) <=> InMap(S, v)) /\ (Hears(T, v) <=> Hears(S, v))
           /\ T.told[v] = S.told[v] /\ T.seen[v] = S.seen[v]
      /\ ~InMap(T, s) /\ ~Hears(T, s)
  BY <1>1, <1>3 DEF InMap, Hears
<1>5. \A v \in Sessions : /\ (InMap(T, v) => InMap(S, v))
                          /\ (T.conn[v] = "new" <=> S.conn[v] = "new")
  BY <1>1, <1>3, <1>4 DEF InMap
<1>6. GetSessions(T) \subseteq GetSessions(S) /\ GetSessions(S) \subseteq Sessions
  BY <1>5 DEF GetSessions
<1>7. \A d : Members(T, d) \subseteq Members(S, d)
  BY <1>3, <1>6 DEF Members
<1>8. \A w, d : /\ <<w, d>> \in InRoster(T, d) => <<w, d>> \in InRoster(S, d)
                /\ <<w, d>> \in InRoster(S, d) => <<w, d>> \in InRoster(T, d) \cup Q
  <2> SUFFICES ASSUME NEW w, NEW d
               PROVE  /\ <<w, d>> \in InRoster(T, d) => <<w, d>> \in InRoster(S, d)
                      /\ <<w, d>> \in InRoster(S, d) => <<w, d>> \in InRoster(T, d) \cup Q
    OBVIOUS
  <2>1. /\ <<w, d>> \in InRoster(T, d) <=>
             \E v \in Sessions : InMap(T, v) /\ S.auth[v] /\ S.chan[v] = d /\ S.user[v] = w
        /\ <<w, d>> \in InRoster(S, d) <=>
             \E v \in Sessions : InMap(S, v) /\ S.auth[v] /\ S.chan[v] = d /\ S.user[v] = w
    BY <1>3, RosterIs
  <2> QED
    BY <1>4, <2>1
<1>9. IndexNamesSession(T)
  BY <1>3 DEF Sound, IndexNamesSession
<1>10. SignedInIsIndexed(T)
  BY <1>3, <1>5 DEF Sound, SignedInIsIndexed
<1>11. AuthedIsSignedIn(T)
  <2>1. S.authed \subseteq Sessions
    BY <1>0, FieldTypes
  <2> QED
    BY <1>3, <1>5, <2>1 DEF Sound, AuthedIsSignedIn
<1>12. ChannelNeedsLogin(T)
  BY <1>3, <1>5 DEF Sound, ChannelNeedsLogin
<1>13. SourcesRegistered(T)
  BY <1>3, <1>6 DEF Sound, SourcesRegistered
<1>14. WatchedRunHere(T)
  BY <1>3, <1>6 DEF Sound, WatchedRunHere
<1>15. Published(T, Q)
  <2> SUFFICES ASSUME NEW d \in Channels, NEW st \in S.streams[d]
               PROVE  <<Owner(st), d>> \in InRoster(T, d) \cup Q
    BY <1>3 DEF Published
  <2>1. <<Owner(st), d>> \in InRoster(S, d) \cup P
    BY DEF Sound, Published
  <2> QED
    BY <1>8, <2>1
<1>16. RosterTold(T, Q, A)
  <2> SUFFICES ASSUME NEW v \in Sessions, Hears(T, v), NEW w \in Users \ {T.user[v]},
                      NEW d \in T.channels
               PROVE  /\ <<w, d>> \in InRoster(T, d) \ A => <<w, d>> \in T.told[v]
                      /\ <<w, d>> \in T.told[v] => <<w, d>> \in InRoster(T, d) \cup A \cup Q
    BY DEF RosterTold
  <2>1. Hears(S, v) /\ w \in Users \ {S.user[v]} /\ d \in S.channels /\ T.told[v] = S.told[v]
    BY <1>3, <1>4
  <2>2. /\ <<w, d>> \in InRoster(S, d) \ A => <<w, d>> \in S.told[v]
        /\ <<w, d>> \in S.told[v] => <<w, d>> \in InRoster(S, d) \cup A \cup P
    BY <2>1 DEF Sound, RosterTold
  <2> QED
    BY <1>8, <2>1, <2>2
<1>17. StreamsTold(T)
  <2> SUFFICES ASSUME NEW v \in Sessions, Hears(T, v), T.chan[v] # NoChannel
               PROVE  /\ T.seen[v] \subseteq T.streams[T.chan[v]]
                      /\ \A t \in Members(T, T.chan[v]) : \A src \in T.allowed[t] :
                           <<T.user[t], src>> \in T.seen[v]
    BY DEF StreamsTold
  <2>1. Hears(S, v) /\ S.chan[v] # NoChannel /\ T.seen[v] = S.seen[v]
    BY <1>3, <1>4
  <2>2. /\ S.seen[v] \subseteq S.streams[S.chan[v]]
        /\ \A t \in Members(S, S.chan[v]) : \A src \in S.allowed[t] :
             <<S.user[t], src>> \in S.seen[v]
    BY <2>1 DEF Sound, StreamsTold
  <2> QED
    BY <1>3, <1>7, <2>1, <2>2
<1> QED
  BY <1>1, <1>3, <1>9, <1>10, <1>11, <1>12, <1>13, <1>14, <1>15, <1>16, <1>17 DEF Sound, OnlyConn

-----------------------------------------------------------------------------
(* The invariant is inductive.                                             *)
LEMMA InitSound ==
    Init => IInv
<1> SUFFICES ASSUME Init PROVE IInv
  OBVIOUS
<1> USE DEF Init
<1>1. srv \in Server
  BY DEF NewServer, Server, Roster
<1>2. TypeOK /\ disconnects \in Seq(Departures)
  <2>1. disconnects \in Seq(Departures) /\ DOMAIN disconnects = {}
    OBVIOUS
  <2>2. handling \in [sid : Sessions \cup {NoSession}, all : SUBSET Sessions]
    BY DEF Idle
  <2>3. unannounced \in Roster /\ orphaned \subseteq Sessions
    BY DEF Roster
  <2> QED
    BY <1>1, <2>1, <2>2, <2>3, Zenon DEF TypeOK
<1>3. \A s \in Sessions : ~InMap(srv, s) /\ ~Hears(srv, s) /\ ~srv.auth[s]
  BY DEF NewServer, InMap, Hears
<1>4. IndexNamesSession(srv) /\ SignedInIsIndexed(srv) /\ AuthedIsSignedIn(srv)
  BY <1>3 DEF IndexNamesSession, SignedInIsIndexed, AuthedIsSignedIn, NewServer
<1>5. ChannelNeedsLogin(srv)
  BY DEF ChannelNeedsLogin, NewServer
<1>6. SourcesRegistered(srv) /\ WatchedRunHere(srv)
  BY <1>3 DEF SourcesRegistered, WatchedRunHere, GetSessions
<1>7. Published(srv, Queued)
  BY DEF Published, NewServer
<1>8. RosterTold(srv, Queued, unannounced) /\ StreamsTold(srv)
  BY <1>3 DEF RosterTold, StreamsTold
<1>9. Sound(srv, Queued, unannounced)
  BY <1>1, <1>4, <1>5, <1>6, <1>7, <1>8 DEF Sound
<1>10. AuthedSessionsEnd /\ DeparturesAreGone /\ HandlingCurrent
  BY DEF AuthedSessionsEnd, DeparturesAreGone, HandlingCurrent, NewServer
<1> QED
  BY <1>2, <1>9, <1>10 DEF IInv

(* What holds while the handler of a message runs.                         *)
LEMMA HandlerFacts ==
    ASSUME IInv, handling # Idle
    PROVE  /\ Me \in Sessions /\ srv.conn[Me] # "new" /\ handling.all \in SUBSET Sessions
           /\ srv.auth[Me] => srv.index[srv.user[Me]] = Me /\ srv.user[Me] \in Users
           /\ srv.auth[Me] => InMap(srv, Me) \/ <<srv.user[Me], srv.chan[Me]>> \in Queued
           /\ srv.chan[Me] \in Channels \cup {NoChannel}
           /\ \A t \in GetSessions(srv) : srv.auth[t] => t \in handling.all
<1>1. /\ Me \in Sessions /\ srv.conn[Me] # "new"
      /\ srv.auth[Me] => srv.index[srv.user[Me]] = Me
      /\ ~InMap(srv, Me) /\ srv.auth[Me] => Pending(Me, srv.user[Me], srv.chan[Me])
      /\ \A t \in GetSessions(srv) : srv.auth[t] => t \in handling.all
  BY DEF IInv, HandlingCurrent
<1>2. handling.all \in SUBSET Sessions /\ srv \in Server
  BY DEF IInv, TypeOK
<1>3. srv.auth[Me] => srv.user[Me] \in Users
  BY <1>1 DEF IInv, Sound, ChannelNeedsLogin
<1>4. Pending(Me, srv.user[Me], srv.chan[Me]) => <<srv.user[Me], srv.chan[Me]>> \in Queued
  BY DEF Pending, Queued
<1>5. srv.chan[Me] \in Channels \cup {NoChannel}
  BY <1>1, <1>2, FieldTypes
<1> QED
  BY <1>1, <1>2, <1>3, <1>4, <1>5

(* A handler that ends in a sound state keeps the invariant.               *)
LEMMA HandledInv ==
    ASSUME IInv, NEW T, Handled(T), Sound(T, Queued, unannounced'), SameMap(srv, T),
           unannounced' \in Roster, orphaned' \in SUBSET Sessions, orphaned \subseteq orphaned',
           \A s \in T.authed \ orphaned' : s \in srv.authed \/ InMap(T, s)
    PROVE  IInv'
<1>1. srv' = T /\ handling' = Idle /\ disconnects' = disconnects /\ T \in Server
  BY DEF Handled, Sound
<1>2. TypeOK' /\ (disconnects \in Seq(Departures))'
  BY <1>1 DEF IInv, TypeOK, Idle
<1>3. Queued' = Queued
  BY <1>1 DEF Queued
<1>4. Sound(srv, Queued, unannounced)'
  BY <1>1, <1>3
<1>5. AuthedSessionsEnd'
  <2> SUFFICES ASSUME NEW s \in T.authed \ orphaned'
               PROVE  InMap(T, s) \/ \E i \in DOMAIN disconnects : disconnects[i].sid = s
    BY <1>1 DEF AuthedSessionsEnd
  <2>1. s \in srv.authed => InMap(srv, s) \/ \E i \in DOMAIN disconnects : disconnects[i].sid = s
    BY DEF IInv, AuthedSessionsEnd
  <2>2. s \in Sessions
    BY <1>1, FieldTypes
  <2> QED
    BY <2>1, <2>2 DEF SameMap
<1>6. DeparturesAreGone'
  <2> SUFFICES ASSUME NEW i \in DOMAIN disconnects PROVE T.conn[disconnects[i].sid] = "gone"
    BY <1>1 DEF DeparturesAreGone
  <2>1. srv.conn[disconnects[i].sid] = "gone" /\ disconnects[i].sid \in Sessions
    BY DEF IInv, DeparturesAreGone, TypeOK
  <2> QED
    BY <2>1 DEF SameMap
<1>7. HandlingCurrent'
  BY <1>1 DEF HandlingCurrent
<1> QED
  BY <1>2, <1>4, <1>5, <1>6, <1>7 DEF IInv

(* ... most of them without touching a connection or a login.              *)
LEMMA QuietHandler ==
    ASSUME IInv, NEW T, Handled(T), Sound(T, Queued, unannounced'), SameMap(srv, T),
           unannounced' \in Roster, orphaned' = orphaned, T.authed = srv.authed
    PROVE  IInv'
<1>1. orphaned' \in SUBSET Sessions
  BY DEF IInv, TypeOK
<1> QED
  BY <1>1, HandledInv

LEMMA SameConnSameMap ==
    ASSUME NEW S, NEW T, T.conn = S.conn
    PROVE  SameMap(S, T)
BY DEF SameMap, InMap

(* The parts of the invariant the step lemmas use.                         *)
LEMMA SoundNow ==
    ASSUME IInv
    PROVE  Sound(srv, Queued, unannounced) /\ srv \in Server /\ unannounced \in Roster
BY DEF IInv, TypeOK

-----------------------------------------------------------------------------
(* The QUIC workers.                                                       *)
LEMMA NewConnectionInv ==
    ASSUME IInv, NEW s \in Sessions, NewConnection(s)
    PROVE  IInv'
<1>1. /\ srv.conn[s] = "new" /\ srv' = [srv EXCEPT !.conn[s] = "open"]
      /\ disconnects' = disconnects /\ handling' = handling
      /\ unannounced' = unannounced /\ orphaned' = orphaned
  BY DEF NewConnection
<1>2. PICK T : T = Opened(srv, s)
  OBVIOUS
<1>3. srv' = T
  BY <1>1, <1>2 DEF Opened
<1>12. Sound(T, Queued, unannounced) /\ OnlyConn(srv, T, s, "open") /\ ~srv.auth[s]
  BY <1>1, <1>2, OpenSound, SoundNow
<1>4. /\ Sound(T, Queued, unannounced) /\ T.auth = srv.auth /\ T.user = srv.user
      /\ T.chan = srv.chan /\ T.authed = srv.authed /\ T.index = srv.index /\ ~srv.auth[s]
      /\ T.conn[s] = "open" /\ \A v \in Sessions \ {s} : T.conn[v] = srv.conn[v]
  BY <1>12 DEF OnlyConn
<1>5. TypeOK' /\ (disconnects \in Seq(Departures))'
  BY <1>1, <1>3, <1>4 DEF IInv, TypeOK, Sound
<1>6. Queued' = Queued
  BY <1>1 DEF Queued
<1>7. Sound(srv, Queued, unannounced)'
  BY <1>1, <1>3, <1>4, <1>6
<1>8. \A v \in Sessions : InMap(srv, v) => InMap(T, v)
  BY <1>4 DEF InMap
<1>9. AuthedSessionsEnd'
  <2> SUFFICES ASSUME NEW v \in srv.authed \ orphaned
               PROVE  InMap(T, v) \/ \E i \in DOMAIN disconnects : disconnects[i].sid = v
    BY <1>1, <1>3, <1>4 DEF AuthedSessionsEnd
  <2>1. v \in Sessions
    BY SoundNow, FieldTypes
  <2> QED
    BY <1>8, <2>1 DEF IInv, AuthedSessionsEnd
<1>10. DeparturesAreGone'
  <2> SUFFICES ASSUME NEW i \in DOMAIN disconnects PROVE T.conn[disconnects[i].sid] = "gone"
    BY <1>1, <1>3 DEF DeparturesAreGone
  <2>1. srv.conn[disconnects[i].sid] = "gone" /\ disconnects[i].sid \in Sessions
    BY DEF IInv, DeparturesAreGone, TypeOK
  <2> QED
    BY <1>1, <1>4, <2>1
<1>11. HandlingCurrent'
  <2> SUFFICES ASSUME handling # Idle
               PROVE  /\ Me \in Sessions /\ T.conn[Me] # "new"
                      /\ T.auth[Me] => T.index[T.user[Me]] = Me
                      /\ ~InMap(T, Me) /\ T.auth[Me] => Pending(Me, T.user[Me], T.chan[Me])
                      /\ \A t \in GetSessions(T) : T.auth[t] => t \in handling.all
    BY <1>1, <1>3 DEF HandlingCurrent, Me, Pending
  <2>1. /\ Me \in Sessions /\ srv.conn[Me] # "new"
        /\ srv.auth[Me] => srv.index[srv.user[Me]] = Me
        /\ ~InMap(srv, Me) /\ srv.auth[Me] => Pending(Me, srv.user[Me], srv.chan[Me])
        /\ \A t \in GetSessions(srv) : srv.auth[t] => t \in handling.all
    BY DEF IInv, HandlingCurrent
  <2>2. Me # s /\ T.conn[Me] = srv.conn[Me] /\ (InMap(T, Me) <=> InMap(srv, Me))
    BY <1>1, <1>4, <2>1 DEF InMap
  <2>3. \A t \in GetSessions(T) : T.auth[t] => t \in GetSessions(srv)
    BY <1>4 DEF GetSessions, InMap
  <2> QED
    BY <1>4, <2>1, <2>2, <2>3
<1> QED
  BY <1>5, <1>7, <1>9, <1>10, <1>11 DEF IInv

(* The queue with the departure of one more session.                       *)
QueuedNext(s) == disconnects \o Departure(srv, s)

Extends(D, s) ==
    /\ D \in Seq(Departures)
    /\ \A i \in DOMAIN disconnects : i \in DOMAIN D /\ D[i] = disconnects[i]
    /\ \A i \in DOMAIN D : i \in DOMAIN disconnects \/ D[i].sid = s
    /\ srv.auth[s] => \E i \in DOMAIN D :
         D[i] = [sid |-> s, uid |-> srv.user[s], cid |-> srv.chan[s]]

LEMMA DepartureQueued ==
    ASSUME IInv, NEW s \in Sessions, NEW D, D = QueuedNext(s)
    PROVE  Extends(D, s)
<1>1. disconnects \in Seq(Departures)
  BY DEF IInv
<1>2. CASE ~srv.auth[s]
  <2>1. D = disconnects
    BY <1>1, <1>2 DEF QueuedNext, Departure
  <2> QED
    BY <1>1, <1>2, <2>1 DEF Extends
<1>3. CASE srv.auth[s]
  <2> DEFINE d == [sid |-> s, uid |-> srv.user[s], cid |-> srv.chan[s]]
  <2>1. srv.user[s] \in Users /\ srv.chan[s] \in Channels \cup {NoChannel}
    BY <1>3, SoundNow, FieldTypes DEF Sound, ChannelNeedsLogin
  <2>2. d \in Departures /\ d.sid = s
    BY <2>1 DEF Departures
  <2>3. D = disconnects \o <<d>>
    BY <1>3 DEF QueuedNext, Departure
  <2> HIDE DEF d
  <2>4. D \in Seq(Departures) /\ Len(D) = Len(disconnects) + 1
    BY <1>1, <2>2, <2>3
  <2>5. D[Len(disconnects) + 1] = d /\ \A i \in 1 .. Len(disconnects) : D[i] = disconnects[i]
    BY <1>1, <2>2, <2>3
  <2>6. DOMAIN D = 1 .. Len(disconnects) + 1 /\ DOMAIN disconnects = 1 .. Len(disconnects)
        /\ Len(disconnects) \in Nat
    BY <1>1, <2>4
  <2>7. \A i \in DOMAIN D : i \in DOMAIN disconnects \/ D[i] = d
    BY <2>5, <2>6
  <2>8. \E i \in DOMAIN D : D[i] = d
    BY <2>5, <2>6
  <2> QED
    BY <2>2, <2>4, <2>5, <2>6, <2>7, <2>8 DEF d, Extends
<1> QED
  BY <1>2, <1>3

(* A retirement queues the departure of a signed-in session.               *)
LEMMA ShutdownCompleteInv ==
    ASSUME IInv, NEW s \in Sessions, ShutdownComplete(s)
    PROVE  IInv'
<1>1. /\ InMap(srv, s) /\ srv' = Retire(srv, s)
      /\ disconnects' = disconnects \o Departure(srv, s)
      /\ handling' = handling /\ unannounced' = unannounced /\ orphaned' = orphaned
  BY DEF ShutdownComplete
<1>2. PICK D : D = QueuedNext(s)
  OBVIOUS
<1>17. Extends(D, s)
  BY <1>2, DepartureQueued
<1>3. /\ D \in Seq(Departures)
      /\ \A i \in DOMAIN disconnects : i \in DOMAIN D /\ D[i] = disconnects[i]
      /\ \A i \in DOMAIN D : i \in DOMAIN disconnects \/ D[i].sid = s
      /\ srv.auth[s] => \E i \in DOMAIN D :
           D[i] = [sid |-> s, uid |-> srv.user[s], cid |-> srv.chan[s]]
  BY <1>17 DEF Extends
<1>4. disconnects' = D
  BY <1>1, <1>2 DEF QueuedNext
<1>5. PICK Q : Q = {<<D[i].uid, D[i].cid>> : i \in DOMAIN D}
  OBVIOUS
<1>6. Queued' = Q
  BY <1>4, <1>5 DEF Queued
<1>7. Queued \subseteq Q
  BY <1>3, <1>5 DEF Queued
<1>8. srv.auth[s] => <<srv.user[s], srv.chan[s]>> \in Q
  BY <1>3, <1>5
<1>9. PICK T : T = Retire(srv, s)
  OBVIOUS
<1>10. srv' = T
  BY <1>1, <1>9
<1>18. Sound(T, Q, unannounced) /\ OnlyConn(srv, T, s, "gone")
  BY <1>1, <1>7, <1>8, <1>9, RetireSound, SoundNow
<1>11. /\ Sound(T, Q, unannounced) /\ T.auth = srv.auth /\ T.user = srv.user
       /\ T.chan = srv.chan /\ T.authed = srv.authed /\ T.index = srv.index
       /\ T.conn[s] = "gone" /\ \A v \in Sessions \ {s} : T.conn[v] = srv.conn[v]
  BY <1>18 DEF OnlyConn
<1>12. TypeOK' /\ (disconnects \in Seq(Departures))'
  <2>1. \A i \in DOMAIN D : D[i] \in Departures
    BY <1>3
  <2> QED
    BY <1>1, <1>3, <1>4, <1>10, <1>11, <2>1 DEF IInv, TypeOK, Sound, Departures
<1>13. Sound(srv, Queued, unannounced)'
  BY <1>1, <1>6, <1>10, <1>11
<1>14. AuthedSessionsEnd'
  <2> SUFFICES ASSUME NEW v \in srv.authed \ orphaned
               PROVE  InMap(T, v) \/ \E i \in DOMAIN D : D[i].sid = v
    BY <1>1, <1>4, <1>10, <1>11 DEF AuthedSessionsEnd
  <2>1. v \in Sessions
    BY SoundNow, FieldTypes
  <2>2. InMap(srv, v) \/ \E i \in DOMAIN disconnects : disconnects[i].sid = v
    BY DEF IInv, AuthedSessionsEnd
  <2>3. CASE v = s
    <3>1. srv.auth[s]
      BY <1>1, <2>3, SoundNow DEF Sound, AuthedIsSignedIn
    <3> QED
      BY <1>3, <2>3, <3>1
  <2>4. CASE v # s
    BY <1>3, <1>11, <2>1, <2>2, <2>4 DEF InMap
  <2> QED
    BY <2>3, <2>4
<1>15. DeparturesAreGone'
  <2> SUFFICES ASSUME NEW i \in DOMAIN D PROVE T.conn[D[i].sid] = "gone"
    BY <1>4, <1>10 DEF DeparturesAreGone
  <2>1. i \in DOMAIN disconnects =>
          srv.conn[disconnects[i].sid] = "gone" /\ disconnects[i].sid \in Sessions
    BY DEF IInv, DeparturesAreGone, TypeOK
  <2> QED
    BY <1>3, <1>11, <2>1
<1>16. HandlingCurrent'
  <2> SUFFICES ASSUME handling # Idle
               PROVE  /\ Me \in Sessions /\ T.conn[Me] # "new"
                      /\ T.auth[Me] => T.index[T.user[Me]] = Me
                      /\ ~InMap(T, Me) /\ T.auth[Me] =>
                           \E i \in DOMAIN D :
                             D[i] = [sid |-> Me, uid |-> T.user[Me], cid |-> T.chan[Me]]
                      /\ \A t \in GetSessions(T) : T.auth[t] => t \in handling.all
    BY <1>1, <1>4, <1>10 DEF HandlingCurrent, Me, Pending
  <2>1. /\ Me \in Sessions /\ srv.conn[Me] # "new"
        /\ srv.auth[Me] => srv.index[srv.user[Me]] = Me
        /\ ~InMap(srv, Me) /\ srv.auth[Me] => Pending(Me, srv.user[Me], srv.chan[Me])
        /\ \A t \in GetSessions(srv) : srv.auth[t] => t \in handling.all
    BY DEF IInv, HandlingCurrent
  <2>2. \A t \in GetSessions(T) : t \in GetSessions(srv)
    BY <1>11 DEF GetSessions, InMap
  <2>3. T.conn[Me] # "new"
    BY <1>11, <2>1
  <2>4. ASSUME ~InMap(T, Me), T.auth[Me]
        PROVE  \E i \in DOMAIN D : D[i] = [sid |-> Me, uid |-> T.user[Me], cid |-> T.chan[Me]]
    <3>1. CASE Me = s
      BY <1>3, <1>11, <2>4, <3>1
    <3>2. CASE Me # s
      <4>1. ~InMap(srv, Me) /\ srv.auth[Me]
        BY <1>11, <2>1, <2>4, <3>2 DEF InMap
      <4>2. PICK i \in DOMAIN disconnects :
              disconnects[i] = [sid |-> Me, uid |-> srv.user[Me], cid |-> srv.chan[Me]]
        BY <2>1, <4>1 DEF Pending
      <4> QED
        BY <1>3, <1>11, <4>2
    <3> QED
      BY <3>1, <3>2
  <2> QED
    BY <1>11, <2>1, <2>2, <2>3, <2>4
<1> QED
  BY <1>12, <1>13, <1>14, <1>15, <1>16 DEF IInv

-----------------------------------------------------------------------------
(* The main loop.                                                          *)
LEMMA TakeMessageInv ==
    ASSUME IInv, NEW s \in Sessions, TakeMessage(s)
    PROVE  IInv'
<1>1. /\ InMap(srv, s) /\ handling' = [sid |-> s, all |-> GetSessions(srv)]
      /\ srv' = srv /\ disconnects' = disconnects
      /\ unannounced' = unannounced /\ orphaned' = orphaned
  BY DEF TakeMessage
<1>2. Me' = s /\ handling'.all = GetSessions(srv)
  BY <1>1 DEF Me
<1>3. handling' \in [sid : Sessions \cup {NoSession}, all : SUBSET Sessions]
  BY <1>1 DEF GetSessions
<1>4. TypeOK' /\ (disconnects \in Seq(Departures))'
  BY <1>1, <1>3 DEF IInv, TypeOK
<1>5. Sound(srv, Queued, unannounced)' /\ AuthedSessionsEnd' /\ DeparturesAreGone'
  BY <1>1 DEF IInv, Queued, AuthedSessionsEnd, DeparturesAreGone
<1>6. srv.conn[s] # "new" /\ (srv.auth[s] => srv.index[srv.user[s]] = s)
  BY <1>1, SoundNow DEF InMap, Sound, SignedInIsIndexed
<1>7. HandlingCurrent'
  BY <1>1, <1>2, <1>6 DEF HandlingCurrent
<1> QED
  BY <1>4, <1>5, <1>7 DEF IInv

LEMMA RefuseInv ==
    ASSUME IInv, Refuse
    PROVE  IInv'
<1>1. /\ handling' = Idle /\ srv' = srv /\ disconnects' = disconnects
      /\ unannounced' = unannounced /\ orphaned' = orphaned
  BY DEF Refuse
<1>2. TypeOK' /\ (disconnects \in Seq(Departures))'
  BY <1>1 DEF IInv, TypeOK, Idle
<1>3. Sound(srv, Queued, unannounced)' /\ AuthedSessionsEnd' /\ DeparturesAreGone'
  BY <1>1 DEF IInv, Queued, AuthedSessionsEnd, DeparturesAreGone
<1>4. HandlingCurrent'
  BY <1>1 DEF HandlingCurrent
<1> QED
  BY <1>2, <1>3, <1>4 DEF IInv

LEMMA AuthInv ==
    ASSUME IInv, NEW u \in Users, HandleAuth(u)
    PROVE  IInv'
<1>1. /\ handling # Idle /\ ~srv.auth[Me] /\ Handled(AuthIdentity(srv, Me, u, handling.all))
      /\ orphaned' = IF InMap(srv, Me) THEN orphaned ELSE orphaned \cup {Me}
      /\ unannounced' = unannounced
  BY DEF HandleAuth
<1>2. PICK T : T = AuthIdentity(srv, Me, u, handling.all)
  OBVIOUS
<1>3. /\ Me \in Sessions /\ srv.conn[Me] # "new" /\ handling.all \in SUBSET Sessions
      /\ \A t \in GetSessions(srv) : srv.auth[t] => t \in handling.all
  BY <1>1, HandlerFacts
<1>4. Sound(T, Queued, unannounced) /\ SameMap(srv, T) /\ T.authed \subseteq srv.authed \cup {Me}
  BY <1>1, <1>2, <1>3, AuthSound, SoundNow
<1>5. orphaned' \in SUBSET Sessions /\ orphaned \subseteq orphaned'
  BY <1>1, <1>3 DEF IInv, TypeOK
<1>6. \A s \in T.authed \ orphaned' : s \in srv.authed \/ InMap(T, s)
  BY <1>1, <1>3, <1>4 DEF SameMap
<1>7. Handled(T) /\ Sound(T, Queued, unannounced') /\ unannounced' \in Roster
  BY <1>1, <1>2, <1>4, SoundNow
<1> QED
  BY <1>4, <1>5, <1>6, <1>7, HandledInv

LEMMA JoinInv ==
    ASSUME IInv, NEW c \in Channels, HandleJoin(c)
    PROVE  IInv'
<1>1. /\ handling # Idle /\ srv.auth[Me] /\ c \in srv.channels
      /\ Handled(ChannelJoin(srv, Me, c)) /\ orphaned' = orphaned
      /\ unannounced' = Untold(srv, Me, srv.user[Me], c, unannounced)
  BY DEF HandleJoin, CanJoin, Untold
<1>2. PICK T : T = ChannelJoin(srv, Me, c)
  OBVIOUS
<1>3. Me \in Sessions /\ srv.index[srv.user[Me]] = Me /\ srv.user[Me] \in Users
  BY <1>1, HandlerFacts
<1>4. Sound(T, Queued, unannounced') /\ T.conn = srv.conn /\ T.authed = srv.authed
  BY <1>1, <1>2, <1>3, JoinSound, SoundNow
<1>5. unannounced' \in Roster
  BY <1>1, <1>3, SoundNow DEF Untold, Roster
<1>6. Handled(T) /\ SameMap(srv, T)
  BY <1>1, <1>2, <1>4, SameConnSameMap
<1> QED
  BY <1>1, <1>4, <1>5, <1>6, QuietHandler

(* A handler that leaves connections, logins and the notices as they were. *)
LEMMA PlainHandler ==
    ASSUME IInv, NEW T, Handled(T), Sound(T, Queued, unannounced), T.conn = srv.conn,
           T.authed = srv.authed, unannounced' = unannounced, orphaned' = orphaned
    PROVE  IInv'
<1>1. SameMap(srv, T) /\ Sound(T, Queued, unannounced') /\ unannounced' \in Roster
  BY SameConnSameMap, SoundNow
<1> QED
  BY <1>1, QuietHandler

LEMMA LeaveInv ==
    ASSUME IInv, HandleLeave
    PROVE  IInv'
<1>1. /\ handling # Idle /\ srv.auth[Me] /\ srv.chan[Me] # NoChannel
      /\ Handled(ChannelLeave(srv, Me)) /\ orphaned' = orphaned /\ unannounced' = unannounced
  BY DEF HandleLeave, InChannel
<1>2. PICK T : T = ChannelLeave(srv, Me)
  OBVIOUS
<1>3. Me \in Sessions /\ srv.index[srv.user[Me]] = Me
  BY <1>1, HandlerFacts
<1>4. Sound(T, Queued, unannounced) /\ T.conn = srv.conn /\ T.authed = srv.authed
  BY <1>1, <1>2, <1>3, ChannelLeaveSound, SoundNow
<1>5. Handled(T)
  BY <1>1, <1>2
<1> QED
  BY <1>1, <1>4, <1>5, PlainHandler

LEMMA DeleteChannelInv ==
    ASSUME IInv, NEW c \in Channels, HandleDeleteChannel(c)
    PROVE  IInv'
<1>1. /\ Handled(AdminDeleteChannel(srv, c))
      /\ orphaned' = orphaned /\ unannounced' = unannounced
  BY DEF HandleDeleteChannel
<1>2. PICK T : T = AdminDeleteChannel(srv, c)
  OBVIOUS
<1>3. Sound(T, Queued, unannounced) /\ T.conn = srv.conn /\ T.authed = srv.authed
  BY <1>2, DeleteSound, SoundNow
<1>4. Handled(T)
  BY <1>1, <1>2
<1> QED
  BY <1>1, <1>3, <1>4, PlainHandler

LEMMA DeleteFailsInv ==
    ASSUME IInv, NEW c \in Channels, HandleDeleteFails(c)
    PROVE  IInv'
<1>1. /\ Handled(EmptyChannel(srv, c)) /\ orphaned' = orphaned
      /\ unannounced' = unannounced \cup InRoster(srv, c)
  BY DEF HandleDeleteFails
<1>2. PICK T : T = EmptyChannel(srv, c)
  OBVIOUS
<1>3. /\ Sound(T, Queued, unannounced') /\ T.conn = srv.conn /\ T.authed = srv.authed
  BY <1>1, <1>2, EmptySound, SoundNow
<1>4. InRoster(srv, c) \in Roster
  <2>1. \A v \in Members(srv, c) : srv.user[v] \in Users
    BY SoundNow DEF Sound, ChannelNeedsLogin, Members, GetSessions
  <2> QED
    BY <2>1 DEF InRoster, Roster
<1>5. unannounced' \in Roster
  BY <1>1, <1>4, SoundNow DEF Roster
<1>6. Handled(T) /\ SameMap(srv, T)
  BY <1>1, <1>2, <1>3, SameConnSameMap
<1> QED
  BY <1>1, <1>3, <1>5, <1>6, QuietHandler

LEMMA AdminKickInv ==
    ASSUME IInv, NEW u \in Users, HandleKick(u)
    PROVE  IInv'
<1>1. /\ handling # Idle /\ Handled(AdminKickUser(srv, u, handling.all))
      /\ orphaned' = orphaned /\ unannounced' = unannounced
  BY DEF HandleKick
<1>2. PICK T : T = AdminKickUser(srv, u, handling.all)
  OBVIOUS
<1>3. handling.all \in SUBSET Sessions
  BY <1>1, HandlerFacts
<1>4. AllQuit(srv, T, Queued, unannounced)
  BY <1>2, <1>3, AdminKickSound, SoundNow
<1>5. Sound(T, Queued, unannounced') /\ SameMap(srv, T) /\ T.authed = srv.authed
  BY <1>1, <1>4 DEF AllQuit
<1>6. Handled(T) /\ unannounced' \in Roster
  BY <1>1, <1>2, SoundNow
<1> QED
  BY <1>1, <1>5, <1>6, QuietHandler

LEMMA ShareStartInv ==
    ASSUME IInv, NEW src \in Sources, HandleShareStart(src)
    PROVE  IInv'
<1>1. /\ handling # Idle /\ srv.auth[Me] /\ srv.chan[Me] # NoChannel
      /\ Handled(ScreenShareStart(srv, Me, src))
      /\ orphaned' = orphaned /\ unannounced' = unannounced
  BY DEF HandleShareStart, InChannel
<1>2. PICK T : T = ScreenShareStart(srv, Me, src)
  OBVIOUS
<1>3. Me \in Sessions /\ (InMap(srv, Me) \/ <<srv.user[Me], srv.chan[Me]>> \in Queued)
  BY <1>1, HandlerFacts
<1>4. Sound(T, Queued, unannounced) /\ T.conn = srv.conn /\ T.authed = srv.authed
  BY <1>1, <1>2, <1>3, ShareStartSound, SoundNow
<1>5. Handled(T)
  BY <1>1, <1>2
<1> QED
  BY <1>1, <1>4, <1>5, PlainHandler

LEMMA ShareStopInv ==
    ASSUME IInv, NEW src \in Sources, HandleShareStop(src)
    PROVE  IInv'
<1>1. /\ handling # Idle /\ srv.auth[Me] /\ srv.chan[Me] # NoChannel
      /\ Handled(ScreenShareStop(srv, Me, src))
      /\ orphaned' = orphaned /\ unannounced' = unannounced
  BY DEF HandleShareStop, InChannel
<1>2. PICK T : T = ScreenShareStop(srv, Me, src)
  OBVIOUS
<1>3. PICK u : u = srv.user[Me]
  OBVIOUS
<1>4. PICK c : c = srv.chan[Me]
  OBVIOUS
<1>5. PICK ended : ended = {<<u, src>>}
  OBVIOUS
<1>6. u \in Users /\ c \in Channels
  BY <1>1, <1>3, <1>4, HandlerFacts
<1>7. ended \in SUBSET StreamsOf(u)
  BY <1>5 DEF StreamsOf
<1>8. T = StopVideoStreams(srv, c, u, ended)
  BY <1>2, <1>3, <1>4, <1>5 DEF ScreenShareStop
<1>9. Sound(T, Queued, unannounced)
  BY <1>6, <1>7, <1>8, StopKeepsSound, SoundNow
<1>10. Stopped(srv, T, c, u, ended)
  BY <1>6, <1>7, <1>8, StopIs, SoundNow
<1>11. T.conn = srv.conn /\ T.authed = srv.authed
  BY <1>10 DEF Stopped, SamePlaces
<1>12. Handled(T)
  BY <1>1, <1>2
<1> QED
  BY <1>1, <1>9, <1>11, <1>12, PlainHandler

(* A change of what one session watches.                                   *)
LEMMA WatchInv ==
    ASSUME IInv, handling # Idle, srv.chan[Me] # NoChannel,
           NEW subs \in SUBSET (srv.subs[Me] \cup srv.streams[srv.chan[Me]]),
           NEW T, T = Watching(srv, Me, subs), Handled(T),
           unannounced' = unannounced, orphaned' = orphaned
    PROVE  IInv'
<1>1. Me \in Sessions /\ srv.conn[Me] # "new"
  BY HandlerFacts
<1>2. Sound(T, Queued, unannounced) /\ T.conn = srv.conn /\ T.authed = srv.authed
  BY <1>1, ViewSound, SoundNow
<1> QED
  BY <1>2, PlainHandler

LEMMA ViewInv ==
    ASSUME IInv, NEW st \in Streams, HandleView(st)
    PROVE  IInv'
<1>1. /\ handling # Idle /\ srv.chan[Me] # NoChannel /\ st \in srv.streams[srv.chan[Me]]
      /\ Handled(ViewAdd(srv, Me, st)) \/ Handled(ViewOnly(srv, Me, st))
      /\ orphaned' = orphaned /\ unannounced' = unannounced
  BY DEF HandleView, InChannel
<1>2. CASE Handled(ViewAdd(srv, Me, st))
  <2>1. PICK subs : subs = srv.subs[Me] \cup {st}
    OBVIOUS
  <2>2. PICK T : T = Watching(srv, Me, subs)
    OBVIOUS
  <2>3. T = ViewAdd(srv, Me, st)
    BY <2>1, <2>2 DEF ViewAdd, Watching
  <2> QED
    BY <1>1, <1>2, <2>1, <2>2, <2>3, WatchInv
<1>3. CASE Handled(ViewOnly(srv, Me, st))
  <2>1. PICK T : T = Watching(srv, Me, {st})
    OBVIOUS
  <2>2. T = ViewOnly(srv, Me, st)
    BY <2>1 DEF ViewOnly, Watching
  <2> QED
    BY <1>1, <1>3, <2>1, <2>2, WatchInv
<1> QED
  BY <1>1, <1>2, <1>3

LEMMA UnviewInv ==
    ASSUME IInv, NEW st \in Streams, HandleUnview(st)
    PROVE  IInv'
<1>1. /\ handling # Idle /\ srv.chan[Me] # NoChannel
      /\ Handled(ViewRemove(srv, Me, st)) \/ Handled(ClearViewerSubscriptions(srv, Me))
      /\ orphaned' = orphaned /\ unannounced' = unannounced
  BY DEF HandleUnview, InChannel
<1>2. CASE Handled(ViewRemove(srv, Me, st))
  <2>1. PICK subs : subs = srv.subs[Me] \ {st}
    OBVIOUS
  <2>2. PICK T : T = Watching(srv, Me, subs)
    OBVIOUS
  <2>3. T = ViewRemove(srv, Me, st)
    BY <2>1, <2>2 DEF ViewRemove, Watching
  <2> QED
    BY <1>1, <1>2, <2>1, <2>2, <2>3, WatchInv
<1>3. CASE Handled(ClearViewerSubscriptions(srv, Me))
  <2>1. PICK T : T = Watching(srv, Me, {})
    OBVIOUS
  <2>2. T = ClearViewerSubscriptions(srv, Me)
    BY <2>1 DEF ClearViewerSubscriptions, Watching
  <2> QED
    BY <1>1, <1>3, <2>1, <2>2, WatchInv
<1> QED
  BY <1>1, <1>2, <1>3

LEMMA DisconnectInv ==
    ASSUME IInv, HandleDisconnect
    PROVE  IInv'
<1>1. PICK d : d = Head(disconnects)
  OBVIOUS
<1>2. PICK D : D = Tail(disconnects)
  OBVIOUS
<1>3. PICK T : T = ProcessDisconnect(srv, d.sid, d.uid, d.cid)
  OBVIOUS
<1>4. /\ handling = Idle /\ disconnects # <<>> /\ srv' = T /\ disconnects' = D
      /\ handling' = handling /\ unannounced' = unannounced /\ orphaned' = orphaned
  BY <1>1, <1>2, <1>3 DEF HandleDisconnect
<1>5. disconnects \in Seq(Departures)
  BY DEF IInv
<1>6. /\ D \in Seq(Departures) /\ d = disconnects[1] /\ 1 \in DOMAIN disconnects
      /\ \A i \in DOMAIN D : i + 1 \in DOMAIN disconnects /\ D[i] = disconnects[i + 1]
      /\ \A i \in DOMAIN disconnects \ {1} : i - 1 \in DOMAIN D /\ D[i - 1] = disconnects[i]
  BY <1>1, <1>2, <1>4, <1>5
<1>7. /\ d.sid \in Sessions /\ d.uid \in Users /\ d.cid \in Channels \cup {NoChannel}
      /\ srv.conn[d.sid] = "gone"
  <2>1. d \in Departures
    BY <1>5, <1>6
  <2>2. srv.conn[d.sid] = "gone"
    BY <1>6 DEF IInv, DeparturesAreGone
  <2> QED
    BY <2>1, <2>2 DEF Departures
<1>8. /\ Sound(T, Queued \ {<<d.uid, d.cid>>}, unannounced)
      /\ SamePlaces(srv, T) /\ T.authed = srv.authed \ {d.sid}
  BY <1>3, <1>7, DisconnectSound, SoundNow
<1>9. PICK Q : Q = {<<D[i].uid, D[i].cid>> : i \in DOMAIN D}
  OBVIOUS
<1>10. Queued' = Q
  BY <1>4, <1>9 DEF Queued
<1>11. Queued \ {<<d.uid, d.cid>>} \subseteq Q
  BY <1>6, <1>9 DEF Queued
<1>12. Sound(T, Q, unannounced)
  BY <1>8, <1>11, SoundGrows
<1>13. TypeOK' /\ (disconnects \in Seq(Departures))'
  <2>1. \A i \in DOMAIN D : D[i] \in Departures
    BY <1>6
  <2> QED
    BY <1>4, <1>6, <1>12, <2>1 DEF IInv, TypeOK, Sound, Departures
<1>14. Sound(srv, Queued, unannounced)'
  BY <1>4, <1>10, <1>12
<1>15. AuthedSessionsEnd'
  <2> SUFFICES ASSUME NEW v \in srv.authed \ orphaned, v # d.sid
               PROVE  InMap(T, v) \/ \E i \in DOMAIN D : D[i].sid = v
    BY <1>4, <1>8 DEF AuthedSessionsEnd
  <2>1. InMap(srv, v) \/ \E i \in DOMAIN disconnects : disconnects[i].sid = v
    BY DEF IInv, AuthedSessionsEnd
  <2>2. InMap(srv, v) => InMap(T, v)
    BY <1>8 DEF SamePlaces, InMap
  <2> QED
    BY <1>6, <2>1, <2>2
<1>16. DeparturesAreGone'
  <2> SUFFICES ASSUME NEW i \in DOMAIN D PROVE T.conn[D[i].sid] = "gone"
    BY <1>4 DEF DeparturesAreGone
  <2> QED
    BY <1>6, <1>8 DEF IInv, DeparturesAreGone, SamePlaces
<1>17. HandlingCurrent'
  BY <1>4 DEF HandlingCurrent
<1> QED
  BY <1>13, <1>14, <1>15, <1>16, <1>17 DEF IInv

LEMMA StutterInv ==
    ASSUME IInv, UNCHANGED vars
    PROVE  IInv'
<1>1. /\ srv' = srv /\ disconnects' = disconnects /\ handling' = handling
      /\ unannounced' = unannounced /\ orphaned' = orphaned
  BY DEF vars
<1> QED
  BY <1>1 DEF IInv, TypeOK, Queued, AuthedSessionsEnd, DeparturesAreGone, HandlingCurrent,
              Me, Pending

(* Every step keeps the invariant.                                         *)
LEMMA NextInv ==
    ASSUME IInv, [Next]_vars
    PROVE  IInv'
<1>1. ASSUME NEW s \in Sessions, NewConnection(s) \/ ShutdownComplete(s) \/ TakeMessage(s)
      PROVE  IInv'
  BY <1>1, NewConnectionInv, ShutdownCompleteInv, TakeMessageInv
<1>2. ASSUME NEW u \in Users, HandleAuth(u) \/ HandleKick(u)
      PROVE  IInv'
  BY <1>2, AuthInv, AdminKickInv
<1>3. ASSUME NEW c \in Channels, HandleJoin(c) \/ HandleDeleteChannel(c) \/ HandleDeleteFails(c)
      PROVE  IInv'
  BY <1>3, JoinInv, DeleteChannelInv, DeleteFailsInv
<1>4. ASSUME NEW src \in Sources, HandleShareStart(src) \/ HandleShareStop(src)
      PROVE  IInv'
  BY <1>4, ShareStartInv, ShareStopInv
<1>5. ASSUME NEW st \in Streams, HandleView(st) \/ HandleUnview(st)
      PROVE  IInv'
  BY <1>5, ViewInv, UnviewInv
<1>6. HandleMessage => IInv'
  BY <1>2, <1>3, <1>4, <1>5, RefuseInv, LeaveInv DEF HandleMessage
<1> QED
  BY <1>1, <1>6, DisconnectInv, StutterInv DEF Next

(* The invariant holds in every reachable state.                           *)
LEMMA Inductive == Spec => []IInv
<1>1. Init => IInv
  BY InitSound
<1>2. IInv /\ [Next]_vars => IInv'
  BY NextInv
<1> QED
  BY <1>1, <1>2, PTL DEF Spec

-----------------------------------------------------------------------------
(* In every reachable state the server's tables agree: the identity index  *)
(* names the one live session of a signed-in user, every login is live or  *)
(* has a departure queued, and every registered stream has a publisher and *)
(* is watched from its own channel only (server.cpp, AUTH_IDENTITY and     *)
(* process_disconnect; quic_server.cpp, SHUTDOWN_COMPLETE).                *)
THEOREM TablesAlwaysAgree == Spec => []TablesAgree
<1>1. IInv => TablesAgree
  <2> SUFFICES ASSUME IInv PROVE TablesAgree
    OBVIOUS
  <2>1. IndexExact /\ SubscriptionsInChannel
    BY SoundNow DEF Sound, SignedInIsIndexed, WatchedRunHere, IndexExact, SubscriptionsInChannel
  <2>2. StreamsHavePublishers
    <3> SUFFICES ASSUME NEW c \in Channels, NEW st \in srv.streams[c]
                 PROVE  \/ \E s \in Members(srv, c) : srv.user[s] = Owner(st)
                        \/ \E s \in Sessions : Pending(s, Owner(st), c)
      BY DEF StreamsHavePublishers
    <3>1. <<Owner(st), c>> \in InRoster(srv, c) \cup Queued
      BY SoundNow DEF Sound, Published
    <3>2. CASE <<Owner(st), c>> \in InRoster(srv, c)
      BY <3>2 DEF InRoster
    <3>3. CASE <<Owner(st), c>> \in Queued
      <4>1. PICK i \in DOMAIN disconnects :
              <<Owner(st), c>> = <<disconnects[i].uid, disconnects[i].cid>>
        BY <3>3 DEF Queued
      <4>2. disconnects[i] \in [sid : Sessions, uid : Users, cid : Channels \cup {NoChannel}]
        BY DEF IInv, TypeOK
      <4>3. /\ disconnects[i].sid \in Sessions
            /\ disconnects[i] = [sid |-> disconnects[i].sid, uid |-> Owner(st), cid |-> c]
        BY <4>1, <4>2
      <4> QED
        BY <4>3 DEF Pending
    <3> QED
      BY <3>1, <3>2, <3>3
  <2> QED
    BY <2>1, <2>2 DEF TablesAgree, IInv
<1> QED
  BY <1>1, Inductive, PTL

(* In every reachable state the messages each client was sent add up to    *)
(* the server's rosters and stream tables, apart from users whose departure*)
(* is queued and those two named paths leave unannounced (USER_JOINED and  *)
(* USER_LEFT_CHANNEL, SCREEN_SHARE_STARTED and STOPPED in server.cpp).     *)
THEOREM NoticesAlwaysExact == Spec => []NoticesExact
<1>1. IInv => NoticesExact
  <2> SUFFICES ASSUME IInv PROVE NoticesExact
    OBVIOUS
  <2>1. StreamsShown
    BY SoundNow DEF Sound, StreamsTold, StreamsShown
  <2>2. RosterExact
    <3> SUFFICES ASSUME NEW v \in Sessions, Hears(srv, v),
                        NEW u \in Users \ {srv.user[v]}, NEW c \in srv.channels,
                        ~Departing(u), <<u, c>> \notin unannounced
                 PROVE  <<u, c>> \in srv.told[v] <=> <<u, c>> \in InRoster(srv, c)
      BY DEF RosterExact
    <3>1. <<u, c>> \notin Queued
      BY DEF Queued, Departing
    <3>2. /\ <<u, c>> \in InRoster(srv, c) \ unannounced => <<u, c>> \in srv.told[v]
          /\ <<u, c>> \in srv.told[v] => <<u, c>> \in InRoster(srv, c) \cup unannounced \cup Queued
      BY SoundNow DEF Sound, RosterTold
    <3> QED
      BY <3>1, <3>2
  <2> QED
    BY <2>1, <2>2 DEF NoticesExact
<1> QED
  BY <1>1, Inductive, PTL

(* In every reachable state the server buffers per-frame streams only for  *)
(* sources registered in the sender's channel (session.h, ingress_allowed).*)
THEOREM IngressAlwaysRegistered == Spec => []IngressOnlyWhileRegistered
<1>1. IInv => IngressOnlyWhileRegistered
  BY SoundNow DEF Sound, SourcesRegistered, IngressOnlyWhileRegistered
<1> QED
  BY <1>1, Inductive, PTL
=============================================================================
