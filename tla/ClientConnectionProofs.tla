----------------------- MODULE ClientConnectionProofs -----------------------
(***************************************************************************)
(* Proofs about ClientConnection.  Whether a login can still be answered   *)
(* is what every argument turns on: an answer belongs to a connection, and *)
(* it is handled before the loss of that connection is cleaned up.         *)
(***************************************************************************)
EXTENDS ClientConnection, SequenceTheorems, TLAPS

-----------------------------------------------------------------------------
(* Messages in a queue.                                                    *)

Has(q, t) == \E i \in DOMAIN q : q[i].type = t

Once(q, t) == \A i, j \in DOMAIN q : q[i].type = t /\ q[j].type = t => i = j

\* Every Kicked or Replaced in the queue comes after the login's answer.
Preceded(q) ==
  \A i \in DOMAIN q : q[i].type = "terminal" =>
    \E j \in 1 .. (i - 1) : q[j].type = "auth_response"

LEMMA EmptyQueue ==
  /\ \A t : ~Has(<<>>, t) /\ Once(<<>>, t)
  /\ Preceded(<<>>)
BY DEF Has, Once, Preceded

LEMMA AppendQueue ==
  ASSUME NEW S, NEW q \in Seq(S), NEW m \in S, NEW t
  PROVE  /\ Has(Append(q, m), t) <=> Has(q, t) \/ m.type = t
         /\ Once(q, t) /\ ~(Has(q, t) /\ m.type = t) => Once(Append(q, m), t)
         /\ Preceded(q) /\ (m.type = "terminal" => Has(q, "auth_response"))
              => Preceded(Append(q, m))
<1> DEFINE r == Append(q, m)
           n == Len(q)
<1>1. /\ n \in Nat /\ DOMAIN q = 1 .. n /\ DOMAIN r = 1 .. (n + 1)
      /\ r[n + 1] = m /\ \A i \in 1 .. n : r[i] = q[i]
  OBVIOUS
<1> HIDE DEF r, n
<1>2. Has(r, t) <=> Has(q, t) \/ m.type = t
  <2>1. Has(q, t) => Has(r, t)
    BY <1>1 DEF Has
  <2>2. m.type = t => Has(r, t)
    BY <1>1 DEF Has
  <2>3. Has(r, t) => Has(q, t) \/ m.type = t
    <3> SUFFICES ASSUME NEW i \in 1 .. (n + 1), r[i].type = t PROVE Has(q, t) \/ m.type = t
      BY <1>1 DEF Has
    <3>1. i \in 1 .. n \/ i = n + 1
      BY <1>1
    <3> QED
      BY <1>1, <3>1 DEF Has
  <2> QED
    BY <2>1, <2>2, <2>3
<1>3. Once(q, t) /\ ~(Has(q, t) /\ m.type = t) => Once(r, t)
  <2> SUFFICES ASSUME Once(q, t), ~(Has(q, t) /\ m.type = t),
                      NEW i \in 1 .. (n + 1), NEW j \in 1 .. (n + 1),
                      r[i].type = t, r[j].type = t
               PROVE  i = j
    BY <1>1 DEF Once
  <2>1. (i \in 1 .. n \/ i = n + 1) /\ (j \in 1 .. n \/ j = n + 1)
    BY <1>1
  <2>2. i \in 1 .. n /\ j \in 1 .. n => i = j
    BY <1>1 DEF Once
  <2>3. i \in 1 .. n => Has(q, t)
    BY <1>1 DEF Has
  <2>4. j \in 1 .. n => Has(q, t)
    BY <1>1 DEF Has
  <2>5. i = n + 1 \/ j = n + 1 => m.type = t
    BY <1>1
  <2> QED
    BY <2>1, <2>2, <2>3, <2>4, <2>5
<1>4. Preceded(q) /\ (m.type = "terminal" => Has(q, "auth_response")) => Preceded(r)
  <2> SUFFICES ASSUME Preceded(q), m.type = "terminal" => Has(q, "auth_response"),
                      NEW i \in 1 .. (n + 1), r[i].type = "terminal"
               PROVE  \E j \in 1 .. (i - 1) : r[j].type = "auth_response"
    BY <1>1 DEF Preceded
  <2>1. CASE i \in 1 .. n
    <3>1. PICK j \in 1 .. (i - 1) : q[j].type = "auth_response"
      BY <1>1, <2>1 DEF Preceded
    <3>2. j \in 1 .. n
      BY <1>1, <2>1, <3>1
    <3> QED
      BY <1>1, <3>1, <3>2
  <2>2. CASE i = n + 1
    <3>1. PICK j \in 1 .. n : q[j].type = "auth_response"
      BY <1>1, <2>2 DEF Has
    <3>2. j \in 1 .. (i - 1) /\ r[j] = q[j]
      BY <1>1, <2>2, <3>1
    <3> QED
      BY <3>1, <3>2
  <2> QED
    BY <1>1, <2>1, <2>2
<1> QED
  BY <1>2, <1>3, <1>4 DEF r

LEMMA TailQueue ==
  ASSUME NEW S, NEW q \in Seq(S), q # <<>>, NEW t
  PROVE  /\ Tail(q) \in Seq(S) /\ Head(q) \in S
         /\ Has(q, Head(q).type)
         /\ Has(Tail(q), t) => Has(q, t)
         /\ Head(q).type # t /\ Has(q, t) => Has(Tail(q), t)
         /\ Head(q).type = t /\ Once(q, t) => ~Has(Tail(q), t)
         /\ Once(q, t) => Once(Tail(q), t)
         /\ Preceded(q) => Head(q).type # "terminal"
         /\ Preceded(q) /\ Head(q).type # "auth_response" => Preceded(Tail(q))
<1> DEFINE r == Tail(q)
           n == Len(q)
           h == Head(q)
<1>1. /\ n \in Nat /\ n > 0 /\ DOMAIN q = 1 .. n
      /\ r \in Seq(S) /\ DOMAIN r = 1 .. (n - 1) /\ q[1] = h /\ h \in S
      /\ \A i \in 1 .. (n - 1) : r[i] = q[i + 1]
  OBVIOUS
<1> HIDE DEF r, n, h
<1>2. Has(q, h.type)
  BY <1>1 DEF Has
<1>3. Has(r, t) => Has(q, t)
  <2> SUFFICES ASSUME NEW i \in 1 .. (n - 1), r[i].type = t PROVE Has(q, t)
    BY <1>1 DEF Has
  <2>1. i + 1 \in 1 .. n
    BY <1>1
  <2> QED
    BY <1>1, <2>1 DEF Has
<1>4. h.type # t /\ Has(q, t) => Has(r, t)
  <2> SUFFICES ASSUME h.type # t, NEW i \in 1 .. n, q[i].type = t PROVE Has(r, t)
    BY <1>1 DEF Has
  <2>1. i # 1 /\ i - 1 \in 1 .. (n - 1) /\ (i - 1) + 1 = i
    BY <1>1
  <2> QED
    BY <1>1, <2>1 DEF Has
<1>5. h.type = t /\ Once(q, t) => ~Has(r, t)
  <2> SUFFICES ASSUME h.type = t, Once(q, t), NEW i \in 1 .. (n - 1), r[i].type = t PROVE FALSE
    BY <1>1 DEF Has
  <2>1. i + 1 \in 1 .. n /\ 1 \in 1 .. n /\ i + 1 # 1
    BY <1>1
  <2> QED
    BY <1>1, <2>1 DEF Once
<1>6. Once(q, t) => Once(r, t)
  <2> SUFFICES ASSUME Once(q, t), NEW i \in 1 .. (n - 1), NEW j \in 1 .. (n - 1),
                      r[i].type = t, r[j].type = t
               PROVE  i = j
    BY <1>1 DEF Once
  <2>1. i + 1 \in 1 .. n /\ j + 1 \in 1 .. n
    BY <1>1
  <2>2. i + 1 = j + 1
    BY <1>1, <2>1 DEF Once
  <2> QED
    BY <2>2
<1>7. Preceded(q) => h.type # "terminal"
  <2>1. 1 \in 1 .. n /\ ~(\E j \in 1 .. (1 - 1) : TRUE)
    BY <1>1
  <2> QED
    BY <1>1, <2>1 DEF Preceded
<1>8. Preceded(q) /\ h.type # "auth_response" => Preceded(r)
  <2> SUFFICES ASSUME Preceded(q), h.type # "auth_response",
                      NEW i \in 1 .. (n - 1), r[i].type = "terminal"
               PROVE  \E j \in 1 .. (i - 1) : r[j].type = "auth_response"
    BY <1>1 DEF Preceded
  <2>1. i + 1 \in 1 .. n /\ r[i] = q[i + 1]
    BY <1>1
  <2>2. PICK j \in 1 .. ((i + 1) - 1) : q[j].type = "auth_response"
    BY <1>1, <2>1 DEF Preceded
  <2>3. j # 1
    BY <1>1, <2>2
  <2>4. j - 1 \in 1 .. (i - 1) /\ j - 1 \in 1 .. (n - 1) /\ (j - 1) + 1 = j
    BY <1>1, <2>2, <2>3
  <2> QED
    BY <1>1, <2>2, <2>4
<1> QED
  BY <1>1, <1>2, <1>3, <1>4, <1>5, <1>6, <1>7, <1>8 DEF r, h

-----------------------------------------------------------------------------
(* The inductive invariant.                                                *)

\* A login was sent that the server will answer; an answer is to be handled.
Asked == ~session /\ Has(wire, "auth")
Answered == Has(batch, "auth_response") \/ Has(inbox, "auth_response")

\* The connection of the running session: up, or lost after it had been up.
Own == session \/ (net.st \in {"closing", "closed"} /\ ~net.failed)

Down == net.st \in {"none", "closing", "closed"}

\* No login is under way, and without the user none will be.
Nothing == ~Asked /\ ~Answered /\ ~app.awaiting_connection /\ ~app.tofu_pending

(* Only a connection that is up carries messages and a session.            *)
NetOK ==
  /\ session => Connected
  /\ wire # <<>> => Connected
  /\ net.st \in {"dialing", "up"} => ~net.failed
  /\ phase \in {"ui", "clicked", "poll", "retry"} => batch = <<>>

(* An answer that waits in the inbox belongs to the current connection, or *)
(* the loss of its connection is noticed, and the inbox drained, next.     *)
AnswerIsOwn ==
  Has(inbox, "auth_response") =>
    /\ Own \/ (phase = "clicked" /\ disconnect_pending)
    /\ net.st = "closed" => disconnect_pending

(* One answer at a time: none is produced while another is to be handled.  *)
AnswerOnce ==
  /\ Answered => ~Asked
  /\ Has(batch, "auth_response") => ~Has(inbox, "auth_response")
  /\ Once(batch, "auth_response") /\ Once(inbox, "auth_response")

(* An answer of an older connection is handled with its loss still flagged.*)
BatchIsOwn ==
  Has(batch, "auth_response") /\ phase = "messages" =>
    \/ Own /\ (net.st = "closed" => disconnect_pending)
    \/ disconnect_pending /\ ~app.tofu_pending

(* A session that is shown is the current connection's, or the cleanup of  *)
(* its loss comes before anything can be sent on a newer one.              *)
ShownHasNet ==
  app.authenticated =>
    \/ Own /\ (net.st = "closed" => disconnect_pending \/ phase = "drain")
    \/ phase = "drain"
    \/ phase = "clicked" /\ disconnect_pending
    \/ /\ phase \in {"messages", "ui"} /\ disconnect_pending
       /\ ~app.tofu_pending /\ ~app.show_login

ShownIsAnswered == app.authenticated => ~Asked /\ ~Answered /\ ~app.reconnecting

(* A reconnect that met an unknown certificate has not sent a login.       *)
TofuIsUnasked ==
  app.tofu_pending /\ app.reconnecting => ~Answered /\ ~Has(wire, "auth")

(* The certificate it asks about is the current connection's, or the loss  *)
(* of that connection is noticed next.                                     *)
TofuIsCurrent ==
  app.tofu_pending =>
    /\ net.st \in {"up", "closing"} \/ disconnect_pending \/ phase = "drain"
    /\ app.awaiting_connection /\ app.reconnecting =>
         \/ disconnect_pending /\ phase \in {"messages", "ui", "clicked"}
         \/ phase = "drain"

AwaitedIsUnasked ==
  app.awaiting_connection /\ app.reconnecting =>
    \/ ~Has(wire, "auth") /\ ~session
    \/ phase = "clicked" /\ disconnect_pending
    \/ phase = "drain"

(* Each automatic login was paid for by a flap.  Once the guard gave up,   *)
(* no login is under way.                                                  *)
FlapsPay ==
  /\ app.reconnecting => reauths <= app.flaps
  /\ app.authenticated => IF app.young THEN reauths <= app.flaps + 1 ELSE reauths = 0
  /\ ~app.authenticated /\ ~app.reconnecting => reauths <= app.flaps + 1 \/ Nothing

(* The channel to rejoin is the lost one, and rejoin_pending is set before *)
(* a login can be answered.                                                *)
RejoinIsArmed ==
  app.reconnecting =>
    /\ app.reconnect_channel = lost
    /\ lost # NoChannel /\ ~app.rejoin_pending => Nothing

(* As long as no dial overlapped the loss of an older connection: a flag   *)
(* means there is no connection, an authenticated session is shown or its  *)
(* answer is to be handled, and Kicked or Replaced comes after that answer.*)
SingleConnection ==
  ~overlap =>
    /\ disconnect_pending \/ phase = "drain" => net.st \in {"none", "closed"}
    /\ phase = "drain" => inbox = <<>>
    /\ session => Answered \/ app.authenticated
    /\ Has(inbox, "terminal") => Down /\ (net.st # "closing" => disconnect_pending)
    /\ Has(batch, "terminal") => Down
    /\ app.authenticated \/ Preceded(batch)
    /\ app.authenticated \/ Has(batch, "auth_response") \/ Preceded(inbox)

(* A session that was ended is not renewed.                                *)
EndIsNoted ==
  ended /\ ~overlap =>
    \/ Has(batch, "terminal") \/ Has(inbox, "terminal")
    \/ /\ ~app.reconnecting /\ (app.intentional \/ ~app.authenticated) /\ Down
       /\ Answered => /\ app.intentional
                      /\ (phase = "clicked" /\ disconnect_pending) \/ phase = "drain"

IInv ==
  /\ TypeOK
  /\ NetOK /\ AnswerIsOwn /\ AnswerOnce /\ BatchIsOwn
  /\ ShownHasNet /\ ShownIsAnswered /\ TofuIsUnasked /\ TofuIsCurrent
  /\ AwaitedIsUnasked
  /\ FlapsPay /\ RejoinIsArmed
  /\ SingleConnection /\ EndIsNoted

-----------------------------------------------------------------------------
(* Types.                                                                  *)

NetRecords == [st : NetStates, srv : Servers \cup {NoServer},
               fp : Servers \cup {NoServer}, failed : BOOLEAN]

ChannelIds == Channels \cup {NoChannel}

LEMMA HelperTypes ==
  ASSUME NEW a \in AppState
  PROVE  CancelReconnect(a) \in AppState /\ ArmRetry(a) \in AppState
BY DEF CancelReconnect, ArmRetry, AppState

LEMMA CleanupType ==
  ASSUME NEW a \in AppState
  PROVE  OnDisconnectCleanup(a) \in AppState
<1> DEFINE c == [a EXCEPT !.authenticated = FALSE, !.current_channel = NoChannel,
                          !.awaiting_connection = FALSE, !.pending_channel = NoChannel,
                          !.tofu_pending = FALSE, !.show_login = FALSE]
           n == IF a.young THEN a.flaps + 1 ELSE 0
           armed == [c EXCEPT !.flaps = n, !.reconnecting = TRUE, !.rejoin_pending = FALSE,
                              !.reconnect_channel = a.current_channel]
           k == CancelReconnect(c)
<1>c. c \in AppState
  BY DEF AppState
<1>2. 0 \in 0 .. (FlapLimit - 1) /\ a.flaps \in Nat
  BY FlapLimitPositive DEF AppState
<1>3. ~(a.young /\ a.flaps + 1 >= FlapLimit) => n \in 0 .. (FlapLimit - 1)
  BY <1>2, FlapLimitPositive
<1>4. a.current_channel \in ChannelIds
  BY DEF AppState, ChannelIds
<1>7. OnDisconnectCleanup(a) = AfterLoss(a, c)
  BY DEF OnDisconnectCleanup
<1> HIDE DEF c, n
<1>1. c \in AppState /\ k \in AppState
  BY <1>c, HelperTypes
<1>5. ~(a.young /\ a.flaps + 1 >= FlapLimit) => armed \in AppState
  BY <1>1, <1>3, <1>4 DEF AppState, ChannelIds
<1>8. AfterLoss(a, c) \in {[k EXCEPT !.intentional = FALSE], [k EXCEPT !.flaps = 0],
                           ArmRetry(c), c}
      \/ (~(a.young /\ a.flaps + 1 >= FlapLimit) /\ AfterLoss(a, c) = ArmRetry(armed))
  BY DEF AfterLoss, n
<1> HIDE DEF k
<1>6. [k EXCEPT !.intentional = FALSE] \in AppState
  BY <1>1 DEF AppState
<1>9. [k EXCEPT !.flaps = 0] \in AppState
  BY <1>1, <1>2 DEF AppState
<1> HIDE DEF armed
<1> QED
  BY <1>1, <1>5, <1>6, <1>7, <1>8, <1>9, HelperTypes

LEMMA QueueTypes ==
  ASSUME NEW ch \in Channels
  PROVE  /\ [type |-> "join", channel |-> ch] \in Requests
         /\ [type |-> "user_list", channel |-> ch] \in Replies
         /\ Reply("auth") \in Requests /\ Reply("leave") \in Requests
BY DEF Requests, Replies, Reply

LEMMA ReplyTypes ==
  /\ Reply("auth") \in Requests /\ Reply("leave") \in Requests
  /\ Reply("auth_response") \in Replies /\ Reply("error") \in Replies
  /\ Reply("terminal") \in Replies
BY DEF Requests, Replies, Reply

LEMMA SendType ==
  ASSUME wire \in Seq(Requests), NEW m \in Requests, SendMessage(m)
  PROVE  wire' \in Seq(Requests)
BY DEF SendMessage

LEMMA TransportType ==
  ASSUME TypeOK
  PROVE  /\ NetDisconnect =>
              /\ disconnect_pending' \in BOOLEAN /\ net' \in NetRecords
              /\ wire' \in Seq(Requests) /\ session' \in BOOLEAN
         /\ \A s \in Servers \cup {NoServer}, started \in BOOLEAN :
              NetConnect(s, started) =>
              /\ disconnect_pending' \in BOOLEAN /\ net' \in NetRecords /\ overlap' \in BOOLEAN
              /\ wire' \in Seq(Requests) /\ session' \in BOOLEAN
<1>0. net \in NetRecords
  BY DEF TypeOK, NetRecords
<1>1. NetDisconnect => net' \in NetRecords
  BY <1>0 DEF NetDisconnect, NetRecords, NetStates
<1>2. ASSUME NEW s \in Servers \cup {NoServer}, NEW started \in BOOLEAN, NetConnect(s, started)
      PROVE  net' \in NetRecords
  BY <1>0, <1>2 DEF NetConnect, NetRecords, NetStates
<1>3. /\ NetDisconnect => wire' = <<>> /\ session' = FALSE /\ disconnect_pending' \in BOOLEAN
      /\ \A s, started : NetConnect(s, started) =>
           /\ wire' = <<>> /\ session' = FALSE
           /\ disconnect_pending' \in BOOLEAN /\ overlap' \in BOOLEAN
  BY DEF NetDisconnect, NetConnect
<1>4. <<>> \in Seq(Requests)
  OBVIOUS
<1> QED
  BY <1>1, <1>2, <1>3, <1>4

LEMMA FinishConnectType ==
  ASSUME TypeOK, NEW a \in AppState, FinishConnect(a)
  PROVE  /\ app' \in AppState /\ wire' \in Seq(Requests)
         /\ trusted' \in [Servers -> Servers \cup {NoServer, OldCert}]
<1>0. net \in NetRecords /\ wire \in Seq(Requests)
      /\ trusted \in [Servers -> Servers \cup {NoServer, OldCert}]
  BY DEF TypeOK, NetRecords
<1>1. app' \in AppState
  BY DEF FinishConnect, AppState
<1>2. trusted' \in [Servers -> Servers \cup {NoServer, OldCert}]
  BY <1>0 DEF FinishConnect, NetRecords
<1>3. wire' \in Seq(Requests)
  BY <1>0, SendType, ReplyTypes DEF FinishConnect
<1> QED
  BY <1>1, <1>2, <1>3

LEMMA DoConnectType ==
  ASSUME TypeOK, NEW a0 \in AppState, DoConnect(a0)
  PROVE  /\ app' \in AppState /\ disconnect_pending' \in BOOLEAN
         /\ net' \in NetRecords /\ inbox' \in Seq(Replies) /\ wire' \in Seq(Requests)
         /\ session' \in BOOLEAN /\ trusted' \in [Servers -> Servers \cup {NoServer, OldCert}]
         /\ ended' \in BOOLEAN /\ lost' \in ChannelIds /\ reauths' \in 0 .. (FlapLimit + 1)
         /\ overlap' \in BOOLEAN
<1> DEFINE a == CancelReconnect(a0)
<1>0. /\ net \in NetRecords /\ wire \in Seq(Requests) /\ inbox \in Seq(Replies)
      /\ trusted \in [Servers -> Servers \cup {NoServer, OldCert}]
      /\ disconnect_pending \in BOOLEAN /\ session \in BOOLEAN /\ overlap \in BOOLEAN
  BY DEF TypeOK, NetRecords
<1>1. a \in AppState /\ a.target \in Servers \cup {NoServer}
  BY HelperTypes DEF AppState
<1>2. /\ inbox' = inbox /\ ended' = FALSE /\ lost' = NoChannel /\ reauths' = 0
      /\ \/ FinishConnect(a) /\ UNCHANGED <<disconnect_pending, net, session, overlap>>
         \/ app' = a /\ UNCHANGED <<disconnect_pending, net, wire, session, trusted, overlap>>
         \/ \E started \in BOOLEAN :
              /\ NetConnect(a.target, started) /\ UNCHANGED trusted
              /\ app' = IF started THEN [a EXCEPT !.awaiting_connection = TRUE]
                        ELSE [a EXCEPT !.show_login = TRUE]
  BY DEF DoConnect
<1> HIDE DEF a
<1>3. 0 \in 0 .. (FlapLimit + 1) /\ NoChannel \in ChannelIds
  BY FlapLimitPositive DEF ChannelIds
<1>4. CASE FinishConnect(a) /\ UNCHANGED <<disconnect_pending, net, session, overlap>>
  BY <1>0, <1>1, <1>2, <1>3, <1>4, FinishConnectType
<1>5. CASE app' = a /\ UNCHANGED <<disconnect_pending, net, wire, session, trusted, overlap>>
  BY <1>0, <1>1, <1>2, <1>3, <1>5
<1>6. ASSUME NEW started \in BOOLEAN,
             NetConnect(a.target, started) /\ UNCHANGED trusted,
             app' = IF started THEN [a EXCEPT !.awaiting_connection = TRUE]
                    ELSE [a EXCEPT !.show_login = TRUE]
      PROVE  /\ app' \in AppState /\ disconnect_pending' \in BOOLEAN /\ net' \in NetRecords
             /\ wire' \in Seq(Requests) /\ session' \in BOOLEAN /\ overlap' \in BOOLEAN
             /\ trusted' \in [Servers -> Servers \cup {NoServer, OldCert}]
  <2>1. app' \in AppState
    BY <1>1, <1>6 DEF AppState
  <2> QED
    BY <1>0, <1>1, <1>6, <2>1, TransportType
<1> QED
  BY <1>0, <1>2, <1>3, <1>4, <1>5, <1>6

LEMMA ClickTypes ==
  ASSUME TypeOK, User
  PROVE  TypeOK'
<1> USE DEF appVars, netVars, setVars, ghosts, history
<1>0. /\ app \in AppState /\ net \in NetRecords /\ wire \in Seq(Requests)
      /\ inbox \in Seq(Replies) /\ batch \in Seq(Replies)
      /\ trusted \in [Servers -> Servers \cup {NoServer, OldCert}] /\ saved \subseteq Servers
      /\ reauths \in 0 .. (FlapLimit + 1) /\ lost \in ChannelIds
      /\ disconnect_pending \in BOOLEAN /\ session \in BOOLEAN
      /\ ended \in BOOLEAN /\ overlap \in BOOLEAN
  BY DEF TypeOK, NetRecords, ChannelIds
<1>c. Click => phase' \in Phases /\ clicks' \in 0 .. MaxClicks
  <2>1. clicks \in 0 .. MaxClicks
    BY DEF TypeOK
  <2>2. clicks < MaxClicks => clicks + 1 \in 0 .. MaxClicks
    BY <2>1, BoundAssumption
  <2> QED
    BY <2>2 DEF Click, Phases
<1>d. ASSUME NEW a \in AppState, DisconnectIntentionally(a)
      PROVE  /\ app' \in AppState /\ disconnect_pending' \in BOOLEAN /\ net' \in NetRecords
             /\ wire' \in Seq(Requests) /\ session' \in BOOLEAN /\ ended' \in BOOLEAN
             /\ UNCHANGED <<inbox, lost, reauths, overlap>>
  <2>1. [a EXCEPT !.intentional = TRUE] \in AppState
    BY DEF AppState
  <2>2. app' \in AppState
    BY <1>d, <2>1, HelperTypes DEF DisconnectIntentionally
  <2> QED
    BY <1>d, <2>2, TransportType DEF DisconnectIntentionally
<1>1. ASSUME NEW s \in Servers, SelectServer(s) PROVE TypeOK'
  <2>1. [app EXCEPT !.target = s] \in AppState
    BY <1>0 DEF AppState
  <2>2. CASE DoConnect([app EXCEPT !.target = s])
    BY <1>0, <1>1, <1>c, <2>1, <2>2, DoConnectType DEF SelectServer, TypeOK, NetRecords,
       ChannelIds
  <2>3. CASE /\ app' = [app EXCEPT !.target = s, !.show_login = TRUE]
             /\ UNCHANGED <<netVars, trusted, ghosts>>
    <3>1. app' \in AppState
      BY <1>0, <2>3 DEF AppState
    <3> QED
      BY <1>0, <1>1, <1>c, <2>3, <3>1 DEF SelectServer, TypeOK, NetRecords, ChannelIds
  <2> QED
    BY <1>1, <2>2, <2>3 DEF SelectServer
<1>2. ASSUME NEW s \in Servers, DeleteServer(s) PROVE TypeOK'
  BY <1>0, <1>2, <1>c DEF DeleteServer, TypeOK
<1>3. ASSUME SubmitLogin PROVE TypeOK'
  BY <1>0, <1>3, <1>c, DoConnectType DEF SubmitLogin, TypeOK, NetRecords, ChannelIds
<1>4. ASSUME CancelLogin PROVE TypeOK'
  <2>1. [app EXCEPT !.show_login = FALSE, !.awaiting_connection = FALSE] \in AppState
    BY <1>0 DEF AppState
  <2> QED
    BY <1>0, <1>4, <1>c, <1>d, <2>1 DEF CancelLogin, TypeOK, NetRecords, ChannelIds
<1>5. ASSUME DisconnectServer PROVE TypeOK'
  BY <1>0, <1>5, <1>c, <1>d DEF DisconnectServer, TypeOK, NetRecords, ChannelIds
<1>6. ASSUME TofuAccept PROVE TypeOK'
  <2>1. app' \in AppState
    BY <1>0, <1>6 DEF TofuAccept, AppState
  <2>2. wire' \in Seq(Requests)
    BY <1>0, <1>6, SendType, ReplyTypes DEF TofuAccept
  <2>3. trusted' \in [Servers -> Servers \cup {NoServer, OldCert}]
    BY <1>0, <1>6 DEF TofuAccept, NetRecords
  <2> QED
    BY <1>0, <1>6, <1>c, <2>1, <2>2, <2>3 DEF TofuAccept, TypeOK
<1>7. ASSUME TofuReject PROVE TypeOK'
  <2>1. [app EXCEPT !.tofu_pending = FALSE, !.show_login = FALSE] \in AppState
    BY <1>0 DEF AppState
  <2> QED
    BY <1>0, <1>7, <1>c, <1>d, <2>1 DEF TofuReject, TypeOK, NetRecords, ChannelIds
<1>8. ASSUME NEW ch \in Channels, SelectChannel(ch) PROVE TypeOK'
  <2>1. app' \in AppState
    BY <1>0, <1>8 DEF SelectChannel, JoinChannel, AppState
  <2>2. wire' \in Seq(Requests)
    BY <1>0, <1>8, SendType, QueueTypes DEF SelectChannel, JoinChannel
  <2> QED
    BY <1>0, <1>8, <1>c, <2>1, <2>2 DEF SelectChannel, TypeOK
<1>9. ASSUME LeaveChannel PROVE TypeOK'
  <2>1. app' \in AppState
    BY <1>0, <1>9 DEF LeaveChannel, AppState
  <2>2. wire' \in Seq(Requests)
    BY <1>0, <1>9, SendType, ReplyTypes DEF LeaveChannel
  <2> QED
    BY <1>0, <1>9, <1>c, <2>1, <2>2 DEF LeaveChannel, TypeOK
<1> QED
  BY <1>1, <1>2, <1>3, <1>4, <1>5, <1>6, <1>7, <1>8, <1>9 DEF User

LEMMA TickTypes ==
  ASSUME TypeOK, Tick
  PROVE  TypeOK'
<1> USE DEF appVars, netVars, setVars, ghosts, history
<1>0. /\ app \in AppState /\ net \in NetRecords /\ wire \in Seq(Requests)
      /\ inbox \in Seq(Replies) /\ batch \in Seq(Replies)
      /\ trusted \in [Servers -> Servers \cup {NoServer, OldCert}]
      /\ disconnect_pending \in BOOLEAN /\ session \in BOOLEAN /\ overlap \in BOOLEAN
      /\ lost \in ChannelIds
  BY DEF TypeOK, NetRecords, ChannelIds
<1>e. <<>> \in Seq(Replies) /\ {"ui", "drain", "poll", "retry", "messages"} \subseteq Phases
  BY DEF Phases
<1>h. ASSUME NEW t, Handles(t) PROVE batch' \in Seq(Replies) /\ Head(batch) \in Replies
  BY <1>0, <1>h DEF Handles
<1>1. ASSUME TickBegin PROVE TypeOK'
  BY <1>0, <1>1, <1>e DEF TickBegin, Drain, TypeOK
<1>2. ASSUME TickCleanup PROVE TypeOK'
  <2>1. app' \in AppState
    BY <1>0, <1>2, CleanupType DEF TickCleanup
  <2>2. lost' \in ChannelIds
    BY <1>0, <1>2 DEF TickCleanup, AppState, ChannelIds
  <2> QED
    BY <1>0, <1>2, <1>e, <2>1, <2>2 DEF TickCleanup, TypeOK, ChannelIds
<1>3. ASSUME TickPoll PROVE TypeOK'
  <2> DEFINE a == [app EXCEPT !.awaiting_connection = FALSE]
  <2>a. a \in AppState
    BY <1>0 DEF AppState
  <2>1. CASE UNCHANGED <<app, netVars, trusted>>
    BY <1>0, <1>3, <1>e, <2>1 DEF TickPoll, TypeOK
  <2>2. CASE /\ NetDisconnect /\ UNCHANGED trusted
             /\ app' = IF a.reconnecting THEN ArmRetry(a) ELSE [a EXCEPT !.show_login = TRUE]
    <3>1. app' \in AppState
      BY <2>2, <2>a, HelperTypes DEF AppState
    <3> QED
      BY <1>0, <1>3, <1>e, <2>2, <3>1, TransportType DEF TickPoll, TypeOK, NetRecords
  <2>3. CASE FinishConnect(a) /\ UNCHANGED <<disconnect_pending, net, session>>
    BY <1>0, <1>3, <1>e, <2>3, <2>a, FinishConnectType DEF TickPoll, TypeOK
  <2> QED
    BY <1>3, <2>1, <2>2, <2>3 DEF TickPoll
<1>4. ASSUME TickRetry PROVE TypeOK'
  <2>0. app.target \in Servers \cup {NoServer}
    BY <1>0 DEF AppState
  <2>1. CASE UNCHANGED <<app, disconnect_pending, net, wire, session, overlap>>
    BY <1>0, <1>4, <1>e, <2>1 DEF TickRetry, Drain, TypeOK
  <2>2. CASE /\ app' \in {CancelReconnect(app), ArmRetry(app)}
             /\ UNCHANGED <<disconnect_pending, net, wire, session, overlap>>
    <3>1. app' \in AppState
      BY <1>0, <2>2, HelperTypes
    <3> QED
      BY <1>0, <1>4, <1>e, <2>2, <3>1 DEF TickRetry, Drain, TypeOK
  <2>3. ASSUME NEW started \in BOOLEAN, NetConnect(app.target, started),
               app' = IF started
                      THEN [app EXCEPT !.awaiting_connection = TRUE,
                                       !.rejoin_pending = (app.reconnect_channel # NoChannel)]
                      ELSE ArmRetry(app)
        PROVE  TypeOK'
    <3> DEFINE rejoin == app.reconnect_channel # NoChannel
    <3>0. rejoin \in BOOLEAN
      OBVIOUS
    <3>2. \/ app' = [app EXCEPT !.awaiting_connection = TRUE, !.rejoin_pending = rejoin]
          \/ app' = ArmRetry(app)
      BY <2>3
    <3> HIDE DEF rejoin
    <3>3. [app EXCEPT !.awaiting_connection = TRUE, !.rejoin_pending = rejoin] \in AppState
      BY <1>0, <3>0 DEF AppState
    <3>1. app' \in AppState
      BY <1>0, <3>2, <3>3, HelperTypes
    <3> QED
      BY <1>0, <1>4, <1>e, <2>0, <2>3, <3>1, TransportType DEF TickRetry, Drain, TypeOK,
         NetRecords
  <2> QED
    BY <1>4, <2>1, <2>2, <2>3 DEF TickRetry, AttemptReconnect
<1>5. ASSUME TickEnd PROVE TypeOK'
  BY <1>0, <1>5, <1>e DEF TickEnd, TypeOK
<1>6. ASSUME OnAuthResponse PROVE TypeOK'
  <2> DEFINE b == [app EXCEPT !.authenticated = TRUE, !.young = TRUE, !.show_login = FALSE]
             a == CancelReconnect(b)
  <2>1. b \in AppState
    BY <1>0 DEF AppState
  <2>2. a \in AppState
    BY <2>1, HelperTypes
  <2>3. /\ batch' \in Seq(Replies)
        /\ \/ JoinChannel(a, app.reconnect_channel) /\ app.reconnect_channel # NoChannel
           \/ app' = a /\ UNCHANGED wire
    BY <1>6, <1>h DEF OnAuthResponse
  <2> HIDE DEF a
  <2>4. app.reconnect_channel \in ChannelIds
    BY <1>0 DEF AppState, ChannelIds
  <2>5. app' \in AppState
    BY <2>2, <2>3, <2>4 DEF JoinChannel, AppState, ChannelIds
  <2>6. wire' \in Seq(Requests)
    BY <1>0, <2>3, <2>4, SendType, QueueTypes DEF JoinChannel, ChannelIds
  <2>7. reauths' \in 0 .. (FlapLimit + 1)
    BY <1>6, FlapLimitPositive DEF OnAuthResponse, TypeOK
  <2> QED
    BY <1>0, <1>6, <2>3, <2>5, <2>6, <2>7 DEF OnAuthResponse, TypeOK
<1>7. ASSUME OnTerminalError PROVE TypeOK'
  <2> DEFINE i == app.authenticated \/ app.intentional
             l == app.show_login \/ ~app.authenticated
  <2>2. i \in BOOLEAN /\ l \in BOOLEAN
    OBVIOUS
  <2>3. app' = [app EXCEPT !.intentional = i, !.show_login = l]
    BY <1>7 DEF OnTerminalError
  <2> HIDE DEF i, l
  <2>1. app' \in AppState
    BY <1>0, <2>2, <2>3 DEF AppState
  <2> QED
    BY <1>0, <1>7, <1>h, <2>1 DEF OnTerminalError, TypeOK
<1>8. ASSUME OnServerError PROVE TypeOK'
  <2>1. app' \in AppState
    BY <1>0, <1>8 DEF OnServerError, AppState
  <2> QED
    BY <1>0, <1>8, <1>h, <2>1 DEF OnServerError, TypeOK
<1>9. ASSUME OnChannelUserList PROVE TypeOK'
  <2>1. app' \in AppState
    BY <1>0, <1>9 DEF OnChannelUserList, AppState
  <2> QED
    BY <1>0, <1>9, <1>h, <2>1 DEF OnChannelUserList, TypeOK
<1> QED
  BY <1>1, <1>2, <1>3, <1>4, <1>5, <1>6, <1>7, <1>8, <1>9 DEF Tick

LEMMA OtherTypes ==
  ASSUME TypeOK, Worker \/ Server \/ Time
  PROVE  TypeOK'
<1> USE DEF appVars, netVars, setVars, ghosts, history
<1>0. /\ app \in AppState /\ net \in NetRecords /\ wire \in Seq(Requests)
      /\ inbox \in Seq(Replies) /\ disconnect_pending \in BOOLEAN /\ session \in BOOLEAN
  BY DEF TypeOK, NetRecords
<1>e. <<>> \in Seq(Requests)
  OBVIOUS
<1>1. ASSUME ConnectionUp PROVE TypeOK'
  <2>1. net' \in NetRecords
    BY <1>0, <1>1 DEF ConnectionUp, NetRecords, NetStates
  <2> QED
    BY <1>0, <1>1, <2>1 DEF ConnectionUp, TypeOK, NetRecords
<1>2. ASSUME ShutdownInitiated PROVE TypeOK'
  <2>1. net' \in NetRecords
    BY <1>0, <1>2 DEF ShutdownInitiated, NetRecords, NetStates
  <2> QED
    BY <1>0, <1>2, <1>e, <2>1 DEF ShutdownInitiated, TypeOK, NetRecords
<1>3. ASSUME ShutdownComplete PROVE TypeOK'
  <2>1. net' \in NetRecords
    BY <1>0, <1>3 DEF ShutdownComplete, NetRecords, NetStates
  <2> QED
    BY <1>0, <1>3, <2>1 DEF ShutdownComplete, TypeOK, NetRecords
<1>s. ASSUME NEW t, Serves(t)
      PROVE  wire' \in Seq(Requests) /\ Head(wire) \in Requests /\ Head(wire).type = t
  BY <1>0, <1>s DEF Serves
<1>4. ASSUME ServeAuth PROVE TypeOK'
  <2>1. wire' \in Seq(Requests)
    BY <1>4, <1>s DEF ServeAuth
  <2>2. inbox' \in Seq(Replies)
    BY <1>0, <1>4, ReplyTypes DEF ServeAuth, Answer
  <2>3. session' \in BOOLEAN
    BY <1>0, <1>4 DEF ServeAuth
  <2> QED
    BY <1>4, <2>1, <2>2, <2>3 DEF ServeAuth, TypeOK
<1>5. ASSUME ServeJoin PROVE TypeOK'
  <2>1. Head(wire).channel \in Channels
    <3>1. Head(wire) \in Requests /\ Head(wire).type = "join"
      BY <1>5, <1>s DEF ServeJoin
    <3> QED
      BY <3>1 DEF Requests
  <2>2. inbox' \in Seq(Replies)
    <3> DEFINE m == [type |-> "user_list", channel |-> Head(wire).channel]
    <3>1. m \in Replies
      BY <2>1, QueueTypes
    <3>2. inbox' \in {inbox, Append(inbox, m), Append(inbox, Reply("error"))}
      BY <1>5 DEF ServeJoin, Answer
    <3> HIDE DEF m
    <3> QED
      BY <1>0, <3>1, <3>2, ReplyTypes
  <2> QED
    BY <1>0, <1>5, <1>s, <2>2 DEF ServeJoin, TypeOK
<1>6. ASSUME ServeLeave PROVE TypeOK'
  BY <1>0, <1>6, <1>s DEF ServeLeave, TypeOK
<1>7. ASSUME ServeKick PROVE TypeOK'
  <2>1. net' \in NetRecords
    BY <1>0, <1>7 DEF ServeKick, NetRecords, NetStates
  <2>2. inbox' \in Seq(Replies)
    BY <1>0, <1>7, ReplyTypes DEF ServeKick, Answer
  <2> QED
    BY <1>0, <1>7, <1>e, <2>1, <2>2 DEF ServeKick, TypeOK, NetRecords
<1>8. ASSUME BackoffElapses PROVE TypeOK'
  <2>1. app' \in AppState
    BY <1>0, <1>8 DEF BackoffElapses, AppState
  <2> QED
    BY <1>8, <2>1 DEF BackoffElapses, TypeOK
<1>9. ASSUME SessionAges PROVE TypeOK'
  <2>1. app' \in AppState
    BY <1>0, <1>9 DEF SessionAges, AppState
  <2>2. 0 \in 0 .. (FlapLimit + 1)
    BY FlapLimitPositive
  <2> QED
    BY <1>9, <2>1, <2>2 DEF SessionAges, TypeOK
<1> QED
  BY <1>1, <1>2, <1>3, <1>4, <1>5, <1>6, <1>7, <1>8, <1>9 DEF Worker, Server, Time

-----------------------------------------------------------------------------
(* What the steps do to the queues.                                        *)

LEMMA HandlesQueue ==
  ASSUME TypeOK, NEW t, batch # <<>>, Head(batch).type = t, batch' = Tail(batch)
  PROVE  /\ Has(batch, t)
         /\ \A u : /\ Has(batch', u) => Has(batch, u)
                   /\ t # u /\ Has(batch, u) => Has(batch', u)
                   /\ t = u /\ Once(batch, u) => ~Has(batch', u)
                   /\ Once(batch, u) => Once(batch', u)
         /\ Preceded(batch) => t # "terminal"
         /\ Preceded(batch) /\ t # "auth_response" => Preceded(batch')
<1>1. batch \in Seq(Replies)
  BY DEF TypeOK
<1> QED
  BY <1>1, TailQueue

LEMMA ServesQueue ==
  ASSUME TypeOK, NEW t, wire # <<>>, Head(wire).type = t, wire' = Tail(wire)
  PROVE  /\ Has(wire, t)
         /\ \A u : Has(wire', u) => Has(wire, u)
<1>1. wire \in Seq(Requests)
  BY DEF TypeOK
<1> QED
  BY <1>1, TailQueue

LEMMA AnswerQueue ==
  ASSUME TypeOK, NEW m \in Replies, inbox' = Append(inbox, m)
  PROVE  /\ \A u : /\ Has(inbox', u) <=> Has(inbox, u) \/ m.type = u
                   /\ Once(inbox, u) /\ ~(Has(inbox, u) /\ m.type = u) => Once(inbox', u)
         /\ Preceded(inbox) /\ (m.type = "terminal" => Has(inbox, "auth_response"))
              => Preceded(inbox')
<1>1. inbox \in Seq(Replies)
  BY DEF TypeOK
<1> QED
  BY <1>1, AppendQueue

LEMMA SendQueue ==
  ASSUME TypeOK, NEW m \in Requests, SendMessage(m)
  PROVE  /\ wire' # wire => Connected
         /\ \A u : Has(wire', u) => Has(wire, u) \/ m.type = u
<1>1. wire \in Seq(Requests) /\ wire' = IF Connected THEN Append(wire, m) ELSE wire
  BY DEF SendMessage, TypeOK
<1> QED
  BY <1>1, AppendQueue

LEMMA CancelLoginInv ==
  ASSUME IInv, CancelLogin, User
  PROVE  IInv'
<1> USE DEF CancelLogin, Click, DisconnectIntentionally, CancelReconnect, NetDisconnect,
   Live, appVars, netVars, setVars, ghosts, history,
      Asked, Answered, Own, Down, Nothing, Connected
<1>t. TypeOK /\ TypeOK'
  BY ClickTypes DEF IInv
<1>f1. \A t : ~Has(<<>>, t) /\ Once(<<>>, t)
  BY EmptyQueue
<1>f2. Preceded(<<>>)
  BY EmptyQueue
<1>1. NetOK' /\ AnswerIsOwn' /\ AnswerOnce' /\ BatchIsOwn'
  BY <1>t, <1>f1, <1>f2 DEF IInv, NetOK, AnswerIsOwn, AnswerOnce, BatchIsOwn, TypeOK,
     AppState, ShownHasNet, ShownIsAnswered, TofuIsUnasked, TofuIsCurrent, AwaitedIsUnasked,
     SingleConnection
<1>2. ShownHasNet' /\ ShownIsAnswered' /\ TofuIsUnasked' /\ TofuIsCurrent' /\ AwaitedIsUnasked'
  BY <1>t, <1>f1, <1>f2 DEF IInv, NetOK, ShownHasNet, ShownIsAnswered, TofuIsUnasked,
     TofuIsCurrent, AwaitedIsUnasked, TypeOK, AppState, AnswerIsOwn, AnswerOnce, BatchIsOwn,
     SingleConnection
<1>3. FlapsPay' /\ RejoinIsArmed'
  BY <1>t, <1>f1, <1>f2 DEF IInv, NetOK, FlapsPay, RejoinIsArmed, TypeOK, AppState,
     AnswerIsOwn, AnswerOnce, BatchIsOwn, ShownHasNet, ShownIsAnswered, TofuIsUnasked,
     TofuIsCurrent, AwaitedIsUnasked, SingleConnection
<1>4. SingleConnection' /\ EndIsNoted'
  BY <1>t, <1>f1, <1>f2 DEF IInv, NetOK, SingleConnection, EndIsNoted, TypeOK, AppState,
     AnswerIsOwn, AnswerOnce, BatchIsOwn, ShownHasNet, ShownIsAnswered, TofuIsUnasked,
     TofuIsCurrent, AwaitedIsUnasked
<1> QED
  BY <1>t, <1>1, <1>2, <1>3, <1>4 DEF IInv

LEMMA DisconnectServerInv ==
  ASSUME IInv, DisconnectServer, User
  PROVE  IInv'
<1> USE DEF DisconnectServer, Click, DisconnectIntentionally, CancelReconnect,
   NetDisconnect, Live, appVars, netVars, setVars, ghosts, history,
      Asked, Answered, Own, Down, Nothing, Connected
<1>t. TypeOK /\ TypeOK'
  BY ClickTypes DEF IInv
<1>f1. \A t : ~Has(<<>>, t) /\ Once(<<>>, t)
  BY EmptyQueue
<1>f2. Preceded(<<>>)
  BY EmptyQueue
<1>1. NetOK' /\ AnswerIsOwn' /\ AnswerOnce' /\ BatchIsOwn'
  BY <1>t, <1>f1, <1>f2 DEF IInv, NetOK, AnswerIsOwn, AnswerOnce, BatchIsOwn, TypeOK,
     AppState, ShownHasNet, ShownIsAnswered, TofuIsUnasked, TofuIsCurrent, AwaitedIsUnasked,
     SingleConnection
<1>2. ShownHasNet' /\ ShownIsAnswered' /\ TofuIsUnasked' /\ TofuIsCurrent' /\ AwaitedIsUnasked'
  BY <1>t, <1>f1, <1>f2 DEF IInv, NetOK, ShownHasNet, ShownIsAnswered, TofuIsUnasked,
     TofuIsCurrent, AwaitedIsUnasked, TypeOK, AppState, AnswerIsOwn, AnswerOnce, BatchIsOwn,
     SingleConnection
<1>3. FlapsPay' /\ RejoinIsArmed'
  BY <1>t, <1>f1, <1>f2 DEF IInv, NetOK, FlapsPay, RejoinIsArmed, TypeOK, AppState,
     AnswerIsOwn, AnswerOnce, BatchIsOwn, ShownHasNet, ShownIsAnswered, TofuIsUnasked,
     TofuIsCurrent, AwaitedIsUnasked, SingleConnection
<1>4. SingleConnection' /\ EndIsNoted'
  BY <1>t, <1>f1, <1>f2 DEF IInv, NetOK, SingleConnection, EndIsNoted, TypeOK, AppState,
     AnswerIsOwn, AnswerOnce, BatchIsOwn, ShownHasNet, ShownIsAnswered, TofuIsUnasked,
     TofuIsCurrent, AwaitedIsUnasked
<1> QED
  BY <1>t, <1>1, <1>2, <1>3, <1>4 DEF IInv

LEMMA TofuRejectInv ==
  ASSUME IInv, TofuReject, User
  PROVE  IInv'
<1> USE DEF TofuReject, Click, DisconnectIntentionally, CancelReconnect, NetDisconnect,
   Live, appVars, netVars, setVars, ghosts, history,
      Asked, Answered, Own, Down, Nothing, Connected
<1>t. TypeOK /\ TypeOK'
  BY ClickTypes DEF IInv
<1>f1. \A t : ~Has(<<>>, t) /\ Once(<<>>, t)
  BY EmptyQueue
<1>f2. Preceded(<<>>)
  BY EmptyQueue
<1>1. NetOK' /\ AnswerIsOwn' /\ AnswerOnce' /\ BatchIsOwn'
  BY <1>t, <1>f1, <1>f2 DEF IInv, NetOK, AnswerIsOwn, AnswerOnce, BatchIsOwn, TypeOK,
     AppState, ShownHasNet, ShownIsAnswered, TofuIsUnasked, TofuIsCurrent, AwaitedIsUnasked,
     SingleConnection
<1>2. ShownHasNet' /\ ShownIsAnswered' /\ TofuIsUnasked' /\ TofuIsCurrent' /\ AwaitedIsUnasked'
  BY <1>t, <1>f1, <1>f2 DEF IInv, NetOK, ShownHasNet, ShownIsAnswered, TofuIsUnasked,
     TofuIsCurrent, AwaitedIsUnasked, TypeOK, AppState, AnswerIsOwn, AnswerOnce, BatchIsOwn,
     SingleConnection
<1>3. FlapsPay' /\ RejoinIsArmed'
  BY <1>t, <1>f1, <1>f2 DEF IInv, NetOK, FlapsPay, RejoinIsArmed, TypeOK, AppState,
     AnswerIsOwn, AnswerOnce, BatchIsOwn, ShownHasNet, ShownIsAnswered, TofuIsUnasked,
     TofuIsCurrent, AwaitedIsUnasked, SingleConnection
<1>4. SingleConnection' /\ EndIsNoted'
  BY <1>t, <1>f1, <1>f2 DEF IInv, NetOK, SingleConnection, EndIsNoted, TypeOK, AppState,
     AnswerIsOwn, AnswerOnce, BatchIsOwn, ShownHasNet, ShownIsAnswered, TofuIsUnasked,
     TofuIsCurrent, AwaitedIsUnasked
<1> QED
  BY <1>t, <1>1, <1>2, <1>3, <1>4 DEF IInv

LEMMA DeleteServerInv ==
  ASSUME IInv, NEW s \in Servers, DeleteServer(s), User
  PROVE  IInv'
<1> USE DEF DeleteServer, Click, appVars, netVars, setVars, ghosts, history,
      Asked, Answered, Own, Down, Nothing, Connected
<1>t. TypeOK /\ TypeOK'
  BY ClickTypes DEF IInv
<1>1. NetOK' /\ AnswerIsOwn' /\ AnswerOnce' /\ BatchIsOwn'
  BY <1>t DEF IInv, NetOK, AnswerIsOwn, AnswerOnce, BatchIsOwn, TypeOK, AppState,
     ShownHasNet, ShownIsAnswered, TofuIsUnasked, TofuIsCurrent, AwaitedIsUnasked,
     SingleConnection
<1>2. ShownHasNet' /\ ShownIsAnswered' /\ TofuIsUnasked' /\ TofuIsCurrent' /\ AwaitedIsUnasked'
  BY <1>t DEF IInv, NetOK, ShownHasNet, ShownIsAnswered, TofuIsUnasked, TofuIsCurrent,
     AwaitedIsUnasked, TypeOK, AppState, AnswerIsOwn, AnswerOnce, BatchIsOwn,
     SingleConnection
<1>3. FlapsPay' /\ RejoinIsArmed'
  BY <1>t DEF IInv, NetOK, FlapsPay, RejoinIsArmed, TypeOK, AppState, AnswerIsOwn,
     AnswerOnce, BatchIsOwn, ShownHasNet, ShownIsAnswered, TofuIsUnasked, TofuIsCurrent,
     AwaitedIsUnasked, SingleConnection
<1>4. SingleConnection' /\ EndIsNoted'
  BY <1>t DEF IInv, NetOK, SingleConnection, EndIsNoted, TypeOK, AppState, AnswerIsOwn,
     AnswerOnce, BatchIsOwn, ShownHasNet, ShownIsAnswered, TofuIsUnasked, TofuIsCurrent,
     AwaitedIsUnasked
<1> QED
  BY <1>t, <1>1, <1>2, <1>3, <1>4 DEF IInv

LEMMA TofuAcceptInv ==
  ASSUME IInv, TofuAccept, User
  PROVE  IInv'
<1> USE DEF TofuAccept, Click, appVars, netVars, setVars, ghosts, history,
      Asked, Answered, Own, Down, Nothing, Connected
<1>t. TypeOK /\ TypeOK'
  BY ClickTypes DEF IInv
<1>f1. wire' # wire => Connected
  BY <1>t, SendQueue, ReplyTypes DEF TofuAccept
<1>f2. \A t : ~Has(<<>>, t) /\ Once(<<>>, t)
  BY EmptyQueue
<1>1. NetOK'
  BY <1>t, <1>f1, <1>f2 DEF IInv, NetOK, AnswerIsOwn, AnswerOnce, BatchIsOwn, TypeOK,
     AppState, ShownHasNet, ShownIsAnswered, TofuIsUnasked, TofuIsCurrent, AwaitedIsUnasked,
     SingleConnection
<1>2. AnswerIsOwn'
  BY <1>t, <1>f1, <1>f2 DEF IInv, NetOK, AnswerIsOwn, AnswerOnce, BatchIsOwn, TypeOK,
     AppState, ShownHasNet, ShownIsAnswered, TofuIsUnasked, TofuIsCurrent, AwaitedIsUnasked,
     SingleConnection
<1>3. AnswerOnce'
  BY <1>t, <1>f1, <1>f2 DEF IInv, NetOK, AnswerIsOwn, AnswerOnce, BatchIsOwn, TypeOK,
     AppState, ShownHasNet, ShownIsAnswered, TofuIsUnasked, TofuIsCurrent, AwaitedIsUnasked,
     SingleConnection
<1>4. BatchIsOwn'
  BY <1>t, <1>f1, <1>f2 DEF IInv, NetOK, AnswerIsOwn, AnswerOnce, BatchIsOwn, TypeOK,
     AppState, ShownHasNet, ShownIsAnswered, TofuIsUnasked, TofuIsCurrent, AwaitedIsUnasked,
     SingleConnection
<1>5. ShownHasNet'
  BY <1>t, <1>f1, <1>f2 DEF IInv, NetOK, ShownHasNet, ShownIsAnswered, TofuIsUnasked,
     TofuIsCurrent, AwaitedIsUnasked, TypeOK, AppState, AnswerIsOwn, AnswerOnce, BatchIsOwn,
     SingleConnection
<1>6. ShownIsAnswered'
  BY <1>t, <1>f1, <1>f2 DEF IInv, NetOK, ShownHasNet, ShownIsAnswered, TofuIsUnasked,
     TofuIsCurrent, AwaitedIsUnasked, TypeOK, AppState, AnswerIsOwn, AnswerOnce, BatchIsOwn,
     SingleConnection
<1>7. TofuIsUnasked'
  BY <1>t, <1>f1, <1>f2 DEF IInv, NetOK, ShownHasNet, ShownIsAnswered, TofuIsUnasked,
     TofuIsCurrent, AwaitedIsUnasked, TypeOK, AppState, AnswerIsOwn, AnswerOnce, BatchIsOwn,
     SingleConnection
<1>8. TofuIsCurrent'
  BY <1>t, <1>f1, <1>f2 DEF IInv, NetOK, ShownHasNet, ShownIsAnswered, TofuIsUnasked,
     TofuIsCurrent, AwaitedIsUnasked, TypeOK, AppState, AnswerIsOwn, AnswerOnce, BatchIsOwn,
     SingleConnection
<1>9. AwaitedIsUnasked'
  BY <1>t, <1>f1, <1>f2 DEF IInv, NetOK, ShownHasNet, ShownIsAnswered, TofuIsUnasked,
     TofuIsCurrent, AwaitedIsUnasked, TypeOK, AppState, AnswerIsOwn, AnswerOnce, BatchIsOwn,
     SingleConnection
<1>10. FlapsPay' /\ RejoinIsArmed'
  BY <1>t, <1>f1, <1>f2 DEF IInv, NetOK, FlapsPay, RejoinIsArmed, TypeOK, AppState,
     AnswerIsOwn, AnswerOnce, BatchIsOwn, ShownHasNet, ShownIsAnswered, TofuIsUnasked,
     TofuIsCurrent, AwaitedIsUnasked, SingleConnection
<1>11. SingleConnection' /\ EndIsNoted'
  BY <1>t, <1>f1, <1>f2 DEF IInv, NetOK, SingleConnection, EndIsNoted, TypeOK, AppState,
     AnswerIsOwn, AnswerOnce, BatchIsOwn, ShownHasNet, ShownIsAnswered, TofuIsUnasked,
     TofuIsCurrent, AwaitedIsUnasked
<1> QED
  BY <1>t, <1>1, <1>2, <1>3, <1>4, <1>5, <1>6, <1>7, <1>8, <1>9, <1>10, <1>11 DEF IInv

LEMMA SelectChannelInv ==
  ASSUME IInv, NEW ch \in Channels, SelectChannel(ch), User
  PROVE  IInv'
<1> USE DEF SelectChannel, JoinChannel, Click, appVars, netVars, setVars, ghosts, history,
      Asked, Answered, Own, Down, Nothing, Connected
<1>t. TypeOK /\ TypeOK'
  BY ClickTypes DEF IInv
<1>f1. (wire' # wire => Connected) /\ \A u : Has(wire', u) => Has(wire, u) \/ u = "join"
  BY <1>t, SendQueue, QueueTypes DEF SelectChannel, JoinChannel
<1>1. NetOK' /\ AnswerIsOwn' /\ AnswerOnce' /\ BatchIsOwn'
  BY <1>t, <1>f1 DEF IInv, NetOK, AnswerIsOwn, AnswerOnce, BatchIsOwn, TypeOK, AppState,
     ShownHasNet, ShownIsAnswered, TofuIsUnasked, TofuIsCurrent, AwaitedIsUnasked,
     SingleConnection
<1>2. ShownHasNet' /\ ShownIsAnswered' /\ TofuIsUnasked' /\ TofuIsCurrent' /\ AwaitedIsUnasked'
  BY <1>t, <1>f1 DEF IInv, NetOK, ShownHasNet, ShownIsAnswered, TofuIsUnasked,
     TofuIsCurrent, AwaitedIsUnasked, TypeOK, AppState, AnswerIsOwn, AnswerOnce, BatchIsOwn,
     SingleConnection
<1>3. FlapsPay' /\ RejoinIsArmed'
  BY <1>t, <1>f1 DEF IInv, NetOK, FlapsPay, RejoinIsArmed, TypeOK, AppState, AnswerIsOwn,
     AnswerOnce, BatchIsOwn, ShownHasNet, ShownIsAnswered, TofuIsUnasked, TofuIsCurrent,
     AwaitedIsUnasked, SingleConnection
<1>4. SingleConnection' /\ EndIsNoted'
  BY <1>t, <1>f1 DEF IInv, NetOK, SingleConnection, EndIsNoted, TypeOK, AppState,
     AnswerIsOwn, AnswerOnce, BatchIsOwn, ShownHasNet, ShownIsAnswered, TofuIsUnasked,
     TofuIsCurrent, AwaitedIsUnasked
<1> QED
  BY <1>t, <1>1, <1>2, <1>3, <1>4 DEF IInv

LEMMA LeaveChannelInv ==
  ASSUME IInv, LeaveChannel, User
  PROVE  IInv'
<1> USE DEF LeaveChannel, Click, appVars, netVars, setVars, ghosts, history,
      Asked, Answered, Own, Down, Nothing, Connected
<1>t. TypeOK /\ TypeOK'
  BY ClickTypes DEF IInv
<1>f1. (wire' # wire => Connected) /\ \A u : Has(wire', u) => Has(wire, u) \/ u = "leave"
  BY <1>t, SendQueue, ReplyTypes DEF LeaveChannel, Reply
<1>1. NetOK' /\ AnswerIsOwn' /\ AnswerOnce' /\ BatchIsOwn'
  BY <1>t, <1>f1 DEF IInv, NetOK, AnswerIsOwn, AnswerOnce, BatchIsOwn, TypeOK, AppState,
     ShownHasNet, ShownIsAnswered, TofuIsUnasked, TofuIsCurrent, AwaitedIsUnasked,
     SingleConnection
<1>2. ShownHasNet' /\ ShownIsAnswered' /\ TofuIsUnasked' /\ TofuIsCurrent' /\ AwaitedIsUnasked'
  BY <1>t, <1>f1 DEF IInv, NetOK, ShownHasNet, ShownIsAnswered, TofuIsUnasked,
     TofuIsCurrent, AwaitedIsUnasked, TypeOK, AppState, AnswerIsOwn, AnswerOnce, BatchIsOwn,
     SingleConnection
<1>3. FlapsPay' /\ RejoinIsArmed'
  BY <1>t, <1>f1 DEF IInv, NetOK, FlapsPay, RejoinIsArmed, TypeOK, AppState, AnswerIsOwn,
     AnswerOnce, BatchIsOwn, ShownHasNet, ShownIsAnswered, TofuIsUnasked, TofuIsCurrent,
     AwaitedIsUnasked, SingleConnection
<1>4. SingleConnection' /\ EndIsNoted'
  BY <1>t, <1>f1 DEF IInv, NetOK, SingleConnection, EndIsNoted, TypeOK, AppState,
     AnswerIsOwn, AnswerOnce, BatchIsOwn, ShownHasNet, ShownIsAnswered, TofuIsUnasked,
     TofuIsCurrent, AwaitedIsUnasked
<1> QED
  BY <1>t, <1>1, <1>2, <1>3, <1>4 DEF IInv

LEMMA TickBeginInv ==
  ASSUME IInv, TickBegin, Tick
  PROVE  IInv'
<1> USE DEF TickBegin, Drain, appVars, netVars, setVars, ghosts, history,
      Asked, Answered, Own, Down, Nothing, Connected
<1>t. TypeOK /\ TypeOK'
  BY TickTypes DEF IInv
<1>f1. \A t : ~Has(<<>>, t) /\ Once(<<>>, t)
  BY EmptyQueue
<1>f2. Preceded(<<>>)
  BY EmptyQueue
<1>1. NetOK' /\ AnswerIsOwn' /\ AnswerOnce' /\ BatchIsOwn'
  BY <1>t, <1>f1, <1>f2 DEF IInv, NetOK, AnswerIsOwn, AnswerOnce, BatchIsOwn, TypeOK,
     AppState, ShownHasNet, ShownIsAnswered, TofuIsUnasked, TofuIsCurrent, AwaitedIsUnasked,
     SingleConnection
<1>2. ShownHasNet' /\ ShownIsAnswered' /\ TofuIsUnasked' /\ TofuIsCurrent' /\ AwaitedIsUnasked'
  BY <1>t, <1>f1, <1>f2 DEF IInv, NetOK, ShownHasNet, ShownIsAnswered, TofuIsUnasked,
     TofuIsCurrent, AwaitedIsUnasked, TypeOK, AppState, AnswerIsOwn, AnswerOnce, BatchIsOwn,
     SingleConnection
<1>3. FlapsPay' /\ RejoinIsArmed'
  BY <1>t, <1>f1, <1>f2 DEF IInv, NetOK, FlapsPay, RejoinIsArmed, TypeOK, AppState,
     AnswerIsOwn, AnswerOnce, BatchIsOwn, ShownHasNet, ShownIsAnswered, TofuIsUnasked,
     TofuIsCurrent, AwaitedIsUnasked, SingleConnection
<1>4. SingleConnection' /\ EndIsNoted'
  BY <1>t, <1>f1, <1>f2 DEF IInv, NetOK, SingleConnection, EndIsNoted, TypeOK, AppState,
     AnswerIsOwn, AnswerOnce, BatchIsOwn, ShownHasNet, ShownIsAnswered, TofuIsUnasked,
     TofuIsCurrent, AwaitedIsUnasked
<1> QED
  BY <1>t, <1>1, <1>2, <1>3, <1>4 DEF IInv

LEMMA TickEndInv ==
  ASSUME IInv, TickEnd, Tick
  PROVE  IInv'
<1> USE DEF TickEnd, appVars, netVars, setVars, ghosts, history,
      Asked, Answered, Own, Down, Nothing, Connected
<1>t. TypeOK /\ TypeOK'
  BY TickTypes DEF IInv
<1>1. NetOK' /\ AnswerIsOwn' /\ AnswerOnce' /\ BatchIsOwn'
  BY <1>t DEF IInv, NetOK, AnswerIsOwn, AnswerOnce, BatchIsOwn, TypeOK, AppState,
     ShownHasNet, ShownIsAnswered, TofuIsUnasked, TofuIsCurrent, AwaitedIsUnasked,
     SingleConnection
<1>2. ShownHasNet' /\ ShownIsAnswered' /\ TofuIsUnasked' /\ TofuIsCurrent' /\ AwaitedIsUnasked'
  BY <1>t DEF IInv, NetOK, ShownHasNet, ShownIsAnswered, TofuIsUnasked, TofuIsCurrent,
     AwaitedIsUnasked, TypeOK, AppState, AnswerIsOwn, AnswerOnce, BatchIsOwn,
     SingleConnection
<1>3. FlapsPay' /\ RejoinIsArmed'
  BY <1>t DEF IInv, NetOK, FlapsPay, RejoinIsArmed, TypeOK, AppState, AnswerIsOwn,
     AnswerOnce, BatchIsOwn, ShownHasNet, ShownIsAnswered, TofuIsUnasked, TofuIsCurrent,
     AwaitedIsUnasked, SingleConnection
<1>4. SingleConnection' /\ EndIsNoted'
  BY <1>t DEF IInv, NetOK, SingleConnection, EndIsNoted, TypeOK, AppState, AnswerIsOwn,
     AnswerOnce, BatchIsOwn, ShownHasNet, ShownIsAnswered, TofuIsUnasked, TofuIsCurrent,
     AwaitedIsUnasked
<1> QED
  BY <1>t, <1>1, <1>2, <1>3, <1>4 DEF IInv

LEMMA OnTerminalErrorInv ==
  ASSUME IInv, OnTerminalError, Tick
  PROVE  IInv'
<1> USE DEF appVars, netVars, setVars, ghosts, history,
      Asked, Answered, Own, Down, Nothing, Connected
<1>t. TypeOK /\ TypeOK'
  BY TickTypes DEF IInv
<1>f1. /\ phase \in {"drain", "messages"} /\ Has(batch, "terminal") /\ ~Preceded(batch)
       /\ Has(batch', "auth_response") <=> Has(batch, "auth_response")
       /\ Once(batch, "auth_response") => Once(batch', "auth_response")
  <2>1. /\ batch # <<>> /\ Head(batch).type = "terminal" /\ batch' = Tail(batch)
        /\ phase \in {"drain", "messages"}
    BY DEF OnTerminalError, Handles
  <2> QED
    BY <1>t, <2>1, HandlesQueue
<1>f2. /\ app' = [app EXCEPT !.intentional = app.authenticated \/ @,
                             !.show_login = @ \/ ~app.authenticated]
       /\ ended' = (ended \/ app.authenticated)
       /\ UNCHANGED <<phase, netVars, setVars, lost, reauths, overlap, clicks>>
  BY DEF OnTerminalError
<1>1. NetOK' /\ AnswerIsOwn' /\ AnswerOnce' /\ BatchIsOwn'
  BY <1>t, <1>f1, <1>f2 DEF IInv, NetOK, AnswerIsOwn, AnswerOnce, BatchIsOwn, TypeOK,
     AppState, ShownHasNet, ShownIsAnswered, TofuIsUnasked, TofuIsCurrent, AwaitedIsUnasked,
     SingleConnection
<1>2. ShownHasNet' /\ ShownIsAnswered' /\ TofuIsUnasked' /\ TofuIsCurrent' /\ AwaitedIsUnasked'
  BY <1>t, <1>f1, <1>f2 DEF IInv, NetOK, ShownHasNet, ShownIsAnswered, TofuIsUnasked,
     TofuIsCurrent, AwaitedIsUnasked, TypeOK, AppState, AnswerIsOwn, AnswerOnce, BatchIsOwn,
     SingleConnection
<1>3. FlapsPay' /\ RejoinIsArmed'
  BY <1>t, <1>f1, <1>f2 DEF IInv, NetOK, FlapsPay, RejoinIsArmed, TypeOK, AppState,
     AnswerIsOwn, AnswerOnce, BatchIsOwn, ShownHasNet, ShownIsAnswered, TofuIsUnasked,
     TofuIsCurrent, AwaitedIsUnasked, SingleConnection
<1>4. SingleConnection' /\ EndIsNoted'
  BY <1>t, <1>f1, <1>f2 DEF IInv, NetOK, SingleConnection, EndIsNoted, TypeOK, AppState,
     AnswerIsOwn, AnswerOnce, BatchIsOwn, ShownHasNet, ShownIsAnswered, TofuIsUnasked,
     TofuIsCurrent, AwaitedIsUnasked
<1> QED
  BY <1>t, <1>1, <1>2, <1>3, <1>4 DEF IInv

LEMMA OnServerErrorInv ==
  ASSUME IInv, OnServerError, Tick
  PROVE  IInv'
<1> USE DEF appVars, netVars, setVars, ghosts, history,
      Asked, Answered, Own, Down, Nothing, Connected
<1>t. TypeOK /\ TypeOK'
  BY TickTypes DEF IInv
<1>f1. /\ phase \in {"drain", "messages"} /\ (Preceded(batch) => Preceded(batch'))
       /\ Has(batch', "auth_response") <=> Has(batch, "auth_response")
       /\ Has(batch', "terminal") <=> Has(batch, "terminal")
       /\ Once(batch, "auth_response") => Once(batch', "auth_response")
  <2>1. /\ batch # <<>> /\ Head(batch).type = "error" /\ batch' = Tail(batch)
        /\ phase \in {"drain", "messages"}
    BY DEF OnServerError, Handles
  <2> QED
    BY <1>t, <2>1, HandlesQueue
<1>f2. /\ app' = [app EXCEPT !.show_login = @ \/ ~app.authenticated]
       /\ UNCHANGED <<phase, netVars, setVars, history>>
  BY DEF OnServerError
<1>1. NetOK' /\ AnswerIsOwn' /\ AnswerOnce' /\ BatchIsOwn'
  BY <1>t, <1>f1, <1>f2 DEF IInv, NetOK, AnswerIsOwn, AnswerOnce, BatchIsOwn, TypeOK,
     AppState, ShownHasNet, ShownIsAnswered, TofuIsUnasked, TofuIsCurrent, AwaitedIsUnasked,
     SingleConnection
<1>2. ShownHasNet' /\ ShownIsAnswered' /\ TofuIsUnasked' /\ TofuIsCurrent' /\ AwaitedIsUnasked'
  BY <1>t, <1>f1, <1>f2 DEF IInv, NetOK, ShownHasNet, ShownIsAnswered, TofuIsUnasked,
     TofuIsCurrent, AwaitedIsUnasked, TypeOK, AppState, AnswerIsOwn, AnswerOnce, BatchIsOwn,
     SingleConnection
<1>3. FlapsPay' /\ RejoinIsArmed'
  BY <1>t, <1>f1, <1>f2 DEF IInv, NetOK, FlapsPay, RejoinIsArmed, TypeOK, AppState,
     AnswerIsOwn, AnswerOnce, BatchIsOwn, ShownHasNet, ShownIsAnswered, TofuIsUnasked,
     TofuIsCurrent, AwaitedIsUnasked, SingleConnection
<1>4. SingleConnection' /\ EndIsNoted'
  BY <1>t, <1>f1, <1>f2 DEF IInv, NetOK, SingleConnection, EndIsNoted, TypeOK, AppState,
     AnswerIsOwn, AnswerOnce, BatchIsOwn, ShownHasNet, ShownIsAnswered, TofuIsUnasked,
     TofuIsCurrent, AwaitedIsUnasked
<1> QED
  BY <1>t, <1>1, <1>2, <1>3, <1>4 DEF IInv

LEMMA OnChannelUserListInv ==
  ASSUME IInv, OnChannelUserList, Tick
  PROVE  IInv'
<1> USE DEF appVars, netVars, setVars, ghosts, history,
      Asked, Answered, Own, Down, Nothing, Connected
<1>t. TypeOK /\ TypeOK'
  BY TickTypes DEF IInv
<1>f1. /\ phase \in {"drain", "messages"} /\ (Preceded(batch) => Preceded(batch'))
       /\ Has(batch', "auth_response") <=> Has(batch, "auth_response")
       /\ Has(batch', "terminal") <=> Has(batch, "terminal")
       /\ Once(batch, "auth_response") => Once(batch', "auth_response")
  <2>1. /\ batch # <<>> /\ Head(batch).type = "user_list" /\ batch' = Tail(batch)
        /\ phase \in {"drain", "messages"}
    BY DEF OnChannelUserList, Handles
  <2> QED
    BY <1>t, <2>1, HandlesQueue
<1>f2. /\ app'.authenticated = app.authenticated /\ app'.reconnecting = app.reconnecting
       /\ app'.awaiting_connection = app.awaiting_connection
       /\ app'.show_login = app.show_login /\ app'.tofu_pending = app.tofu_pending
       /\ app'.intentional = app.intentional /\ app'.rejoin_pending = app.rejoin_pending
       /\ app'.reconnect_channel = app.reconnect_channel
       /\ app'.flaps = app.flaps /\ app'.young = app.young
       /\ UNCHANGED <<phase, netVars, setVars, history>>
  BY <1>t DEF OnChannelUserList, TypeOK, AppState
<1>1. NetOK' /\ AnswerIsOwn' /\ AnswerOnce' /\ BatchIsOwn'
  BY <1>t, <1>f1, <1>f2 DEF IInv, NetOK, AnswerIsOwn, AnswerOnce, BatchIsOwn, TypeOK,
     AppState, ShownHasNet, ShownIsAnswered, TofuIsUnasked, TofuIsCurrent, AwaitedIsUnasked,
     SingleConnection
<1>2. ShownHasNet' /\ ShownIsAnswered' /\ TofuIsUnasked' /\ TofuIsCurrent' /\ AwaitedIsUnasked'
  BY <1>t, <1>f1, <1>f2 DEF IInv, NetOK, ShownHasNet, ShownIsAnswered, TofuIsUnasked,
     TofuIsCurrent, AwaitedIsUnasked, TypeOK, AppState, AnswerIsOwn, AnswerOnce, BatchIsOwn,
     SingleConnection
<1>3. FlapsPay' /\ RejoinIsArmed'
  BY <1>t, <1>f1, <1>f2 DEF IInv, NetOK, FlapsPay, RejoinIsArmed, TypeOK, AppState,
     AnswerIsOwn, AnswerOnce, BatchIsOwn, ShownHasNet, ShownIsAnswered, TofuIsUnasked,
     TofuIsCurrent, AwaitedIsUnasked, SingleConnection
<1>4. SingleConnection' /\ EndIsNoted'
  BY <1>t, <1>f1, <1>f2 DEF IInv, NetOK, SingleConnection, EndIsNoted, TypeOK, AppState,
     AnswerIsOwn, AnswerOnce, BatchIsOwn, ShownHasNet, ShownIsAnswered, TofuIsUnasked,
     TofuIsCurrent, AwaitedIsUnasked
<1> QED
  BY <1>t, <1>1, <1>2, <1>3, <1>4 DEF IInv

LEMMA ConnectionUpInv ==
  ASSUME IInv, ConnectionUp, Worker
  PROVE  IInv'
<1> USE DEF ConnectionUp, appVars, netVars, setVars, ghosts, history,
      Asked, Answered, Own, Down, Nothing, Connected
<1>t. TypeOK /\ TypeOK'
  BY OtherTypes DEF IInv
<1>1. NetOK'
  BY <1>t DEF IInv, NetOK, AnswerIsOwn, AnswerOnce, BatchIsOwn, TypeOK, AppState,
     ShownHasNet, ShownIsAnswered, TofuIsUnasked, TofuIsCurrent, AwaitedIsUnasked,
     SingleConnection
<1>2. AnswerIsOwn'
  BY <1>t DEF IInv, NetOK, AnswerIsOwn, AnswerOnce, BatchIsOwn, TypeOK, AppState,
     ShownHasNet, ShownIsAnswered, TofuIsUnasked, TofuIsCurrent, AwaitedIsUnasked,
     SingleConnection
<1>3. AnswerOnce'
  BY <1>t DEF IInv, NetOK, AnswerIsOwn, AnswerOnce, BatchIsOwn, TypeOK, AppState,
     ShownHasNet, ShownIsAnswered, TofuIsUnasked, TofuIsCurrent, AwaitedIsUnasked,
     SingleConnection
<1>4. BatchIsOwn'
  BY <1>t DEF IInv, NetOK, AnswerIsOwn, AnswerOnce, BatchIsOwn, TypeOK, AppState,
     ShownHasNet, ShownIsAnswered, TofuIsUnasked, TofuIsCurrent, AwaitedIsUnasked,
     SingleConnection
<1>5. ShownHasNet' /\ ShownIsAnswered' /\ TofuIsUnasked' /\ TofuIsCurrent' /\ AwaitedIsUnasked'
  BY <1>t DEF IInv, NetOK, ShownHasNet, ShownIsAnswered, TofuIsUnasked, TofuIsCurrent,
     AwaitedIsUnasked, TypeOK, AppState, AnswerIsOwn, AnswerOnce, BatchIsOwn,
     SingleConnection
<1>6. FlapsPay' /\ RejoinIsArmed'
  BY <1>t DEF IInv, NetOK, FlapsPay, RejoinIsArmed, TypeOK, AppState, AnswerIsOwn,
     AnswerOnce, BatchIsOwn, ShownHasNet, ShownIsAnswered, TofuIsUnasked, TofuIsCurrent,
     AwaitedIsUnasked, SingleConnection
<1>7. SingleConnection' /\ EndIsNoted'
  BY <1>t DEF IInv, NetOK, SingleConnection, EndIsNoted, TypeOK, AppState, AnswerIsOwn,
     AnswerOnce, BatchIsOwn, ShownHasNet, ShownIsAnswered, TofuIsUnasked, TofuIsCurrent,
     AwaitedIsUnasked
<1> QED
  BY <1>t, <1>1, <1>2, <1>3, <1>4, <1>5, <1>6, <1>7 DEF IInv

LEMMA ShutdownInitiatedInv ==
  ASSUME IInv, ShutdownInitiated, Worker
  PROVE  IInv'
<1> USE DEF ShutdownInitiated, appVars, netVars, setVars, ghosts, history,
      Asked, Answered, Own, Down, Nothing, Connected
<1>t. TypeOK /\ TypeOK'
  BY OtherTypes DEF IInv
<1>f1. \A t : ~Has(<<>>, t) /\ Once(<<>>, t)
  BY EmptyQueue
<1>1. NetOK' /\ AnswerIsOwn' /\ AnswerOnce' /\ BatchIsOwn'
  BY <1>t, <1>f1 DEF IInv, NetOK, AnswerIsOwn, AnswerOnce, BatchIsOwn, TypeOK, AppState,
     ShownHasNet, ShownIsAnswered, TofuIsUnasked, TofuIsCurrent, AwaitedIsUnasked,
     SingleConnection
<1>2. ShownHasNet' /\ ShownIsAnswered' /\ TofuIsUnasked' /\ TofuIsCurrent' /\ AwaitedIsUnasked'
  BY <1>t, <1>f1 DEF IInv, NetOK, ShownHasNet, ShownIsAnswered, TofuIsUnasked,
     TofuIsCurrent, AwaitedIsUnasked, TypeOK, AppState, AnswerIsOwn, AnswerOnce, BatchIsOwn,
     SingleConnection
<1>3. FlapsPay' /\ RejoinIsArmed'
  BY <1>t, <1>f1 DEF IInv, NetOK, FlapsPay, RejoinIsArmed, TypeOK, AppState, AnswerIsOwn,
     AnswerOnce, BatchIsOwn, ShownHasNet, ShownIsAnswered, TofuIsUnasked, TofuIsCurrent,
     AwaitedIsUnasked, SingleConnection
<1>4. SingleConnection' /\ EndIsNoted'
  BY <1>t, <1>f1 DEF IInv, NetOK, SingleConnection, EndIsNoted, TypeOK, AppState,
     AnswerIsOwn, AnswerOnce, BatchIsOwn, ShownHasNet, ShownIsAnswered, TofuIsUnasked,
     TofuIsCurrent, AwaitedIsUnasked
<1> QED
  BY <1>t, <1>1, <1>2, <1>3, <1>4 DEF IInv

LEMMA ShutdownCompleteInv ==
  ASSUME IInv, ShutdownComplete, Worker
  PROVE  IInv'
<1> USE DEF ShutdownComplete, appVars, netVars, setVars, ghosts, history,
      Asked, Answered, Own, Down, Nothing, Connected
<1>t. TypeOK /\ TypeOK'
  BY OtherTypes DEF IInv
<1>1. NetOK' /\ AnswerIsOwn' /\ AnswerOnce' /\ BatchIsOwn'
  BY <1>t DEF IInv, NetOK, AnswerIsOwn, AnswerOnce, BatchIsOwn, TypeOK, AppState,
     ShownHasNet, ShownIsAnswered, TofuIsUnasked, TofuIsCurrent, AwaitedIsUnasked,
     SingleConnection
<1>2. ShownHasNet' /\ ShownIsAnswered' /\ TofuIsUnasked' /\ TofuIsCurrent' /\ AwaitedIsUnasked'
  BY <1>t DEF IInv, NetOK, ShownHasNet, ShownIsAnswered, TofuIsUnasked, TofuIsCurrent,
     AwaitedIsUnasked, TypeOK, AppState, AnswerIsOwn, AnswerOnce, BatchIsOwn,
     SingleConnection
<1>3. FlapsPay' /\ RejoinIsArmed'
  BY <1>t DEF IInv, NetOK, FlapsPay, RejoinIsArmed, TypeOK, AppState, AnswerIsOwn,
     AnswerOnce, BatchIsOwn, ShownHasNet, ShownIsAnswered, TofuIsUnasked, TofuIsCurrent,
     AwaitedIsUnasked, SingleConnection
<1>4. SingleConnection' /\ EndIsNoted'
  BY <1>t DEF IInv, NetOK, SingleConnection, EndIsNoted, TypeOK, AppState, AnswerIsOwn,
     AnswerOnce, BatchIsOwn, ShownHasNet, ShownIsAnswered, TofuIsUnasked, TofuIsCurrent,
     AwaitedIsUnasked
<1> QED
  BY <1>t, <1>1, <1>2, <1>3, <1>4 DEF IInv

LEMMA ServeLeaveInv ==
  ASSUME IInv, ServeLeave, Server
  PROVE  IInv'
<1> USE DEF ServeLeave, Serves, appVars, netVars, setVars, ghosts, history,
      Asked, Answered, Own, Down, Nothing, Connected
<1>t. TypeOK /\ TypeOK'
  BY OtherTypes DEF IInv
<1>f1. Connected /\ Has(wire, "leave") /\ wire # <<>> /\ \A u : Has(wire', u) => Has(wire, u)
  BY <1>t, ServesQueue DEF ServeLeave
<1>1. NetOK' /\ AnswerIsOwn' /\ AnswerOnce' /\ BatchIsOwn'
  BY <1>t, <1>f1 DEF IInv, NetOK, AnswerIsOwn, AnswerOnce, BatchIsOwn, TypeOK, AppState,
     ShownHasNet, ShownIsAnswered, TofuIsUnasked, TofuIsCurrent, AwaitedIsUnasked,
     SingleConnection
<1>2. ShownHasNet' /\ ShownIsAnswered' /\ TofuIsUnasked' /\ TofuIsCurrent' /\ AwaitedIsUnasked'
  BY <1>t, <1>f1 DEF IInv, NetOK, ShownHasNet, ShownIsAnswered, TofuIsUnasked,
     TofuIsCurrent, AwaitedIsUnasked, TypeOK, AppState, AnswerIsOwn, AnswerOnce, BatchIsOwn,
     SingleConnection
<1>3. FlapsPay' /\ RejoinIsArmed'
  BY <1>t, <1>f1 DEF IInv, NetOK, FlapsPay, RejoinIsArmed, TypeOK, AppState, AnswerIsOwn,
     AnswerOnce, BatchIsOwn, ShownHasNet, ShownIsAnswered, TofuIsUnasked, TofuIsCurrent,
     AwaitedIsUnasked, SingleConnection
<1>4. SingleConnection' /\ EndIsNoted'
  BY <1>t, <1>f1 DEF IInv, NetOK, SingleConnection, EndIsNoted, TypeOK, AppState,
     AnswerIsOwn, AnswerOnce, BatchIsOwn, ShownHasNet, ShownIsAnswered, TofuIsUnasked,
     TofuIsCurrent, AwaitedIsUnasked
<1> QED
  BY <1>t, <1>1, <1>2, <1>3, <1>4 DEF IInv

LEMMA BackoffElapsesInv ==
  ASSUME IInv, BackoffElapses, Time
  PROVE  IInv'
<1> USE DEF BackoffElapses, appVars, netVars, setVars, ghosts, history,
      Asked, Answered, Own, Down, Nothing, Connected
<1>t. TypeOK /\ TypeOK'
  BY OtherTypes DEF IInv
<1>1. NetOK' /\ AnswerIsOwn' /\ AnswerOnce' /\ BatchIsOwn'
  BY <1>t DEF IInv, NetOK, AnswerIsOwn, AnswerOnce, BatchIsOwn, TypeOK, AppState,
     ShownHasNet, ShownIsAnswered, TofuIsUnasked, TofuIsCurrent, AwaitedIsUnasked,
     SingleConnection
<1>2. ShownHasNet' /\ ShownIsAnswered' /\ TofuIsUnasked' /\ TofuIsCurrent' /\ AwaitedIsUnasked'
  BY <1>t DEF IInv, NetOK, ShownHasNet, ShownIsAnswered, TofuIsUnasked, TofuIsCurrent,
     AwaitedIsUnasked, TypeOK, AppState, AnswerIsOwn, AnswerOnce, BatchIsOwn,
     SingleConnection
<1>3. FlapsPay' /\ RejoinIsArmed'
  BY <1>t DEF IInv, NetOK, FlapsPay, RejoinIsArmed, TypeOK, AppState, AnswerIsOwn,
     AnswerOnce, BatchIsOwn, ShownHasNet, ShownIsAnswered, TofuIsUnasked, TofuIsCurrent,
     AwaitedIsUnasked, SingleConnection
<1>4. SingleConnection' /\ EndIsNoted'
  BY <1>t DEF IInv, NetOK, SingleConnection, EndIsNoted, TypeOK, AppState, AnswerIsOwn,
     AnswerOnce, BatchIsOwn, ShownHasNet, ShownIsAnswered, TofuIsUnasked, TofuIsCurrent,
     AwaitedIsUnasked
<1> QED
  BY <1>t, <1>1, <1>2, <1>3, <1>4 DEF IInv

LEMMA SessionAgesInv ==
  ASSUME IInv, SessionAges, Time
  PROVE  IInv'
<1> USE DEF SessionAges, appVars, netVars, setVars, ghosts, history,
      Asked, Answered, Own, Down, Nothing, Connected
<1>t. TypeOK /\ TypeOK'
  BY OtherTypes DEF IInv
<1>1. NetOK' /\ AnswerIsOwn' /\ AnswerOnce' /\ BatchIsOwn'
  BY <1>t DEF IInv, NetOK, AnswerIsOwn, AnswerOnce, BatchIsOwn, TypeOK, AppState,
     ShownHasNet, ShownIsAnswered, TofuIsUnasked, TofuIsCurrent, AwaitedIsUnasked,
     SingleConnection
<1>2. ShownHasNet' /\ ShownIsAnswered' /\ TofuIsUnasked' /\ TofuIsCurrent' /\ AwaitedIsUnasked'
  BY <1>t DEF IInv, NetOK, ShownHasNet, ShownIsAnswered, TofuIsUnasked, TofuIsCurrent,
     AwaitedIsUnasked, TypeOK, AppState, AnswerIsOwn, AnswerOnce, BatchIsOwn,
     SingleConnection
<1>3. FlapsPay' /\ RejoinIsArmed'
  BY <1>t DEF IInv, NetOK, FlapsPay, RejoinIsArmed, TypeOK, AppState, AnswerIsOwn,
     AnswerOnce, BatchIsOwn, ShownHasNet, ShownIsAnswered, TofuIsUnasked, TofuIsCurrent,
     AwaitedIsUnasked, SingleConnection
<1>4. SingleConnection' /\ EndIsNoted'
  BY <1>t DEF IInv, NetOK, SingleConnection, EndIsNoted, TypeOK, AppState, AnswerIsOwn,
     AnswerOnce, BatchIsOwn, ShownHasNet, ShownIsAnswered, TofuIsUnasked, TofuIsCurrent,
     AwaitedIsUnasked
<1> QED
  BY <1>t, <1>1, <1>2, <1>3, <1>4 DEF IInv


(* The part of the invariant that follows the types.                       *)
Discipline ==
  /\ NetOK /\ AnswerIsOwn /\ AnswerOnce /\ BatchIsOwn
  /\ ShownHasNet /\ ShownIsAnswered /\ TofuIsUnasked /\ TofuIsCurrent
  /\ AwaitedIsUnasked /\ FlapsPay /\ RejoinIsArmed
  /\ SingleConnection /\ EndIsNoted

LEMMA DoConnectInv ==
  ASSUME IInv, TypeOK', Click, UNCHANGED batch, ~app.authenticated \/ app.show_login,
         NEW a0 \in AppState, DoConnect(a0),
         a0.authenticated = app.authenticated, a0.tofu_pending = app.tofu_pending,
         a0.awaiting_connection = app.awaiting_connection, a0.show_login = app.show_login,
         a0.young = app.young, a0.flaps = app.flaps
  PROVE  Discipline'
<1> DEFINE a == CancelReconnect(a0)
<1> USE DEF appVars, netVars, setVars, ghosts, history,
      Asked, Answered, Own, Down, Nothing, Connected
<1>e. (\A t : ~Has(<<>>, t) /\ Once(<<>>, t)) /\ Preceded(<<>>)
  BY EmptyQueue
<1>t. TypeOK
  BY DEF IInv
<1>a. /\ a.authenticated = app.authenticated /\ a.tofu_pending = app.tofu_pending
      /\ a.awaiting_connection = app.awaiting_connection /\ a.show_login = app.show_login
      /\ a.young = app.young /\ a.flaps = app.flaps /\ ~a.reconnecting
      /\ a \in AppState
  BY HelperTypes DEF CancelReconnect, AppState
<1>n. a.flaps \in Nat
  BY <1>a, FlapLimitPositive DEF AppState
<1>c. /\ inbox' = inbox /\ batch' = batch /\ ended' = FALSE /\ lost' = NoChannel /\ reauths' = 0
      /\ phase = "ui" /\ phase' = "clicked"
  BY DEF DoConnect, Click
<1> HIDE DEF a
<1>1. ASSUME Connected, UNCHANGED <<disconnect_pending, net, session, overlap>>, wire' = wire,
             app' = [a EXCEPT !.tofu_pending = TRUE, !.show_login = FALSE]
      PROVE  Discipline'
  <2>1. /\ app'.authenticated = a.authenticated /\ app'.tofu_pending /\ ~app'.show_login
        /\ app'.awaiting_connection = a.awaiting_connection /\ app'.young = a.young
        /\ app'.flaps = a.flaps /\ ~app'.reconnecting
    BY <1>1, <1>a DEF AppState

  <2>g1. NetOK' /\ AnswerIsOwn' /\ AnswerOnce' /\ BatchIsOwn'
    BY <1>1, <1>a, <1>n, <1>c, <1>e, <1>t, <2>1 DEF IInv, NetOK, AnswerIsOwn, AnswerOnce,
       BatchIsOwn, ShownHasNet, ShownIsAnswered, TofuIsUnasked, TofuIsCurrent,
       AwaitedIsUnasked, SingleConnection
  <2>g2. ShownHasNet' /\ ShownIsAnswered' /\ TofuIsUnasked' /\ TofuIsCurrent' /\ AwaitedIsUnasked'
    BY <1>1, <1>a, <1>n, <1>c, <1>e, <1>t, <2>1 DEF IInv, NetOK, ShownHasNet,
       ShownIsAnswered, TofuIsUnasked, TofuIsCurrent, AwaitedIsUnasked, AnswerIsOwn,
       AnswerOnce, BatchIsOwn, SingleConnection
  <2>g3. FlapsPay' /\ RejoinIsArmed'
    BY <1>1, <1>a, <1>n, <1>c, <1>e, <1>t, <2>1 DEF IInv, NetOK, FlapsPay, RejoinIsArmed,
       AnswerIsOwn, AnswerOnce, BatchIsOwn, ShownHasNet, ShownIsAnswered, TofuIsUnasked,
       TofuIsCurrent, AwaitedIsUnasked, SingleConnection
  <2>g4. SingleConnection' /\ EndIsNoted'
    BY <1>1, <1>a, <1>n, <1>c, <1>e, <1>t, <2>1 DEF IInv, NetOK, SingleConnection,
       EndIsNoted, AnswerIsOwn, AnswerOnce, BatchIsOwn, ShownHasNet, ShownIsAnswered,
       TofuIsUnasked, TofuIsCurrent, AwaitedIsUnasked
  <2> QED
    BY <2>g1, <2>g2, <2>g3, <2>g4 DEF Discipline
<1>2. ASSUME Connected \/ wire' = wire, UNCHANGED <<disconnect_pending, net, session, overlap>>,
             app' = a
      PROVE  Discipline'
  <2>g1. NetOK' /\ AnswerIsOwn' /\ AnswerOnce' /\ BatchIsOwn'
    BY <1>2, <1>a, <1>n, <1>c, <1>e, <1>t DEF IInv, NetOK, AnswerIsOwn, AnswerOnce,
       BatchIsOwn, ShownHasNet, ShownIsAnswered, TofuIsUnasked, TofuIsCurrent,
       AwaitedIsUnasked, SingleConnection
  <2>g2. ShownHasNet' /\ ShownIsAnswered' /\ TofuIsUnasked' /\ TofuIsCurrent' /\ AwaitedIsUnasked'
    BY <1>2, <1>a, <1>n, <1>c, <1>e, <1>t DEF IInv, NetOK, ShownHasNet, ShownIsAnswered,
       TofuIsUnasked, TofuIsCurrent, AwaitedIsUnasked, AnswerIsOwn, AnswerOnce, BatchIsOwn,
       SingleConnection
  <2>g3. FlapsPay' /\ RejoinIsArmed'
    BY <1>2, <1>a, <1>n, <1>c, <1>e, <1>t DEF IInv, NetOK, FlapsPay, RejoinIsArmed,
       AnswerIsOwn, AnswerOnce, BatchIsOwn, ShownHasNet, ShownIsAnswered, TofuIsUnasked,
       TofuIsCurrent, AwaitedIsUnasked, SingleConnection
  <2>g4. SingleConnection' /\ EndIsNoted'
    BY <1>2, <1>a, <1>n, <1>c, <1>e, <1>t DEF IInv, NetOK, SingleConnection, EndIsNoted,
       AnswerIsOwn, AnswerOnce, BatchIsOwn, ShownHasNet, ShownIsAnswered, TofuIsUnasked,
       TofuIsCurrent, AwaitedIsUnasked
  <2> QED
    BY <2>g1, <2>g2, <2>g3, <2>g4 DEF Discipline
<1>3. ASSUME ~Connected, NEW started \in BOOLEAN, NetConnect(a.target, started),
             app' = IF started THEN [a EXCEPT !.awaiting_connection = TRUE]
                    ELSE [a EXCEPT !.show_login = TRUE]
      PROVE  Discipline'
  <2>1. /\ app'.authenticated = a.authenticated /\ app'.tofu_pending = a.tofu_pending
        /\ app'.young = a.young /\ app'.flaps = a.flaps /\ ~app'.reconnecting
    BY <1>3, <1>a DEF AppState
  <2>2. /\ net'.st \in {"dialing", "none"} /\ ~net'.failed /\ wire' = <<>> /\ session' = FALSE
        /\ overlap' = (overlap \/ net.st \in Live \/ disconnect_pending)
        /\ disconnect_pending' = (disconnect_pending \/ net.st \in Live)
    BY <1>3 DEF NetConnect
  <2>3. net.st \in NetStates
    BY DEF IInv, TypeOK
  <2> USE DEF Live, NetStates
  <2>g1. NetOK' /\ AnswerIsOwn' /\ AnswerOnce' /\ BatchIsOwn'
    BY <1>3, <1>a, <1>n, <1>c, <1>e, <1>t, <2>1, <2>2, <2>3 DEF IInv, NetOK, AnswerIsOwn,
       AnswerOnce, BatchIsOwn, ShownHasNet, ShownIsAnswered, TofuIsUnasked, TofuIsCurrent,
       AwaitedIsUnasked, SingleConnection
  <2>g2. ShownHasNet' /\ ShownIsAnswered' /\ TofuIsUnasked' /\ TofuIsCurrent' /\ AwaitedIsUnasked'
    BY <1>3, <1>a, <1>n, <1>c, <1>e, <1>t, <2>1, <2>2, <2>3 DEF IInv, NetOK, ShownHasNet,
       ShownIsAnswered, TofuIsUnasked, TofuIsCurrent, AwaitedIsUnasked, AnswerIsOwn,
       AnswerOnce, BatchIsOwn, SingleConnection
  <2>g3. FlapsPay' /\ RejoinIsArmed'
    BY <1>3, <1>a, <1>n, <1>c, <1>e, <1>t, <2>1, <2>2, <2>3 DEF IInv, NetOK, FlapsPay,
       RejoinIsArmed, AnswerIsOwn, AnswerOnce, BatchIsOwn, ShownHasNet, ShownIsAnswered,
       TofuIsUnasked, TofuIsCurrent, AwaitedIsUnasked, SingleConnection
  <2>g4. SingleConnection' /\ EndIsNoted'
    BY <1>3, <1>a, <1>n, <1>c, <1>e, <1>t, <2>1, <2>2, <2>3 DEF IInv, NetOK,
       SingleConnection, EndIsNoted, AnswerIsOwn, AnswerOnce, BatchIsOwn, ShownHasNet,
       ShownIsAnswered, TofuIsUnasked, TofuIsCurrent, AwaitedIsUnasked
  <2> QED
    BY <2>g1, <2>g2, <2>g3, <2>g4 DEF Discipline
<1>4. \/ /\ Connected /\ UNCHANGED <<disconnect_pending, net, session, overlap>>
         /\ wire' = wire /\ app' = [a EXCEPT !.tofu_pending = TRUE, !.show_login = FALSE]
      \/ /\ Connected \/ wire' = wire
         /\ UNCHANGED <<disconnect_pending, net, session, overlap>> /\ app' = a
      \/ /\ ~Connected
         /\ \E started \in BOOLEAN :
              /\ NetConnect(a.target, started)
              /\ app' = IF started THEN [a EXCEPT !.awaiting_connection = TRUE]
                        ELSE [a EXCEPT !.show_login = TRUE]
  BY DEF DoConnect, FinishConnect, a
<1> QED
  BY <1>1, <1>2, <1>3, <1>4

LEMMA ConnectClicksInv ==
  ASSUME IInv, User, SubmitLogin \/ \E s \in Servers : SelectServer(s)
  PROVE  IInv'
<1>t. TypeOK /\ TypeOK'
  BY ClickTypes DEF IInv
<1>1. ASSUME SubmitLogin PROVE Discipline'
  BY <1>1, <1>t, DoConnectInv DEF SubmitLogin, TypeOK
<1>2. ASSUME NEW s \in Servers, SelectServer(s) PROVE Discipline'
  <2> DEFINE a0 == [app EXCEPT !.target = s]
  <2>1. /\ a0 \in AppState
        /\ a0.authenticated = app.authenticated /\ a0.tofu_pending = app.tofu_pending
        /\ a0.awaiting_connection = app.awaiting_connection /\ a0.show_login = app.show_login
        /\ a0.young = app.young /\ a0.flaps = app.flaps
    BY <1>t DEF TypeOK, AppState
  <2>2. CASE DoConnect(a0)
    <3> HIDE DEF a0
    <3>1. Click /\ batch' = batch /\ ~app.authenticated
      BY <1>2 DEF SelectServer
    <3> QED
      BY <1>t, <2>1, <2>2, <3>1, DoConnectInv
  <2>3. CASE /\ app' = [app EXCEPT !.target = s, !.show_login = TRUE]
             /\ UNCHANGED <<netVars, trusted, ghosts>>
    <3>1. /\ Click /\ batch' = batch /\ ~app.authenticated /\ phase' = "clicked" /\ phase = "ui"
      BY <1>2 DEF SelectServer, Click
    <3>2. /\ app'.authenticated = app.authenticated /\ app'.tofu_pending = app.tofu_pending
          /\ app'.awaiting_connection = app.awaiting_connection
          /\ app'.intentional = app.intentional /\ app'.reconnecting = app.reconnecting
          /\ app'.rejoin_pending = app.rejoin_pending
          /\ app'.reconnect_channel = app.reconnect_channel
          /\ app'.young = app.young /\ app'.flaps = app.flaps
      BY <1>t, <2>3 DEF TypeOK, AppState
    <3> USE DEF appVars, netVars, setVars, ghosts, history,
      Asked, Answered, Own, Down, Nothing, Connected
    <3>g1. NetOK' /\ AnswerIsOwn' /\ AnswerOnce' /\ BatchIsOwn'
      BY <2>3, <3>1, <3>2 DEF IInv, NetOK, AnswerIsOwn, AnswerOnce, BatchIsOwn, ShownHasNet,
         ShownIsAnswered, TofuIsUnasked, TofuIsCurrent, AwaitedIsUnasked, SingleConnection
    <3>g2. ShownHasNet' /\ ShownIsAnswered' /\ TofuIsUnasked' /\ TofuIsCurrent' /\ AwaitedIsUnasked'
      BY <2>3, <3>1, <3>2 DEF IInv, NetOK, ShownHasNet, ShownIsAnswered, TofuIsUnasked,
         TofuIsCurrent, AwaitedIsUnasked, AnswerIsOwn, AnswerOnce, BatchIsOwn,
         SingleConnection
    <3>g3. FlapsPay' /\ RejoinIsArmed'
      BY <2>3, <3>1, <3>2 DEF IInv, NetOK, FlapsPay, RejoinIsArmed, AnswerIsOwn, AnswerOnce,
         BatchIsOwn, ShownHasNet, ShownIsAnswered, TofuIsUnasked, TofuIsCurrent,
         AwaitedIsUnasked, SingleConnection
    <3>g4. SingleConnection' /\ EndIsNoted'
      BY <2>3, <3>1, <3>2 DEF IInv, NetOK, SingleConnection, EndIsNoted, AnswerIsOwn,
         AnswerOnce, BatchIsOwn, ShownHasNet, ShownIsAnswered, TofuIsUnasked, TofuIsCurrent,
         AwaitedIsUnasked
    <3> QED
      BY <3>g1, <3>g2, <3>g3, <3>g4 DEF Discipline
  <2> QED
    BY <1>2, <2>2, <2>3 DEF SelectServer
<1> QED
  BY <1>1, <1>2, <1>t DEF IInv, Discipline

LEMMA TickCleanupInv ==
  ASSUME IInv, TickCleanup, Tick
  PROVE  IInv'
<1> USE DEF appVars, netVars, setVars, ghosts, history,
      Asked, Answered, Own, Down, Nothing, Connected
<1>e. (\A t : ~Has(<<>>, t) /\ Once(<<>>, t)) /\ Preceded(<<>>)
  BY EmptyQueue
<1>t. TypeOK /\ TypeOK'
  BY TickTypes DEF IInv
<1>n. app.flaps \in Nat /\ reauths \in Nat /\ net.st \in NetStates /\ app \in AppState
  BY <1>t, FlapLimitPositive DEF TypeOK, AppState
<1> DEFINE c == [app EXCEPT !.authenticated = FALSE, !.current_channel = NoChannel,
                            !.awaiting_connection = FALSE, !.pending_channel = NoChannel,
                            !.tofu_pending = FALSE, !.show_login = FALSE]
<1>1. /\ phase = "drain" /\ phase' = "poll" /\ batch = <<>> /\ app' = AfterLoss(app, c)
      /\ lost' = IF app.authenticated THEN app.current_channel ELSE lost
      /\ UNCHANGED <<batch, netVars, setVars, ended, reauths, overlap, clicks>>
  BY DEF TickCleanup, OnDisconnectCleanup
<1>2. /\ ~c.authenticated /\ ~c.awaiting_connection /\ ~c.tofu_pending /\ ~c.show_login
      /\ c.intentional = app.intentional /\ c.reconnecting = app.reconnecting
      /\ c.rejoin_pending = app.rejoin_pending
      /\ c.reconnect_channel = app.reconnect_channel
      /\ c.flaps = app.flaps /\ c.young = app.young /\ c \in AppState
  BY <1>n DEF AppState
<1> HIDE DEF c
<1>3. /\ ~app'.authenticated /\ ~app'.awaiting_connection /\ ~app'.tofu_pending
      /\ ~app'.show_login
      /\ \/ app.intentional /\ ~app'.reconnecting /\ app'.flaps = app.flaps
         \/ ~app.intentional /\ app.authenticated /\ ~app'.reconnecting
         \/ /\ ~app.intentional /\ app.authenticated /\ app'.reconnecting /\ ~app'.rejoin_pending
            /\ app'.reconnect_channel = app.current_channel
            /\ app'.flaps = IF app.young THEN app.flaps + 1 ELSE 0
         \/ /\ ~app.intentional /\ ~app.authenticated /\ app'.reconnecting = app.reconnecting
            /\ app'.rejoin_pending = app.rejoin_pending
            /\ app'.reconnect_channel = app.reconnect_channel /\ app'.flaps = app.flaps
  <2>1. CASE app.intentional
    <3>1. app' = [CancelReconnect(c) EXCEPT !.intentional = FALSE]
      BY <1>1, <2>1 DEF AfterLoss
    <3> QED
      BY <1>2, <2>1, <3>1 DEF CancelReconnect, AppState
  <2>2. CASE ~app.intentional /\ app.authenticated /\ app.young /\ app.flaps + 1 >= FlapLimit
    <3>1. app' = [CancelReconnect(c) EXCEPT !.flaps = 0]
      BY <1>1, <2>2 DEF AfterLoss
    <3> QED
      BY <1>2, <2>2, <3>1 DEF CancelReconnect, AppState
  <2>3. CASE ~app.intentional /\ app.authenticated /\ ~(app.young /\ app.flaps + 1 >= FlapLimit)
    <3> DEFINE n == IF app.young THEN app.flaps + 1 ELSE 0
    <3>1. app' = ArmRetry([c EXCEPT !.flaps = n, !.reconnecting = TRUE,
                                    !.rejoin_pending = FALSE,
                                    !.reconnect_channel = app.current_channel])
      BY <1>1, <2>3 DEF AfterLoss
    <3> HIDE DEF n
    <3>2. /\ ~app'.authenticated /\ ~app'.awaiting_connection /\ ~app'.tofu_pending
          /\ ~app'.show_login /\ app'.reconnecting /\ ~app'.rejoin_pending
          /\ app'.reconnect_channel = app.current_channel /\ app'.flaps = n
      BY <1>2, <3>1 DEF ArmRetry, AppState
    <3> QED
      BY <2>3, <3>2 DEF n
  <2>4. CASE ~app.intentional /\ ~app.authenticated /\ app.reconnecting
    <3>1. app' = ArmRetry(c)
      BY <1>1, <2>4 DEF AfterLoss
    <3> QED
      BY <1>2, <2>4, <3>1 DEF ArmRetry, AppState
  <2>5. CASE ~app.intentional /\ ~app.authenticated /\ ~app.reconnecting
    <3>1. app' = c
      BY <1>1, <2>5 DEF AfterLoss
    <3> QED
      BY <1>2, <2>5, <3>1
  <2> QED
    BY <2>1, <2>2, <2>3, <2>4, <2>5
<1>4. Discipline'
  <2>g1. NetOK' /\ AnswerIsOwn' /\ AnswerOnce' /\ BatchIsOwn'
    BY <1>1, <1>3, <1>e, <1>n DEF IInv, NetOK, AnswerIsOwn, AnswerOnce, BatchIsOwn,
       ShownHasNet, ShownIsAnswered, TofuIsUnasked, TofuIsCurrent, AwaitedIsUnasked,
       SingleConnection
  <2>g2. ShownHasNet' /\ ShownIsAnswered' /\ TofuIsUnasked' /\ TofuIsCurrent' /\ AwaitedIsUnasked'
    BY <1>1, <1>3, <1>e, <1>n DEF IInv, NetOK, ShownHasNet, ShownIsAnswered, TofuIsUnasked,
       TofuIsCurrent, AwaitedIsUnasked, AnswerIsOwn, AnswerOnce, BatchIsOwn,
       SingleConnection
  <2>g3. FlapsPay' /\ RejoinIsArmed'
    BY <1>1, <1>3, <1>e, <1>n DEF IInv, NetOK, FlapsPay, RejoinIsArmed, AnswerIsOwn,
       AnswerOnce, BatchIsOwn, ShownHasNet, ShownIsAnswered, TofuIsUnasked, TofuIsCurrent,
       AwaitedIsUnasked, SingleConnection
  <2>g4. SingleConnection' /\ EndIsNoted'
    BY <1>1, <1>3, <1>e, <1>n DEF IInv, NetOK, SingleConnection, EndIsNoted, AnswerIsOwn,
       AnswerOnce, BatchIsOwn, ShownHasNet, ShownIsAnswered, TofuIsUnasked, TofuIsCurrent,
       AwaitedIsUnasked
  <2> QED
    BY <1>t, <2>g1, <2>g2, <2>g3, <2>g4 DEF IInv, Discipline
<1> QED
  BY <1>t, <1>4 DEF IInv, Discipline

LEMMA TickPollInv ==
  ASSUME IInv, TickPoll, Tick
  PROVE  IInv'
<1> USE DEF appVars, netVars, setVars, ghosts, history,
      Asked, Answered, Own, Down, Nothing, Connected
<1>e. (\A t : ~Has(<<>>, t) /\ Once(<<>>, t)) /\ Preceded(<<>>)
  BY EmptyQueue
<1>t. TypeOK /\ TypeOK'
  BY TickTypes DEF IInv
<1>n. app.flaps \in Nat /\ reauths \in Nat /\ net.st \in NetStates /\ app \in AppState
  BY <1>t, FlapLimitPositive DEF TypeOK, AppState
<1> DEFINE a == [app EXCEPT !.awaiting_connection = FALSE]
<1>a. /\ ~a.awaiting_connection /\ a.authenticated = app.authenticated
      /\ a.show_login = app.show_login /\ a.tofu_pending = app.tofu_pending
      /\ a.intentional = app.intentional /\ a.reconnecting = app.reconnecting
      /\ a.rejoin_pending = app.rejoin_pending
      /\ a.reconnect_channel = app.reconnect_channel
      /\ a.flaps = app.flaps /\ a.young = app.young /\ a \in AppState
  BY <1>n DEF AppState
<1>c. /\ phase = "poll" /\ phase' = "retry"
      /\ UNCHANGED <<batch, inbox, saved, history>>
  BY DEF TickPoll
<1>1. CASE UNCHANGED <<app, netVars, trusted>>
  <2>g1. NetOK' /\ AnswerIsOwn' /\ AnswerOnce' /\ BatchIsOwn'
    BY <1>1, <1>c, <1>e, <1>n DEF IInv, NetOK, AnswerIsOwn, AnswerOnce, BatchIsOwn,
       ShownHasNet, ShownIsAnswered, TofuIsUnasked, TofuIsCurrent, AwaitedIsUnasked,
       SingleConnection
  <2>g2. ShownHasNet' /\ ShownIsAnswered' /\ TofuIsUnasked' /\ TofuIsCurrent' /\ AwaitedIsUnasked'
    BY <1>1, <1>c, <1>e, <1>n DEF IInv, NetOK, ShownHasNet, ShownIsAnswered, TofuIsUnasked,
       TofuIsCurrent, AwaitedIsUnasked, AnswerIsOwn, AnswerOnce, BatchIsOwn,
       SingleConnection
  <2>g3. FlapsPay' /\ RejoinIsArmed'
    BY <1>1, <1>c, <1>e, <1>n DEF IInv, NetOK, FlapsPay, RejoinIsArmed, AnswerIsOwn,
       AnswerOnce, BatchIsOwn, ShownHasNet, ShownIsAnswered, TofuIsUnasked, TofuIsCurrent,
       AwaitedIsUnasked, SingleConnection
  <2>g4. SingleConnection' /\ EndIsNoted'
    BY <1>1, <1>c, <1>e, <1>n DEF IInv, NetOK, SingleConnection, EndIsNoted, AnswerIsOwn,
       AnswerOnce, BatchIsOwn, ShownHasNet, ShownIsAnswered, TofuIsUnasked, TofuIsCurrent,
       AwaitedIsUnasked
  <2> QED
    BY <1>t, <2>g1, <2>g2, <2>g3, <2>g4 DEF IInv, Discipline
<1>2. ASSUME app.awaiting_connection, net.failed, NetDisconnect,
             app' = IF a.reconnecting THEN ArmRetry(a) ELSE [a EXCEPT !.show_login = TRUE]
      PROVE  Discipline'
  <2>1. /\ ~app'.awaiting_connection /\ app'.authenticated = app.authenticated
        /\ app'.tofu_pending = app.tofu_pending
        /\ app'.intentional = app.intentional /\ app'.reconnecting = app.reconnecting
        /\ app'.rejoin_pending = app.rejoin_pending
        /\ app'.reconnect_channel = app.reconnect_channel
        /\ app'.flaps = app.flaps /\ app'.young = app.young
    BY <1>2, <1>a DEF ArmRetry, AppState
  <2>2. /\ disconnect_pending' = (disconnect_pending \/ net.st \in Live)
        /\ net'.st = "none" /\ wire' = <<>> /\ session' = FALSE
        /\ net.st # "none" => ~net'.failed
    BY <1>2 DEF NetDisconnect
  <2> USE DEF Live, NetStates
  <2>g1. NetOK' /\ AnswerIsOwn' /\ AnswerOnce' /\ BatchIsOwn'
    BY <1>2, <1>c, <1>e, <1>n, <2>1, <2>2 DEF IInv, NetOK, AnswerIsOwn, AnswerOnce,
       BatchIsOwn, ShownHasNet, ShownIsAnswered, TofuIsUnasked, TofuIsCurrent,
       AwaitedIsUnasked, SingleConnection
  <2>g2. ShownHasNet' /\ ShownIsAnswered' /\ TofuIsUnasked' /\ TofuIsCurrent' /\ AwaitedIsUnasked'
    BY <1>2, <1>c, <1>e, <1>n, <2>1, <2>2 DEF IInv, NetOK, ShownHasNet, ShownIsAnswered,
       TofuIsUnasked, TofuIsCurrent, AwaitedIsUnasked, AnswerIsOwn, AnswerOnce, BatchIsOwn,
       SingleConnection
  <2>g3. FlapsPay' /\ RejoinIsArmed'
    BY <1>2, <1>c, <1>e, <1>n, <2>1, <2>2 DEF IInv, NetOK, FlapsPay, RejoinIsArmed,
       AnswerIsOwn, AnswerOnce, BatchIsOwn, ShownHasNet, ShownIsAnswered, TofuIsUnasked,
       TofuIsCurrent, AwaitedIsUnasked, SingleConnection
  <2>g4. SingleConnection' /\ EndIsNoted'
    BY <1>2, <1>c, <1>e, <1>n, <2>1, <2>2 DEF IInv, NetOK, SingleConnection, EndIsNoted,
       AnswerIsOwn, AnswerOnce, BatchIsOwn, ShownHasNet, ShownIsAnswered, TofuIsUnasked,
       TofuIsCurrent, AwaitedIsUnasked
  <2> QED
    BY <1>t, <2>g1, <2>g2, <2>g3, <2>g4 DEF IInv, Discipline
<1>3. ASSUME app.awaiting_connection, ~net.failed, Connected, FinishConnect(a),
             UNCHANGED <<disconnect_pending, net, session>>
      PROVE  Discipline'
  <2>1. \/ app' = [a EXCEPT !.tofu_pending = TRUE, !.show_login = FALSE] /\ wire' = wire
        \/ app' = a
    BY <1>3 DEF FinishConnect
  <2>2. /\ ~app'.awaiting_connection /\ app'.authenticated = app.authenticated
        /\ app'.intentional = app.intentional /\ app'.reconnecting = app.reconnecting
        /\ app'.rejoin_pending = app.rejoin_pending
        /\ app'.reconnect_channel = app.reconnect_channel
        /\ app'.flaps = app.flaps /\ app'.young = app.young
        /\ wire' = wire \/ app'.tofu_pending = app.tofu_pending
    BY <1>a, <2>1 DEF AppState
  <2>g1. NetOK' /\ AnswerIsOwn' /\ AnswerOnce' /\ BatchIsOwn'
    BY <1>3, <1>c, <1>e, <1>n, <2>2 DEF IInv, NetOK, AnswerIsOwn, AnswerOnce, BatchIsOwn,
       ShownHasNet, ShownIsAnswered, TofuIsUnasked, TofuIsCurrent, AwaitedIsUnasked,
       SingleConnection
  <2>g2. ShownHasNet' /\ ShownIsAnswered' /\ TofuIsUnasked' /\ TofuIsCurrent' /\ AwaitedIsUnasked'
    BY <1>3, <1>c, <1>e, <1>n, <2>2 DEF IInv, NetOK, ShownHasNet, ShownIsAnswered,
       TofuIsUnasked, TofuIsCurrent, AwaitedIsUnasked, AnswerIsOwn, AnswerOnce, BatchIsOwn,
       SingleConnection
  <2>g3. FlapsPay' /\ RejoinIsArmed'
    BY <1>3, <1>c, <1>e, <1>n, <2>2 DEF IInv, NetOK, FlapsPay, RejoinIsArmed, AnswerIsOwn,
       AnswerOnce, BatchIsOwn, ShownHasNet, ShownIsAnswered, TofuIsUnasked, TofuIsCurrent,
       AwaitedIsUnasked, SingleConnection
  <2>g4. SingleConnection' /\ EndIsNoted'
    BY <1>3, <1>c, <1>e, <1>n, <2>2 DEF IInv, NetOK, SingleConnection, EndIsNoted,
       AnswerIsOwn, AnswerOnce, BatchIsOwn, ShownHasNet, ShownIsAnswered, TofuIsUnasked,
       TofuIsCurrent, AwaitedIsUnasked
  <2> QED
    BY <1>t, <2>g1, <2>g2, <2>g3, <2>g4 DEF IInv, Discipline
<1>4. \/ UNCHANGED <<app, netVars, trusted>>
      \/ /\ app.awaiting_connection /\ net.failed /\ NetDisconnect
         /\ app' = IF a.reconnecting THEN ArmRetry(a) ELSE [a EXCEPT !.show_login = TRUE]
      \/ /\ app.awaiting_connection /\ ~net.failed /\ Connected /\ FinishConnect(a)
         /\ UNCHANGED <<disconnect_pending, net, session>>
  BY DEF TickPoll
<1> QED
  BY <1>1, <1>2, <1>3, <1>4, <1>t DEF IInv, Discipline

LEMMA TickRetryInv ==
  ASSUME IInv, TickRetry, Tick
  PROVE  IInv'
<1> USE DEF appVars, netVars, setVars, ghosts, history,
      Asked, Answered, Own, Down, Nothing, Connected
<1>e. (\A t : ~Has(<<>>, t) /\ Once(<<>>, t)) /\ Preceded(<<>>)
  BY EmptyQueue
<1>t. TypeOK /\ TypeOK'
  BY TickTypes DEF IInv
<1>n. app.flaps \in Nat /\ reauths \in Nat /\ net.st \in NetStates /\ app \in AppState
  BY <1>t, FlapLimitPositive DEF TypeOK, AppState
<1>c. /\ phase = "retry" /\ phase' = "messages" /\ batch' = inbox /\ inbox' = <<>>
      /\ UNCHANGED <<setVars, ended, lost, reauths, clicks>>
  BY DEF TickRetry, Drain
<1>1. CASE /\ app' \in {app, ArmRetry(app)}
           /\ UNCHANGED <<disconnect_pending, net, wire, session, overlap>>
  <2>1. /\ app'.awaiting_connection = app.awaiting_connection
        /\ app'.authenticated = app.authenticated
        /\ app'.show_login = app.show_login /\ app'.tofu_pending = app.tofu_pending
        /\ app'.intentional = app.intentional /\ app'.reconnecting = app.reconnecting
        /\ app'.rejoin_pending = app.rejoin_pending
        /\ app'.reconnect_channel = app.reconnect_channel
        /\ app'.flaps = app.flaps /\ app'.young = app.young
    BY <1>1, <1>n DEF ArmRetry, AppState
  <2>g1. NetOK' /\ AnswerIsOwn' /\ AnswerOnce' /\ BatchIsOwn'
    BY <1>1, <1>c, <1>e, <1>n, <2>1 DEF IInv, NetOK, AnswerIsOwn, AnswerOnce, BatchIsOwn,
       ShownHasNet, ShownIsAnswered, TofuIsUnasked, TofuIsCurrent, AwaitedIsUnasked,
       SingleConnection
  <2>g2. ShownHasNet' /\ ShownIsAnswered' /\ TofuIsUnasked' /\ TofuIsCurrent' /\ AwaitedIsUnasked'
    BY <1>1, <1>c, <1>e, <1>n, <2>1 DEF IInv, NetOK, ShownHasNet, ShownIsAnswered,
       TofuIsUnasked, TofuIsCurrent, AwaitedIsUnasked, AnswerIsOwn, AnswerOnce, BatchIsOwn,
       SingleConnection
  <2>g3. FlapsPay' /\ RejoinIsArmed'
    BY <1>1, <1>c, <1>e, <1>n, <2>1 DEF IInv, NetOK, FlapsPay, RejoinIsArmed, AnswerIsOwn,
       AnswerOnce, BatchIsOwn, ShownHasNet, ShownIsAnswered, TofuIsUnasked, TofuIsCurrent,
       AwaitedIsUnasked, SingleConnection
  <2>g4. SingleConnection' /\ EndIsNoted'
    BY <1>1, <1>c, <1>e, <1>n, <2>1 DEF IInv, NetOK, SingleConnection, EndIsNoted,
       AnswerIsOwn, AnswerOnce, BatchIsOwn, ShownHasNet, ShownIsAnswered, TofuIsUnasked,
       TofuIsCurrent, AwaitedIsUnasked
  <2> QED
    BY <1>t, <2>g1, <2>g2, <2>g3, <2>g4 DEF IInv, Discipline
<1>2. CASE /\ RetryDue /\ app' = CancelReconnect(app)
           /\ UNCHANGED <<disconnect_pending, net, wire, session, overlap>>
  <2>1. /\ app'.awaiting_connection = app.awaiting_connection
        /\ app'.authenticated = app.authenticated
        /\ app'.show_login = app.show_login /\ app'.tofu_pending = app.tofu_pending
        /\ app'.intentional = app.intentional /\ ~app'.reconnecting
        /\ app'.flaps = app.flaps /\ app'.young = app.young
    BY <1>2, <1>n DEF CancelReconnect, AppState
  <2> USE DEF RetryDue
  <2>g1. NetOK' /\ AnswerIsOwn' /\ AnswerOnce' /\ BatchIsOwn'
    BY <1>2, <1>c, <1>e, <1>n, <2>1 DEF IInv, NetOK, AnswerIsOwn, AnswerOnce, BatchIsOwn,
       ShownHasNet, ShownIsAnswered, TofuIsUnasked, TofuIsCurrent, AwaitedIsUnasked,
       SingleConnection
  <2>g2. ShownHasNet' /\ ShownIsAnswered' /\ TofuIsUnasked' /\ TofuIsCurrent' /\ AwaitedIsUnasked'
    BY <1>2, <1>c, <1>e, <1>n, <2>1 DEF IInv, NetOK, ShownHasNet, ShownIsAnswered,
       TofuIsUnasked, TofuIsCurrent, AwaitedIsUnasked, AnswerIsOwn, AnswerOnce, BatchIsOwn,
       SingleConnection
  <2>g3. FlapsPay' /\ RejoinIsArmed'
    BY <1>2, <1>c, <1>e, <1>n, <2>1 DEF IInv, NetOK, FlapsPay, RejoinIsArmed, AnswerIsOwn,
       AnswerOnce, BatchIsOwn, ShownHasNet, ShownIsAnswered, TofuIsUnasked, TofuIsCurrent,
       AwaitedIsUnasked, SingleConnection
  <2>g4. SingleConnection' /\ EndIsNoted'
    BY <1>2, <1>c, <1>e, <1>n, <2>1 DEF IInv, NetOK, SingleConnection, EndIsNoted,
       AnswerIsOwn, AnswerOnce, BatchIsOwn, ShownHasNet, ShownIsAnswered, TofuIsUnasked,
       TofuIsCurrent, AwaitedIsUnasked
  <2> QED
    BY <1>t, <2>g1, <2>g2, <2>g3, <2>g4 DEF IInv, Discipline
<1>3. ASSUME RetryDue, ~Connected, NEW started \in BOOLEAN, NetConnect(app.target, started),
             app' = IF started
                    THEN [app EXCEPT !.awaiting_connection = TRUE,
                                     !.rejoin_pending = (app.reconnect_channel # NoChannel)]
                    ELSE ArmRetry(app)
      PROVE  Discipline'
  <2>1. /\ app'.authenticated = app.authenticated
        /\ app'.show_login = app.show_login /\ app'.tofu_pending = app.tofu_pending
        /\ app'.intentional = app.intentional /\ app'.reconnecting = app.reconnecting
        /\ app'.reconnect_channel = app.reconnect_channel
        /\ app'.flaps = app.flaps /\ app'.young = app.young
    BY <1>3, <1>n DEF ArmRetry, AppState
  <2>2. \/ /\ app'.rejoin_pending = app.rejoin_pending
           /\ app'.awaiting_connection = app.awaiting_connection
        \/ /\ app'.rejoin_pending = (app.reconnect_channel # NoChannel)
           /\ app'.awaiting_connection
    BY <1>3, <1>n DEF ArmRetry, AppState
  <2>3. /\ net'.st \in {"dialing", "none"} /\ ~net'.failed /\ wire' = <<>> /\ session' = FALSE
        /\ overlap' = (overlap \/ net.st \in Live \/ disconnect_pending)
        /\ disconnect_pending' = (disconnect_pending \/ net.st \in Live)
    BY <1>3 DEF NetConnect
  <2> USE DEF RetryDue, Live, NetStates
  <2>g1. NetOK' /\ AnswerIsOwn' /\ AnswerOnce' /\ BatchIsOwn'
    BY <1>3, <1>c, <1>e, <1>n, <2>1, <2>2, <2>3 DEF IInv, NetOK, AnswerIsOwn, AnswerOnce,
       BatchIsOwn, ShownHasNet, ShownIsAnswered, TofuIsUnasked, TofuIsCurrent,
       AwaitedIsUnasked, SingleConnection
  <2>g2. ShownHasNet' /\ ShownIsAnswered' /\ TofuIsUnasked' /\ TofuIsCurrent' /\ AwaitedIsUnasked'
    BY <1>3, <1>c, <1>e, <1>n, <2>1, <2>2, <2>3 DEF IInv, NetOK, ShownHasNet,
       ShownIsAnswered, TofuIsUnasked, TofuIsCurrent, AwaitedIsUnasked, AnswerIsOwn,
       AnswerOnce, BatchIsOwn, SingleConnection
  <2>g3. FlapsPay' /\ RejoinIsArmed'
    BY <1>3, <1>c, <1>e, <1>n, <2>1, <2>2, <2>3 DEF IInv, NetOK, FlapsPay, RejoinIsArmed,
       AnswerIsOwn, AnswerOnce, BatchIsOwn, ShownHasNet, ShownIsAnswered, TofuIsUnasked,
       TofuIsCurrent, AwaitedIsUnasked, SingleConnection
  <2>g4. SingleConnection' /\ EndIsNoted'
    BY <1>3, <1>c, <1>e, <1>n, <2>1, <2>2, <2>3 DEF IInv, NetOK, SingleConnection,
       EndIsNoted, AnswerIsOwn, AnswerOnce, BatchIsOwn, ShownHasNet, ShownIsAnswered,
       TofuIsUnasked, TofuIsCurrent, AwaitedIsUnasked
  <2> QED
    BY <1>t, <2>g1, <2>g2, <2>g3, <2>g4 DEF IInv, Discipline
<1>4. \/ /\ app' \in {app, ArmRetry(app)}
         /\ UNCHANGED <<disconnect_pending, net, wire, session, overlap>>
      \/ /\ RetryDue /\ app' = CancelReconnect(app)
         /\ UNCHANGED <<disconnect_pending, net, wire, session, overlap>>
      \/ /\ RetryDue /\ ~Connected
         /\ \E started \in BOOLEAN :
              /\ NetConnect(app.target, started)
              /\ app' = IF started
                        THEN [app EXCEPT !.awaiting_connection = TRUE,
                                         !.rejoin_pending = (app.reconnect_channel # NoChannel)]
                        ELSE ArmRetry(app)
  BY DEF TickRetry, AttemptReconnect
<1> QED
  BY <1>1, <1>2, <1>3, <1>4, <1>t DEF IInv, Discipline

LEMMA OnAuthResponseInv ==
  ASSUME IInv, OnAuthResponse, Tick
  PROVE  IInv'
<1> USE DEF appVars, netVars, setVars, ghosts, history,
      Asked, Answered, Own, Down, Nothing, Connected
<1>e. (\A t : ~Has(<<>>, t) /\ Once(<<>>, t)) /\ Preceded(<<>>)
  BY EmptyQueue
<1>t. TypeOK /\ TypeOK'
  BY TickTypes DEF IInv
<1>n. app.flaps \in Nat /\ reauths \in Nat /\ net.st \in NetStates /\ app \in AppState
  BY <1>t, FlapLimitPositive DEF TypeOK, AppState
<1> DEFINE a == CancelReconnect([app EXCEPT !.authenticated = TRUE, !.young = TRUE,
                                            !.show_login = FALSE])
<1>1. /\ phase \in {"drain", "messages"} /\ Has(batch, "auth_response")
      /\ ~Has(batch', "auth_response") /\ Once(batch', "auth_response")
      /\ Has(batch', "terminal") <=> Has(batch, "terminal")
  <2>1. /\ batch # <<>> /\ Head(batch).type = "auth_response" /\ batch' = Tail(batch)
        /\ phase \in {"drain", "messages"}
    BY DEF OnAuthResponse, Handles
  <2>2. Once(batch, "auth_response")
    BY DEF IInv, AnswerOnce
  <2> QED
    BY <1>t, <2>1, <2>2, HandlesQueue
<1>2. /\ reauths' = IF app.reconnecting /\ reauths <= FlapLimit THEN reauths + 1 ELSE reauths
      /\ UNCHANGED <<phase, disconnect_pending, net, inbox, session, setVars, ended, lost,
                     overlap, clicks>>
      /\ IF app.rejoin_pending /\ app.reconnect_channel # NoChannel
         THEN JoinChannel(a, app.reconnect_channel) ELSE app' = a /\ UNCHANGED wire
  BY DEF OnAuthResponse
<1>3. /\ a.authenticated /\ a.young /\ ~a.show_login /\ ~a.reconnecting
      /\ a.tofu_pending = app.tofu_pending /\ a.intentional = app.intentional
      /\ a.awaiting_connection = app.awaiting_connection
      /\ a.flaps = app.flaps /\ a \in AppState
  <2> DEFINE b == [app EXCEPT !.authenticated = TRUE, !.young = TRUE, !.show_login = FALSE]
  <2>1. /\ b \in AppState /\ b.authenticated /\ b.young /\ ~b.show_login
        /\ b.tofu_pending = app.tofu_pending /\ b.intentional = app.intentional
        /\ b.awaiting_connection = app.awaiting_connection /\ b.flaps = app.flaps
    BY <1>n DEF AppState
  <2>2. a = CancelReconnect(b)
    OBVIOUS
  <2>3. /\ CancelReconnect(b) \in AppState /\ CancelReconnect(b).authenticated
        /\ CancelReconnect(b).young /\ ~CancelReconnect(b).show_login
        /\ ~CancelReconnect(b).reconnecting
        /\ CancelReconnect(b).tofu_pending = b.tofu_pending
        /\ CancelReconnect(b).intentional = b.intentional
        /\ CancelReconnect(b).awaiting_connection = b.awaiting_connection
        /\ CancelReconnect(b).flaps = b.flaps
    <3> HIDE DEF a, b
    <3> QED
      BY <2>1 DEF CancelReconnect, AppState
  <2> HIDE DEF a, b
  <2> QED
    BY <2>1, <2>2, <2>3
<1> HIDE DEF a
<1>4. /\ app'.authenticated /\ app'.young /\ ~app'.show_login /\ ~app'.reconnecting
      /\ app'.tofu_pending = app.tofu_pending /\ app'.intentional = app.intentional
      /\ app'.awaiting_connection = app.awaiting_connection
      /\ app'.flaps = app.flaps
  BY <1>2, <1>3 DEF JoinChannel, AppState
<1>5. (wire' # wire => Connected) /\ (Has(wire', "auth") => Has(wire, "auth"))
  <2>1. CASE wire' = wire
    BY <2>1
  <2>2. CASE /\ SendMessage([type |-> "join", channel |-> app.reconnect_channel])
             /\ app.reconnect_channel # NoChannel
    <3> DEFINE m == [type |-> "join", channel |-> app.reconnect_channel]
    <3>1. app.reconnect_channel \in Channels
      BY <1>n, <2>2 DEF AppState
    <3>2. m \in Requests /\ m.type # "auth"
      BY <3>1, QueueTypes
    <3>3. SendMessage(m)
      BY <2>2
    <3> HIDE DEF m
    <3> QED
      BY <1>t, <3>2, <3>3, SendQueue
  <2> QED
    BY <1>2, <2>1, <2>2 DEF JoinChannel
<1>6. UNCHANGED <<phase, disconnect_pending, net, inbox, session, setVars, ended, lost, overlap, clicks>>
  BY <1>2
<1>7. /\ reauths' = reauths \/ reauths' = reauths + 1
      /\ ~app.reconnecting => reauths' = reauths
  BY <1>2
<1>8. Discipline'
  <2>g1. NetOK' /\ AnswerIsOwn' /\ AnswerOnce' /\ BatchIsOwn'
    BY <1>1, <1>4, <1>5, <1>6, <1>7, <1>e, <1>n DEF IInv, NetOK, AnswerIsOwn, AnswerOnce,
       BatchIsOwn, ShownHasNet, ShownIsAnswered, TofuIsUnasked, TofuIsCurrent,
       AwaitedIsUnasked, SingleConnection
  <2>g2. ShownHasNet' /\ ShownIsAnswered' /\ TofuIsUnasked' /\ TofuIsCurrent' /\ AwaitedIsUnasked'
    BY <1>1, <1>4, <1>5, <1>6, <1>7, <1>e, <1>n DEF IInv, NetOK, ShownHasNet,
       ShownIsAnswered, TofuIsUnasked, TofuIsCurrent, AwaitedIsUnasked, AnswerIsOwn,
       AnswerOnce, BatchIsOwn, SingleConnection
  <2>g3. FlapsPay' /\ RejoinIsArmed'
    BY <1>1, <1>4, <1>5, <1>6, <1>7, <1>e, <1>n DEF IInv, NetOK, FlapsPay, RejoinIsArmed,
       AnswerIsOwn, AnswerOnce, BatchIsOwn, ShownHasNet, ShownIsAnswered, TofuIsUnasked,
       TofuIsCurrent, AwaitedIsUnasked, SingleConnection
  <2>g4. SingleConnection' /\ EndIsNoted'
    BY <1>1, <1>4, <1>5, <1>6, <1>7, <1>e, <1>n DEF IInv, NetOK, SingleConnection,
       EndIsNoted, AnswerIsOwn, AnswerOnce, BatchIsOwn, ShownHasNet, ShownIsAnswered,
       TofuIsUnasked, TofuIsCurrent, AwaitedIsUnasked
  <2> QED
    BY <1>t, <2>g1, <2>g2, <2>g3, <2>g4 DEF IInv, Discipline
<1> QED
  BY <1>t, <1>8 DEF IInv, Discipline


LEMMA ServeAuthInv ==
  ASSUME IInv, ServeAuth, Server
  PROVE  IInv'
<1> USE DEF appVars, netVars, setVars, ghosts, history,
      Asked, Answered, Own, Down, Nothing, Connected
<1>e. (\A t : ~Has(<<>>, t) /\ Once(<<>>, t)) /\ Preceded(<<>>)
  BY EmptyQueue
<1>t. TypeOK /\ TypeOK'
  BY OtherTypes DEF IInv
<1>n. app.flaps \in Nat /\ reauths \in Nat /\ net.st \in NetStates /\ app \in AppState
  BY <1>t, FlapLimitPositive DEF TypeOK, AppState
<1>1. /\ Connected /\ wire # <<>> /\ Has(wire, "auth")
      /\ Has(wire', "auth") => Has(wire, "auth")
  <2>1. wire # <<>> /\ Head(wire).type = "auth" /\ wire' = Tail(wire) /\ Connected
    BY DEF ServeAuth, Serves
  <2> QED
    BY <1>t, <2>1, ServesQueue
<1>2. UNCHANGED <<appVars, disconnect_pending, net, setVars, history>>
  BY DEF ServeAuth
<1>3. ASSUME session' = session, inbox' = inbox PROVE Discipline'
  <2>g1. NetOK' /\ AnswerIsOwn' /\ AnswerOnce' /\ BatchIsOwn'
    BY <1>1, <1>2, <1>3, <1>e, <1>n DEF IInv, NetOK, AnswerIsOwn, AnswerOnce, BatchIsOwn,
       ShownHasNet, ShownIsAnswered, TofuIsUnasked, TofuIsCurrent, AwaitedIsUnasked,
       SingleConnection
  <2>g2. ShownHasNet' /\ ShownIsAnswered' /\ TofuIsUnasked' /\ TofuIsCurrent' /\ AwaitedIsUnasked'
    BY <1>1, <1>2, <1>3, <1>e, <1>n DEF IInv, NetOK, ShownHasNet, ShownIsAnswered,
       TofuIsUnasked, TofuIsCurrent, AwaitedIsUnasked, AnswerIsOwn, AnswerOnce, BatchIsOwn,
       SingleConnection
  <2>g3. FlapsPay' /\ RejoinIsArmed'
    BY <1>1, <1>2, <1>3, <1>e, <1>n DEF IInv, NetOK, FlapsPay, RejoinIsArmed, AnswerIsOwn,
       AnswerOnce, BatchIsOwn, ShownHasNet, ShownIsAnswered, TofuIsUnasked, TofuIsCurrent,
       AwaitedIsUnasked, SingleConnection
  <2>g4. SingleConnection' /\ EndIsNoted'
    BY <1>1, <1>2, <1>3, <1>e, <1>n DEF IInv, NetOK, SingleConnection, EndIsNoted,
       AnswerIsOwn, AnswerOnce, BatchIsOwn, ShownHasNet, ShownIsAnswered, TofuIsUnasked,
       TofuIsCurrent, AwaitedIsUnasked
  <2> QED
    BY <1>t, <2>g1, <2>g2, <2>g3, <2>g4 DEF IInv, Discipline
<1>4. ASSUME ~session, session', inbox' = Append(inbox, Reply("auth_response"))
      PROVE  Discipline'
  <2>1. /\ Has(inbox', "auth_response")
        /\ Has(inbox', "terminal") <=> Has(inbox, "terminal")
        /\ ~Has(inbox, "auth_response") => Once(inbox', "auth_response")
        /\ Preceded(inbox) => Preceded(inbox')
    <3> DEFINE m == Reply("auth_response")
    <3>1. m \in Replies /\ m.type = "auth_response"
      BY ReplyTypes DEF Reply
    <3>2. inbox' = Append(inbox, m)
      BY <1>4
    <3>4. Once(inbox, "auth_response")
      BY DEF IInv, AnswerOnce
    <3> HIDE DEF m
    <3>3. /\ Has(inbox', "auth_response") <=> Has(inbox, "auth_response") \/ m.type = "auth_response"
          /\ Has(inbox', "terminal") <=> Has(inbox, "terminal") \/ m.type = "terminal"
          /\ Once(inbox, "auth_response") /\ ~(Has(inbox, "auth_response") /\ m.type = "auth_response")
               => Once(inbox', "auth_response")
          /\ Preceded(inbox) /\ (m.type = "terminal" => Has(inbox, "auth_response"))
               => Preceded(inbox')
      BY <1>t, <3>1, <3>2, AnswerQueue
    <3> QED
      BY <3>1, <3>3, <3>4
  <2>g1. NetOK' /\ AnswerIsOwn' /\ AnswerOnce' /\ BatchIsOwn'
    BY <1>1, <1>2, <1>4, <1>e, <1>n, <2>1 DEF IInv, NetOK, AnswerIsOwn, AnswerOnce,
       BatchIsOwn, ShownHasNet, ShownIsAnswered, TofuIsUnasked, TofuIsCurrent,
       AwaitedIsUnasked, SingleConnection
  <2>g2. ShownHasNet' /\ ShownIsAnswered' /\ TofuIsUnasked' /\ TofuIsCurrent' /\ AwaitedIsUnasked'
    BY <1>1, <1>2, <1>4, <1>e, <1>n, <2>1 DEF IInv, NetOK, ShownHasNet, ShownIsAnswered,
       TofuIsUnasked, TofuIsCurrent, AwaitedIsUnasked, AnswerIsOwn, AnswerOnce, BatchIsOwn,
       SingleConnection
  <2>g3. FlapsPay' /\ RejoinIsArmed'
    BY <1>1, <1>2, <1>4, <1>e, <1>n, <2>1 DEF IInv, NetOK, FlapsPay, RejoinIsArmed,
       AnswerIsOwn, AnswerOnce, BatchIsOwn, ShownHasNet, ShownIsAnswered, TofuIsUnasked,
       TofuIsCurrent, AwaitedIsUnasked, SingleConnection
  <2>g4. SingleConnection' /\ EndIsNoted'
    BY <1>1, <1>2, <1>4, <1>e, <1>n, <2>1 DEF IInv, NetOK, SingleConnection, EndIsNoted,
       AnswerIsOwn, AnswerOnce, BatchIsOwn, ShownHasNet, ShownIsAnswered, TofuIsUnasked,
       TofuIsCurrent, AwaitedIsUnasked
  <2> QED
    BY <1>t, <2>g1, <2>g2, <2>g3, <2>g4 DEF IInv, Discipline
<1>5. ASSUME session' = session, NEW m \in Replies, m.type \notin {"auth_response", "terminal"},
             inbox' = Append(inbox, m)
      PROVE  Discipline'
  <2>1. /\ Has(inbox', "auth_response") <=> Has(inbox, "auth_response")
        /\ Has(inbox', "terminal") <=> Has(inbox, "terminal")
        /\ Once(inbox, "auth_response") => Once(inbox', "auth_response")
        /\ Preceded(inbox) => Preceded(inbox')
    <3>1. m \in Replies /\ m.type \notin {"auth_response", "terminal"} /\ inbox' = Append(inbox, m)
      BY <1>5
    <3>2. \A u : /\ Has(inbox', u) <=> Has(inbox, u) \/ m.type = u
                 /\ Once(inbox, u) /\ ~(Has(inbox, u) /\ m.type = u) => Once(inbox', u)
      BY <1>t, <3>1, AnswerQueue
    <3>3. Preceded(inbox) => Preceded(inbox')
      BY <1>t, <3>1, AnswerQueue
    <3> QED
      BY <3>1, <3>2, <3>3
  <2>g1. NetOK' /\ AnswerIsOwn' /\ AnswerOnce' /\ BatchIsOwn'
    BY <1>1, <1>2, <1>5, <1>e, <1>n, <2>1 DEF IInv, NetOK, AnswerIsOwn, AnswerOnce,
       BatchIsOwn, ShownHasNet, ShownIsAnswered, TofuIsUnasked, TofuIsCurrent,
       AwaitedIsUnasked, SingleConnection
  <2>g2. ShownHasNet' /\ ShownIsAnswered' /\ TofuIsUnasked' /\ TofuIsCurrent' /\ AwaitedIsUnasked'
    BY <1>1, <1>2, <1>5, <1>e, <1>n, <2>1 DEF IInv, NetOK, ShownHasNet, ShownIsAnswered,
       TofuIsUnasked, TofuIsCurrent, AwaitedIsUnasked, AnswerIsOwn, AnswerOnce, BatchIsOwn,
       SingleConnection
  <2>g3. FlapsPay' /\ RejoinIsArmed'
    BY <1>1, <1>2, <1>5, <1>e, <1>n, <2>1 DEF IInv, NetOK, FlapsPay, RejoinIsArmed,
       AnswerIsOwn, AnswerOnce, BatchIsOwn, ShownHasNet, ShownIsAnswered, TofuIsUnasked,
       TofuIsCurrent, AwaitedIsUnasked, SingleConnection
  <2>g4. SingleConnection' /\ EndIsNoted'
    BY <1>1, <1>2, <1>5, <1>e, <1>n, <2>1 DEF IInv, NetOK, SingleConnection, EndIsNoted,
       AnswerIsOwn, AnswerOnce, BatchIsOwn, ShownHasNet, ShownIsAnswered, TofuIsUnasked,
       TofuIsCurrent, AwaitedIsUnasked
  <2> QED
    BY <1>t, <2>g1, <2>g2, <2>g3, <2>g4 DEF IInv, Discipline
<1>6. \/ session' = session /\ inbox' = inbox
      \/ ~session /\ session' /\ inbox' = Append(inbox, Reply("auth_response"))
      \/ session' = session /\ inbox' = Append(inbox, Reply("error"))
  BY DEF ServeAuth, Answer
<1>7. Reply("error") \in Replies /\ Reply("error").type \notin {"auth_response", "terminal"}
  BY ReplyTypes DEF Reply
<1> QED
  BY <1>3, <1>4, <1>5, <1>6, <1>7, <1>t DEF IInv, Discipline

LEMMA ServeJoinInv ==
  ASSUME IInv, ServeJoin, Server
  PROVE  IInv'
<1> USE DEF appVars, netVars, setVars, ghosts, history,
      Asked, Answered, Own, Down, Nothing, Connected
<1>e. (\A t : ~Has(<<>>, t) /\ Once(<<>>, t)) /\ Preceded(<<>>)
  BY EmptyQueue
<1>t. TypeOK /\ TypeOK'
  BY OtherTypes DEF IInv
<1>n. app.flaps \in Nat /\ reauths \in Nat /\ net.st \in NetStates /\ app \in AppState
  BY <1>t, FlapLimitPositive DEF TypeOK, AppState
<1>1. /\ Connected /\ wire # <<>> /\ (Has(wire', "auth") => Has(wire, "auth"))
      /\ Head(wire).channel \in Channels
  <2>1. wire # <<>> /\ Head(wire).type = "join" /\ wire' = Tail(wire) /\ Connected
    BY DEF ServeJoin, Serves
  <2>2. Head(wire) \in Requests
    BY <1>t, <2>1 DEF TypeOK
  <2>3. Head(wire).channel \in Channels
    BY <2>1, <2>2 DEF Requests
  <2> QED
    BY <1>t, <2>1, <2>3, ServesQueue
<1>2. UNCHANGED <<appVars, disconnect_pending, net, session, setVars, history>>
  BY DEF ServeJoin
<1>3. ASSUME inbox' = inbox PROVE Discipline'
  <2>g1. NetOK' /\ AnswerIsOwn' /\ AnswerOnce' /\ BatchIsOwn'
    BY <1>1, <1>2, <1>3, <1>e, <1>n DEF IInv, NetOK, AnswerIsOwn, AnswerOnce, BatchIsOwn,
       ShownHasNet, ShownIsAnswered, TofuIsUnasked, TofuIsCurrent, AwaitedIsUnasked,
       SingleConnection
  <2>g2. ShownHasNet' /\ ShownIsAnswered' /\ TofuIsUnasked' /\ TofuIsCurrent' /\ AwaitedIsUnasked'
    BY <1>1, <1>2, <1>3, <1>e, <1>n DEF IInv, NetOK, ShownHasNet, ShownIsAnswered,
       TofuIsUnasked, TofuIsCurrent, AwaitedIsUnasked, AnswerIsOwn, AnswerOnce, BatchIsOwn,
       SingleConnection
  <2>g3. FlapsPay' /\ RejoinIsArmed'
    BY <1>1, <1>2, <1>3, <1>e, <1>n DEF IInv, NetOK, FlapsPay, RejoinIsArmed, AnswerIsOwn,
       AnswerOnce, BatchIsOwn, ShownHasNet, ShownIsAnswered, TofuIsUnasked, TofuIsCurrent,
       AwaitedIsUnasked, SingleConnection
  <2>g4. SingleConnection' /\ EndIsNoted'
    BY <1>1, <1>2, <1>3, <1>e, <1>n DEF IInv, NetOK, SingleConnection, EndIsNoted,
       AnswerIsOwn, AnswerOnce, BatchIsOwn, ShownHasNet, ShownIsAnswered, TofuIsUnasked,
       TofuIsCurrent, AwaitedIsUnasked
  <2> QED
    BY <1>t, <2>g1, <2>g2, <2>g3, <2>g4 DEF IInv, Discipline
<1>5. ASSUME session, NEW m \in Replies, m.type \notin {"auth_response", "terminal"},
             inbox' = Append(inbox, m)
      PROVE  Discipline'
  <2>1. /\ Has(inbox', "auth_response") <=> Has(inbox, "auth_response")
        /\ Has(inbox', "terminal") <=> Has(inbox, "terminal")
        /\ Once(inbox, "auth_response") => Once(inbox', "auth_response")
        /\ Preceded(inbox) => Preceded(inbox')
    <3>1. m \in Replies /\ m.type \notin {"auth_response", "terminal"} /\ inbox' = Append(inbox, m)
      BY <1>5
    <3>2. \A u : /\ Has(inbox', u) <=> Has(inbox, u) \/ m.type = u
                 /\ Once(inbox, u) /\ ~(Has(inbox, u) /\ m.type = u) => Once(inbox', u)
      BY <1>t, <3>1, AnswerQueue
    <3>3. Preceded(inbox) => Preceded(inbox')
      BY <1>t, <3>1, AnswerQueue
    <3> QED
      BY <3>1, <3>2, <3>3
  <2>g1. NetOK' /\ AnswerIsOwn' /\ AnswerOnce' /\ BatchIsOwn'
    BY <1>1, <1>2, <1>5, <1>e, <1>n, <2>1 DEF IInv, NetOK, AnswerIsOwn, AnswerOnce,
       BatchIsOwn, ShownHasNet, ShownIsAnswered, TofuIsUnasked, TofuIsCurrent,
       AwaitedIsUnasked, SingleConnection
  <2>g2. ShownHasNet' /\ ShownIsAnswered' /\ TofuIsUnasked' /\ TofuIsCurrent' /\ AwaitedIsUnasked'
    BY <1>1, <1>2, <1>5, <1>e, <1>n, <2>1 DEF IInv, NetOK, ShownHasNet, ShownIsAnswered,
       TofuIsUnasked, TofuIsCurrent, AwaitedIsUnasked, AnswerIsOwn, AnswerOnce, BatchIsOwn,
       SingleConnection
  <2>g3. FlapsPay' /\ RejoinIsArmed'
    BY <1>1, <1>2, <1>5, <1>e, <1>n, <2>1 DEF IInv, NetOK, FlapsPay, RejoinIsArmed,
       AnswerIsOwn, AnswerOnce, BatchIsOwn, ShownHasNet, ShownIsAnswered, TofuIsUnasked,
       TofuIsCurrent, AwaitedIsUnasked, SingleConnection
  <2>g4. SingleConnection' /\ EndIsNoted'
    BY <1>1, <1>2, <1>5, <1>e, <1>n, <2>1 DEF IInv, NetOK, SingleConnection, EndIsNoted,
       AnswerIsOwn, AnswerOnce, BatchIsOwn, ShownHasNet, ShownIsAnswered, TofuIsUnasked,
       TofuIsCurrent, AwaitedIsUnasked
  <2> QED
    BY <1>t, <2>g1, <2>g2, <2>g3, <2>g4 DEF IInv, Discipline
<1> DEFINE l == [type |-> "user_list", channel |-> Head(wire).channel]
<1>6. inbox' = inbox \/ (session /\ inbox' \in {Append(inbox, l), Append(inbox, Reply("error"))})
  BY DEF ServeJoin, Answer
<1>7. /\ Reply("error") \in Replies /\ Reply("error").type \notin {"auth_response", "terminal"}
      /\ l \in Replies /\ l.type \notin {"auth_response", "terminal"}
  BY <1>1, ReplyTypes, QueueTypes DEF Reply
<1> HIDE DEF l
<1> QED
  BY <1>3, <1>5, <1>6, <1>7, <1>t DEF IInv, Discipline

LEMMA ServeKickInv ==
  ASSUME IInv, ServeKick, Server
  PROVE  IInv'
<1> USE DEF appVars, netVars, setVars, ghosts, history,
      Asked, Answered, Own, Down, Nothing, Connected
<1>e. (\A t : ~Has(<<>>, t) /\ Once(<<>>, t)) /\ Preceded(<<>>)
  BY EmptyQueue
<1>t. TypeOK /\ TypeOK'
  BY OtherTypes DEF IInv
<1>n. app.flaps \in Nat /\ reauths \in Nat /\ net.st \in NetStates /\ app \in AppState
  BY <1>t, FlapLimitPositive DEF TypeOK, AppState
<1>1. /\ Connected /\ session /\ net' = [net EXCEPT !.st = "closing"]
      /\ wire' = <<>> /\ session' = FALSE
      /\ UNCHANGED <<appVars, disconnect_pending, setVars, lost, reauths, overlap, clicks>>
  BY DEF ServeKick
<1>2. net'.st = "closing" /\ net'.failed = net.failed
  BY <1>1, <1>t DEF TypeOK
<1>3. ASSUME inbox' = inbox, ended' = ended PROVE Discipline'
  <2>g1. NetOK' /\ AnswerIsOwn' /\ AnswerOnce' /\ BatchIsOwn'
    BY <1>1, <1>2, <1>3, <1>e, <1>n DEF IInv, NetOK, AnswerIsOwn, AnswerOnce, BatchIsOwn,
       ShownHasNet, ShownIsAnswered, TofuIsUnasked, TofuIsCurrent, AwaitedIsUnasked,
       SingleConnection
  <2>g2. ShownHasNet' /\ ShownIsAnswered' /\ TofuIsUnasked' /\ TofuIsCurrent' /\ AwaitedIsUnasked'
    BY <1>1, <1>2, <1>3, <1>e, <1>n DEF IInv, NetOK, ShownHasNet, ShownIsAnswered,
       TofuIsUnasked, TofuIsCurrent, AwaitedIsUnasked, AnswerIsOwn, AnswerOnce, BatchIsOwn,
       SingleConnection
  <2>g3. FlapsPay' /\ RejoinIsArmed'
    BY <1>1, <1>2, <1>3, <1>e, <1>n DEF IInv, NetOK, FlapsPay, RejoinIsArmed, AnswerIsOwn,
       AnswerOnce, BatchIsOwn, ShownHasNet, ShownIsAnswered, TofuIsUnasked, TofuIsCurrent,
       AwaitedIsUnasked, SingleConnection
  <2>g4. SingleConnection' /\ EndIsNoted'
    BY <1>1, <1>2, <1>3, <1>e, <1>n DEF IInv, NetOK, SingleConnection, EndIsNoted,
       AnswerIsOwn, AnswerOnce, BatchIsOwn, ShownHasNet, ShownIsAnswered, TofuIsUnasked,
       TofuIsCurrent, AwaitedIsUnasked
  <2> QED
    BY <1>t, <2>g1, <2>g2, <2>g3, <2>g4 DEF IInv, Discipline
<1>4. ASSUME inbox' = Append(inbox, Reply("terminal")), ended' = TRUE PROVE Discipline'
  <2>1. /\ Has(inbox', "auth_response") <=> Has(inbox, "auth_response")
        /\ Has(inbox', "terminal")
        /\ Once(inbox, "auth_response") => Once(inbox', "auth_response")
        /\ Preceded(inbox) /\ Has(inbox, "auth_response") => Preceded(inbox')
    <3> DEFINE m == Reply("terminal")
    <3>1. m \in Replies /\ m.type = "terminal" /\ inbox' = Append(inbox, m)
      BY <1>4, ReplyTypes DEF Reply
    <3> HIDE DEF m
    <3>2. \A u : /\ Has(inbox', u) <=> Has(inbox, u) \/ m.type = u
                 /\ Once(inbox, u) /\ ~(Has(inbox, u) /\ m.type = u) => Once(inbox', u)
      BY <1>t, <3>1, AnswerQueue
    <3>3. Preceded(inbox) /\ Has(inbox, "auth_response") => Preceded(inbox')
      BY <1>t, <3>1, AnswerQueue
    <3> QED
      BY <3>1, <3>2, <3>3
  <2>g1. NetOK' /\ AnswerIsOwn' /\ AnswerOnce' /\ BatchIsOwn'
    BY <1>1, <1>2, <1>4, <1>e, <1>n, <2>1 DEF IInv, NetOK, AnswerIsOwn, AnswerOnce,
       BatchIsOwn, ShownHasNet, ShownIsAnswered, TofuIsUnasked, TofuIsCurrent,
       AwaitedIsUnasked, SingleConnection
  <2>g2. ShownHasNet' /\ ShownIsAnswered' /\ TofuIsUnasked' /\ TofuIsCurrent' /\ AwaitedIsUnasked'
    BY <1>1, <1>2, <1>4, <1>e, <1>n, <2>1 DEF IInv, NetOK, ShownHasNet, ShownIsAnswered,
       TofuIsUnasked, TofuIsCurrent, AwaitedIsUnasked, AnswerIsOwn, AnswerOnce, BatchIsOwn,
       SingleConnection
  <2>g3. FlapsPay' /\ RejoinIsArmed'
    BY <1>1, <1>2, <1>4, <1>e, <1>n, <2>1 DEF IInv, NetOK, FlapsPay, RejoinIsArmed,
       AnswerIsOwn, AnswerOnce, BatchIsOwn, ShownHasNet, ShownIsAnswered, TofuIsUnasked,
       TofuIsCurrent, AwaitedIsUnasked, SingleConnection
  <2>g4. SingleConnection' /\ EndIsNoted'
    BY <1>1, <1>2, <1>4, <1>e, <1>n, <2>1 DEF IInv, NetOK, SingleConnection, EndIsNoted,
       AnswerIsOwn, AnswerOnce, BatchIsOwn, ShownHasNet, ShownIsAnswered, TofuIsUnasked,
       TofuIsCurrent, AwaitedIsUnasked
  <2> QED
    BY <1>t, <2>g1, <2>g2, <2>g3, <2>g4 DEF IInv, Discipline
<1> QED
  BY <1>3, <1>4, <1>t DEF IInv, Discipline, ServeKick, Answer

-----------------------------------------------------------------------------
LEMMA InitInv == Init => IInv
<1> SUFFICES ASSUME Init PROVE IInv
  OBVIOUS
<1>e. (\A t : ~Has(<<>>, t) /\ Once(<<>>, t)) /\ Preceded(<<>>)
  BY EmptyQueue
<1>1. app \in AppState
  <2>1. 0 \in 0 .. (FlapLimit - 1)
    BY FlapLimitPositive
  <2> QED
    BY <2>1 DEF Init, AppState
<1>2. 0 \in 0 .. (FlapLimit + 1) /\ 0 \in 0 .. MaxClicks
  BY FlapLimitPositive, BoundAssumption
<1>3. <<>> \in Seq(Replies) /\ <<>> \in Seq(Requests)
  OBVIOUS
<1>4. TypeOK
  BY <1>1, <1>2, <1>3 DEF Init, TypeOK, Phases, NetStates
<1>5. Discipline
  BY <1>e DEF Init, Discipline, NetOK, AnswerIsOwn, AnswerOnce, BatchIsOwn, ShownHasNet,
     ShownIsAnswered, TofuIsUnasked, TofuIsCurrent, AwaitedIsUnasked, FlapsPay, RejoinIsArmed,
     SingleConnection, EndIsNoted, Asked, Answered, Own, Down, Nothing, Connected
<1> QED
  BY <1>4, <1>5 DEF IInv, Discipline

(* The life cycle of a connection keeps the inductive invariant, whatever  *)
(* the user, the transport's worker and the server do between the steps of *)
(* a tick.                                                                 *)
THEOREM Inductive == Spec => []IInv
<1>1. IInv /\ [Next]_vars => IInv'
  <2> SUFFICES ASSUME IInv, [Next]_vars PROVE IInv'
    OBVIOUS
  <2>1. CASE User
    BY <2>1, ConnectClicksInv, DeleteServerInv, CancelLoginInv, DisconnectServerInv,
       TofuAcceptInv, TofuRejectInv, SelectChannelInv, LeaveChannelInv DEF User
  <2>2. CASE Tick
    BY <2>2, TickBeginInv, TickCleanupInv, TickPollInv, TickRetryInv, TickEndInv,
       OnAuthResponseInv, OnTerminalErrorInv, OnServerErrorInv, OnChannelUserListInv DEF Tick
  <2>3. CASE Worker
    BY <2>3, ConnectionUpInv, ShutdownInitiatedInv, ShutdownCompleteInv DEF Worker
  <2>4. CASE Server
    BY <2>4, ServeAuthInv, ServeJoinInv, ServeLeaveInv, ServeKickInv DEF Server
  <2>5. CASE Time
    BY <2>5, BackoffElapsesInv, SessionAgesInv DEF Time
  <2>6. CASE UNCHANGED vars
    BY <2>6 DEF vars, appVars, netVars, setVars, ghosts, history, IInv, TypeOK,
       NetOK, AnswerIsOwn, AnswerOnce, BatchIsOwn, ShownHasNet,
       ShownIsAnswered, TofuIsUnasked, TofuIsCurrent, AwaitedIsUnasked, FlapsPay, RejoinIsArmed,
       SingleConnection, EndIsNoted, Asked, Answered, Own, Down, Nothing, Connected
  <2> QED
    BY <2>1, <2>2, <2>3, <2>4, <2>5, <2>6 DEF Next
<1> QED
  BY InitInv, <1>1, PTL DEF Spec


-----------------------------------------------------------------------------
(* Two facts that follow from the inductive invariant step by step: the    *)
(* automatic logins are bounded, and a client that reconnects is in no     *)
(* channel and waits for none.                                             *)
OutOfChannels ==
  app.reconnecting => app.current_channel = NoChannel /\ app.pending_channel = NoChannel

LEMMA PingPongStep ==
  ASSUME IInv, PingPongBounded, [Next]_vars
  PROVE  PingPongBounded'
<1> USE DEF PingPongBounded
<1>t. reauths \in Nat /\ app.flaps \in Nat /\ app.flaps <= FlapLimit - 1 /\ FlapLimit \in Nat
  BY FlapLimitPositive DEF IInv, TypeOK, AppState
<1>1. CASE OnAuthResponse
  BY <1>1, <1>t DEF OnAuthResponse, IInv, FlapsPay
<1>2. CASE reauths' = 0
  BY <1>2, <1>t
<1>3. CASE reauths' = reauths
  BY <1>3
<1>4. CASE User
  BY <1>4, <1>2, <1>3 DEF User, SelectServer, DeleteServer, SubmitLogin, CancelLogin,
     DisconnectServer, TofuAccept, TofuReject, SelectChannel, LeaveChannel, DoConnect,
     DisconnectIntentionally, ghosts
<1>5. CASE Tick
  BY <1>5, <1>1, <1>3 DEF Tick, TickBegin, TickCleanup, TickPoll, TickRetry, TickEnd,
     OnTerminalError, OnServerError, OnChannelUserList, history, ghosts
<1>6. CASE Worker \/ Server \/ Time \/ UNCHANGED vars
  BY <1>6, <1>2, <1>3 DEF Worker, ConnectionUp, ShutdownInitiated, ShutdownComplete,
     Server, ServeAuth, ServeJoin, ServeLeave, ServeKick, Time, BackoffElapses, SessionAges,
     vars, history, ghosts
<1> QED
  BY <1>4, <1>5, <1>6 DEF Next

(* A loss clears both channels, and only a shown session chooses new ones. *)
LEMMA OutOfChannelsStep ==
  ASSUME IInv, OutOfChannels, [Next]_vars
  PROVE  OutOfChannels'
<1> USE DEF OutOfChannels
<1>t. app \in AppState /\ (app.authenticated => ~app.reconnecting)
  BY DEF IInv, TypeOK, ShownIsAnswered
<1>1. CASE /\ app'.reconnecting => app.reconnecting
           /\ app'.current_channel = app.current_channel
           /\ app'.pending_channel = app.pending_channel
  BY <1>1
<1>2. CASE ~app'.reconnecting
  BY <1>2
<1>3. ASSUME NEW a \in AppState, ~a.reconnecting,
             app' \in {a, [a EXCEPT !.awaiting_connection = TRUE], [a EXCEPT !.show_login = TRUE],
                       [a EXCEPT !.tofu_pending = TRUE, !.show_login = FALSE]}
      PROVE  ~app'.reconnecting
  BY <1>3 DEF AppState
<1>4. ASSUME NEW b \in AppState, DoConnect(b) PROVE ~app'.reconnecting
  <2> DEFINE a == CancelReconnect(b)
  <2>1. a \in AppState /\ ~a.reconnecting
    BY <1>4 DEF CancelReconnect, AppState
  <2>2. app' \in {a, [a EXCEPT !.awaiting_connection = TRUE], [a EXCEPT !.show_login = TRUE],
                  [a EXCEPT !.tofu_pending = TRUE, !.show_login = FALSE]}
    BY <1>4 DEF DoConnect, FinishConnect
  <2> HIDE DEF a
  <2> QED
    BY <2>1, <2>2, <1>3
<1>5. CASE User
  <2>1. CASE \E s \in Servers : SelectServer(s)
    <3> PICK s \in Servers : SelectServer(s)
      BY <2>1
    <3>1. [app EXCEPT !.target = s] \in AppState
      BY <1>t DEF AppState
    <3>2. CASE DoConnect([app EXCEPT !.target = s])
      BY <3>1, <3>2, <1>4, <1>2
    <3>3. CASE app' = [app EXCEPT !.target = s, !.show_login = TRUE]
      BY <3>3, <1>t, <1>1 DEF AppState
    <3> QED
      BY <3>2, <3>3 DEF SelectServer
  <2>2. CASE SubmitLogin
    BY <2>2, <1>t, <1>4, <1>2 DEF SubmitLogin
  <2>3. CASE CancelLogin \/ DisconnectServer \/ TofuReject
    BY <2>3, <1>t, <1>2 DEF CancelLogin, DisconnectServer, TofuReject,
       DisconnectIntentionally,
       CancelReconnect, AppState
  <2>4. CASE (\E s \in Servers : DeleteServer(s)) \/ TofuAccept
    BY <2>4, <1>t, <1>1 DEF DeleteServer, TofuAccept, AppState
  <2>5. CASE (\E ch \in Channels : SelectChannel(ch)) \/ LeaveChannel
    BY <2>5, <1>t, <1>2 DEF SelectChannel, LeaveChannel, JoinChannel, AppState
  <2> QED
    BY <1>5, <2>1, <2>2, <2>3, <2>4, <2>5 DEF User
<1>6. CASE Tick
  <2>1. CASE TickBegin \/ TickEnd \/ OnTerminalError \/ OnServerError
    BY <2>1, <1>t, <1>1 DEF TickBegin, TickEnd, OnTerminalError, OnServerError, AppState
  <2>2. CASE TickCleanup
    <3> DEFINE c == [app EXCEPT !.authenticated = FALSE, !.current_channel = NoChannel,
                                !.awaiting_connection = FALSE, !.pending_channel = NoChannel,
                                !.tofu_pending = FALSE, !.show_login = FALSE]
    <3>1. /\ c \in AppState /\ c.current_channel = NoChannel /\ c.pending_channel = NoChannel
      BY <1>t DEF AppState
    <3>2. app' = AfterLoss(app, c)
      BY <2>2 DEF TickCleanup, OnDisconnectCleanup
    <3> HIDE DEF c
    <3> QED
      BY <3>1, <3>2 DEF AfterLoss, CancelReconnect, ArmRetry, AppState
  <2>3. CASE TickPoll
    <3>1. CASE app' = app
      BY <3>1, <1>1
    <3> DEFINE a == [app EXCEPT !.awaiting_connection = FALSE]
    <3>2. /\ a \in AppState /\ a.reconnecting = app.reconnecting
          /\ a.current_channel = app.current_channel /\ a.pending_channel = app.pending_channel
      BY <1>t DEF AppState
    <3>3. app' \in {app, ArmRetry(a), a, [a EXCEPT !.show_login = TRUE],
                    [a EXCEPT !.tofu_pending = TRUE, !.show_login = FALSE]}
      BY <2>3 DEF TickPoll, FinishConnect
    <3> HIDE DEF a
    <3> QED
      BY <3>1, <3>2, <3>3, <1>1 DEF ArmRetry, AppState
  <2>4. CASE TickRetry
    BY <2>4, <1>t, <1>1 DEF TickRetry, AttemptReconnect, CancelReconnect, ArmRetry, AppState
  <2>5. CASE OnAuthResponse
    <3> DEFINE b == [app EXCEPT !.authenticated = TRUE, !.young = TRUE, !.show_login = FALSE]
    <3> DEFINE a == CancelReconnect(b)
    <3>1. b \in AppState
      BY <1>t DEF AppState
    <3>2. app' \in {a, [a EXCEPT !.pending_channel = app.reconnect_channel]}
      BY <2>5 DEF OnAuthResponse, JoinChannel
    <3>3. a \in AppState /\ ~a.reconnecting
      <4> HIDE DEF b
      <4> QED
        BY <3>1 DEF CancelReconnect, AppState
    <3> HIDE DEF a
    <3> QED
      BY <3>2, <3>3, <1>2 DEF AppState
  <2>6. CASE OnChannelUserList
    <3>1. CASE app' = app
      BY <3>1, <1>1
    <3>2. CASE Head(batch).channel = app.pending_channel
      <4>1. batch # <<>> /\ Head(batch).type = "user_list" /\ batch \in Seq(Replies)
        BY <2>6 DEF OnChannelUserList, Handles, IInv, TypeOK
      <4>2. Head(batch) \in Replies
        BY <4>1
      <4>3. Head(batch).channel \in Channels
        BY <4>1, <4>2 DEF Replies
      <4>4. ~app.reconnecting
        BY <3>2, <4>3, NoneAreFresh
      <4>5. app' = [app EXCEPT !.current_channel = app.pending_channel,
                               !.pending_channel = NoChannel]
        BY <2>6, <3>2 DEF OnChannelUserList
      <4> QED
        BY <4>4, <4>5, <1>t, <1>2 DEF AppState
    <3> QED
      BY <2>6, <3>1, <3>2 DEF OnChannelUserList
  <2> QED
    BY <1>6, <2>1, <2>2, <2>3, <2>4, <2>5, <2>6 DEF Tick
<1>7. CASE Worker \/ Server \/ Time \/ UNCHANGED vars
  BY <1>7, <1>t, <1>1 DEF Worker, ConnectionUp, ShutdownInitiated, ShutdownComplete,
     Server, ServeAuth, ServeJoin, ServeLeave, ServeKick, Time, BackoffElapses, SessionAges,
     vars, appVars, AppState
<1> QED
  BY <1>5, <1>6, <1>7 DEF Next

LEMMA Consequences == Spec => [](PingPongBounded /\ OutOfChannels)
<1>1. Init => PingPongBounded /\ OutOfChannels
  BY FlapLimitPositive DEF Init, PingPongBounded, OutOfChannels
<1>2. IInv /\ (PingPongBounded /\ OutOfChannels) /\ [Next]_vars => (PingPongBounded /\ OutOfChannels)'
  BY PingPongStep, OutOfChannelsStep
<1> QED
  BY <1>1, <1>2, Inductive, PTL DEF Spec

(* Only the answer to a login shows a session.                             *)
LEMMA OnlyTheAnswerShows ==
  ASSUME IInv, [Next]_vars, ~app.authenticated, app'.authenticated
  PROVE  OnAuthResponse
<1> SUFFICES ASSUME ~OnAuthResponse PROVE FALSE
  OBVIOUS
<1>t. app \in AppState
  BY DEF IInv, TypeOK
<1>1. ASSUME NEW a \in AppState, a.authenticated = app.authenticated,
             app' \in {a, [a EXCEPT !.awaiting_connection = TRUE], [a EXCEPT !.show_login = TRUE],
                       [a EXCEPT !.tofu_pending = TRUE, !.show_login = FALSE], ArmRetry(a)}
      PROVE  FALSE
  BY <1>1 DEF AppState, ArmRetry
<1>2. ASSUME NEW b \in AppState, b.authenticated = app.authenticated, DoConnect(b) PROVE FALSE
  <2> DEFINE a == CancelReconnect(b)
  <2>1. a \in AppState /\ a.authenticated = app.authenticated
    BY <1>2 DEF CancelReconnect, AppState
  <2>2. app' \in {a, [a EXCEPT !.awaiting_connection = TRUE], [a EXCEPT !.show_login = TRUE],
                  [a EXCEPT !.tofu_pending = TRUE, !.show_login = FALSE]}
    BY <1>2 DEF DoConnect, FinishConnect
  <2> HIDE DEF a
  <2> QED
    BY <2>1, <2>2, <1>1
<1>3. CASE User
  <2>1. CASE \E s \in Servers : SelectServer(s)
    <3> PICK s \in Servers : SelectServer(s)
      BY <2>1
    <3>1. /\ [app EXCEPT !.target = s] \in AppState
          /\ [app EXCEPT !.target = s].authenticated = app.authenticated
      BY <1>t DEF AppState
    <3>2. CASE DoConnect([app EXCEPT !.target = s])
      BY <3>1, <3>2, <1>2
    <3>3. CASE app' = [app EXCEPT !.target = s, !.show_login = TRUE]
      BY <3>3, <1>t DEF AppState
    <3> QED
      BY <3>2, <3>3 DEF SelectServer
  <2>2. CASE SubmitLogin
    BY <2>2, <1>t, <1>2 DEF SubmitLogin
  <2>3. CASE CancelLogin \/ DisconnectServer \/ TofuReject
    BY <2>3, <1>t DEF CancelLogin, DisconnectServer, TofuReject, DisconnectIntentionally,
       CancelReconnect, AppState
  <2>4. CASE \/ \E s \in Servers : DeleteServer(s)
             \/ TofuAccept
             \/ \E ch \in Channels : SelectChannel(ch)
             \/ LeaveChannel
    BY <2>4, <1>t DEF DeleteServer, TofuAccept, SelectChannel, LeaveChannel, AppState
  <2> QED
    BY <1>3, <2>1, <2>2, <2>3, <2>4 DEF User
<1>4. CASE Tick
  <2>1. CASE TickBegin \/ TickEnd \/ OnTerminalError \/ OnServerError \/ OnChannelUserList
    BY <2>1, <1>t DEF TickBegin, TickEnd, OnTerminalError, OnServerError, OnChannelUserList,
       AppState
  <2>2. CASE TickCleanup
    <3> DEFINE c == [app EXCEPT !.authenticated = FALSE, !.current_channel = NoChannel,
                                !.awaiting_connection = FALSE, !.pending_channel = NoChannel,
                                !.tofu_pending = FALSE, !.show_login = FALSE]
    <3>1. c \in AppState /\ ~c.authenticated
      BY <1>t DEF AppState
    <3>2. app' = AfterLoss(app, c)
      BY <2>2 DEF TickCleanup, OnDisconnectCleanup
    <3> HIDE DEF c
    <3> QED
      BY <3>1, <3>2 DEF AfterLoss, CancelReconnect, ArmRetry, AppState
  <2>3. CASE TickPoll
    <3> DEFINE a == [app EXCEPT !.awaiting_connection = FALSE]
    <3>1. a \in AppState /\ a.authenticated = app.authenticated
      BY <1>t DEF AppState
    <3>2. app' \in {app, ArmRetry(a), a, [a EXCEPT !.show_login = TRUE],
                    [a EXCEPT !.tofu_pending = TRUE, !.show_login = FALSE]}
      BY <2>3 DEF TickPoll, FinishConnect
    <3> HIDE DEF a
    <3> QED
      BY <3>1, <3>2, <1>1, <1>t
  <2>4. CASE TickRetry
    BY <2>4, <1>t DEF TickRetry, AttemptReconnect, CancelReconnect, ArmRetry, AppState
  <2> QED
    BY <1>4, <2>1, <2>2, <2>3, <2>4 DEF Tick
<1>5. CASE Worker \/ Server \/ Time \/ UNCHANGED vars
  BY <1>5, <1>t DEF Worker, ConnectionUp, ShutdownInitiated, ShutdownComplete,
     Server, ServeAuth, ServeJoin, ServeLeave, ServeKick, Time, BackoffElapses, SessionAges,
     vars, appVars, AppState
<1> QED
  BY <1>3, <1>4, <1>5 DEF Next

-----------------------------------------------------------------------------
(* A session that is shown has a connection or a loss still to be noticed, *)
(* and the flap guard bounds the automatic logins by FlapLimit, with any   *)
(* number of servers and channels.                                         *)
THEOREM SessionIsBacked == Spec => []LoginDiscipline
<1>1. IInv /\ PingPongBounded => LoginDiscipline
  <2> SUFFICES ASSUME IInv, PingPongBounded PROVE LoginDiscipline
    OBVIOUS
  <2>1. TypeOK
    BY DEF IInv
  <2>2. NoZombieSession
    BY <2>1 DEF IInv, ShownHasNet, NetOK, Own, NoZombieSession, Connected, TypeOK
  <2> QED
    BY <2>1, <2>2 DEF LoginDiscipline
<1> QED
  BY Inductive, Consequences, <1>1, PTL

(* Once the user disconnected or the server's Kicked or Replaced was       *)
(* handled, no reconnect is under way before the user connects again.      *)
THEOREM EndedStaysEnded == Spec => []EndIsFinal
<1>1. IInv => EndIsFinal
  <2> SUFFICES ASSUME IInv, ended, ~overlap, \A m \in Queued : m.type # "terminal"
               PROVE  ~app.reconnecting
    BY DEF EndIsFinal
  <2>1. batch \in Seq(Replies) /\ inbox \in Seq(Replies)
    BY DEF IInv, TypeOK
  <2>2. ~Has(batch, "terminal")
    <3> SUFFICES ASSUME NEW i \in DOMAIN batch PROVE batch[i].type # "terminal"
      BY DEF Has
    <3>1. i \in DOMAIN (batch \o inbox) /\ (batch \o inbox)[i] = batch[i]
      BY <2>1
    <3> QED
      BY <3>1 DEF Queued
  <2>3. ~Has(inbox, "terminal")
    <3> SUFFICES ASSUME NEW i \in DOMAIN inbox PROVE inbox[i].type # "terminal"
      BY DEF Has
    <3>1. /\ Len(batch) + i \in DOMAIN (batch \o inbox)
          /\ (batch \o inbox)[Len(batch) + i] = inbox[i]
      BY <2>1
    <3> QED
      BY <3>1 DEF Queued
  <2> QED
    BY <2>2, <2>3 DEF IInv, EndIsNoted
<1> QED
  BY Inductive, <1>1, PTL

(* However many dials fail in between, the automatic login asks for the    *)
(* channel the session held when it was lost.                              *)
THEOREM LostChannelIsRejoined == Spec => RejoinsLostChannel
<1> DEFINE Rejoins ==
      (app.reconnecting /\ ~app.authenticated /\ app'.authenticated /\ lost # NoChannel)
        => app'.pending_channel = lost
<1>1. IInv /\ OutOfChannels /\ [Next]_vars => Rejoins
  <2> SUFFICES ASSUME IInv, OutOfChannels, [Next]_vars, app.reconnecting, ~app.authenticated,
                      app'.authenticated, lost # NoChannel
               PROVE  app'.pending_channel = lost
    OBVIOUS
  <2>1. OnAuthResponse
    BY OnlyTheAnswerShows
  <2>2. batch # <<>> /\ Head(batch).type = "auth_response" /\ batch \in Seq(Replies)
    BY <2>1 DEF OnAuthResponse, Handles, IInv, TypeOK
  <2>3. Answered
    BY <2>2 DEF Answered, Has
  <2>4. app.reconnect_channel = lost /\ app.rejoin_pending
    BY <2>3 DEF IInv, RejoinIsArmed, Nothing
  <2> DEFINE a == CancelReconnect([app EXCEPT !.authenticated = TRUE, !.young = TRUE,
                                              !.show_login = FALSE])
  <2>5. JoinChannel(a, lost)
    BY <2>1, <2>4 DEF OnAuthResponse
  <2>6. a.current_channel = NoChannel /\ a \in AppState
    BY DEF OutOfChannels, CancelReconnect, IInv, TypeOK, AppState
  <2> HIDE DEF a
  <2> QED
    BY <2>5, <2>6 DEF JoinChannel, AppState
<1> QED
  BY Inductive, Consequences, <1>1, PTL DEF Spec, RejoinsLostChannel
=============================================================================
