---------------------------- MODULE Subscriptions ----------------------------
(***************************************************************************)
(* The subscriptions of the web client on one network: its socket, its     *)
(* copies of the network row, of the channel list and of the query         *)
(* windows, and the Phoenix topics that the loops of subscribe.ts join     *)
(* from them. The user topic announces changes to a socket that is         *)
(* subscribed at that moment and to nobody else; answers to HTTP requests  *)
(* overtake the announcements and are overtaken by them.                   *)
(*                                                                         *)
(* Rows and their backfill are Scrollback's. The $server window and the    *)
(* pre-subscribe loop of a pending JOIN join earlier, or for good, what    *)
(* the loops below join; the presence pause is switched off in the source. *)
(***************************************************************************)
EXTENDS Integers, Sequences, FiniteSets

CONSTANTS
    Nicks,      \* ours, one after another, and those of peers
    Chans,
    Nobody,
    Sessions    \* bound: how often each disturbance may happen

Topics == Nicks \cup Chans
Disturbances == {"nick", "state", "join", "part", "window", "attach", "say",
                 "drop", "offline", "hide", "rotate"}

ASSUME SubscriptionsAssumption ==
    /\ Nicks # {} /\ Nicks \cap Chans = {} /\ Nobody \notin Topics
    /\ Sessions \subseteq [Disturbances -> Nat]

VARIABLES
    srv,        \* the bouncer: our nick, the connection, channels, windows
    inbox,      \* user-topic and own-part events on their way to the client
    missed,     \* history: what changed unheard since it was last read
    tok,        \* signed in
    online,     \* isOffline's negation
    conn,       \* the socket: none, halted, trying, open
    userLive,   \* the user topic is subscribed
    visible,
    owed,       \* resumeResync: a resume is owed a resync
    net,        \* networks(), our one row of it; NoRow
    chans,      \* channelsBySlug()
    windows,    \* queryWindowsByNetwork()
    req,        \* HTTP requests under way, and the door of refetchNetworks
    due,        \* effects the last change has made due
    subs,       \* per topic the handler and the Channels left open; the keys
                \* of the listener and of queryJoinAcks; live: joined for good
    budget

server == <<srv, missed>>
link == <<tok, online, conn, userLive, visible, owed>>
copies == <<net, chans, windows>>
subVars == <<server, inbox, link, copies, req, due, subs, budget>>

NoRow == [nick |-> Nobody, up |-> FALSE]
Facts == {"nick", "up", "chans"}
Effects == {"channels", "query", "dm"}
Spend(k) == budget[k] > 0 /\ budget' = [budget EXCEPT ![k] = @ - 1]

\* Effects run before anything else happens to the client.
Settled == due = {}

-----------------------------------------------------------------------------
(* HTTP. The latest load of a resource is the one whose answer counts.      *)

Unasked(x) == [at |-> "none", val |-> x]
Asked(x) == [at |-> "asked", val |-> x]
Read(x) == [at |-> "read", val |-> x]

\* A load the door did not ask for takes the answer from the one it awaits.
LoadNetworks(r) ==
    [r EXCEPT !.net = Asked(NoRow), !.door = IF @ = "own" THEN "lost" ELSE @]

\* Seeded defect: a channel list is not asked for while one is on its way.
LoadChannels_Dropped(r, row) ==
    IF row = NoRow \/ r.chans.at # "none" THEN r ELSE [r EXCEPT !.chans = Asked({})]

\* refetchChannels, and every new networks(): nothing to ask of no network.
LoadChannels(r, row) == IF row = NoRow THEN r ELSE [r EXCEPT !.chans = Asked({})]

\* Seeded defect: a request during a flight is dropped.
RefetchNetworks_Dropped(r) ==
    IF r.door # "idle" \/ ~r.me THEN r ELSE [r EXCEPT !.net = Asked(NoRow), !.door = "own"]

\* refetchNetworks: one flight, and one more for all who asked meanwhile.
RefetchNetworks(r) ==
    CASE r.door # "idle" -> [r EXCEPT !.pending = TRUE]
      [] r.door = "idle" /\ r.me -> [r EXCEPT !.net = Asked(NoRow), !.door = "own"]
      [] OTHER -> r

\* runNetworksRefetch's finally.
DoorEnds(r) ==
    IF r.pending /\ r.me THEN [r EXCEPT !.net = Asked(NoRow), !.door = "own", !.pending = FALSE]
    ELSE [r EXCEPT !.door = "idle", !.pending = FALSE]

\* The socket-open edge and the resume ask for both.
Resync(r) == LoadChannels(RefetchNetworks(r), net)

\* The server reads its state into an answer, at any time after the question.
NetworksRead ==
    /\ req.net.at = "asked"
    /\ req' = [req EXCEPT !.net = Read([nick |-> srv.nick, up |-> srv.up])]
    /\ missed' = missed \ {"nick", "up"}
    /\ UNCHANGED <<srv, inbox, link, copies, due, subs, budget>>

ChannelsRead ==
    /\ req.chans.at = "asked"
    /\ req' = [req EXCEPT !.chans = Read(srv.chans)]
    /\ missed' = missed \ {"chans"}
    /\ UNCHANGED <<srv, inbox, link, copies, due, subs, budget>>

\* A new row: every loop reads it, and the channel list hangs off it.
NetworksAnswer ==
    /\ Settled /\ req.net.at = "read"
    /\ net' = req.net.val
    /\ LET r == LoadChannels([req EXCEPT !.net = Unasked(NoRow)], net')
       IN  req' = IF r.door = "own" THEN DoorEnds(r) ELSE r
    /\ due' = Effects
    /\ UNCHANGED <<server, inbox, link, chans, windows, subs, budget>>

\* The flight the door awaits ends, its answer unused.
LostAnswer ==
    /\ Settled /\ req.door = "lost"
    /\ req' = DoorEnds(req)
    /\ UNCHANGED <<server, inbox, link, copies, due, subs, budget>>

ChannelsAnswer ==
    /\ Settled /\ req.chans.at = "read"
    /\ chans' = req.chans.val
    /\ req' = [req EXCEPT !.chans = Unasked({})]
    /\ due' = {"channels"}
    /\ UNCHANGED <<server, inbox, link, net, windows, subs, budget>>

\* GET /me: the networks resource is keyed on it.
UserAnswer ==
    /\ Settled /\ req.user
    /\ req' = LoadNetworks([req EXCEPT !.user = FALSE, !.me = TRUE])
    /\ UNCHANGED <<server, inbox, link, copies, due, subs, budget>>

-----------------------------------------------------------------------------
(* The topics. A Channel that is joined and never left keeps its handler.   *)

NoSubs == [handler |-> [t \in Topics |-> "none"], open |-> [t \in Topics |-> 0],
           dm |-> Nobody, acks |-> {}, live |-> {}]

Joined(s, t) == s.handler[t] # "none"

Join(s, t, h) == [s EXCEPT !.handler[t] = h, !.open[t] = @ + 1, !.live = @ \ {t}]

\* Seeded defect: a topic is left whether it is joined or not.
Leave_Unguarded(s, t) ==
    [s EXCEPT !.handler[t] = "none", !.open[t] = @ - 1, !.live = @ \ {t}]

\* joined.get(key)?.leave(); joined.delete(key)
Leave(s, t) ==
    IF ~Joined(s, t) THEN s
    ELSE [s EXCEPT !.handler[t] = "none", !.open[t] = @ - 1, !.live = @ \ {t}]

\* ensureQueryTopicJoined: our own nick is the listener's.
EnsureQueryTopicJoined(s, n) ==
    IF net = NoRow \/ n = net.nick \/ n \in s.acks \/ Joined(s, n) THEN s
    ELSE [Join(s, n, "chan") EXCEPT !.acks = @ \cup {n}]

\* Joins for every element of a set, none of which the others touch.
JoinAll(s, ts) ==
    [s EXCEPT !.handler = [t \in Topics |-> IF t \in ts THEN "chan" ELSE s.handler[t]],
              !.open = [t \in Topics |-> IF t \in ts THEN s.open[t] + 1 ELSE s.open[t]]]

\* The channels loop.
ChannelsLoop ==
    /\ "channels" \in due
    /\ due' = due \ {"channels"}
    /\ subs' = IF ~tok \/ net = NoRow THEN subs
               ELSE JoinAll(subs, {c \in chans : ~Joined(subs, c)})
    /\ UNCHANGED <<server, inbox, link, copies, req, budget>>

\* The query-windows loop: ensureQueryTopicJoined for each window.
QueryLoop ==
    /\ "query" \in due
    /\ due' = due \ {"query"}
    /\ LET missing == {n \in windows : EnsureQueryTopicJoined(subs, n) # subs}
       IN  subs' = IF ~tok THEN subs
                   ELSE [JoinAll(subs, missing) EXCEPT !.acks = @ \cup missing]
    /\ UNCHANGED <<server, inbox, link, copies, req, budget>>

\* Seeded defects: the topic of our nick is taken over without leaving it, or
\* with its acknowledgement, or not at all.
Seize_NoLeave(s, n) == [s EXCEPT !.handler[n] = "none", !.acks = @ \ {n}, !.live = @ \ {n}]
Seize_KeepAck(s, n) == Leave(s, n)
Seize_Yields(s, n) == s

\* A nick we no longer wear is released, if the listener held it.
Release(s, n) ==
    IF s.dm = Nobody \/ s.dm = n THEN s ELSE [Leave(s, s.dm) EXCEPT !.dm = Nobody]

\* The listener wins the topic of our nick from the query loop.
Seize(s, n) == [Leave(s, n) EXCEPT !.acks = IF Joined(s, n) THEN @ \ {n} ELSE @]

Listen(s, n) ==
    LET r == Release(s, n)
    IN  IF Joined(r, n) /\ r.dm = n THEN r
        ELSE LET z == Seize(r, n)
             IN  IF Joined(z, n) THEN z ELSE [Join(z, n, "dm") EXCEPT !.dm = n]

\* The DM-listener loop.
ListenerLoop ==
    /\ "dm" \in due
    /\ due' = due \ {"dm"}
    /\ subs' = IF ~tok \/ net = NoRow THEN subs ELSE Listen(subs, net.nick)
    /\ UNCHANGED <<server, inbox, link, copies, req, budget>>

\* compose's /msg awaits the topic of its target.
SlashMsg(n) ==
    /\ Settled /\ tok /\ Spend("say")
    /\ subs' = EnsureQueryTopicJoined(subs, n)
    /\ UNCHANGED <<server, inbox, link, copies, req, due>>

\* A join, or phoenix's rejoin after a reconnect, is answered.
JoinOk(t) ==
    /\ conn = "open" /\ Joined(subs, t) /\ t \notin subs.live
    /\ subs' = [subs EXCEPT !.live = @ \cup {t}]
    /\ UNCHANGED <<server, inbox, link, copies, req, due, budget>>

-----------------------------------------------------------------------------
(* The server's changes, announced on the user topic.                       *)

\* What an announcement would have told, heard or not.
Announce(es, fact) ==
    IF userLive THEN inbox' = inbox \o es /\ UNCHANGED missed
                ELSE inbox' = inbox /\ missed' = missed \cup fact

SrvNick(n) ==
    /\ Spend("nick") /\ n # srv.nick
    /\ srv' = [srv EXCEPT !.nick = n]
    /\ Announce(<<[ev |-> "nick", of |-> n]>>, {"nick"})
    /\ UNCHANGED <<link, copies, req, due, subs>>

SrvState ==
    /\ Spend("state")
    /\ srv' = [srv EXCEPT !.up = ~@]
    /\ Announce(<<[ev |-> "state"]>>, {"up"})
    /\ UNCHANGED <<link, copies, req, due, subs>>

\* A channel is joined from anywhere.
SrvJoin(c) ==
    /\ Spend("join") /\ c \notin srv.chans
    /\ srv' = [srv EXCEPT !.chans = @ \cup {c}]
    /\ Announce(<<[ev |-> "channels"]>>, {"chans"})
    /\ UNCHANGED <<link, copies, req, due, subs>>

\* Our PART goes out on the channel's topic, the change on the user topic.
SrvPart(c) ==
    /\ Spend("part") /\ c \in srv.chans
    /\ srv' = [srv EXCEPT !.chans = @ \ {c}]
    /\ LET row == IF c \in subs.live THEN <<[ev |-> "part", of |-> c]>> ELSE <<>>
       IN  IF userLive THEN inbox' = inbox \o row \o <<[ev |-> "channels"]>> /\ UNCHANGED missed
                       ELSE inbox' = inbox \o row /\ missed' = missed \cup {"chans"}
    /\ UNCHANGED <<link, copies, req, due, subs>>

\* A query window is opened or closed on some device.
SrvWindow(n) ==
    /\ Spend("window")
    /\ srv' = [srv EXCEPT !.windows = IF n \in @ THEN @ \ {n} ELSE @ \cup {n}]
    /\ Announce(<<[ev |-> "windows", of |-> srv'.windows]>>, {})
    /\ UNCHANGED <<link, copies, req, due, subs>>

\* network_attached, and the account's other reads of GET /me.
SrvAttach ==
    /\ Spend("attach") /\ userLive
    /\ inbox' = Append(inbox, [ev |-> "attached"])
    /\ UNCHANGED <<server, link, copies, req, due, subs>>

\* userTopic's dispatch, and the own-PART arm of a channel's handler.
Receive ==
    /\ Settled /\ inbox # <<>>
    /\ inbox' = Tail(inbox)
    /\ LET e == Head(inbox) IN
       \/ /\ e.ev = "nick" /\ net # NoRow
          /\ net' = [net EXCEPT !.nick = e.of]
          /\ req' = LoadChannels(req, net) /\ due' = Effects
          /\ UNCHANGED <<windows, subs>>
       \/ /\ e.ev = "nick" /\ net = NoRow
          /\ UNCHANGED <<net, req, due, windows, subs>>
       \/ /\ e.ev = "state"
          /\ req' = RefetchNetworks(req) /\ UNCHANGED <<net, due, windows, subs>>
       \/ /\ e.ev = "channels"
          /\ req' = LoadChannels(req, net) /\ UNCHANGED <<net, due, windows, subs>>
       \/ /\ e.ev = "windows"
          /\ windows' = e.of /\ due' = {"query"} /\ UNCHANGED <<net, req, subs>>
       \/ /\ e.ev = "attached"
          /\ req' = RefetchNetworks([req EXCEPT !.user = TRUE])
          /\ UNCHANGED <<net, due, windows, subs>>
       \/ /\ e.ev = "part"
          /\ subs' = Leave(subs, e.of) /\ UNCHANGED <<net, req, due, windows>>
    /\ UNCHANGED <<server, link, chans, budget>>

-----------------------------------------------------------------------------
(* The socket.                                                              *)

\* The facts a lost announcement told of.
Unheard(es) ==
    LET heard(k) == \E i \in 1..Len(es) : es[i].ev = k
    IN  {f \in Facts : \/ f = "nick" /\ heard("nick")
                       \/ f = "up" /\ heard("state")
                       \/ f = "chans" /\ heard("channels")}

\* The connection is gone: nobody is subscribed, what was on its way is lost.
Cut ==
    /\ userLive' = FALSE /\ inbox' = <<>>
    /\ subs' = [subs EXCEPT !.live = {}]
    /\ missed' = missed \cup Unheard(inbox)

\* onOpen: subscribe.ts resyncs on the edge.
Open ==
    /\ Settled /\ conn = "trying" /\ online
    /\ conn' = "open" /\ req' = Resync(req)
    /\ UNCHANGED <<server, inbox, tok, online, userLive, visible, owed, copies, due, subs, budget>>

\* The user topic's join is answered, with the list of query windows.
UserJoinOk ==
    /\ conn = "open" /\ ~userLive
    /\ userLive' = TRUE
    /\ inbox' = Append(inbox, [ev |-> "windows", of |-> srv.windows])
    /\ UNCHANGED <<server, tok, online, conn, visible, owed, copies, req, due, subs, budget>>

\* The socket breaks; phoenix tries again by itself.
Drop ==
    /\ Settled /\ conn = "open" /\ Spend("drop")
    /\ conn' = "trying" /\ Cut
    /\ UNCHANGED <<srv, tok, online, visible, owed, copies, req, due>>

\* haltForOffline: phoenix does not try after a disconnect.
Offline ==
    /\ Settled /\ online /\ Spend("offline")
    /\ online' = FALSE
    /\ conn' = IF conn = "none" THEN "none" ELSE "halted"
    /\ Cut
    /\ UNCHANGED <<srv, tok, visible, owed, copies, req, due>>

\* Seeded defect: only a socket that is still trying is kicked.
KickReconnect_OnlyTrying(c) == c

\* kickReconnect
KickReconnect(c) == IF c = "halted" THEN "trying" ELSE c

Online ==
    /\ Settled /\ ~online
    /\ online' = TRUE /\ conn' = KickReconnect(conn)
    /\ UNCHANGED <<server, inbox, tok, userLive, visible, owed, copies, req, due, subs, budget>>

\* The document leaves; a frozen one hears nothing though its socket is open.
Hide ==
    /\ Settled /\ visible /\ Spend("hide")
    /\ visible' = FALSE /\ owed' = TRUE
    /\ UNCHANGED <<server, inbox, tok, online, conn, userLive, copies, req, due, subs>>

Frozen ==
    /\ ~visible /\ inbox # <<>>
    /\ inbox' = <<>> /\ missed' = missed \cup Unheard(inbox)
    /\ UNCHANGED <<srv, link, copies, req, due, subs, budget>>

\* resumed, and the kick of the visibilitychange listener.
Show ==
    /\ Settled /\ ~visible
    /\ visible' = TRUE /\ owed' = FALSE
    /\ conn' = IF online THEN KickReconnect(conn) ELSE conn
    /\ req' = IF owed THEN Resync(req) ELSE req
    /\ UNCHANGED <<server, inbox, tok, online, userLive, copies, due, subs, budget>>

\* setToken(null): every topic is left, the stores are reset, and a request
\* of the old identity answers to nobody.
SignOut ==
    /\ Settled /\ tok /\ Spend("rotate")
    /\ tok' = FALSE /\ conn' = "none" /\ userLive' = FALSE /\ inbox' = <<>>
    /\ net' = NoRow /\ chans' = {}
    /\ req' = [req EXCEPT !.user = FALSE, !.me = FALSE, !.net = Unasked(NoRow), !.chans = Unasked({}),
                          !.door = IF @ = "own" THEN "lost" ELSE @]
    /\ subs' = NoSubs /\ missed' = Facts
    /\ UNCHANGED <<srv, online, visible, owed, windows, due>>

\* A new socket, connected unless offline, and GET /me.
SignIn ==
    /\ Settled /\ ~tok
    /\ tok' = TRUE
    /\ conn' = IF online THEN "trying" ELSE "halted"
    /\ req' = [req EXCEPT !.user = TRUE]
    /\ UNCHANGED <<server, inbox, online, userLive, visible, owed, copies, due, subs, budget>>

-----------------------------------------------------------------------------

\* A page load of a signed-in client.
Init ==
    /\ srv \in [nick : Nicks, up : {TRUE}, chans : {{}}, windows : {{}}]
    /\ inbox = <<>> /\ missed = Facts
    /\ tok = TRUE /\ online = TRUE /\ conn = "trying" /\ userLive = FALSE
    /\ visible = TRUE /\ owed = FALSE
    /\ net = NoRow /\ chans = {} /\ windows = {}
    /\ req = [user |-> TRUE, me |-> FALSE, net |-> Unasked(NoRow), chans |-> Unasked({}),
              door |-> "idle", pending |-> FALSE]
    /\ due = {} /\ subs = NoSubs
    /\ budget \in Sessions

Loops == ChannelsLoop \/ QueryLoop \/ ListenerLoop
Answers == NetworksRead \/ ChannelsRead \/ NetworksAnswer \/ LostAnswer \/ ChannelsAnswer
           \/ UserAnswer
Joins == UserJoinOk \/ \E t \in Topics : JoinOk(t)

Next ==
    \/ ChannelsLoop \/ QueryLoop \/ ListenerLoop
    \/ NetworksRead \/ ChannelsRead \/ NetworksAnswer \/ LostAnswer
    \/ ChannelsAnswer \/ UserAnswer
    \/ \E n \in Nicks : SlashMsg(n) \/ SrvNick(n) \/ SrvWindow(n)
    \/ \E t \in Topics : JoinOk(t)
    \/ \E c \in Chans : SrvJoin(c) \/ SrvPart(c)
    \/ SrvState \/ SrvAttach \/ Receive
    \/ Open \/ UserJoinOk \/ Drop \/ Offline \/ Online
    \/ Hide \/ Frozen \/ Show \/ SignOut \/ SignIn

\* The loops run in the turn that made them due; phoenix tries again until it
\* is connected and joined; questions are answered, messages delivered.
Fairness ==
    /\ WF_subVars(Loops) /\ WF_subVars(Answers) /\ WF_subVars(Receive)
    /\ WF_subVars(Open) /\ WF_subVars(UserJoinOk)
    /\ \A t \in Topics : WF_subVars(JoinOk(t))

Spec == Init /\ [][Next]_subVars /\ Fairness

-----------------------------------------------------------------------------
(* Properties.                                                              *)

SubTypeOK ==
    /\ srv \in [nick : Nicks, up : BOOLEAN, chans : SUBSET Chans, windows : SUBSET Nicks]
    /\ missed \subseteq Facts /\ due \subseteq Effects
    /\ conn \in {"none", "halted", "trying", "open"}
    /\ {tok, online, userLive, visible, owed} \subseteq BOOLEAN
    /\ net \in [nick : Nicks \cup {Nobody}, up : BOOLEAN]
    /\ chans \subseteq Chans /\ windows \subseteq Nicks
    /\ subs.handler \in [Topics -> {"none", "chan", "dm"}] /\ subs.open \in [Topics -> Nat]
    /\ subs.dm \in Nicks \cup {Nobody} /\ subs.acks \subseteq Nicks /\ subs.live \subseteq Topics

\* Once the loops have run, in whatever order, the listener is on the topic of
\* our nick: no rename, no window opened under an earlier nick takes it away.
\* And it is on no other, at any time: a nick we gave up, which a peer may take,
\* is not answered by a handler that files every row under its sender.
ListenerIsOurs ==
    /\ Settled /\ tok /\ net # NoRow => subs.handler[net.nick] = "dm" /\ subs.dm = net.nick
    /\ \A t \in Topics : subs.handler[t] = "dm" => subs.dm = t

\* No topic has two handlers, and none that nothing remembers: a row is filed
\* once.
OneHandler == \A t \in Topics : subs.open[t] = IF Joined(subs, t) THEN 1 ELSE 0

\* What /msg takes for the acknowledgement of a join is that of a topic the
\* window's own handler is on: a target is never left unjoined for good
\* because it was joined once.
AckMeansJoined == \A n \in subs.acks : subs.handler[n] = "chan"

Quiet ==
    /\ Settled /\ tok /\ net # NoRow /\ inbox = <<>>
    /\ req.net.at = "none" /\ req.chans.at = "none" /\ req.door = "idle" /\ ~req.user

\* Once everything is answered and delivered, the client has every change of
\* the connection and of the channels that was announced to it, or that came
\* before the last answer was read: no refetch is lost in another's flight.
HeardIsApplied ==
    Quiet => /\ "up" \notin missed => net.up = srv.up
             /\ "chans" \notin missed => chans = srv.chans

\* While we are signed in and online the socket comes back, after whatever
\* drops, offline spells and changes of identity.
SocketComesBack == <>[](tok /\ online) => <>[](conn = "open")

\* A channel we stay in, and whose coming was announced or read, ends up
\* subscribed.
JoinedChannelIsHeard ==
    \A c \in Chans :
        <>[](tok /\ online /\ c \in srv.chans /\ "chans" \notin missed) => <>[](c \in subs.live)

\* What subscribe.ts says of a topic taken over by the listener, and the program
\* does not keep: once our nick has moved on, "the query-windows effect
\* re-acquires the key with its own handler", so that every open query window
\* is subscribed. It does not when it runs before the listener has let go.
WindowIsHeard == Quiet => \A n \in windows \ {net.nick} : subs.handler[n] = "chan"

=============================================================================
