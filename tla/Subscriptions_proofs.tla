------------------------ MODULE Subscriptions_proofs ------------------------
(***************************************************************************)
(* The subscriptions of one network, for any nicks, channels and numbers   *)
(* of disturbances: the listener is on our own nick and on no other, no    *)
(* topic has two handlers, and an acknowledgement is that of a handler.    *)
(***************************************************************************)
EXTENDS Subscriptions, SequenceTheorems, TLAPS

Events ==
    [ev : {"state", "channels", "attached"}]
    \cup [ev : {"nick"}, of : Nicks]
    \cup [ev : {"part"}, of : Chans]
    \cup [ev : {"windows"}, of : SUBSET Nicks]

Rows == [nick : Nicks \cup {Nobody}, up : BOOLEAN]
Stages == {"none", "asked", "read"}
Questions ==
    [user : BOOLEAN, me : BOOLEAN, net : [at : Stages, val : Rows],
     chans : [at : Stages, val : SUBSET Chans], door : {"idle", "own", "lost"},
     pending : BOOLEAN]

Tables == [handler : [Topics -> {"none", "chan", "dm"}], open : [Topics -> Nat],
           dm : Nicks \cup {Nobody}, acks : SUBSET Nicks, live : SUBSET Topics]

\* What SubTypeOK says of everything but the topics.
Typed ==
    /\ srv \in [nick : Nicks, up : BOOLEAN, chans : SUBSET Chans, windows : SUBSET Nicks]
    /\ missed \subseteq Facts /\ due \subseteq Effects
    /\ conn \in {"none", "halted", "trying", "open"}
    /\ {tok, online, userLive, visible, owed} \subseteq BOOLEAN
    /\ net \in Rows /\ chans \subseteq Chans /\ windows \subseteq Nicks

\* A request is of its kind, and a row that is answered is the server's.
Asking(r) == r \in Questions /\ (r.net.at = "read" => r.net.val.nick \in Nicks)
WireOK == inbox \in Seq(Events) /\ Asking(req) /\ (net = NoRow \/ net.nick \in Nicks)

\* Nothing is asked of the networks.
Mute(r) == ~r.user /\ ~r.me /\ r.net.at = "none"

\* Signed out, nothing is known, asked or heard: the next row finds every loop
\* due.
OutIsOut ==
    ~tok => /\ net = NoRow /\ conn = "none" /\ ~userLive /\ inbox = <<>>
            /\ Mute(req) /\ subs.live = {}

\* The handlers of the topics: one each, an acknowledged window's its own, the
\* listener's where the listener says it is.
Consistent(s) ==
    /\ s \in Tables
    /\ \A t \in Topics : s.open[t] = IF Joined(s, t) THEN 1 ELSE 0
    /\ \A n \in s.acks : s.handler[n] = "chan"
    /\ \A t \in Topics : s.handler[t] = "dm" <=> s.dm = t

\* The listener is due, or on our nick.
Listening ==
    tok /\ net # NoRow /\ "dm" \notin due =>
        subs.handler[net.nick] = "dm" /\ subs.dm = net.nick

SubInv == Typed /\ WireOK /\ OutIsOut /\ Consistent(subs) /\ Listening

-----------------------------------------------------------------------------
(* The tables.                                                             *)

\* What a join and a leave make of each table.
LEMMA JoinFields ==
    ASSUME NEW s, s \in Tables, NEW t \in Topics, NEW h, h \in {"chan", "dm"}
    PROVE  /\ Join(s, t, h) \in Tables
           /\ Join(s, t, h).handler = [s.handler EXCEPT ![t] = h]
           /\ Join(s, t, h).open = [s.open EXCEPT ![t] = @ + 1]
           /\ Join(s, t, h).dm = s.dm /\ Join(s, t, h).acks = s.acks
<1>. DEFINE a == [s EXCEPT !.handler = [s.handler EXCEPT ![t] = h]]
            b == [a EXCEPT !.open = [a.open EXCEPT ![t] = a.open[t] + 1]]
            c == [b EXCEPT !.live = b.live \ {t}]
<1>1. /\ a \in Tables /\ a.handler = [s.handler EXCEPT ![t] = h]
      /\ a.open = s.open /\ a.dm = s.dm /\ a.acks = s.acks
  BY DEF Tables
<1>2. /\ b \in Tables /\ b.handler = a.handler
      /\ b.open = [a.open EXCEPT ![t] = a.open[t] + 1] /\ b.dm = a.dm /\ b.acks = a.acks
  <2>. HIDE DEF a
  <2>. QED
    BY <1>1 DEF Tables
<1>3. c \in Tables /\ c.handler = b.handler /\ c.open = b.open /\ c.dm = b.dm /\ c.acks = b.acks
  <2>. HIDE DEF b
  <2>. QED
    BY <1>2 DEF Tables
<1>4. Join(s, t, h) = c
  BY DEF Join
<1>. HIDE DEF a, b, c
<1>. QED
  BY <1>1, <1>2, <1>3, <1>4

LEMMA LeaveFields ==
    ASSUME NEW s, Consistent(s), NEW t \in Topics, Joined(s, t)
    PROVE  /\ Leave(s, t) \in Tables
           /\ Leave(s, t).handler = [s.handler EXCEPT ![t] = "none"]
           /\ Leave(s, t).open = [s.open EXCEPT ![t] = @ - 1]
           /\ Leave(s, t).dm = s.dm /\ Leave(s, t).acks = s.acks
           /\ Leave(s, t).live \subseteq Topics
<1>. DEFINE hs == [s.handler EXCEPT ![t] = "none"]
            os == [s.open EXCEPT ![t] = @ - 1]
            ls == s.live \ {t}
<1>1. /\ s = [handler |-> s.handler, open |-> s.open, dm |-> s.dm, acks |-> s.acks,
              live |-> s.live]
      /\ s.handler \in [Topics -> {"none", "chan", "dm"}] /\ s.open \in [Topics -> Nat]
      /\ s.dm \in Nicks \cup {Nobody} /\ s.acks \subseteq Nicks /\ s.live \subseteq Topics
  BY DEF Tables, Consistent
<1>2. s.open[t] = 1
  BY DEF Consistent
<1>3. /\ hs \in [Topics -> {"none", "chan", "dm"}] /\ os \in [Topics -> Nat]
      /\ ls \subseteq Topics
  BY <1>1, <1>2
<1>4. Leave(s, t) = [handler |-> hs, open |-> os, dm |-> s.dm, acks |-> s.acks,
                     live |-> ls]
  BY <1>1 DEF Leave
<1>. HIDE DEF hs, os, ls
<1>5. Leave(s, t) \in Tables
  BY <1>1, <1>3, <1>4 DEF Tables
<1>. QED
  BY <1>3, <1>4, <1>5 DEF hs, os

\* Joining a topic nobody is on, as a window, keeps the tables consistent.
LEMMA JoinChan ==
    ASSUME NEW s, Consistent(s), NEW t \in Topics, ~Joined(s, t)
    PROVE  /\ Consistent(Join(s, t, "chan")) /\ Join(s, t, "chan").dm = s.dm
           /\ Join(s, t, "chan").handler = [s.handler EXCEPT ![t] = "chan"]
<1>. DEFINE j == Join(s, t, "chan")
<1>1. s \in Tables /\ s.handler \in [Topics -> {"none", "chan", "dm"}] /\ s.open \in [Topics -> Nat]
  BY DEF Consistent, Tables
<1>2. /\ j \in Tables /\ j.handler = [s.handler EXCEPT ![t] = "chan"]
      /\ j.open = [s.open EXCEPT ![t] = @ + 1] /\ j.dm = s.dm /\ j.acks = s.acks
  BY <1>1, JoinFields
<1>. HIDE DEF j
<1>3. s.handler[t] = "none" /\ s.open[t] = 0
  BY DEF Consistent, Joined
<1>4. \A n \in j.acks : j.handler[n] = "chan"
  BY <1>1, <1>2, <1>3 DEF Consistent, Tables, Topics
<1>5. Consistent(j)
  BY <1>1, <1>2, <1>3, <1>4 DEF Consistent, Joined
<1>. QED
  BY <1>2, <1>5 DEF j

\* So does joining as the listener, when there is none.
LEMMA JoinListener ==
    ASSUME NEW s, Consistent(s), s.dm = Nobody, NEW n \in Nicks, ~Joined(s, n)
    PROVE  LET j == [Join(s, n, "dm") EXCEPT !.dm = n]
           IN  Consistent(j) /\ j.handler[n] = "dm" /\ j.dm = n
<1>. DEFINE i == Join(s, n, "dm")
            j == [i EXCEPT !.dm = n]
<1>1. /\ s \in Tables /\ s.handler \in [Topics -> {"none", "chan", "dm"}]
      /\ s.open \in [Topics -> Nat] /\ n \in Topics /\ Nobody \notin Topics
  BY SubscriptionsAssumption DEF Consistent, Tables, Topics
<1>2. /\ i \in Tables /\ i.handler = [s.handler EXCEPT ![n] = "dm"]
      /\ i.open = [s.open EXCEPT ![n] = @ + 1] /\ i.acks = s.acks
  BY <1>1, JoinFields
<1>. HIDE DEF i
<1>3. /\ j \in Tables /\ j.handler = [s.handler EXCEPT ![n] = "dm"]
      /\ j.open = [s.open EXCEPT ![n] = @ + 1] /\ j.acks = s.acks /\ j.dm = n
  BY <1>2 DEF Tables
<1>. HIDE DEF j
<1>4. s.handler[n] = "none" /\ s.open[n] = 0
  BY <1>1 DEF Consistent, Joined
<1>5. \A t \in Topics : s.handler[t] # "dm"
  BY <1>1 DEF Consistent
<1>6. \A m \in j.acks : j.handler[m] = "chan"
  BY <1>1, <1>3, <1>4 DEF Consistent, Tables, Topics
<1>7. Consistent(j)
  BY <1>1, <1>3, <1>4, <1>5, <1>6 DEF Consistent, Joined
<1>8. j.handler[n] = "dm" /\ j.dm = n
  BY <1>1, <1>3
<1>. QED
  BY <1>7, <1>8 DEF i, j

\* Leaving a topic that is neither the listener's nor acknowledged.
LEMMA LeaveOK ==
    ASSUME NEW s, Consistent(s), NEW t \in Topics, s.dm # t, t \notin s.acks
    PROVE  /\ Consistent(Leave(s, t)) /\ ~Joined(Leave(s, t), t)
           /\ Leave(s, t).dm = s.dm /\ Leave(s, t).acks = s.acks
           /\ \A u \in Topics \ {t} : Leave(s, t).handler[u] = s.handler[u]
<1>1. CASE ~Joined(s, t)
  BY <1>1 DEF Leave
<1>2. CASE Joined(s, t)
  <2>. DEFINE l == Leave(s, t)
  <2>1. /\ l \in Tables /\ l.handler = [s.handler EXCEPT ![t] = "none"]
        /\ l.open = [s.open EXCEPT ![t] = @ - 1] /\ l.dm = s.dm /\ l.acks = s.acks
    BY <1>2, LeaveFields
  <2>. HIDE DEF l
  <2>2. s.handler \in [Topics -> {"none", "chan", "dm"}] /\ s.open \in [Topics -> Nat]
    BY DEF Consistent, Tables
  <2>3. s.open[t] = 1 /\ s.handler[t] # "none"
    BY <1>2 DEF Consistent, Joined
  <2>4. \A n \in l.acks : l.handler[n] = "chan"
    BY <2>1, <2>2 DEF Consistent, Tables, Topics
  <2>5. Consistent(l)
    BY <2>1, <2>2, <2>3, <2>4 DEF Consistent, Joined
  <2>. QED
    BY <2>1, <2>2, <2>5 DEF l, Joined
<1>. QED
  BY <1>1, <1>2

\* Joining several topics at once, none of which is joined.
LEMMA JoinAllOK ==
    ASSUME NEW s, Consistent(s), NEW ts \in SUBSET Topics, \A t \in ts : ~Joined(s, t)
    PROVE  /\ Consistent(JoinAll(s, ts)) /\ JoinAll(s, ts).dm = s.dm
           /\ JoinAll(s, ts).acks = s.acks
           /\ \A t \in ts : JoinAll(s, ts).handler[t] = "chan"
           /\ \A t \in Topics \ ts : JoinAll(s, ts).handler[t] = s.handler[t]
<1>. DEFINE hs == [t \in Topics |-> IF t \in ts THEN "chan" ELSE s.handler[t]]
            os == [t \in Topics |-> IF t \in ts THEN s.open[t] + 1 ELSE s.open[t]]
            i == [s EXCEPT !.handler = hs]
            j == [i EXCEPT !.open = os]
<1>1. s \in Tables /\ s.acks \subseteq Nicks
  BY DEF Tables, Consistent
<1>2. hs \in [Topics -> {"none", "chan", "dm"}] /\ os \in [Topics -> Nat]
  BY <1>1 DEF Tables
<1>3. JoinAll(s, ts) = j
  BY DEF JoinAll
<1>. HIDE DEF hs, os
<1>4. i \in Tables /\ i.handler = hs /\ i.dm = s.dm /\ i.acks = s.acks
  BY <1>1, <1>2 DEF Tables
<1>. HIDE DEF i
<1>6. j \in Tables /\ j.handler = hs /\ j.open = os /\ j.dm = s.dm /\ j.acks = s.acks
  BY <1>2, <1>4 DEF Tables
<1>. HIDE DEF j
<1>5. /\ \A t \in Topics : hs[t] = IF t \in ts THEN "chan" ELSE s.handler[t]
      /\ \A t \in Topics : os[t] = IF t \in ts THEN s.open[t] + 1 ELSE s.open[t]
  BY DEF hs, os
<1>7. \A t \in ts : s.handler[t] = "none" /\ s.open[t] = 0
  BY DEF Consistent, Joined
<1>8. \A t \in Topics : j.open[t] = IF Joined(j, t) THEN 1 ELSE 0
  BY <1>5, <1>6, <1>7 DEF Consistent, Joined
<1>9. \A n \in j.acks : j.handler[n] = "chan"
  BY <1>1, <1>5, <1>6 DEF Consistent, Topics
<1>10. \A t \in Topics : j.handler[t] = "dm" <=> j.dm = t
  BY <1>5, <1>6, <1>7 DEF Consistent
<1>11. Consistent(j)
  BY <1>6, <1>8, <1>9, <1>10 DEF Consistent
<1>. QED
  BY <1>3, <1>5, <1>6, <1>11

\* The handlers, whatever is acknowledged of them.
LEMMA AcksOK ==
    ASSUME NEW s, Consistent(s), NEW a \in SUBSET Nicks, \A n \in a : s.handler[n] = "chan"
    PROVE  /\ Consistent([s EXCEPT !.acks = a]) /\ [s EXCEPT !.acks = a].dm = s.dm
           /\ [s EXCEPT !.acks = a].acks = a /\ [s EXCEPT !.acks = a].handler = s.handler
<1>. DEFINE x == [s EXCEPT !.acks = a]
<1>1. s \in Tables
  BY DEF Consistent
<1>2. /\ x \in Tables /\ x.handler = s.handler /\ x.open = s.open /\ x.dm = s.dm
      /\ x.acks = a
  BY <1>1 DEF Tables
<1>. HIDE DEF x
<1>3. Consistent(x)
  BY <1>2 DEF Consistent, Joined
<1>. QED
  BY <1>2, <1>3 DEF x

\* The handlers, whatever is joined for good of them.
LEMMA LiveOK ==
    ASSUME NEW s, Consistent(s), NEW l \in SUBSET Topics
    PROVE  /\ Consistent([s EXCEPT !.live = l]) /\ [s EXCEPT !.live = l].dm = s.dm
           /\ [s EXCEPT !.live = l].handler = s.handler
<1>. DEFINE y == [s EXCEPT !.live = l]
<1>1. s \in Tables
  BY DEF Consistent
<1>2. /\ y \in Tables /\ y.handler = s.handler /\ y.open = s.open /\ y.dm = s.dm
      /\ y.acks = s.acks
  BY <1>1 DEF Tables
<1>. HIDE DEF y
<1>3. Consistent(y)
  BY <1>2 DEF Consistent, Joined
<1>. QED
  BY <1>2, <1>3 DEF y

LEMMA NoSubsOK == Consistent(NoSubs)
BY SubscriptionsAssumption DEF Consistent, Tables, NoSubs, Joined, Topics

\* A nick that is given up leaves no listener behind.
LEMMA ReleaseOK ==
    ASSUME NEW s, Consistent(s), NEW n \in Nicks
    PROVE  /\ Consistent(Release(s, n))
           /\ Release(s, n).dm = IF s.dm = n THEN n ELSE Nobody
<1>1. CASE s.dm = Nobody \/ s.dm = n
  BY <1>1 DEF Release
<1>2. CASE s.dm # Nobody /\ s.dm # n
  <2>1. s.dm \in Nicks /\ s.dm \in Topics /\ s.handler[s.dm] = "dm"
    BY <1>2 DEF Consistent, Tables, Topics
  <2>. DEFINE m == s.dm
  <2>. DEFINE l == Leave(s, m)
              z == [l EXCEPT !.dm = Nobody]
  <2>2. /\ l \in Tables /\ l.handler = [s.handler EXCEPT ![m] = "none"]
        /\ l.open = [s.open EXCEPT ![m] = @ - 1] /\ l.acks = s.acks
    BY <2>1, LeaveFields DEF Joined
  <2>. HIDE DEF l
  <2>3. /\ z \in Tables /\ z.handler = [s.handler EXCEPT ![m] = "none"]
        /\ z.open = [s.open EXCEPT ![m] = @ - 1] /\ z.acks = s.acks /\ z.dm = Nobody
    BY <2>2 DEF Tables
  <2>. HIDE DEF z
  <2>4. s.handler \in [Topics -> {"none", "chan", "dm"}] /\ s.open \in [Topics -> Nat]
    BY DEF Consistent, Tables
  <2>5. m \notin s.acks /\ s.open[m] = 1
    BY <2>1 DEF Consistent, Joined
  <2>6. \A k \in z.acks : z.handler[k] = "chan"
    BY <2>3, <2>4, <2>5 DEF Consistent, Tables, Topics
  <2>7. \A t \in Topics : z.handler[t] # "dm" /\ z.dm # t
    BY <2>3, <2>4, SubscriptionsAssumption DEF Consistent
  <2>8. Consistent(z)
    BY <2>1, <2>3, <2>4, <2>5, <2>6, <2>7 DEF Consistent, Joined
  <2>9. Release(s, n) = z
    BY <1>2 DEF Release, l, z
  <2>. QED
    BY <1>2, <2>3, <2>8, <2>9
<1>. QED
  BY <1>1, <1>2

\* The listener ends up on our nick, whoever held its topic.
LEMMA ListenOK ==
    ASSUME NEW s, Consistent(s), NEW n \in Nicks
    PROVE  /\ Consistent(Listen(s, n))
           /\ Listen(s, n).handler[n] = "dm" /\ Listen(s, n).dm = n
<1>. DEFINE r == Release(s, n)
            z == Seize(r, n)
<1>1. Consistent(r) /\ r.dm = IF s.dm = n THEN n ELSE Nobody
  BY ReleaseOK
<1>. HIDE DEF r
<1>2. n \in Topics
  BY DEF Topics
<1>3. CASE r.dm = n
  <2>1. r.handler[n] = "dm"
    BY <1>1, <1>2, <1>3 DEF Consistent
  <2>2. Listen(s, n) = r
    BY <1>3, <2>1 DEF Listen, Joined, r
  <2>. QED
    BY <1>1, <1>3, <2>1, <2>2
<1>4. CASE r.dm = Nobody
  <2>1. r.dm # n /\ Nobody # n
    BY <1>2, <1>4, SubscriptionsAssumption
  <2>. DEFINE q == [r EXCEPT !.acks = IF Joined(r, n) THEN @ \ {n} ELSE @]
  <2>2. Consistent(q) /\ n \notin q.acks /\ q.dm = Nobody /\ q.handler = r.handler
    <3>. DEFINE a == IF Joined(r, n) THEN r.acks \ {n} ELSE r.acks
    <3>1. a \in SUBSET Nicks /\ (\A k \in a : r.handler[k] = "chan") /\ n \notin a
      BY <1>1 DEF Consistent, Tables, Joined
    <3>2. r.acks = r.acks /\ q = [r EXCEPT !.acks = a]
      OBVIOUS
    <3>. HIDE DEF a, q
    <3>. QED
      BY <1>1, <1>4, <3>1, <3>2, AcksOK
  <2>3. z = Leave(q, n)
    BY <1>1 DEF Seize, Leave, Joined, Consistent, Tables
  <2>. HIDE DEF q
  <2>4. Consistent(z) /\ ~Joined(z, n) /\ z.dm = Nobody
    BY <1>2, <2>1, <2>2, <2>3, LeaveOK
  <2>. HIDE DEF z
  <2>5. Listen(s, n) = [Join(z, n, "dm") EXCEPT !.dm = n]
    BY <2>1, <2>4 DEF Listen, r, z
  <2>. QED
    BY <2>4, <2>5, JoinListener
<1>. QED
  BY <1>1, <1>3, <1>4

-----------------------------------------------------------------------------
(* Requests and announcements.                                             *)

\* Every operation on the requests keeps them of their kind, and one that the
\* account has not loaded for asks nothing of the networks.
LEMMA LoadNetworksOK ==
    ASSUME NEW r, Asking(r)
    PROVE  Asking(LoadNetworks(r))
<1>. DEFINE n == [r EXCEPT !.net = Asked(NoRow)]
<1>1. n \in Questions /\ n.net = Asked(NoRow)
  BY DEF Asking, Questions, Asked, NoRow, Rows, Stages
<1>. HIDE DEF n
<1>2. LoadNetworks(r) = [n EXCEPT !.door = IF @ = "own" THEN "lost" ELSE @]
  BY DEF LoadNetworks, n
<1>3. LoadNetworks(r) \in Questions /\ LoadNetworks(r).net = n.net
  BY <1>1, <1>2 DEF Questions
<1>. QED
  BY <1>1, <1>3 DEF Asking, Asked

LEMMA LoadChannelsOK ==
    ASSUME NEW r, Asking(r), NEW row
    PROVE  Asking(LoadChannels(r, row)) /\ (Mute(r) => Mute(LoadChannels(r, row)))
<1>. DEFINE c == [r EXCEPT !.chans = Asked({})]
<1>1. c \in Questions /\ c.net = r.net /\ c.user = r.user /\ c.me = r.me
  BY DEF Asking, Questions, Asked, Stages
<1>. QED
  BY <1>1 DEF LoadChannels, Asking, Mute

LEMMA PendingOK ==
    ASSUME NEW r, Asking(r), NEW b \in BOOLEAN
    PROVE  LET p == [r EXCEPT !.pending = b]
           IN  Asking(p) /\ (Mute(r) => Mute(p)) /\ p.me = r.me /\ p.net = r.net
BY DEF Asking, Questions, Mute

LEMMA DoorOK ==
    ASSUME NEW r, Asking(r), NEW d \in {"idle", "own", "lost"}
    PROVE  LET p == [r EXCEPT !.door = d]
           IN  Asking(p) /\ (Mute(r) => Mute(p)) /\ p.me = r.me /\ p.net = r.net
BY DEF Asking, Questions, Mute

\* The latest load of the networks.
LEMMA NetOK ==
    ASSUME NEW r, Asking(r), NEW q \in [at : Stages, val : Rows],
           q.at = "read" => q.val.nick \in Nicks
    PROVE  LET p == [r EXCEPT !.net = q]
           IN  Asking(p) /\ (~r.user /\ ~r.me /\ q.at = "none" => Mute(p)) /\ p.me = r.me
BY DEF Asking, Questions, Mute

LEMMA AskedOK == Asked(NoRow) \in [at : Stages, val : Rows] /\ Asked(NoRow).at # "read"
                 /\ Unasked(NoRow) \in [at : Stages, val : Rows] /\ Unasked(NoRow).at = "none"
BY DEF Asked, Unasked, NoRow, Rows, Stages

LEMMA RefetchOK ==
    ASSUME NEW r, Asking(r)
    PROVE  Asking(RefetchNetworks(r)) /\ (Mute(r) => Mute(RefetchNetworks(r)))
<1>1. CASE r.door # "idle"
  BY <1>1, PendingOK DEF RefetchNetworks
<1>2. CASE r.door = "idle" /\ r.me
  <2>. DEFINE n == [r EXCEPT !.net = Asked(NoRow)]
  <2>1. Asking(n)
    BY AskedOK, NetOK
  <2>2. RefetchNetworks(r) = [n EXCEPT !.door = "own"]
    BY <1>2 DEF RefetchNetworks
  <2>. HIDE DEF n
  <2>3. Asking(RefetchNetworks(r))
    BY <2>1, <2>2, DoorOK
  <2>. QED
    BY <1>2, <2>3 DEF Mute
<1>3. CASE r.door = "idle" /\ ~r.me
  BY <1>3 DEF RefetchNetworks, Asking, Questions
<1>. QED
  BY <1>1, <1>2, <1>3 DEF Asking, Questions

LEMMA DoorEndsOK ==
    ASSUME NEW r, Asking(r)
    PROVE  Asking(DoorEnds(r)) /\ (Mute(r) => Mute(DoorEnds(r)))
<1>1. CASE r.pending /\ r.me
  <2>. DEFINE n == [r EXCEPT !.net = Asked(NoRow)]
              d == [n EXCEPT !.door = "own"]
  <2>1. Asking(n)
    BY AskedOK, NetOK
  <2>2. DoorEnds(r) = [d EXCEPT !.pending = FALSE]
    BY <1>1 DEF DoorEnds
  <2>. HIDE DEF n
  <2>3. Asking(d)
    BY <2>1, DoorOK
  <2>. HIDE DEF d
  <2>4. Asking(DoorEnds(r))
    BY <2>2, <2>3, PendingOK
  <2>. QED
    BY <1>1, <2>4 DEF Mute
<1>2. CASE ~(r.pending /\ r.me)
  <2>. DEFINE d == [r EXCEPT !.door = "idle"]
  <2>1. Asking(d) /\ (Mute(r) => Mute(d))
    BY DoorOK
  <2>2. DoorEnds(r) = [d EXCEPT !.pending = FALSE]
    BY <1>2 DEF DoorEnds
  <2>. HIDE DEF d
  <2>. QED
    BY <2>1, <2>2, PendingOK
<1>. QED
  BY <1>1, <1>2

LEMMA ResyncOK ==
    ASSUME NEW r, Asking(r)
    PROVE  Asking(Resync(r)) /\ (Mute(r) => Mute(Resync(r)))
BY RefetchOK, LoadChannelsOK DEF Resync

\* What is announced goes onto the wire, or is missed.
LEMMA AnnounceOK ==
    ASSUME Typed, WireOK, NEW es \in Seq(Events), NEW f \in SUBSET Facts, Announce(es, f)
    PROVE  inbox' \in Seq(Events) /\ missed' \subseteq Facts /\ (~userLive => inbox' = inbox)
<1>1. inbox \in Seq(Events) /\ missed \subseteq Facts
  BY DEF Typed, WireOK
<1>2. inbox \o es \in Seq(Events)
  BY <1>1, ConcatProperties
<1>3. CASE userLive
  BY <1>1, <1>2, <1>3 DEF Announce
<1>4. CASE ~userLive
  BY <1>1, <1>4 DEF Announce
<1>. QED
  BY <1>3, <1>4

LEMMA OneEvent == \A e \in Events : <<e>> \in Seq(Events)
OBVIOUS

LEMMA CutOK ==
    ASSUME Typed, Consistent(subs), Cut
    PROVE  /\ ~userLive' /\ userLive' \in BOOLEAN /\ inbox' = <<>> /\ inbox' \in Seq(Events)
           /\ missed' \subseteq Facts
           /\ Consistent(subs') /\ subs'.dm = subs.dm /\ subs'.handler = subs.handler
<1>1. Unheard(inbox) \subseteq Facts
  BY DEF Unheard
<1>2. missed \cup Unheard(inbox) \subseteq Facts
  BY <1>1 DEF Typed
<1>3. Consistent(subs') /\ subs'.dm = subs.dm /\ subs'.handler = subs.handler
  BY LiveOK DEF Cut
<1>4. <<>> \in Seq(Events)
  OBVIOUS
<1>. QED
  BY <1>2, <1>3, <1>4 DEF Cut

-----------------------------------------------------------------------------
(* The steps.                                                              *)

LEMMA InitOK == Init => SubInv
<1>. SUFFICES ASSUME Init PROVE SubInv
  OBVIOUS
<1>1. Typed
  BY DEF Init, Typed, Rows, NoRow, Facts
<1>2. <<>> \in Seq(Events) /\ net = NoRow
  BY DEF Init
<1>3. Asking(req)
  BY DEF Init, Asking, Questions, Unasked, NoRow, Rows, Stages
<1>4. Consistent(subs) /\ OutIsOut /\ Listening
  BY NoSubsOK DEF Init, OutIsOut, Listening
<1>. QED
  BY <1>1, <1>2, <1>3, <1>4 DEF SubInv, WireOK, Init

\* The answers.
LEMMA NetworksReadOK == SubInv /\ NetworksRead => SubInv'
<1>. SUFFICES ASSUME SubInv, NetworksRead PROVE SubInv'
  OBVIOUS
<1>. USE DEF NetworksRead, server, link, copies
<1>. DEFINE q == Read([nick |-> srv.nick, up |-> srv.up])
<1>1. q \in [at : Stages, val : Rows] /\ q.val.nick \in Nicks
  BY DEF Read, SubInv, Typed, Rows, Stages
<1>2. req' = [req EXCEPT !.net = q]
  OBVIOUS
<1>. HIDE DEF q
<1>3. Asking(req')
  BY <1>1, <1>2, NetOK DEF SubInv, WireOK
<1>4. Typed'
  BY DEF SubInv, Typed
<1>5. tok
  BY DEF SubInv, OutIsOut, Mute, Typed
<1>6. OutIsOut' /\ Listening' /\ Consistent(subs')
  BY <1>5 DEF SubInv, OutIsOut, Listening
<1>. QED
  BY <1>3, <1>4, <1>6 DEF SubInv, WireOK

LEMMA ChannelsReadOK == SubInv /\ ChannelsRead => SubInv'
<1>. SUFFICES ASSUME SubInv, ChannelsRead PROVE SubInv'
  OBVIOUS
<1>. USE DEF ChannelsRead, server, link, copies
<1>1. Asking(req') /\ (Mute(req) => Mute(req'))
  BY DEF SubInv, WireOK, Asking, Questions, Mute, Read, Stages, Typed
<1>2. Typed'
  BY DEF SubInv, Typed
<1>. QED
  BY <1>1, <1>2 DEF SubInv, WireOK, OutIsOut, Listening

LEMMA NetworksAnswerOK == SubInv /\ NetworksAnswer => SubInv'
<1>. SUFFICES ASSUME SubInv, NetworksAnswer PROVE SubInv'
  OBVIOUS
<1>. USE DEF NetworksAnswer, server, link
<1>. DEFINE u == [req EXCEPT !.net = Unasked(NoRow)]
            r == LoadChannels(u, net')
<1>1. Asking(u)
  BY AskedOK, NetOK DEF SubInv, WireOK
<1>2. Asking(r)
  BY <1>1, LoadChannelsOK
<1>3. req' = IF r.door = "own" THEN DoorEnds(r) ELSE r
  OBVIOUS
<1>. HIDE DEF u, r
<1>4. Asking(req')
  BY <1>2, <1>3, DoorEndsOK
<1>5. net' \in Rows /\ net'.nick \in Nicks
  BY DEF SubInv, WireOK, Asking, Questions
<1>6. Typed'
  BY <1>5 DEF SubInv, Typed, Effects
<1>7. tok
  BY DEF SubInv, OutIsOut, Mute, Typed
<1>8. "dm" \in due'
  BY DEF Effects
<1>. QED
  BY <1>4, <1>5, <1>6, <1>7, <1>8 DEF SubInv, WireOK, OutIsOut, Listening

LEMMA LostAnswerOK == SubInv /\ LostAnswer => SubInv'
<1>. SUFFICES ASSUME SubInv, LostAnswer PROVE SubInv'
  OBVIOUS
<1>. USE DEF LostAnswer, server, link, copies
<1>1. Asking(req') /\ (Mute(req) => Mute(req'))
  BY DoorEndsOK DEF SubInv, WireOK
<1>2. Typed'
  BY DEF SubInv, Typed
<1>. QED
  BY <1>1, <1>2 DEF SubInv, WireOK, OutIsOut, Listening

LEMMA ChannelsAnswerOK == SubInv /\ ChannelsAnswer => SubInv'
<1>. SUFFICES ASSUME SubInv, ChannelsAnswer PROVE SubInv'
  OBVIOUS
<1>. USE DEF ChannelsAnswer, server, link
<1>1. Asking(req') /\ (Mute(req) => Mute(req')) /\ req.chans.val \subseteq Chans
  BY DEF SubInv, WireOK, Asking, Questions, Mute, Unasked, Stages
<1>2. Typed'
  BY <1>1 DEF SubInv, Typed, Effects
<1>. QED
  BY <1>1, <1>2 DEF SubInv, WireOK, OutIsOut, Listening, Settled

LEMMA UserAnswerOK == SubInv /\ UserAnswer => SubInv'
<1>. SUFFICES ASSUME SubInv, UserAnswer PROVE SubInv'
  OBVIOUS
<1>. USE DEF UserAnswer, server, link, copies
<1>. DEFINE u == [req EXCEPT !.user = FALSE]
            m == [u EXCEPT !.me = TRUE]
<1>1. Asking(u)
  BY DEF SubInv, WireOK, Asking, Questions
<1>. HIDE DEF u
<1>2. Asking(m)
  BY <1>1 DEF Asking, Questions
<1>3. req' = LoadNetworks(m)
  BY DEF u
<1>. HIDE DEF m
<1>4. Asking(req')
  BY <1>2, <1>3, LoadNetworksOK
<1>5. Typed'
  BY DEF SubInv, Typed
<1>6. tok
  BY DEF SubInv, OutIsOut, Mute, Typed
<1>. QED
  BY <1>4, <1>5, <1>6 DEF SubInv, WireOK, OutIsOut, Listening

\* The loops, /msg and the answers to joins.
LEMMA ChannelsLoopOK == SubInv /\ ChannelsLoop => SubInv'
<1>. SUFFICES ASSUME SubInv, ChannelsLoop PROVE SubInv'
  OBVIOUS
<1>. USE DEF ChannelsLoop, server, link, copies
<1>. DEFINE ts == {c \in chans : ~Joined(subs, c)}
<1>1. ts \subseteq Topics /\ \A t \in ts : ~Joined(subs, t)
  BY DEF SubInv, Typed, Topics
<1>2. ts \subseteq Chans
  BY DEF SubInv, Typed
<1>3. subs' = subs \/ subs' = JoinAll(subs, ts)
  OBVIOUS
<1>. HIDE DEF ts
<1>4. /\ Consistent(subs') /\ subs'.dm = subs.dm
      /\ \A n \in Nicks : subs'.handler[n] = subs.handler[n]
  <2>1. Consistent(subs) /\ \A n \in Nicks : n \in Topics \ ts
    BY <1>2, SubscriptionsAssumption DEF SubInv, Topics
  <2>2. /\ Consistent(JoinAll(subs, ts)) /\ JoinAll(subs, ts).dm = subs.dm
        /\ \A t \in Topics \ ts : JoinAll(subs, ts).handler[t] = subs.handler[t]
    BY <1>1, <2>1, JoinAllOK
  <2>. QED
    BY <1>3, <2>1, <2>2
<1>5. Listening'
  BY <1>4 DEF SubInv, Listening, WireOK
<1>6. Typed'
  BY DEF SubInv, Typed
<1>. QED
  BY <1>4, <1>5, <1>6 DEF SubInv, WireOK, OutIsOut

LEMMA QueryLoopOK == SubInv /\ QueryLoop => SubInv'
<1>. SUFFICES ASSUME SubInv, QueryLoop PROVE SubInv'
  OBVIOUS
<1>. USE DEF QueryLoop, server, link, copies
<1>. DEFINE ns == {n \in windows : EnsureQueryTopicJoined(subs, n) # subs}
            j == JoinAll(subs, ns)
            a == j.acks \cup ns
<1>1. /\ ns \subseteq Nicks /\ ns \subseteq Topics /\ Consistent(subs)
      /\ \A t \in ns : ~Joined(subs, t) /\ net # NoRow /\ t # net.nick
  BY DEF SubInv, Typed, Topics, EnsureQueryTopicJoined
<1>2. subs' = subs \/ subs' = [j EXCEPT !.acks = a]
  OBVIOUS
<1>. HIDE DEF ns
<1>3. /\ Consistent(j) /\ j.dm = subs.dm /\ \A t \in ns : j.handler[t] = "chan"
      /\ \A t \in Topics \ ns : j.handler[t] = subs.handler[t]
  BY <1>1, JoinAllOK
<1>. HIDE DEF j
<1>4. a \in SUBSET Nicks /\ \A n \in a : j.handler[n] = "chan"
  BY <1>1, <1>3 DEF Consistent, Tables
<1>. HIDE DEF a
<1>5. CASE subs' = subs
  BY <1>5 DEF SubInv, WireOK, OutIsOut, Listening, Typed
<1>6. CASE subs' = [j EXCEPT !.acks = a]
  <2>1. Consistent(subs') /\ subs'.dm = subs.dm /\ subs'.handler = j.handler
    <3>1. /\ Consistent([j EXCEPT !.acks = a]) /\ [j EXCEPT !.acks = a].dm = j.dm
          /\ [j EXCEPT !.acks = a].handler = j.handler
      BY <1>3, <1>4, AcksOK
    <3>. QED
      BY <1>3, <1>6, <3>1
  <2>2. Listening'
    BY <1>1, <1>3, <2>1 DEF SubInv, Listening, WireOK, Topics
  <2>3. Typed'
    BY DEF SubInv, Typed
  <2>. QED
    BY <2>1, <2>2, <2>3 DEF SubInv, WireOK, OutIsOut
<1>. QED
  BY <1>2, <1>5, <1>6

LEMMA ListenerLoopOK == SubInv /\ ListenerLoop => SubInv'
<1>. SUFFICES ASSUME SubInv, ListenerLoop PROVE SubInv'
  OBVIOUS
<1>. USE DEF ListenerLoop, server, link, copies
<1>1. Consistent(subs') /\ Listening'
  BY ListenOK DEF SubInv, WireOK, Listening
<1>2. Typed'
  BY DEF SubInv, Typed
<1>. QED
  BY <1>1, <1>2 DEF SubInv, WireOK, OutIsOut

LEMMA SlashMsgOK == ASSUME NEW n \in Nicks PROVE SubInv /\ SlashMsg(n) => SubInv'
<1>. SUFFICES ASSUME SubInv, SlashMsg(n) PROVE SubInv'
  OBVIOUS
<1>. USE DEF SlashMsg, server, link, copies
<1>1. CASE subs' = subs
  BY <1>1 DEF SubInv, WireOK, OutIsOut, Listening, Typed
<1>2. CASE subs' # subs
  <2>. DEFINE j == Join(subs, n, "chan")
              a == j.acks \cup {n}
  <2>1. net # NoRow /\ n # net.nick /\ ~Joined(subs, n) /\ n \in Topics /\ Consistent(subs)
    BY <1>2 DEF EnsureQueryTopicJoined, Topics, SubInv
  <2>2. subs' = [j EXCEPT !.acks = a]
    BY <1>2 DEF EnsureQueryTopicJoined
  <2>3. Consistent(j) /\ j.dm = subs.dm /\ j.handler = [subs.handler EXCEPT ![n] = "chan"]
    BY <2>1, JoinChan
  <2>. HIDE DEF j
  <2>4. \A t \in Topics : j.handler[t] = IF t = n THEN "chan" ELSE subs.handler[t]
    BY <2>1, <2>3 DEF Consistent, Tables
  <2>5. a \in SUBSET Nicks /\ \A m \in a : j.handler[m] = "chan"
    BY <2>1, <2>3, <2>4 DEF Consistent, Tables
  <2>. HIDE DEF a
  <2>6. Consistent(subs') /\ subs'.dm = subs.dm /\ subs'.handler = j.handler
    <3>1. /\ Consistent([j EXCEPT !.acks = a]) /\ [j EXCEPT !.acks = a].dm = j.dm
          /\ [j EXCEPT !.acks = a].handler = j.handler
      BY <2>3, <2>5, AcksOK
    <3>. QED
      BY <2>2, <2>3, <3>1
  <2>7. Listening'
    BY <2>1, <2>4, <2>6 DEF SubInv, Listening, WireOK, Topics
  <2>8. Typed'
    BY DEF SubInv, Typed
  <2>. QED
    BY <2>6, <2>7, <2>8 DEF SubInv, WireOK, OutIsOut
<1>. QED
  BY <1>1, <1>2

LEMMA JoinAnswered == ASSUME NEW t \in Topics PROVE SubInv /\ JoinOk(t) => SubInv'
<1>. SUFFICES ASSUME SubInv, JoinOk(t) PROVE SubInv'
  OBVIOUS
<1>. USE DEF JoinOk, server, link, copies
<1>. DEFINE l == subs.live \cup {t}
<1>1. l \in SUBSET Topics
  BY DEF SubInv, Consistent, Tables
<1>2. subs' = [subs EXCEPT !.live = l]
  OBVIOUS
<1>. HIDE DEF l
<1>3. Consistent(subs') /\ subs'.dm = subs.dm /\ subs'.handler = subs.handler
  BY <1>1, <1>2, LiveOK DEF SubInv
<1>4. Typed'
  BY DEF SubInv, Typed
<1>. QED
  BY <1>3, <1>4 DEF SubInv, WireOK, OutIsOut, Listening

\* The server's changes.
LEMMA SrvOK ==
    ASSUME SubInv, NEW es \in Seq(Events), NEW f \in SUBSET Facts, Announce(es, f),
           srv' \in [nick : Nicks, up : BOOLEAN, chans : SUBSET Chans, windows : SUBSET Nicks],
           UNCHANGED <<link, copies, req, due, subs>>
    PROVE  SubInv'
<1>. USE DEF link, copies
<1>1. inbox' \in Seq(Events) /\ missed' \subseteq Facts /\ (~userLive => inbox' = inbox)
  BY AnnounceOK DEF SubInv
<1>2. Typed'
  BY <1>1 DEF SubInv, Typed
<1>. QED
  BY <1>1, <1>2 DEF SubInv, WireOK, OutIsOut, Listening

LEMMA SrvNickOK == ASSUME NEW n \in Nicks PROVE SubInv /\ SrvNick(n) => SubInv'
<1>1. <<[ev |-> "nick", of |-> n]>> \in Seq(Events)
  BY OneEvent DEF Events
<1>. QED
  <2>. SUFFICES ASSUME SubInv, SrvNick(n) PROVE SubInv'
    OBVIOUS
  <2>. DEFINE es == <<[ev |-> "nick", of |-> n]>>
  <2>1. srv' \in [nick : Nicks, up : BOOLEAN, chans : SUBSET Chans, windows : SUBSET Nicks]
    BY DEF SrvNick, SubInv, Typed
  <2>2. Announce(es, {"nick"}) /\ {"nick"} \in SUBSET Facts
    BY DEF SrvNick, Facts
  <2>3. UNCHANGED <<link, copies, req, due, subs>>
    BY DEF SrvNick
  <2>. HIDE DEF es
  <2>. QED
    BY <1>1, <2>1, <2>2, <2>3, SrvOK DEF es

LEMMA SrvStateOK == SubInv /\ SrvState => SubInv'
<1>1. <<[ev |-> "state"]>> \in Seq(Events)
  BY OneEvent DEF Events
<1>. QED
  BY <1>1, SrvOK DEF SrvState, Facts, SubInv, Typed

LEMMA SrvJoinOK == ASSUME NEW c \in Chans PROVE SubInv /\ SrvJoin(c) => SubInv'
<1>1. <<[ev |-> "channels"]>> \in Seq(Events)
  BY OneEvent DEF Events
<1>. QED
  BY <1>1, SrvOK DEF SrvJoin, Facts, SubInv, Typed

LEMMA SrvWindowOK == ASSUME NEW n \in Nicks PROVE SubInv /\ SrvWindow(n) => SubInv'
<1>. SUFFICES ASSUME SubInv, SrvWindow(n) PROVE SubInv'
  OBVIOUS
<1>. DEFINE ws == IF n \in srv.windows THEN srv.windows \ {n} ELSE srv.windows \cup {n}
<1>0. ws \in SUBSET Nicks /\ srv' = [srv EXCEPT !.windows = ws]
  BY DEF SrvWindow, SubInv, Typed
<1>. HIDE DEF ws
<1>1. srv' \in [nick : Nicks, up : BOOLEAN, chans : SUBSET Chans, windows : SUBSET Nicks]
  BY <1>0 DEF SubInv, Typed
<1>2. [ev |-> "windows", of |-> srv'.windows] \in Events
  BY <1>1 DEF Events
<1>3. <<[ev |-> "windows", of |-> srv'.windows]>> \in Seq(Events)
  BY <1>2, OneEvent
<1>4. /\ Announce(<<[ev |-> "windows", of |-> srv'.windows]>>, {}) /\ {} \in SUBSET Facts
      /\ UNCHANGED <<link, copies, req, due, subs>>
  BY DEF SrvWindow
<1>. QED
  BY <1>1, <1>3, <1>4, SrvOK

LEMMA SrvPartOK == ASSUME NEW c \in Chans PROVE SubInv /\ SrvPart(c) => SubInv'
<1>. SUFFICES ASSUME SubInv, SrvPart(c) PROVE SubInv'
  OBVIOUS
<1>. USE DEF link, copies
<1>1. /\ srv' \in [nick : Nicks, up : BOOLEAN, chans : SUBSET Chans, windows : SUBSET Nicks]
      /\ UNCHANGED <<link, copies, req, due, subs>>
  BY DEF SrvPart, SubInv, Typed
<1>. DEFINE row == IF c \in subs.live THEN <<[ev |-> "part", of |-> c]>> ELSE <<>>
            ch == <<[ev |-> "channels"]>>
<1>2. row \in Seq(Events) /\ ch \in Seq(Events) /\ inbox \in Seq(Events)
  <2>1. [ev |-> "part", of |-> c] \in Events /\ [ev |-> "channels"] \in Events
    BY DEF Events
  <2>2. <<[ev |-> "part", of |-> c]>> \in Seq(Events) /\ <<>> \in Seq(Events)
    BY <2>1, OneEvent
  <2>3. ch \in Seq(Events)
    BY <2>1, OneEvent
  <2>. QED
    BY <2>2, <2>3 DEF SubInv, WireOK
<1>3. IF userLive THEN inbox' = inbox \o row \o ch /\ missed' = missed
                  ELSE inbox' = inbox \o row /\ missed' = missed \cup {"chans"}
  BY DEF SrvPart
<1>4. inbox \o row \in Seq(Events) /\ (inbox \o row) \o ch \in Seq(Events)
  <2>. HIDE DEF row, ch
  <2>1. inbox \o row \in Seq(Events)
    BY <1>2, ConcatProperties
  <2>. QED
    BY <1>2, <2>1, ConcatProperties
<1>5. inbox' \in Seq(Events) /\ missed' \subseteq Facts
  BY <1>3, <1>4 DEF SubInv, Typed, Facts
<1>6. ~tok => inbox' = <<>>
  <2>. SUFFICES ASSUME ~tok PROVE inbox' = <<>>
    OBVIOUS
  <2>1. ~userLive /\ inbox = <<>> /\ c \notin subs.live
    BY DEF SubInv, OutIsOut
  <2>. QED
    BY <1>3, <2>1
<1>7. Typed'
  BY <1>1, <1>5 DEF SubInv, Typed
<1>. QED
  BY <1>1, <1>5, <1>6, <1>7 DEF SubInv, WireOK, OutIsOut, Listening

LEMMA SrvAttachOK == SubInv /\ SrvAttach => SubInv'
<1>. SUFFICES ASSUME SubInv, SrvAttach PROVE SubInv'
  OBVIOUS
<1>. USE DEF SrvAttach, server, link, copies
<1>1. inbox' \in Seq(Events)
  BY AppendProperties DEF Events, SubInv, WireOK
<1>2. tok
  BY DEF SubInv, OutIsOut, Typed
<1>3. Typed'
  BY DEF SubInv, Typed
<1>. QED
  BY <1>1, <1>2, <1>3 DEF SubInv, WireOK, OutIsOut, Listening

\* What is received is of its kind, and what is left behind it too.
LEMMA HeadOK ==
    ASSUME WireOK, inbox # <<>>
    PROVE  Head(inbox) \in Events /\ Tail(inbox) \in Seq(Events)
BY HeadTailProperties DEF WireOK

LEMMA ReceiveOK == SubInv /\ Receive => SubInv'
<1>. SUFFICES ASSUME SubInv, Receive PROVE SubInv'
  OBVIOUS
<1>. DEFINE e == Head(inbox)
<1>1. e \in Events /\ inbox' \in Seq(Events)
  BY HeadOK DEF SubInv, Receive
<1>2. tok /\ tok' = tok
  BY DEF SubInv, OutIsOut, Receive, link, Typed
<1>3. UNCHANGED <<srv, missed, online, conn, userLive, visible, owed, chans>>
  BY DEF Receive, server, link
<1>4. \/ /\ e.ev = "nick" /\ net # NoRow /\ net' = [net EXCEPT !.nick = e.of]
         /\ req' = LoadChannels(req, net) /\ due' = Effects /\ UNCHANGED <<windows, subs>>
      \/ req' = req /\ UNCHANGED <<net, due, windows, subs>>
      \/ req' = RefetchNetworks(req) /\ UNCHANGED <<net, due, windows, subs>>
      \/ req' = LoadChannels(req, net) /\ UNCHANGED <<net, due, windows, subs>>
      \/ e.ev = "windows" /\ windows' = e.of /\ due' = {"query"} /\ UNCHANGED <<net, req, subs>>
      \/ req' = RefetchNetworks([req EXCEPT !.user = TRUE]) /\ UNCHANGED <<net, due, windows, subs>>
      \/ e.ev = "part" /\ subs' = Leave(subs, e.of) /\ UNCHANGED <<net, req, due, windows>>
  BY DEF Receive
<1>5. Asking(req) /\ Asking([req EXCEPT !.user = TRUE])
  BY DEF SubInv, WireOK, Asking, Questions
<1>6. Asking(req')
  BY <1>4, <1>5, LoadChannelsOK, RefetchOK
<1>7. /\ e.ev = "nick" => e.of \in Nicks
      /\ e.ev = "windows" => e.of \subseteq Nicks
      /\ e.ev = "part" => e.of \in Chans
  BY <1>1 DEF Events
<1>. HIDE DEF e
<1>8. Typed'
  BY <1>2, <1>3, <1>4, <1>7 DEF SubInv, Typed, Rows, Effects
<1>9. net' = NoRow \/ net'.nick \in Nicks
  BY <1>4, <1>7 DEF SubInv, WireOK, Typed, Rows
<1>10. /\ Consistent(subs') /\ subs'.dm = subs.dm
       /\ \A n \in Nicks : subs'.handler[n] = subs.handler[n]
  <2>1. CASE subs' = subs
    BY <2>1 DEF SubInv
  <2>2. CASE e.ev = "part" /\ subs' = Leave(subs, e.of)
    <3>1. /\ e.of \in Topics /\ e.of \in Chans /\ e.of \notin Nicks /\ e.of # Nobody
          /\ \A n \in Nicks : n \in Topics \ {e.of}
      BY <1>7, <2>2, SubscriptionsAssumption DEF Topics
    <3>2. Consistent(subs) /\ subs.dm # e.of /\ e.of \notin subs.acks
      BY <3>1 DEF SubInv, Consistent, Tables
    <3>. QED
      BY <2>2, <3>1, <3>2, LeaveOK
  <2>. QED
    BY <1>4, <2>1, <2>2
<1>11. Settled
  BY DEF Receive
<1>12. CASE net' = net
  BY <1>1, <1>2, <1>6, <1>8, <1>9, <1>10, <1>11, <1>12
     DEF SubInv, WireOK, OutIsOut, Listening, Settled
<1>13. CASE due' = Effects
  BY <1>1, <1>2, <1>6, <1>8, <1>9, <1>10, <1>13 DEF SubInv, WireOK, OutIsOut, Listening, Effects
<1>. QED
  BY <1>4, <1>12, <1>13

-----------------------------------------------------------------------------
(* The socket's steps.                                                     *)

LEMMA OpenOK == SubInv /\ Open => SubInv'
<1>. SUFFICES ASSUME SubInv, Open PROVE SubInv'
  OBVIOUS
<1>. USE DEF Open, server, copies
<1>1. Asking(req') /\ tok
  BY ResyncOK DEF SubInv, WireOK, OutIsOut, Typed
<1>2. Typed'
  BY DEF SubInv, Typed
<1>. QED
  BY <1>1, <1>2 DEF SubInv, WireOK, OutIsOut, Listening

LEMMA UserJoinAnswered == SubInv /\ UserJoinOk => SubInv'
<1>. SUFFICES ASSUME SubInv, UserJoinOk PROVE SubInv'
  OBVIOUS
<1>. USE DEF UserJoinOk, server, copies
<1>1. [ev |-> "windows", of |-> srv.windows] \in Events
  BY DEF SubInv, Typed, Events
<1>2. inbox' \in Seq(Events)
  BY <1>1, AppendProperties DEF SubInv, WireOK
<1>3. tok
  BY DEF SubInv, OutIsOut, Typed
<1>4. Typed'
  BY DEF SubInv, Typed
<1>. QED
  BY <1>2, <1>3, <1>4 DEF SubInv, WireOK, OutIsOut, Listening

LEMMA DropOK == SubInv /\ Drop => SubInv'
<1>. SUFFICES ASSUME SubInv, Drop PROVE SubInv'
  OBVIOUS
<1>. USE DEF Drop, copies
<1>1. /\ ~userLive' /\ userLive' \in BOOLEAN /\ inbox' \in Seq(Events) /\ missed' \subseteq Facts
      /\ Consistent(subs') /\ subs'.dm = subs.dm /\ subs'.handler = subs.handler
  BY CutOK DEF SubInv
<1>2. tok
  BY DEF SubInv, OutIsOut, Typed
<1>3. Typed'
  BY <1>1 DEF SubInv, Typed
<1>. QED
  BY <1>1, <1>2, <1>3 DEF SubInv, WireOK, OutIsOut, Listening

LEMMA OfflineOK == SubInv /\ Offline => SubInv'
<1>. SUFFICES ASSUME SubInv, Offline PROVE SubInv'
  OBVIOUS
<1>. USE DEF Offline, copies
<1>1. /\ ~userLive' /\ userLive' \in BOOLEAN /\ inbox' = <<>> /\ inbox' \in Seq(Events)
      /\ missed' \subseteq Facts
      /\ Consistent(subs') /\ subs'.dm = subs.dm /\ subs'.handler = subs.handler
  BY CutOK DEF SubInv
<1>2. Typed'
  BY <1>1 DEF SubInv, Typed
<1>3. subs' = [subs EXCEPT !.live = {}]
  BY DEF Cut
<1>4. OutIsOut'
  BY <1>1, <1>3 DEF SubInv, OutIsOut, Consistent, Tables
<1>. QED
  BY <1>1, <1>2, <1>4 DEF SubInv, WireOK, Listening

LEMMA OnlineOK == SubInv /\ Online => SubInv'
BY DEF Online, server, copies, KickReconnect, SubInv, Typed, WireOK, OutIsOut, Listening

LEMMA HideOK == SubInv /\ Hide => SubInv'
<1>. SUFFICES ASSUME SubInv, Hide PROVE SubInv'
  OBVIOUS
<1>. USE DEF Hide, server, copies
<1>1. Typed'
  BY DEF SubInv, Typed
<1>. QED
  BY <1>1 DEF SubInv, WireOK, OutIsOut, Listening

LEMMA FrozenOK == SubInv /\ Frozen => SubInv'
<1>. SUFFICES ASSUME SubInv, Frozen PROVE SubInv'
  OBVIOUS
<1>. USE DEF Frozen, link, copies
<1>1. missed' \subseteq Facts /\ <<>> \in Seq(Events)
  BY DEF SubInv, Typed, Unheard
<1>2. Typed'
  BY <1>1 DEF SubInv, Typed
<1>. QED
  BY <1>1, <1>2 DEF SubInv, WireOK, OutIsOut, Listening

LEMMA ShowOK == SubInv /\ Show => SubInv'
<1>. SUFFICES ASSUME SubInv, Show PROVE SubInv'
  OBVIOUS
<1>. USE DEF Show, server, copies
<1>1. Asking(req') /\ (Mute(req) => Mute(req'))
  BY ResyncOK DEF SubInv, WireOK
<1>2. Typed' /\ (conn = "none" => conn' = "none")
  BY DEF SubInv, Typed, KickReconnect
<1>. QED
  BY <1>1, <1>2 DEF SubInv, WireOK, OutIsOut, Listening

LEMMA SignOutOK == SubInv /\ SignOut => SubInv'
<1>. SUFFICES ASSUME SubInv, SignOut PROVE SubInv'
  OBVIOUS
<1>. USE DEF SignOut
<1>. DEFINE d == IF req.door = "own" THEN "lost" ELSE req.door
            a == [req EXCEPT !.user = FALSE]
            b == [a EXCEPT !.me = FALSE]
            c == [b EXCEPT !.net = Unasked(NoRow)]
            k == [c EXCEPT !.chans = Unasked({})]
<1>1. Asking(a) /\ ~a.user /\ a.door = req.door
  BY DEF SubInv, WireOK, Asking, Questions
<1>2. req' = [k EXCEPT !.door = d]
  BY DEF SubInv, WireOK, Asking, Questions
<1>. HIDE DEF a
<1>3. Asking(b) /\ ~b.user /\ ~b.me
  BY <1>1 DEF Asking, Questions
<1>. HIDE DEF b
<1>4. Asking(c) /\ Mute(c)
  BY <1>3, AskedOK, NetOK
<1>. HIDE DEF c
<1>5. Asking(k) /\ Mute(k)
  BY <1>4 DEF Asking, Questions, Mute, Unasked, Stages
<1>6. d \in {"idle", "own", "lost"}
  BY DEF SubInv, WireOK, Asking, Questions
<1>. HIDE DEF k, d
<1>7. Asking(req') /\ Mute(req')
  <2>1. Asking([k EXCEPT !.door = d]) /\ Mute([k EXCEPT !.door = d])
    BY <1>5, <1>6, DoorOK
  <2>. QED
    BY <1>2, <2>1
<1>8. Consistent(subs') /\ subs'.live = {}
  BY NoSubsOK DEF NoSubs
<1>9. Typed'
  BY DEF SubInv, Typed, NoRow, Rows
<1>10. inbox' \in Seq(Events)
  OBVIOUS
<1>. QED
  BY <1>7, <1>8, <1>9, <1>10 DEF SubInv, WireOK, OutIsOut, Listening

LEMMA SignInOK == SubInv /\ SignIn => SubInv'
<1>. SUFFICES ASSUME SubInv, SignIn PROVE SubInv'
  OBVIOUS
<1>. USE DEF SignIn, server, copies
<1>1. Asking(req')
  BY DEF SubInv, WireOK, Asking, Questions
<1>2. net' = NoRow
  BY DEF SubInv, OutIsOut
<1>3. Typed'
  BY DEF SubInv, Typed
<1>. QED
  BY <1>1, <1>2, <1>3 DEF SubInv, WireOK, OutIsOut, Listening

-----------------------------------------------------------------------------
(* What was announced is applied: a change is on its way, asked for or in.  *)

\* An announcement of the kind is on its way.
Has(k) == \E i \in 1..Len(inbox) : inbox[i].ev = k

\* The door of refetchNetworks holds what it owes, and the account is loaded or
\* being loaded.
DoorKept(r) == (r.pending => r.door # "idle") /\ (r.door = "own" => r.net.at # "none")
Loading == DoorKept(req) /\ (tok => req.user \/ req.me)

UpKnown ==
    tok /\ "up" \notin missed =>
        \/ Has("state") \/ req.user \/ req.pending \/ req.net.at = "asked"
        \/ req.net.at = "read" /\ req.net.val.up = srv.up
        \/ req.net.at = "none" /\ net.up = srv.up

ChansKnown ==
    tok /\ net # NoRow /\ "chans" \notin missed =>
        \/ Has("channels") \/ req.chans.at = "asked"
        \/ req.chans.at = "read" /\ req.chans.val = srv.chans
        \/ req.chans.at = "none" /\ chans = srv.chans

Known == Loading /\ UpKnown /\ ChansKnown

\* An announcement stays until it is received, and one that is lost is missed.
LEMMA HasConcat ==
    ASSUME inbox \in Seq(Events), NEW es \in Seq(Events), inbox' = inbox \o es, NEW k
    PROVE  (Has(k) => Has(k)') /\ ((\E i \in 1..Len(es) : es[i].ev = k) => Has(k)')
<1>1. /\ Len(inbox') = Len(inbox) + Len(es) /\ Len(inbox) \in Nat /\ Len(es) \in Nat
      /\ \A i \in 1..(Len(inbox) + Len(es)) :
           inbox'[i] = IF i <= Len(inbox) THEN inbox[i] ELSE es[i - Len(inbox)]
  BY ConcatProperties, LenProperties
<1>2. Has(k) => Has(k)'
  BY <1>1 DEF Has
<1>3. ASSUME NEW i \in 1..Len(es), es[i].ev = k PROVE Has(k)'
  <2>1. Len(inbox) + i \in 1..Len(inbox') /\ inbox'[Len(inbox) + i] = es[i]
    BY <1>1
  <2>. QED
    BY <1>3, <2>1 DEF Has
<1>. QED
  BY <1>2, <1>3

LEMMA HasTail ==
    ASSUME inbox \in Seq(Events), inbox # <<>>, inbox' = Tail(inbox), NEW k, Has(k)
    PROVE  Head(inbox).ev = k \/ Has(k)'
<1>1. PICK i \in 1..Len(inbox) : inbox[i].ev = k
  BY DEF Has
<1>2. /\ Len(inbox') = Len(inbox) - 1 /\ Len(inbox) \in Nat /\ Head(inbox) = inbox[1]
      /\ \A j \in 1..(Len(inbox) - 1) : inbox'[j] = inbox[j + 1]
  BY HeadTailProperties, LenProperties
<1>3. CASE i = 1
  BY <1>1, <1>2, <1>3
<1>4. CASE i # 1
  <2>1. i - 1 \in 1..Len(inbox') /\ inbox'[i - 1] = inbox[i]
    BY <1>2, <1>4
  <2>. QED
    BY <1>1, <2>1 DEF Has
<1>. QED
  BY <1>3, <1>4

LEMMA LostIsMissed ==
    /\ Has("state") => "up" \in Unheard(inbox)
    /\ Has("channels") => "chans" \in Unheard(inbox)
BY DEF Has, Unheard, Facts

\* What the operations on the requests leave and ask for.
LEMMA LoadNetworksAsks ==
    ASSUME NEW r, Asking(r), DoorKept(r)
    PROVE  LET q == LoadNetworks(r)
           IN  /\ q.user = r.user /\ q.me = r.me /\ q.chans = r.chans
               /\ q.net.at = "asked" /\ DoorKept(q)
BY DEF LoadNetworks, Asking, Questions, DoorKept, Asked

LEMMA LoadChannelsAsks ==
    ASSUME NEW r, Asking(r), NEW row
    PROVE  LET q == LoadChannels(r, row)
           IN  /\ q.user = r.user /\ q.me = r.me /\ q.net = r.net
               /\ q.pending = r.pending /\ q.door = r.door
               /\ IF row = NoRow THEN q.chans = r.chans ELSE q.chans.at = "asked"
BY DEF LoadChannels, Asking, Questions, Asked

LEMMA RefetchAsks ==
    ASSUME NEW r, Asking(r), DoorKept(r)
    PROVE  LET q == RefetchNetworks(r)
           IN  /\ q.user = r.user /\ q.me = r.me /\ q.chans = r.chans /\ DoorKept(q)
               /\ r.user \/ r.me => q.user \/ q.pending \/ q.net.at = "asked"
<1>1. CASE r.door # "idle"
  BY <1>1 DEF RefetchNetworks, Asking, Questions, DoorKept
<1>2. CASE r.door = "idle" /\ r.me
  BY <1>2 DEF RefetchNetworks, Asking, Questions, DoorKept, Asked
<1>3. CASE r.door = "idle" /\ ~r.me
  BY <1>3 DEF RefetchNetworks, Asking, Questions, DoorKept
<1>. QED
  BY <1>1, <1>2, <1>3 DEF Asking, Questions

LEMMA DoorEndsAsks ==
    ASSUME NEW r, Asking(r)
    PROVE  LET q == DoorEnds(r)
           IN  /\ q.user = r.user /\ q.me = r.me /\ q.chans = r.chans /\ DoorKept(q)
               /\ r.pending /\ (r.user \/ r.me) => q.user \/ q.net.at = "asked"
               /\ q.net = r.net \/ q.net.at = "asked"
<1>1. CASE r.pending /\ r.me
  BY <1>1 DEF DoorEnds, Asking, Questions, DoorKept, Asked
<1>2. CASE ~(r.pending /\ r.me)
  BY <1>2 DEF DoorEnds, Asking, Questions, DoorKept
<1>. QED
  BY <1>1, <1>2

LEMMA ResyncAsks ==
    ASSUME Asking(req), DoorKept(req)
    PROVE  LET q == Resync(req)
           IN  /\ q.user = req.user /\ q.me = req.me /\ DoorKept(q)
               /\ req.user \/ req.me => q.user \/ q.pending \/ q.net.at = "asked"
               /\ net # NoRow => q.chans.at = "asked"
<1>. DEFINE f == RefetchNetworks(req)
<1>1. /\ f.user = req.user /\ f.me = req.me /\ DoorKept(f) /\ Asking(f)
      /\ req.user \/ req.me => f.user \/ f.pending \/ f.net.at = "asked"
  BY RefetchAsks, RefetchOK
<1>. HIDE DEF f
<1>2. Resync(req) = LoadChannels(f, net)
  BY DEF Resync, f
<1>. QED
  BY <1>1, <1>2, LoadChannelsAsks DEF DoorKept

\* A step that touches neither the copies nor the wire.
LEMMA SameKnown ==
    ASSUME Known, UNCHANGED <<srv, inbox, missed, tok, net, chans, req>>
    PROVE  Known'
BY DEF Known, Loading, UpKnown, ChansKnown, Has, DoorKept

\* A step that only asks: of the networks, of the channels, or of neither.
LEMMA AskedKnown ==
    ASSUME Known, UNCHANGED <<srv, inbox, missed, tok, net, chans>>, Loading',
           \/ req'.net = req.net /\ req'.user = req.user /\ req'.pending = req.pending
           \/ tok => req'.user \/ req'.pending \/ req'.net.at = "asked",
           req'.chans = req.chans \/ req'.chans.at = "asked" \/ net = NoRow
    PROVE  Known'
<1>1. UpKnown'
  BY DEF Known, UpKnown, Has
<1>2. ChansKnown'
  BY DEF Known, ChansKnown, Has
<1>. QED
  BY <1>1, <1>2 DEF Known

\* A change of the server's: announced, or missed.
LEMMA SrvKnown ==
    ASSUME SubInv, Known, NEW es \in Seq(Events), NEW f \in SUBSET Facts, Announce(es, f),
           UNCHANGED <<tok, net, chans, req>>,
           srv'.up = srv.up \/ ("up" \in f /\ \E i \in 1..Len(es) : es[i].ev = "state"),
           srv'.chans = srv.chans \/ ("chans" \in f /\ \E i \in 1..Len(es) : es[i].ev = "channels")
    PROVE  Known'
<1>1. CASE userLive
  <2>1. inbox' = inbox \o es /\ missed' = missed /\ inbox \in Seq(Events)
    BY <1>1 DEF Announce, SubInv, WireOK
  <2>2. /\ Has("state") => Has("state")'
        /\ (\E i \in 1..Len(es) : es[i].ev = "state") => Has("state")'
    BY <2>1, HasConcat
  <2>3. /\ Has("channels") => Has("channels")'
        /\ (\E i \in 1..Len(es) : es[i].ev = "channels") => Has("channels")'
    BY <2>1, HasConcat
  <2>4. UpKnown'
    BY <2>1, <2>2 DEF Known, UpKnown
  <2>5. ChansKnown'
    BY <2>1, <2>3 DEF Known, ChansKnown
  <2>. QED
    BY <2>4, <2>5 DEF Known, Loading, DoorKept
<1>2. CASE ~userLive
  <2>1. inbox' = inbox /\ missed' = missed \cup f
    BY <1>2 DEF Announce
  <2>. QED
    BY <2>1 DEF Known, Loading, DoorKept, UpKnown, ChansKnown, Has
<1>. QED
  BY <1>1, <1>2

LEMMA SrvChangesKnown ==
    ASSUME SubInv, Known,
           \/ \E n \in Nicks : SrvNick(n) \/ SrvWindow(n)
           \/ \E c \in Chans : SrvJoin(c)
           \/ SrvState
    PROVE  Known'
<1>. USE DEF link, copies
<1>1. ASSUME NEW n \in Nicks, SrvNick(n) PROVE Known'
  <2>. DEFINE es == <<[ev |-> "nick", of |-> n]>>
  <2>1. es \in Seq(Events) /\ Announce(es, {"nick"}) /\ {"nick"} \in SUBSET Facts
    BY <1>1, OneEvent DEF SrvNick, Events, Facts
  <2>2. /\ UNCHANGED <<tok, net, chans, req>>
        /\ srv'.up = srv.up /\ srv'.chans = srv.chans
    BY <1>1 DEF SrvNick, SubInv, Typed
  <2>. HIDE DEF es
  <2>. QED
    BY <2>1, <2>2, SrvKnown
<1>2. ASSUME NEW n \in Nicks, SrvWindow(n) PROVE Known'
  <2>. DEFINE es == <<[ev |-> "windows", of |-> srv'.windows]>>
              ws == IF n \in srv.windows THEN srv.windows \ {n} ELSE srv.windows \cup {n}
  <2>1. ws \in SUBSET Nicks /\ srv' = [srv EXCEPT !.windows = ws]
    BY <1>2 DEF SrvWindow, SubInv, Typed
  <2>. HIDE DEF ws
  <2>2. /\ srv'.windows \in SUBSET Nicks /\ srv'.up = srv.up /\ srv'.chans = srv.chans
    BY <2>1 DEF SubInv, Typed
  <2>3. [ev |-> "windows", of |-> srv'.windows] \in Events
    BY <2>2 DEF Events
  <2>4. es \in Seq(Events) /\ Announce(es, {}) /\ {} \in SUBSET Facts
    BY <1>2, <2>3, OneEvent DEF SrvWindow
  <2>5. UNCHANGED <<tok, net, chans, req>>
    BY <1>2 DEF SrvWindow
  <2>. HIDE DEF es
  <2>. QED
    BY <2>2, <2>4, <2>5, SrvKnown
<1>3. ASSUME NEW c \in Chans, SrvJoin(c) PROVE Known'
  <2>. DEFINE es == <<[ev |-> "channels"]>>
  <2>1. es \in Seq(Events) /\ Announce(es, {"chans"}) /\ {"chans"} \in SUBSET Facts
    BY <1>3, OneEvent DEF SrvJoin, Events, Facts
  <2>2. UNCHANGED <<tok, net, chans, req>> /\ srv'.up = srv.up
    BY <1>3 DEF SrvJoin, SubInv, Typed
  <2>3. \E i \in 1..Len(es) : es[i].ev = "channels"
    OBVIOUS
  <2>. HIDE DEF es
  <2>. QED
    BY <2>1, <2>2, <2>3, SrvKnown
<1>4. ASSUME SrvState PROVE Known'
  <2>. DEFINE es == <<[ev |-> "state"]>>
  <2>1. es \in Seq(Events) /\ Announce(es, {"up"}) /\ {"up"} \in SUBSET Facts
    BY <1>4, OneEvent DEF SrvState, Events, Facts
  <2>2. UNCHANGED <<tok, net, chans, req>> /\ srv'.chans = srv.chans
    BY <1>4 DEF SrvState, SubInv, Typed
  <2>3. \E i \in 1..Len(es) : es[i].ev = "state"
    OBVIOUS
  <2>. HIDE DEF es
  <2>. QED
    BY <2>1, <2>2, <2>3, SrvKnown
<1>. QED
  BY <1>1, <1>2, <1>3, <1>4

LEMMA SrvPartKnown == ASSUME SubInv, Known, NEW c \in Chans, SrvPart(c) PROVE Known'
<1>. USE DEF link, copies
<1>. DEFINE row == IF c \in subs.live THEN <<[ev |-> "part", of |-> c]>> ELSE <<>>
            ch == <<[ev |-> "channels"]>>
            es == row \o ch
<1>1. UNCHANGED <<tok, net, chans, req>> /\ srv'.up = srv.up
  BY DEF SrvPart, SubInv, Typed
<1>2. row \in Seq(Events) /\ ch \in Seq(Events) /\ inbox \in Seq(Events)
  <2>1. [ev |-> "part", of |-> c] \in Events /\ [ev |-> "channels"] \in Events
    BY DEF Events
  <2>2. <<[ev |-> "part", of |-> c]>> \in Seq(Events) /\ <<>> \in Seq(Events)
    BY <2>1, OneEvent
  <2>3. ch \in Seq(Events)
    BY <2>1, OneEvent
  <2>. QED
    BY <2>2, <2>3 DEF SubInv, WireOK
<1>3. IF userLive THEN inbox' = inbox \o row \o ch /\ missed' = missed
                  ELSE inbox' = inbox \o row /\ missed' = missed \cup {"chans"}
  BY DEF SrvPart
<1>4. \E i \in 1..Len(ch) : ch[i].ev = "channels"
  OBVIOUS
<1>. HIDE DEF row, ch
<1>5. CASE userLive
  <2>1. es \in Seq(Events) /\ inbox' = inbox \o es
    <3>1. es \in Seq(Events)
      BY <1>2, ConcatProperties
    <3>2. (inbox \o row) \o ch = inbox \o es
      <4>1. \A s, u, v \in Seq(Events) : (s \o u) \o v = s \o (u \o v)
        BY ONLY ConcatAssociative
      <4>. QED
        BY ONLY <1>2, <4>1
    <3>3. inbox' = (inbox \o row) \o ch
      BY <1>3, <1>5
    <3>. QED
      BY <3>1, <3>2, <3>3, Zenon
  <2>2. \E i \in 1..Len(es) : es[i].ev = "channels"
    <3>1. PICK i \in 1..Len(ch) : ch[i].ev = "channels"
      BY <1>4
    <3>2. /\ Len(es) = Len(row) + Len(ch) /\ Len(row) \in Nat /\ Len(ch) \in Nat
          /\ \A j \in 1..(Len(row) + Len(ch)) :
               es[j] = IF j <= Len(row) THEN row[j] ELSE ch[j - Len(row)]
      BY <1>2, ConcatProperties, LenProperties
    <3>3. Len(row) + i \in 1..Len(es) /\ es[Len(row) + i] = ch[i]
      BY <3>2
    <3>. QED
      BY <3>1, <3>3
  <2>3. Announce(es, {"chans"}) /\ {"chans"} \in SUBSET Facts
    BY <1>3, <1>5, <2>1 DEF Announce, Facts
  <2>. HIDE DEF es
  <2>. QED
    BY <1>1, <2>1, <2>2, <2>3, SrvKnown
<1>6. CASE ~userLive
  <2>1. Has("state") => Has("state")'
    BY <1>2, <1>3, <1>6, HasConcat
  <2>2. missed' = missed \cup {"chans"}
    BY <1>3, <1>6
  <2>. QED
    BY <1>1, <2>1, <2>2 DEF Known, Loading, DoorKept, UpKnown, ChansKnown
<1>. QED
  BY <1>5, <1>6

LEMMA SrvAttachKnown == ASSUME SubInv, Known, SrvAttach PROVE Known'
<1>. USE DEF server, link, copies
<1>. DEFINE es == <<[ev |-> "attached"]>>
<1>1. es \in Seq(Events) /\ inbox \in Seq(Events)
  BY OneEvent DEF Events, SubInv, WireOK
<1>2. inbox' = inbox \o es
  BY <1>1, AppendIsConcat DEF SrvAttach
<1>. HIDE DEF es
<1>3. (Has("state") => Has("state")') /\ (Has("channels") => Has("channels")')
  BY <1>1, <1>2, HasConcat
<1>. QED
  BY <1>3 DEF SrvAttach, Known, Loading, DoorKept, UpKnown, ChansKnown

\* The answers.
LEMMA NetworksReadKnown == ASSUME SubInv, Known, NetworksRead PROVE Known'
<1>. USE DEF NetworksRead, server, link, copies
<1>1. /\ req'.net = Read([nick |-> srv.nick, up |-> srv.up])
      /\ req'.user = req.user /\ req'.me = req.me /\ req'.door = req.door
      /\ req'.pending = req.pending /\ req'.chans = req.chans
  BY DEF SubInv, WireOK, Asking, Questions
<1>2. req'.net.at = "read" /\ req'.net.val.up = srv.up
  BY <1>1 DEF Read
<1>. QED
  BY <1>1, <1>2 DEF Known, Loading, DoorKept, UpKnown, ChansKnown, Has, Facts

LEMMA ChannelsReadKnown == ASSUME SubInv, Known, ChannelsRead PROVE Known'
<1>. USE DEF ChannelsRead, server, link, copies
<1>1. /\ req'.chans = Read(srv.chans) /\ req'.net = req.net
      /\ req'.user = req.user /\ req'.me = req.me /\ req'.door = req.door
      /\ req'.pending = req.pending
  BY DEF SubInv, WireOK, Asking, Questions
<1>2. req'.chans.at = "read" /\ req'.chans.val = srv.chans
  BY <1>1 DEF Read
<1>. QED
  BY <1>1, <1>2 DEF Known, Loading, DoorKept, UpKnown, ChansKnown, Has, Facts

LEMMA NetworksAnswerKnown == ASSUME SubInv, Known, NetworksAnswer PROVE Known'
<1>. USE DEF NetworksAnswer, server, link
<1>. DEFINE u == [req EXCEPT !.net = Unasked(NoRow)]
            r == LoadChannels(u, net')
<1>1. /\ Asking(u) /\ u.user = req.user /\ u.me = req.me /\ u.door = req.door
      /\ u.pending = req.pending /\ u.net.at = "none"
  BY AskedOK, NetOK DEF SubInv, WireOK, Asking, Questions
<1>2. req' = IF r.door = "own" THEN DoorEnds(r) ELSE r
  OBVIOUS
<1>. HIDE DEF u
<1>3. net' = req.net.val /\ net'.nick \in Nicks /\ net' # NoRow
  BY SubscriptionsAssumption DEF SubInv, WireOK, Asking, NoRow, Topics
<1>4. /\ r.user = req.user /\ r.me = req.me /\ r.door = req.door /\ r.pending = req.pending
      /\ r.net.at = "none" /\ r.chans.at = "asked" /\ Asking(r)
  BY <1>1, <1>3, LoadChannelsAsks, LoadChannelsOK
<1>. HIDE DEF r
<1>5. /\ req'.user = r.user /\ req'.me = r.me /\ req'.chans = r.chans /\ DoorKept(req')
      /\ req'.net = r.net \/ req'.net.at = "asked"
      /\ r.pending /\ (r.user \/ r.me) =>
           req'.user \/ req'.net.at = "asked" \/ req'.pending
  <2>1. CASE r.door = "own"
    BY <1>2, <1>4, <2>1, DoorEndsAsks
  <2>2. CASE r.door # "own"
    BY <1>2, <1>4, <2>2 DEF Known, Loading, DoorKept
  <2>. QED
    BY <2>1, <2>2
<1>6. Loading'
  BY <1>4, <1>5 DEF Known, Loading
<1>7. UpKnown'
  BY <1>3, <1>4, <1>5 DEF Known, Loading, UpKnown, Has
<1>8. ChansKnown'
  BY <1>4, <1>5 DEF ChansKnown
<1>. QED
  BY <1>6, <1>7, <1>8 DEF Known

LEMMA LostAnswerKnown == ASSUME SubInv, Known, LostAnswer PROVE Known'
<1>. USE DEF LostAnswer, server, link, copies
<1>1. Asking(req) /\ req' = DoorEnds(req)
  BY DEF SubInv, WireOK
<1>2. /\ req'.user = req.user /\ req'.me = req.me /\ req'.chans = req.chans /\ DoorKept(req')
      /\ req.pending /\ (req.user \/ req.me) => req'.user \/ req'.net.at = "asked"
      /\ req'.net = req.net \/ req'.net.at = "asked"
  BY <1>1, DoorEndsAsks
<1>3. Loading'
  BY <1>2 DEF Known, Loading
<1>4. UpKnown'
  BY <1>2 DEF Known, Loading, UpKnown, Has
<1>5. ChansKnown'
  BY <1>2 DEF Known, ChansKnown, Has
<1>. QED
  BY <1>3, <1>4, <1>5 DEF Known

LEMMA ChannelsAnswerKnown == ASSUME SubInv, Known, ChannelsAnswer PROVE Known'
<1>. USE DEF ChannelsAnswer, server, link
<1>1. /\ req'.chans.at = "none" /\ req'.net = req.net /\ chans' = req.chans.val
      /\ req'.user = req.user /\ req'.me = req.me /\ req'.door = req.door
      /\ req'.pending = req.pending
  BY DEF SubInv, WireOK, Asking, Questions, Unasked
<1>. QED
  BY <1>1 DEF Known, Loading, DoorKept, UpKnown, ChansKnown, Has

LEMMA UserAnswerKnown == ASSUME SubInv, Known, UserAnswer PROVE Known'
<1>. USE DEF UserAnswer, server, link, copies
<1>. DEFINE u == [req EXCEPT !.user = FALSE]
            m == [u EXCEPT !.me = TRUE]
<1>1. /\ Asking(u) /\ u.door = req.door /\ u.pending = req.pending /\ u.net = req.net
      /\ u.chans = req.chans
  BY DEF SubInv, WireOK, Asking, Questions
<1>2. req' = LoadNetworks(m)
  OBVIOUS
<1>. HIDE DEF u
<1>3. Asking(m) /\ m.me = TRUE /\ DoorKept(m) /\ m.chans = req.chans
  BY <1>1 DEF Asking, Questions, DoorKept, Known, Loading
<1>. HIDE DEF m
<1>4. req'.me = TRUE /\ req'.chans = req.chans /\ req'.net.at = "asked" /\ DoorKept(req')
  BY <1>2, <1>3, LoadNetworksAsks
<1>5. Loading'
  BY <1>4 DEF Loading
<1>. QED
  BY <1>4, <1>5, AskedKnown DEF Known

LEMMA ReceiveKnown == ASSUME SubInv, Known, Receive PROVE Known'
<1>. DEFINE e == Head(inbox)
<1>1. /\ tok /\ tok' = tok /\ UNCHANGED <<srv, missed, chans>>
      /\ inbox # <<>> /\ inbox' = Tail(inbox) /\ inbox \in Seq(Events)
  BY DEF SubInv, OutIsOut, WireOK, Receive, server, link, Typed
<1>2. \/ /\ e.ev = "nick" /\ net # NoRow /\ net' = [net EXCEPT !.nick = e.of]
         /\ req' = LoadChannels(req, net)
      \/ e.ev = "nick" /\ UNCHANGED <<net, req>>
      \/ e.ev = "state" /\ req' = RefetchNetworks(req) /\ net' = net
      \/ e.ev = "channels" /\ req' = LoadChannels(req, net) /\ net' = net
      \/ e.ev = "windows" /\ UNCHANGED <<net, req>>
      \/ e.ev = "attached" /\ req' = RefetchNetworks([req EXCEPT !.user = TRUE]) /\ net' = net
      \/ e.ev = "part" /\ UNCHANGED <<net, req>>
  BY DEF Receive
<1>3. /\ Has("state") => e.ev = "state" \/ Has("state")'
      /\ Has("channels") => e.ev = "channels" \/ Has("channels")'
  BY <1>1, HasTail
<1>. HIDE DEF e
<1>4. CASE e.ev \in {"nick", "windows", "part"} /\ UNCHANGED <<net, req>>
  BY <1>1, <1>3, <1>4 DEF Known, Loading, DoorKept, UpKnown, ChansKnown
<1>5. CASE /\ e.ev = "nick" /\ net # NoRow /\ net' = [net EXCEPT !.nick = e.of]
           /\ req' = LoadChannels(req, net)
  <2>1. /\ req'.user = req.user /\ req'.me = req.me /\ req'.net = req.net
        /\ req'.pending = req.pending /\ req'.door = req.door /\ req'.chans.at = "asked"
    BY <1>5, LoadChannelsAsks DEF SubInv, WireOK
  <2>2. net'.up = net.up
    BY <1>5 DEF SubInv, Typed, Rows
  <2>. QED
    BY <1>1, <1>3, <1>5, <2>1, <2>2 DEF Known, Loading, DoorKept, UpKnown, ChansKnown
<1>6. CASE e.ev = "channels" /\ req' = LoadChannels(req, net) /\ net' = net
  <2>1. /\ req'.user = req.user /\ req'.me = req.me /\ req'.net = req.net
        /\ req'.pending = req.pending /\ req'.door = req.door
        /\ net # NoRow => req'.chans.at = "asked"
    BY <1>6, LoadChannelsAsks DEF SubInv, WireOK
  <2>. QED
    BY <1>1, <1>3, <1>6, <2>1 DEF Known, Loading, DoorKept, UpKnown, ChansKnown
<1>7. CASE e.ev = "state" /\ req' = RefetchNetworks(req) /\ net' = net
  <2>1. /\ req'.user = req.user /\ req'.me = req.me /\ req'.chans = req.chans /\ DoorKept(req')
        /\ req.user \/ req.me => req'.user \/ req'.pending \/ req'.net.at = "asked"
    BY <1>7, RefetchAsks DEF SubInv, WireOK, Known, Loading
  <2>. QED
    BY <1>1, <1>3, <1>7, <2>1 DEF Known, Loading, UpKnown, ChansKnown
<1>8. CASE e.ev = "attached" /\ req' = RefetchNetworks([req EXCEPT !.user = TRUE]) /\ net' = net
  <2>. DEFINE u == [req EXCEPT !.user = TRUE]
  <2>1. Asking(u) /\ DoorKept(u) /\ u.user /\ u.chans = req.chans
    BY DEF SubInv, WireOK, Asking, Questions, Known, Loading, DoorKept
  <2>2. req' = RefetchNetworks(u)
    BY <1>8
  <2>. HIDE DEF u
  <2>3. req'.user /\ req'.chans = req.chans /\ DoorKept(req')
    BY <2>1, <2>2, RefetchAsks
  <2>. QED
    BY <1>1, <1>3, <1>8, <2>3 DEF Known, Loading, UpKnown, ChansKnown
<1>. QED
  BY <1>2, <1>4, <1>5, <1>6, <1>7, <1>8

\* The socket.
LEMMA ResyncKnown == ASSUME SubInv, Known, Open \/ Show PROVE Known'
<1>1. UNCHANGED <<srv, inbox, missed, tok, net, chans>>
  BY DEF Open, Show, server, copies
<1>2. /\ \/ req' = req
         \/ /\ req'.user = req.user /\ req'.me = req.me /\ DoorKept(req')
            /\ req.user \/ req.me => req'.user \/ req'.pending \/ req'.net.at = "asked"
            /\ net # NoRow => req'.chans.at = "asked"
  BY ResyncAsks DEF Open, Show, SubInv, WireOK, Known, Loading
<1>3. CASE req' = req
  BY <1>1, <1>3, SameKnown
<1>4. CASE /\ req'.user = req.user /\ req'.me = req.me /\ DoorKept(req')
           /\ req.user \/ req.me => req'.user \/ req'.pending \/ req'.net.at = "asked"
           /\ net # NoRow => req'.chans.at = "asked"
  <2>1. Loading' /\ (tok => req'.user \/ req'.pending \/ req'.net.at = "asked")
    BY <1>1, <1>4 DEF Known, Loading
  <2>. QED
    BY <1>1, <1>4, <2>1, AskedKnown
<1>. QED
  BY <1>2, <1>3, <1>4

LEMMA LostKnown == ASSUME SubInv, Known, Drop \/ Offline \/ Frozen PROVE Known'
<1>1. /\ UNCHANGED <<srv, tok, net, chans, req>>
      /\ inbox' = <<>> /\ missed' = missed \cup Unheard(inbox)
  BY DEF Drop, Offline, Frozen, Cut, link, copies
<1>. QED
  BY <1>1, LostIsMissed DEF Known, Loading, DoorKept, UpKnown, ChansKnown

LEMMA SignKnown == ASSUME SubInv, Known, SignOut \/ SignIn PROVE Known'
<1>1. CASE SignOut
  <2>1. /\ req'.pending = req.pending /\ req'.door = IF req.door = "own" THEN "lost" ELSE req.door
    BY <1>1 DEF SignOut, SubInv, WireOK, Asking, Questions
  <2>2. ~tok'
    BY <1>1 DEF SignOut
  <2>3. DoorKept(req')
    BY <2>1 DEF Known, Loading, DoorKept
  <2>. QED
    BY <2>2, <2>3 DEF Known, Loading, UpKnown, ChansKnown
<1>2. CASE SignIn
  <2>1. /\ req'.user /\ req'.pending = req.pending /\ req'.door = req.door /\ req'.net = req.net
    BY <1>2 DEF SignIn, SubInv, WireOK, Asking, Questions
  <2>2. net' = NoRow
    BY <1>2 DEF SignIn, copies, SubInv, OutIsOut
  <2>. QED
    BY <2>1, <2>2 DEF Known, Loading, DoorKept, UpKnown, ChansKnown
<1>. QED
  BY <1>1, <1>2

LEMMA QuietKnown ==
    ASSUME SubInv, Known, UNCHANGED subVars \/ Loops \/ (\E n \in Nicks : SlashMsg(n))
                          \/ (\E t \in Topics : JoinOk(t)) \/ Online \/ Hide
    PROVE  Known'
<1>1. UNCHANGED <<srv, inbox, missed, tok, net, chans, req>>
  BY DEF subVars, Loops, ChannelsLoop, QueryLoop, ListenerLoop, SlashMsg, JoinOk, Online, Hide,
         server, link, copies
<1>. QED
  BY <1>1, SameKnown

LEMMA UserJoinKnown == ASSUME SubInv, Known, UserJoinOk PROVE Known'
<1>. USE DEF UserJoinOk, server, copies
<1>. DEFINE es == <<[ev |-> "windows", of |-> srv.windows]>>
<1>1. [ev |-> "windows", of |-> srv.windows] \in Events /\ inbox \in Seq(Events)
  BY DEF Events, SubInv, WireOK, Typed
<1>2. es \in Seq(Events) /\ inbox' = inbox \o es
  BY <1>1, OneEvent, AppendIsConcat
<1>. HIDE DEF es
<1>3. (Has("state") => Has("state")') /\ (Has("channels") => Has("channels")')
  BY <1>1, <1>2, HasConcat
<1>. QED
  BY <1>3 DEF Known, Loading, DoorKept, UpKnown, ChansKnown

LEMMA InitKnown == Init => Known
BY DEF Init, Known, Loading, DoorKept, UpKnown, ChansKnown, Facts, Unasked

LEMMA NextKnown == SubInv /\ Known /\ [Next]_subVars => Known'
<1>. SUFFICES ASSUME SubInv, Known, [Next]_subVars PROVE Known'
  OBVIOUS
<1>1. CASE UNCHANGED subVars \/ Loops \/ (\E n \in Nicks : SlashMsg(n))
           \/ (\E t \in Topics : JoinOk(t)) \/ Online \/ Hide
  BY <1>1, QuietKnown
<1>2. CASE Answers
  BY <1>2, NetworksReadKnown, ChannelsReadKnown, NetworksAnswerKnown, LostAnswerKnown,
     ChannelsAnswerKnown, UserAnswerKnown DEF Answers
<1>3. CASE (\E n \in Nicks : SrvNick(n) \/ SrvWindow(n)) \/ (\E c \in Chans : SrvJoin(c)) \/ SrvState
  BY <1>3, SrvChangesKnown
<1>4. CASE (\E c \in Chans : SrvPart(c)) \/ SrvAttach \/ Receive
  BY <1>4, SrvPartKnown, SrvAttachKnown, ReceiveKnown
<1>5. CASE Open \/ UserJoinOk \/ Drop \/ Offline \/ Frozen \/ Show \/ SignOut \/ SignIn
  BY <1>5, ResyncKnown, UserJoinKnown, LostKnown, SignKnown
<1>. QED
  BY <1>1, <1>2, <1>3, <1>4, <1>5 DEF Next, Loops, Answers

-----------------------------------------------------------------------------
(* The theorems.                                                           *)

LEMMA NextOK == SubInv /\ [Next]_subVars => SubInv'
<1>. SUFFICES ASSUME SubInv, [Next]_subVars PROVE SubInv'
  OBVIOUS
<1>1. CASE UNCHANGED subVars
  BY <1>1 DEF subVars, server, link, copies, SubInv, Typed, WireOK, OutIsOut, Listening
<1>2. CASE Loops
  BY <1>2, ChannelsLoopOK, QueryLoopOK, ListenerLoopOK DEF Loops
<1>3. CASE Answers
  BY <1>3, NetworksReadOK, ChannelsReadOK, NetworksAnswerOK, LostAnswerOK, ChannelsAnswerOK,
     UserAnswerOK DEF Answers
<1>4. CASE \E n \in Nicks : SlashMsg(n) \/ SrvNick(n) \/ SrvWindow(n)
  BY <1>4, SlashMsgOK, SrvNickOK, SrvWindowOK
<1>5. CASE (\E t \in Topics : JoinOk(t)) \/ \E c \in Chans : SrvJoin(c) \/ SrvPart(c)
  BY <1>5, JoinAnswered, SrvJoinOK, SrvPartOK
<1>6. CASE SrvState \/ SrvAttach \/ Receive
  BY <1>6, SrvStateOK, SrvAttachOK, ReceiveOK
<1>7. CASE Open \/ UserJoinOk \/ Drop \/ Offline \/ Online
  BY <1>7, OpenOK, UserJoinAnswered, DropOK, OfflineOK, OnlineOK
<1>8. CASE Hide \/ Frozen \/ Show \/ SignOut \/ SignIn
  BY <1>8, HideOK, FrozenOK, ShowOK, SignOutOK, SignInOK
<1>. QED
  BY <1>1, <1>2, <1>3, <1>4, <1>5, <1>6, <1>7, <1>8 DEF Next, Loops, Answers

\* The invariant holds in every reachable state.
LEMMA SubInvHolds == Spec => []SubInv
<1>1. Init => SubInv
  BY InitOK
<1>2. SubInv /\ [Next]_subVars => SubInv'
  BY NextOK
<1>. QED
  BY <1>1, <1>2, PTL DEF Spec

\* What the runs check follows from it.
LEMMA Consequences == SubInv => SubTypeOK /\ ListenerIsOurs /\ OneHandler /\ AckMeansJoined
<1>. SUFFICES ASSUME SubInv PROVE SubTypeOK /\ ListenerIsOurs /\ OneHandler /\ AckMeansJoined
  OBVIOUS
<1>1. SubTypeOK
  BY DEF SubInv, Typed, Rows, Consistent, Tables, SubTypeOK
<1>2. ListenerIsOurs
  BY DEF SubInv, Listening, Consistent, ListenerIsOurs, Settled
<1>3. OneHandler /\ AckMeansJoined
  BY DEF SubInv, Consistent, OneHandler, AckMeansJoined
<1>. QED
  BY <1>1, <1>2, <1>3

\* The copies, the requests and the tables of topics are of their kinds,
\* whatever is announced, answered, lost or retried.
THEOREM SubTypeCorrect == Spec => []SubTypeOK
<1>. QED
  BY SubInvHolds, Consequences, PTL

\* The DM listener is on the topic of our nick whenever the loops have run, and
\* on no topic else, through every rename, window, sign-out and reconnect.
THEOREM ListenerFollowsUs == Spec => []ListenerIsOurs
<1>. QED
  BY SubInvHolds, Consequences, PTL

\* A topic has one handler or none, and the Channel of one that is left is left.
THEOREM NoGhostChannel == Spec => []OneHandler
<1>. QED
  BY SubInvHolds, Consequences, PTL

\* A memoised join is never of a topic that the listener, or nobody, is on.
THEOREM AcksAreTrue == Spec => []AckMeansJoined
<1>. QED
  BY SubInvHolds, Consequences, PTL

\* Nothing that was announced is lost between the refetches: when the client is
\* quiet it has every change it was told of.
THEOREM NothingAnnouncedIsLost == Spec => []HeardIsApplied
<1>1. Init => SubInv /\ Known
  BY InitOK, InitKnown
<1>2. (SubInv /\ Known) /\ [Next]_subVars => (SubInv /\ Known)'
  BY NextOK, NextKnown
<1>3. SubInv /\ Known => HeardIsApplied
  <2>. SUFFICES ASSUME SubInv, Known, Quiet
                PROVE  /\ "up" \notin missed => net.up = srv.up
                       /\ "chans" \notin missed => chans = srv.chans
    BY DEF HeardIsApplied
  <2>1. ~Has("state") /\ ~Has("channels")
    BY DEF Quiet, Has
  <2>. QED
    BY <2>1 DEF Quiet, Known, Loading, DoorKept, UpKnown, ChansKnown
<1>. QED
  BY <1>1, <1>2, <1>3, PTL DEF Spec

=============================================================================
