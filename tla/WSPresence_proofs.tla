------------------------- MODULE WSPresence_proofs -------------------------
(***************************************************************************)
(* WSPresence keeps its registry consistent, tells the sessions what its   *)
(* reports say, and implements PresenceFeed, for any users and sockets.    *)
(***************************************************************************)
EXTENDS WSPresence, TLAPS

Mine(u, s) == \A p \in DOMAIN s : p \in Sockets /\ Owner[p] = u /\ s[p] \in Reports

Registry(m) ==
    /\ DOMAIN m \subseteq Users
    /\ \A u \in DOMAIN m : DOMAIN m[u] # {} /\ Mine(u, m[u])

\* The inductive invariant: each part is needed for the others. A tracked pid
\* is monitored only because reports of untracked ones are ignored, and the
\* sessions are current because every write is compared before and after.
WsInv == WsTypeOK /\ TrackedIsWatched /\ ToldIsCurrent

-----------------------------------------------------------------------------
(* The write door.                                                         *)

\* Reading back through the write door: the written user has the new sockets,
\* every other user the old ones.
LEMMA PutGet ==
    ASSUME NEW m, NEW u, NEW s, NEW v
    PROVE  /\ v # u => UserSockets(PutUserSockets(m, u, s), v) = UserSockets(m, v)
           /\ DOMAIN UserSockets(PutUserSockets(m, u, s), u) = DOMAIN s
           /\ \A p \in DOMAIN s : UserSockets(PutUserSockets(m, u, s), u)[p] = s[p]
  BY DEF PutUserSockets, UserSockets, Empty

\* put_user_sockets/3 keeps the registry well formed, the empty map included.
LEMMA PutRegistry ==
    ASSUME NEW m, Registry(m), NEW u \in Users, NEW s, Mine(u, s)
    PROVE  Registry(PutUserSockets(m, u, s))
  BY DEF Registry, PutUserSockets, Mine

\* A user's sockets are its own.
LEMMA UserSocketsMine ==
    ASSUME NEW m, Registry(m), NEW u \in Users
    PROVE  Mine(u, UserSockets(m, u))
  BY DEF Registry, Mine, UserSockets, Empty

\* Recording a report for a socket of the user, and forgetting a socket.
LEMMA PutMine ==
    ASSUME NEW u \in Users, NEW s, Mine(u, s), NEW p \in Sockets, Owner[p] = u,
           NEW r \in Reports
    PROVE  Mine(u, Put(s, p, r)) /\ Mine(u, Delete(s, p))
  BY DEF Mine, Put, Delete

\* The type invariant in terms of the registry.
LEMMA TypeSplit ==
    WsTypeOK <=> /\ Registry(sockets)
                 /\ refs \subseteq Sockets /\ down \subseteq Sockets /\ lost \subseteq Users
                 /\ proc \in [Sockets -> {"new", "calling", "live", "dead", "gone"}]
                 /\ told \in [Users -> Feed!Events]
                 /\ beat \in [Users -> BOOLEAN]
  BY DEF WsTypeOK, Registry, Mine

-----------------------------------------------------------------------------
(* The broadcast.                                                          *)

\* Whatever the handler wrote, emit_transition/4 leaves the sessions current.
LEMMA EmitCurrent ==
    ASSUME WsTypeOK, ToldIsCurrent, EmitTransition
    PROVE  /\ told' \in [Users -> Feed!Events] /\ beat' \in [Users -> BOOLEAN]
           /\ lost' \subseteq Users
           /\ ToldIsCurrent'
  <1>1. told \in [Users -> Feed!Events] /\ beat \in [Users -> BOOLEAN] /\ lost \subseteq Users
    BY DEF WsTypeOK
  <1>2. told' \in [Users -> Feed!Events] /\ beat' \in [Users -> BOOLEAN] /\ lost' \subseteq Users
    BY <1>1 DEF EmitTransition, Feed!Events
  <1>3. ASSUME NEW u \in Users
        PROVE  /\ AnyReportedVisible(sockets', u) => told'[u] = "ws_visible"
               /\ told'[u] = "ws_visible" /\ ~AnyReportedVisible(sockets', u) => u \in lost'
    BY <1>1 DEF EmitTransition, ToldIsCurrent
  <1> QED BY <1>2, <1>3 DEF ToldIsCurrent

\* A step that leaves every verdict and every announcement alone keeps the
\* sessions current.
LEMMA QuietCurrent ==
    ASSUME ToldIsCurrent, UNCHANGED <<told, lost>>,
           \A u \in Users : AnyReportedVisible(sockets', u) = AnyReportedVisible(sockets, u)
    PROVE  ToldIsCurrent'
  BY DEF ToldIsCurrent

\* A broadcast that concerns one user, or only hides, is a step of the feed.
LEMMA EmitFeeds ==
    ASSUME WsTypeOK, ToldIsCurrent, EmitTransition,
           \/ \E u \in Users : \A v \in Users \ {u} :
                AnyReportedVisible(sockets', v) = AnyReportedVisible(sockets, v)
           \/ \A v \in Users : AnyReportedVisible(sockets', v) => AnyReportedVisible(sockets, v)
    PROVE  [Feed!FeedNext]_(Feed!feedVars)
  <1> DEFINE shown == {u \in Users : ~AnyReportedVisible(sockets, u) /\ AnyReportedVisible(sockets', u)}
             hid == {u \in Users : AnyReportedVisible(sockets, u) /\ ~AnyReportedVisible(sockets', u)}
  <1>1. told \in [Users -> Feed!Events] /\ beat \in [Users -> BOOLEAN]
    BY DEF WsTypeOK
  <1>2. /\ told' = [u \in Users |-> IF u \in shown THEN "ws_visible"
                                     ELSE IF u \in hid THEN "ws_all_hidden" ELSE told[u]]
        /\ beat' = [u \in Users |-> IF u \in shown \cup hid THEN ~beat[u] ELSE beat[u]]
    BY DEF EmitTransition
  <1>3. \A u \in hid : told[u] = "ws_visible"
    BY DEF ToldIsCurrent
  <1>4. \/ shown = {}
        \/ \E u \in Users : shown = {u} /\ hid = {}
    OBVIOUS
  <1> HIDE DEF shown, hid
  <1>5. shown \subseteq Users /\ hid \subseteq Users
    BY DEF shown, hid
  <1>6. CASE shown = {} /\ hid = {}
    <2>1. told' = told
      BY <1>1, <1>2, <1>6
    <2>2. beat' = beat
      BY <1>1, <1>2, <1>6
    <2> QED BY <2>1, <2>2 DEF Feed!feedVars
  <1>7. CASE shown = {} /\ hid # {}
    <2>1. Feed!Broadcast(hid, "ws_all_hidden")
      BY <1>2, <1>7 DEF Feed!Broadcast
    <2>2. Feed!Hide(hid)
      BY <2>1, <1>3, <1>7 DEF Feed!Hide
    <2> QED BY <2>2, <1>5 DEF Feed!FeedNext
  <1>8. ASSUME NEW u \in Users, shown = {u}, hid = {}
        PROVE  Feed!FeedNext
    <2>1. Feed!Broadcast({u}, "ws_visible")
      BY <1>2, <1>8 DEF Feed!Broadcast
    <2> QED BY <2>1 DEF Feed!Show, Feed!FeedNext
  <1> QED BY <1>4, <1>6, <1>7, <1>8

-----------------------------------------------------------------------------
(* What each kind of write does to the registry.                           *)

\* Writing a report for p touches nobody else and loses no socket.
LEMMA WriteReport ==
    ASSUME WsTypeOK, NEW p \in Sockets, NEW r \in Reports,
           sockets' = PutUserSockets(sockets, Owner[p], Put(UserSockets(sockets, Owner[p]), p, r))
    PROVE  /\ Registry(sockets')
           /\ \A q \in Sockets : Tracked(Owner[q], q)' <=> (q = p \/ Tracked(Owner[q], q))
           /\ \A v \in Users \ {Owner[p]} :
                AnyReportedVisible(sockets', v) = AnyReportedVisible(sockets, v)
  <1> DEFINE u == Owner[p]
             s == Put(UserSockets(sockets, u), p, r)
  <1>1. u \in Users
    BY OwnerAssumption
  <1>2. Registry(sockets) BY TypeSplit
  <1>3. Mine(u, s)
    BY <1>1, <1>2, UserSocketsMine, PutMine
  <1>4. Registry(sockets')
    BY <1>1, <1>2, <1>3, PutRegistry
  <1>5. \A v : v # u => UserSockets(sockets', v) = UserSockets(sockets, v)
    BY PutGet
  <1>6. DOMAIN UserSockets(sockets', u) = DOMAIN UserSockets(sockets, u) \cup {p}
    BY PutGet DEF Put
  <1>7. ASSUME NEW q \in Sockets
        PROVE  Tracked(Owner[q], q)' <=> (q = p \/ Tracked(Owner[q], q))
    <2>1. CASE Owner[q] = u
      BY <1>6, <2>1 DEF Tracked
    <2>2. CASE Owner[q] # u
      BY <1>5, <2>2 DEF Tracked
    <2> QED BY <2>1, <2>2
  <1>8. \A v \in Users \ {u} : AnyReportedVisible(sockets', v) = AnyReportedVisible(sockets, v)
    BY <1>5 DEF AnyReportedVisible
  <1> QED BY <1>4, <1>7, <1>8

\* Forgetting p touches nobody else and forgets only p.
LEMMA ForgetSocket ==
    ASSUME WsTypeOK, NEW p \in Sockets,
           sockets' = PutUserSockets(sockets, Owner[p], Delete(UserSockets(sockets, Owner[p]), p))
    PROVE  /\ Registry(sockets')
           /\ \A q \in Sockets : Tracked(Owner[q], q)' <=> (q # p /\ Tracked(Owner[q], q))
           /\ \A v \in Users \ {Owner[p]} :
                AnyReportedVisible(sockets', v) = AnyReportedVisible(sockets, v)
  <1> DEFINE u == Owner[p]
             s == Delete(UserSockets(sockets, u), p)
  <1>1. u \in Users
    BY OwnerAssumption
  <1>2. Registry(sockets) BY TypeSplit
  <1>3. Mine(u, s)
    BY <1>1, <1>2, UserSocketsMine, PutMine DEF Reports
  <1>4. Registry(sockets')
    BY <1>1, <1>2, <1>3, PutRegistry
  <1>5. \A v : v # u => UserSockets(sockets', v) = UserSockets(sockets, v)
    BY PutGet
  <1>6. DOMAIN UserSockets(sockets', u) = DOMAIN UserSockets(sockets, u) \ {p}
    BY PutGet DEF Delete
  <1>7. ASSUME NEW q \in Sockets
        PROVE  Tracked(Owner[q], q)' <=> (q # p /\ Tracked(Owner[q], q))
    <2>1. CASE Owner[q] = u
      BY <1>6, <2>1 DEF Tracked
    <2>2. CASE Owner[q] # u
      BY <1>5, <2>2 DEF Tracked
    <2> QED BY <2>1, <2>2
  <1>8. \A v \in Users \ {u} : AnyReportedVisible(sockets', v) = AnyReportedVisible(sockets, v)
    BY <1>5 DEF AnyReportedVisible
  <1> QED BY <1>4, <1>7, <1>8

\* The verdict about p's own user when a report is written: unchanged when
\* neither the old nor the new report of p can move it.
LEMMA SameVerdict ==
    ASSUME WsTypeOK, NEW p \in Sockets, NEW r \in Reports,
           sockets' = PutUserSockets(sockets, Owner[p], Put(UserSockets(sockets, Owner[p]), p, r)),
           \/ ~Tracked(Owner[p], p) /\ r = "hidden"
           \/ Tracked(Owner[p], p) /\ UserSockets(sockets, Owner[p])[p] # "hidden" /\ r # "hidden"
    PROVE  \A v \in Users : AnyReportedVisible(sockets', v) = AnyReportedVisible(sockets, v)
  <1> DEFINE u == Owner[p]
             s == Put(UserSockets(sockets, u), p, r)
  <1>1. /\ DOMAIN UserSockets(sockets', u) = DOMAIN s
        /\ \A q \in DOMAIN s : UserSockets(sockets', u)[q] = s[q]
    BY PutGet
  <1>2. /\ DOMAIN s = DOMAIN UserSockets(sockets, u) \cup {p}
        /\ s[p] = r
        /\ \A q \in DOMAIN UserSockets(sockets, u) : q # p => s[q] = UserSockets(sockets, u)[q]
    BY DEF Put
  <1> HIDE DEF s
  <1>3. AnyReportedVisible(sockets', u) = AnyReportedVisible(sockets, u)
    BY <1>1, <1>2 DEF AnyReportedVisible, Tracked
  <1> QED BY <1>3, WriteReport

\* The sweep demotes in place: the same sockets stay tracked and nobody
\* becomes visible.
LEMMA SweepDemotes ==
    ASSUME WsTypeOK, sockets' = [u \in DOMAIN sockets |-> Demoted(sockets[u])]
    PROVE  /\ Registry(sockets')
           /\ \A q \in Sockets : Tracked(Owner[q], q)' <=> Tracked(Owner[q], q)
           /\ \A v \in Users : AnyReportedVisible(sockets', v) => AnyReportedVisible(sockets, v)
  <1>1. Registry(sockets) BY TypeSplit
  <1>2. \A u \in DOMAIN sockets : DOMAIN sockets'[u] = DOMAIN sockets[u]
    BY DEF Demoted
  <1>3. \A u \in DOMAIN sockets : \A p \in DOMAIN sockets[u] :
            sockets'[u][p] = IF sockets[u][p] = "stale" THEN "hidden" ELSE sockets[u][p]
    BY DEF Demoted
  <1>4. DOMAIN sockets' = DOMAIN sockets
    OBVIOUS
  <1>5. Registry(sockets')
    BY <1>1, <1>2, <1>3, <1>4 DEF Registry, Mine, Reports
  <1>6. \A q \in Sockets : Tracked(Owner[q], q)' <=> Tracked(Owner[q], q)
    BY <1>2, <1>4 DEF Tracked, UserSockets
  <1>7. \A v \in Users : AnyReportedVisible(sockets', v) => AnyReportedVisible(sockets, v)
    BY <1>2, <1>3, <1>4 DEF AnyReportedVisible, UserSockets
  <1> QED BY <1>5, <1>6, <1>7

-----------------------------------------------------------------------------
(* The invariant and the refinement, step by step.                         *)

LEMMA WsInitInv == WsInit => WsInv
  <1> SUFFICES ASSUME WsInit PROVE WsInv
    OBVIOUS
  <1>1. WsTypeOK
    BY DEF WsInit, WsTypeOK, Feed!Events
  <1>2. \A u : UserSockets(sockets, u) = Empty
    BY DEF WsInit, UserSockets
  <1>3. TrackedIsWatched
    BY <1>2 DEF WsInit, TrackedIsWatched, Tracked, Empty
  <1>4. ToldIsCurrent
    BY <1>2 DEF WsInit, ToldIsCurrent, AnyReportedVisible, Empty
  <1> QED BY <1>1, <1>3, <1>4 DEF WsInv

\* The doors that compare before and after: reports, closing hints and DOWN.
LEMMA DoorStep ==
    ASSUME WsInv, NEW p \in Sockets,
           ClientClosing(p) \/ Down(p) \/ (\E visible \in BOOLEAN : SetVisibility(p, visible))
    PROVE  WsInv' /\ [Feed!FeedNext]_(Feed!feedVars)
  <1>0. WsTypeOK /\ TrackedIsWatched /\ ToldIsCurrent /\ Owner[p] \in Users
    BY OwnerAssumption DEF WsInv
  <1>1. EmitTransition
    BY DEF ClientClosing, Down, SetVisibility
  <1>2. /\ Registry(sockets')
        /\ \A v \in Users \ {Owner[p]} :
             AnyReportedVisible(sockets', v) = AnyReportedVisible(sockets, v)
        /\ \A q \in Sockets : Tracked(Owner[q], q)' <=> q \in refs'
        /\ refs' \subseteq refs /\ down' \subseteq down /\ proc' = proc
        /\ (refs' = refs /\ down' = down) \/ (refs' = refs \ {p} /\ down' = down \ {p})
    <2>1. CASE Down(p)
      <3>1. sockets' = PutUserSockets(sockets, Owner[p], Delete(UserSockets(sockets, Owner[p]), p))
        BY <2>1 DEF Down
      <3>2. /\ Registry(sockets')
            /\ \A v \in Users \ {Owner[p]} :
                 AnyReportedVisible(sockets', v) = AnyReportedVisible(sockets, v)
            /\ \A q \in Sockets : Tracked(Owner[q], q)' <=> (q # p /\ Tracked(Owner[q], q))
        BY <1>0, <3>1, ForgetSocket
      <3>3. refs' = refs \ {p} /\ down' = down \ {p} /\ proc' = proc
        BY <2>1 DEF Down
      <3> QED BY <1>0, <3>2, <3>3 DEF TrackedIsWatched
    <2>2. CASE ClientClosing(p) \/ (\E visible \in BOOLEAN : SetVisibility(p, visible))
      <3>1. PICK r \in Reports :
                sockets' = PutUserSockets(sockets, Owner[p], Put(UserSockets(sockets, Owner[p]), p, r))
        BY <2>2 DEF ClientClosing, SetVisibility, Reports
      <3>2. Tracked(Owner[p], p) /\ UNCHANGED <<refs, down, proc>>
        BY <2>2 DEF ClientClosing, SetVisibility
      <3>3. /\ Registry(sockets')
            /\ \A v \in Users \ {Owner[p]} :
                 AnyReportedVisible(sockets', v) = AnyReportedVisible(sockets, v)
            /\ \A q \in Sockets : Tracked(Owner[q], q)' <=> (q = p \/ Tracked(Owner[q], q))
        BY <1>0, <3>1, WriteReport
      <3> QED BY <1>0, <3>2, <3>3 DEF TrackedIsWatched
    <2> QED BY <2>1, <2>2
  <1>3. ToldIsCurrent' /\ told' \in [Users -> Feed!Events] /\ beat' \in [Users -> BOOLEAN]
        /\ lost' \subseteq Users
    BY <1>0, <1>1, EmitCurrent
  <1>4. WsTypeOK'
    BY <1>0, <1>2, <1>3, TypeSplit DEF Registry, Mine, WsTypeOK
  <1>5. TrackedIsWatched'
    BY <1>0, <1>2 DEF TrackedIsWatched
  <1>6. [Feed!FeedNext]_(Feed!feedVars)
    BY <1>0, <1>1, <1>2, EmitFeeds
  <1> QED BY <1>3, <1>4, <1>5, <1>6 DEF WsInv

\* The sweep.
LEMMA SweepStep ==
    ASSUME WsInv, Sweep
    PROVE  WsInv' /\ [Feed!FeedNext]_(Feed!feedVars)
  <1>0. WsTypeOK /\ TrackedIsWatched /\ ToldIsCurrent
    BY DEF WsInv
  <1>1. EmitTransition /\ UNCHANGED <<refs, down, proc>>
    BY DEF Sweep
  <1>2. /\ Registry(sockets')
        /\ \A q \in Sockets : Tracked(Owner[q], q)' <=> Tracked(Owner[q], q)
        /\ \A v \in Users : AnyReportedVisible(sockets', v) => AnyReportedVisible(sockets, v)
    BY <1>0, SweepDemotes DEF Sweep
  <1>3. ToldIsCurrent' /\ told' \in [Users -> Feed!Events] /\ beat' \in [Users -> BOOLEAN]
        /\ lost' \subseteq Users
    BY <1>0, <1>1, EmitCurrent
  <1>4. WsTypeOK'
    BY <1>0, <1>1, <1>2, <1>3, TypeSplit DEF Registry, Mine, WsTypeOK
  <1>5. TrackedIsWatched'
    BY <1>0, <1>1, <1>2 DEF TrackedIsWatched
  <1>6. [Feed!FeedNext]_(Feed!feedVars)
    BY <1>0, <1>1, <1>2, EmitFeeds
  <1> QED BY <1>3, <1>4, <1>5, <1>6 DEF WsInv

\* Steps that broadcast nothing.
LEMMA SilentStep ==
    ASSUME WsInv, NEW p \in Sockets,
           Connect(p) \/ Register(p) \/ Die(p) \/ Age(p) \/ Recycle(p)
    PROVE  WsInv' /\ UNCHANGED <<told, beat>>
  <1>0. WsTypeOK /\ TrackedIsWatched /\ ToldIsCurrent /\ Owner[p] \in Users
    BY OwnerAssumption DEF WsInv
  <1>1. UNCHANGED <<told, beat, lost>>
    BY DEF Connect, Register, Die, Age, Recycle
  <1>2. CASE Connect(p) \/ Die(p) \/ Recycle(p)
    <2>1. sockets' = sockets /\ refs' = refs
      BY <1>2 DEF Connect, Die, Recycle, wsState
    <2>2. WsTypeOK'
      BY <1>0, <1>1, <1>2, <2>1 DEF WsTypeOK, Connect, Die, Recycle, wsState
    <2>3. TrackedIsWatched'
      BY <1>0, <1>2, <2>1 DEF WsTypeOK, TrackedIsWatched, Tracked, Connect, Die, Recycle, wsState
    <2>4. ToldIsCurrent'
      BY <1>0, <1>1, <2>1 DEF ToldIsCurrent
    <2> QED BY <1>1, <2>2, <2>3, <2>4 DEF WsInv
  <1>3. CASE Register(p)
    <2>1. /\ ~Tracked(Owner[p], p) /\ proc[p] \in {"calling", "gone"}
          /\ sockets' = PutUserSockets(sockets, Owner[p], Put(UserSockets(sockets, Owner[p]), p, "hidden"))
          /\ refs' = refs \cup {p}
          /\ down' = IF proc[p] = "gone" THEN down \cup {p} ELSE down
          /\ proc' = [proc EXCEPT ![p] = IF @ = "gone" THEN "dead" ELSE "live"]
      BY <1>3 DEF Register
    <2>2. "hidden" \in Reports
      BY DEF Reports
    <2>3. /\ Registry(sockets')
          /\ \A q \in Sockets : Tracked(Owner[q], q)' <=> (q = p \/ Tracked(Owner[q], q))
      BY <1>0, <2>1, <2>2, WriteReport
    <2>4. \A v \in Users : AnyReportedVisible(sockets', v) = AnyReportedVisible(sockets, v)
      BY <1>0, <2>1, <2>2, SameVerdict
    <2>5. WsTypeOK'
      BY <1>0, <1>1, <2>1, <2>3 DEF Registry, Mine, WsTypeOK
    <2>6. TrackedIsWatched'
      BY <1>0, <2>1, <2>3 DEF TrackedIsWatched, WsTypeOK
    <2>7. ToldIsCurrent'
      BY <1>0, <1>1, <2>4, QuietCurrent
    <2> QED BY <1>1, <2>5, <2>6, <2>7 DEF WsInv
  <1>4. CASE Age(p)
    <2>1. /\ Tracked(Owner[p], p) /\ sockets[Owner[p]][p] = "visible"
          /\ sockets' = PutUserSockets(sockets, Owner[p], Put(UserSockets(sockets, Owner[p]), p, "stale"))
          /\ UNCHANGED <<refs, down, proc>>
      BY <1>4 DEF Age
    <2>2. "stale" \in Reports /\ UserSockets(sockets, Owner[p])[p] # "hidden"
      BY <2>1 DEF Reports, UserSockets, Tracked, Empty
    <2>3. /\ Registry(sockets')
          /\ \A q \in Sockets : Tracked(Owner[q], q)' <=> (q = p \/ Tracked(Owner[q], q))
      BY <1>0, <2>1, <2>2, WriteReport
    <2>4. \A v \in Users : AnyReportedVisible(sockets', v) = AnyReportedVisible(sockets, v)
      BY <1>0, <2>1, <2>2, SameVerdict
    <2>5. WsTypeOK'
      BY <1>0, <1>1, <2>1, <2>3 DEF Registry, Mine, WsTypeOK
    <2>6. TrackedIsWatched'
      BY <1>0, <2>1, <2>3 DEF TrackedIsWatched
    <2>7. ToldIsCurrent'
      BY <1>0, <1>1, <2>4, QuietCurrent
    <2> QED BY <1>1, <2>5, <2>6, <2>7 DEF WsInv
  <1> QED BY <1>2, <1>3, <1>4

\* A restart forgets everything but what the sessions were told.
LEMMA CrashStep ==
    ASSUME WsInv, Crash
    PROVE  WsInv' /\ UNCHANGED <<told, beat>>
  <1>1. WsTypeOK'
    BY DEF WsInv, WsTypeOK, Crash
  <1>2. \A u : UserSockets(sockets', u) = Empty
    BY DEF Crash, UserSockets
  <1>3. TrackedIsWatched'
    BY <1>2 DEF Crash, TrackedIsWatched, Tracked, Empty
  <1>4. ToldIsCurrent'
    BY <1>2 DEF Crash, ToldIsCurrent, AnyReportedVisible, Empty
  <1> QED BY <1>1, <1>3, <1>4 DEF WsInv, Crash

LEMMA WsNextInv == WsInv /\ [WsNext]_wsVars => WsInv' /\ [Feed!FeedNext]_(Feed!feedVars)
  <1> SUFFICES ASSUME WsInv, [WsNext]_wsVars
               PROVE  WsInv' /\ [Feed!FeedNext]_(Feed!feedVars)
    OBVIOUS
  <1>1. CASE UNCHANGED wsVars
    BY <1>1 DEF wsVars, WsInv, WsTypeOK, TrackedIsWatched, Tracked, ToldIsCurrent, Feed!feedVars
  <1>2. ASSUME NEW p \in Sockets,
               ClientClosing(p) \/ Down(p) \/ (\E visible \in BOOLEAN : SetVisibility(p, visible))
        PROVE  WsInv' /\ [Feed!FeedNext]_(Feed!feedVars)
    BY <1>2, DoorStep
  <1>3. ASSUME NEW p \in Sockets,
               Connect(p) \/ Register(p) \/ Die(p) \/ Age(p) \/ Recycle(p)
        PROVE  WsInv' /\ [Feed!FeedNext]_(Feed!feedVars)
    BY <1>3, SilentStep DEF Feed!feedVars
  <1>4. CASE Sweep
    BY <1>4, SweepStep
  <1>5. CASE Crash
    BY <1>5, CrashStep DEF Feed!feedVars
  <1> QED BY <1>1, <1>2, <1>3, <1>4, <1>5 DEF WsNext

-----------------------------------------------------------------------------

\* Whatever the order of connects, late reports, deaths, sweeps and restarts:
\* tracked sockets are monitored and the sessions' view is current.
THEOREM PresenceCurrent ==
    WsSpec => [](WsTypeOK /\ TrackedIsWatched /\ ToldIsCurrent)
  <1>1. WsInit => WsInv
    BY WsInitInv
  <1>2. WsInv /\ [WsNext]_wsVars => WsInv'
    BY WsNextInv
  <1> QED BY <1>1, <1>2, PTL DEF WsSpec, WsInv

\* A user the sessions were told is not looking never has a push suppressed.
THEOREM AwayMeansPush == WsSpec => []AwayUserGetsPush
  <1>1. WsTypeOK /\ TrackedIsWatched /\ ToldIsCurrent => AwayUserGetsPush
    BY DEF ToldIsCurrent, AwayUserGetsPush, AnyVisible, AnyReportedVisible
  <1> QED BY <1>1, PresenceCurrent, PTL

\* WSPresence implements the feed the sessions rely on.
THEOREM Refinement == WsSpec => ImplementsFeed
  <1>1. WsInit => WsInv /\ Feed!FeedInit
    BY WsInitInv DEF WsInit, Feed!FeedInit
  <1>2. WsInv /\ [WsNext]_wsVars => WsInv' /\ [Feed!FeedNext]_(Feed!feedVars)
    BY WsNextInv
  <1> QED BY <1>1, <1>2, PTL DEF WsSpec, ImplementsFeed, Feed!FeedSpec

=============================================================================
