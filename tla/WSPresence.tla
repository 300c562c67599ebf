----------------------------- MODULE WSPresence -----------------------------
(***************************************************************************)
(* Grappa.WSPresence: the registry of which devices of a user are          *)
(* connected and which of them last reported the page visible.             *)
(*                                                                         *)
(* A tracked socket is hidden, visible (reported within stale_ms) or stale *)
(* (reported visible, not refreshed since). Auto-away reads the raw        *)
(* reports, push suppression only the fresh ones. Socket processes die     *)
(* with a DOWN message that is handled later; WSPresence itself may crash  *)
(* and restart empty, which leaves live sockets untracked.                 *)
(***************************************************************************)
EXTENDS Naturals

CONSTANTS
    Users,      \* user names (a visitor's included)
    Sockets,    \* transport processes
    Owner       \* the user a transport authenticated as

ASSUME OwnerAssumption == Owner \in [Sockets -> Users]

VARIABLES
    sockets,    \* user -> tracked pid -> report; no user maps to an empty map
    refs,       \* pids with a live monitor
    down,       \* pids whose DOWN is in the mailbox
    proc,       \* the transports: new, calling (register queued), live, dead,
                \* gone (died with the register call still queued)
    told,       \* last event broadcast on the user's topic
    beat,       \* flips with every broadcast
    lost        \* history: users told ws_visible by an incarnation that crashed

wsState == <<sockets, refs, down>>
wsVars == <<sockets, refs, down, proc, told, beat, lost>>

Feed == INSTANCE PresenceFeed WITH told <- told, beat <- beat

Reports == {"hidden", "visible", "stale"}
Empty == [p \in {} |-> "hidden"]

UserSockets(m, u) == IF u \in DOMAIN m THEN m[u] ELSE Empty

Tracked(u, p) == p \in DOMAIN UserSockets(sockets, u)

\* any_reported_visible_in?/2: the raw reports, stale ones included.
AnyReportedVisible(m, u) ==
    \E p \in DOMAIN UserSockets(m, u) : UserSockets(m, u)[p] # "hidden"

\* any_visible?/1: the fresh reports only; read by push suppression.
AnyVisible(m, u) ==
    \E p \in DOMAIN UserSockets(m, u) : UserSockets(m, u)[p] = "visible"

\* put_user_sockets/3: a user whose last socket went is removed.
PutUserSockets(m, u, s) ==
    LET keep == IF DOMAIN s = {} THEN DOMAIN m \ {u} ELSE DOMAIN m \cup {u}
    IN  [v \in keep |-> IF v = u THEN s ELSE m[v]]

Put(s, p, report) == [q \in DOMAIN s \cup {p} |-> IF q = p THEN report ELSE s[q]]
Delete(s, p) == [q \in DOMAIN s \ {p} |-> s[q]]

\* Seeded defect: the transition compares the fresh view, so a socket that
\* went stale and then died flips nothing.
EmitTransition_Fresh ==
    LET shown == {u \in Users : ~AnyVisible(sockets, u) /\ AnyVisible(sockets', u)}
        hid == {u \in Users : AnyVisible(sockets, u) /\ ~AnyVisible(sockets', u)}
    IN  /\ told' = [u \in Users |-> IF u \in shown THEN "ws_visible"
                                    ELSE IF u \in hid THEN "ws_all_hidden" ELSE told[u]]
        /\ beat' = [u \in Users |-> IF u \in shown \cup hid THEN ~beat[u] ELSE beat[u]]
        /\ lost' = lost \ (shown \cup hid)

\* emit_transition/4 and notify/3, for every user the handler wrote.
EmitTransition ==
    LET shown == {u \in Users : /\ ~AnyReportedVisible(sockets, u)
                                /\ AnyReportedVisible(sockets', u)}
        hid == {u \in Users : /\ AnyReportedVisible(sockets, u)
                              /\ ~AnyReportedVisible(sockets', u)}
    IN  /\ told' = [u \in Users |-> IF u \in shown THEN "ws_visible"
                                    ELSE IF u \in hid THEN "ws_all_hidden" ELSE told[u]]
        /\ beat' = [u \in Users |-> IF u \in shown \cup hid THEN ~beat[u] ELSE beat[u]]
        /\ lost' = lost \ (shown \cup hid)

-----------------------------------------------------------------------------
(* The handlers.                                                           *)

\* handle_call({:register, ...}): a transport registers once, from connect/3,
\* so the pid is not tracked yet. Monitoring a pid that died while its call was
\* queued delivers DOWN at once.
Register(p) ==
    LET u == Owner[p] IN
    /\ proc[p] \in {"calling", "gone"}
    /\ ~Tracked(u, p)
    /\ sockets' = PutUserSockets(sockets, u, Put(UserSockets(sockets, u), p, "hidden"))
    /\ refs' = refs \cup {p}
    /\ down' = IF proc[p] = "gone" THEN down \cup {p} ELSE down
    /\ proc' = [proc EXCEPT ![p] = IF @ = "gone" THEN "dead" ELSE "live"]
    /\ UNCHANGED <<told, beat, lost>>

\* handle_call({:set_visibility, ...}). The caller is the channel process, whose
\* call may still be queued when its transport is already dead.
SetVisibility(p, visible) ==
    LET u == Owner[p] IN
    /\ proc[p] \in {"live", "dead"}
    /\ Tracked(u, p)
    /\ sockets' = PutUserSockets(sockets, u,
           Put(UserSockets(sockets, u), p, IF visible THEN "visible" ELSE "hidden"))
    /\ EmitTransition
    /\ UNCHANGED <<refs, down, proc>>

\* Seeded defect: the closing hint always announces that nobody is left.
ClientClosing_AlwaysHides(p) ==
    LET u == Owner[p] IN
    /\ proc[p] \in {"live", "dead"}
    /\ Tracked(u, p)
    /\ sockets' = PutUserSockets(sockets, u, Put(UserSockets(sockets, u), p, "hidden"))
    /\ Feed!Broadcast({u}, "ws_all_hidden")
    /\ lost' = lost \ {u}
    /\ UNCHANGED <<refs, down, proc>>

\* handle_call({:client_closing, ...}).
ClientClosing(p) ==
    LET u == Owner[p] IN
    /\ proc[p] \in {"live", "dead"}
    /\ Tracked(u, p)
    /\ sockets' = PutUserSockets(sockets, u, Put(UserSockets(sockets, u), p, "hidden"))
    /\ EmitTransition
    /\ UNCHANGED <<refs, down, proc>>

\* Seeded defect: DOWN drops the monitor but only marks the socket hidden.
Down_KeepsSocket(p) ==
    LET u == Owner[p] IN
    /\ p \in down
    /\ down' = down \ {p}
    /\ refs' = refs \ {p}
    /\ sockets' = PutUserSockets(sockets, u, Put(UserSockets(sockets, u), p, "hidden"))
    /\ EmitTransition
    /\ UNCHANGED proc

\* handle_info({:DOWN, ...}): only for a ref it still holds.
Down(p) ==
    LET u == Owner[p] IN
    /\ p \in down
    /\ down' = down \ {p}
    /\ refs' = refs \ {p}
    /\ sockets' = PutUserSockets(sockets, u, Delete(UserSockets(sockets, u), p))
    /\ EmitTransition
    /\ UNCHANGED proc

\* demote_stale/1 over one map.
Demoted(s) == [p \in DOMAIN s |-> IF s[p] = "stale" THEN "hidden" ELSE s[p]]

\* Seeded defect: the sweep demotes without telling anybody.
Sweep_Silent ==
    /\ sockets' = [u \in DOMAIN sockets |-> Demoted(sockets[u])]
    /\ UNCHANGED <<refs, down, proc, told, beat, lost>>

\* handle_info(:sweep).
Sweep ==
    /\ sockets' = [u \in DOMAIN sockets |-> Demoted(sockets[u])]
    /\ EmitTransition
    /\ UNCHANGED <<refs, down, proc>>

\* A crash and the restart with empty state: monitors and mailbox are gone, a
\* queued register call fails and takes its transport with it.
Crash ==
    /\ sockets' = [u \in {} |-> Empty]
    /\ refs' = {} /\ down' = {}
    /\ proc' = [p \in Sockets |-> IF proc[p] \in {"calling", "gone"} THEN "dead" ELSE proc[p]]
    /\ lost' = lost \cup {u \in Users : told[u] = "ws_visible"}
    /\ UNCHANGED <<told, beat>>

-----------------------------------------------------------------------------
(* The environment: transports and time.                                   *)

\* UserSocket.connect/3 issues the register call.
Connect(p) ==
    /\ proc[p] = "new"
    /\ proc' = [proc EXCEPT ![p] = "calling"]
    /\ UNCHANGED <<wsState, told, beat, lost>>

Die(p) ==
    /\ proc[p] \in {"calling", "live"}
    /\ proc' = [proc EXCEPT ![p] = IF @ = "calling" THEN "gone" ELSE "dead"]
    /\ down' = IF p \in refs THEN down \cup {p} ELSE down
    /\ UNCHANGED <<sockets, refs, told, beat, lost>>

\* A visible report ages past stale_ms.
Age(p) ==
    LET u == Owner[p] IN
    /\ Tracked(u, p) /\ sockets[u][p] = "visible"
    /\ sockets' = PutUserSockets(sockets, u, Put(UserSockets(sockets, u), p, "stale"))
    /\ UNCHANGED <<refs, down, proc, told, beat, lost>>

\* A dead pid nobody refers to any more stands for a fresh one.
Recycle(p) ==
    /\ proc[p] = "dead"
    /\ p \notin refs /\ ~Tracked(Owner[p], p)
    /\ proc' = [proc EXCEPT ![p] = "new"]
    /\ UNCHANGED <<wsState, told, beat, lost>>

-----------------------------------------------------------------------------

WsInit ==
    /\ sockets = [u \in {} |-> Empty]
    /\ refs = {} /\ down = {}
    /\ proc = [p \in Sockets |-> "new"]
    /\ told = [u \in Users |-> "ws_all_hidden"]
    /\ beat = [u \in Users |-> FALSE]
    /\ lost = {}

WsNext ==
    \/ \E p \in Sockets :
        \/ Connect(p) \/ Register(p) \/ Die(p) \/ Age(p) \/ Recycle(p)
        \/ ClientClosing(p) \/ Down(p)
        \/ \E visible \in BOOLEAN : SetVisibility(p, visible)
    \/ Sweep
    \/ Crash

\* The mailbox is drained in order and the sweep re-arms itself.
WsFairness ==
    /\ \A p \in Sockets : WF_wsVars(Register(p)) /\ WF_wsVars(Down(p))
    /\ WF_wsVars(Sweep)

WsSpec == WsInit /\ [][WsNext]_wsVars /\ WsFairness

-----------------------------------------------------------------------------
(* Properties.                                                             *)

\* Every write goes through the one door: a tracked user has at least one
\* socket, its own, and each socket carries one of the reports.
WsTypeOK ==
    /\ DOMAIN sockets \subseteq Users
    /\ \A u \in DOMAIN sockets :
        /\ DOMAIN sockets[u] # {}
        /\ \A p \in DOMAIN sockets[u] :
            p \in Sockets /\ Owner[p] = u /\ sockets[u][p] \in Reports
    /\ refs \subseteq Sockets /\ down \subseteq Sockets /\ lost \subseteq Users
    /\ proc \in [Sockets -> {"new", "calling", "live", "dead", "gone"}]
    /\ told \in [Users -> Feed!Events]
    /\ beat \in [Users -> BOOLEAN]

\* A tracked pid is monitored, and the DOWN of a dead one is on its way: no
\* order of register, late reports, deaths and restarts leaves a ghost device
\* that nothing will remove.
TrackedIsWatched ==
    /\ \A p \in Sockets : Tracked(Owner[p], p) <=> p \in refs
    /\ \A p \in refs : proc[p] \in {"live", "dead"} /\ (proc[p] = "dead" <=> p \in down)
    /\ down \subseteq refs

\* What the sessions were last told agrees with the reports: visible exactly
\* while a tracked device reports visible, except that a restart of WSPresence
\* leaves sessions told ws_visible until a reconnected device hides again.
ToldIsCurrent ==
    \A u \in Users :
        /\ AnyReportedVisible(sockets, u) => told[u] = "ws_visible"
        /\ told[u] = "ws_visible" /\ ~AnyReportedVisible(sockets, u) => u \in lost

\* A user whose sessions were told nobody is looking never has a push
\* suppressed by any_visible?/1.
AwayUserGetsPush ==
    \A u \in Users : told[u] = "ws_all_hidden" => ~AnyVisible(sockets, u)

\* The sessions are fed according to PresenceFeed.
ImplementsFeed == Feed!FeedSpec

\* Every dead transport is eventually forgotten.
DeadAreForgotten ==
    \A p \in Sockets : [](proc[p] = "dead" => <>(~Tracked(Owner[p], p)))

\* A user whose devices all went quiet (hidden, dead or no longer refreshing
\* their report) is eventually announced as away, unless one of them comes back
\* or WSPresence lost track in a restart.
QuietIsNoticed ==
    \A u \in Users :
        (told[u] = "ws_visible" /\ ~AnyVisible(sockets, u))
            ~> (told[u] = "ws_all_hidden" \/ u \in lost \/ AnyVisible(sockets, u))

=============================================================================
