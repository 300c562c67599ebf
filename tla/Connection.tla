---------------------------- MODULE Connection ----------------------------
(***************************************************************************)
(* One (subject, network) binding: the credential row, its Session.Server  *)
(* under the :transient supervisor, the backoff ladder, and everyone who   *)
(* moves them: HTTP requests (connect, disconnect, identity bounce), the   *)
(* detached task that records a terminal failure, Bootstrap, and the       *)
(* session itself.                                                         *)
(*                                                                         *)
(* A worker (request, task or Bootstrap) reads the credential once and     *)
(* acts on that copy: cred is the connection_state it read.  What happens  *)
(* inside one call (stop_session, spawn/4, a row write) is one step; the   *)
(* calls of different workers interleave.                                  *)
(***************************************************************************)
EXTENDS Backoff

CONSTANTS
    Requests,       \* concurrent HTTP requests
    Tasks,          \* concurrent terminal-failure tasks
    Boot,           \* the Bootstrap process
    Kinds,          \* the requests users make: connect, disconnect, bounce
    Reboots         \* TRUE: the node may restart

ASSUME WorkerAssumption ==
    /\ Requests \cap Tasks = {}
    /\ Boot \notin Requests \cup Tasks
    /\ Kinds \subseteq {"connect", "disconnect", "bounce"}
    /\ Reboots \in BOOLEAN

VARIABLES
    row,            \* credentials.connection_state
    sess,           \* the registered Session.Server
    wait,           \* its delay before the client starts
    work,           \* [worker -> what it is doing, and the state it read]
    flaps           \* history: failures since a stable link or a reset

vars == <<row, sess, wait, work, flaps, count, casts>>

Rows == {"connected", "failing", "parked", "failed"}
WantedUp == {"connected", "failing"}

\* none: not registered.  dead: crashed, the supervisor has yet to restart it.
Sessions == {"none", "dead", "starting", "backoff", "dialling", "refused",
             "linked", "registered", "stable"}
Live == Sessions \ {"none", "dead"}
Registered == {"registered", "stable"}

Workers == Requests \cup Tasks \cup {Boot}
Steps == {"idle", "connect.spawn", "connect.commit", "disconnect.stop",
          "disconnect.commit", "bounce.stop", "bounce.spawn", "bounce.park",
          "bounce.commit", "fail.load", "fail.stop", "fail.commit",
          "boot.load", "boot.spawn"}
Idle == [at |-> "idle", cred |-> "parked"]

Quiet == \A w \in Workers : work[w].at = "idle"

-----------------------------------------------------------------------------
(* The session's own steps.                                                *)

\* Seeded defect: the stop leaves a crashed session to its restart.
StopSession_OnlyLive == sess' = IF sess = "dead" THEN "dead" ELSE "none"

\* stop_session/2: no session is registered for the key on return, not even
\* the one a pending restart is about to register.
StopSession == sess' = "none"

\* handle_continue({:start_client, _}): the ladder decides when to dial.
StartClient ==
    /\ sess = "starting"
    /\ wait' \in ComputeWait(count)
    /\ sess' = IF wait' = 0 THEN "dialling" ELSE "backoff"
    /\ UNCHANGED <<row, work, flaps, backoffVars>>

\* Seeded defect: a wait at the cap is never taken up again.
BackoffFires_NotAtCap ==
    /\ sess = "backoff"
    /\ wait < CapMs
    /\ sess' = "dialling"
    /\ wait' = 0
    /\ UNCHANGED <<row, work, flaps, backoffVars>>

\* {:start_client_after_backoff, _}
BackoffFires ==
    /\ sess = "backoff"
    /\ sess' = "dialling"
    /\ wait' = 0
    /\ UNCHANGED <<row, work, flaps, backoffVars>>

\* :irc_connected
Connected ==
    /\ sess = "dialling"
    /\ sess' = "linked"
    /\ UNCHANGED <<row, wait, work, flaps, backoffVars>>

\* mark_failing/2: only a connected row; parked and failed refuse.
MarkFailing == row' = IF row = "connected" THEN "failing" ELSE row

\* mark_registered/1: only a failing row.
MarkRegistered == row' = IF row = "failing" THEN "connected" ELSE row

\* {:irc_connect_failed, _}: reported at once, the client dies later.
ConnectFailed ==
    /\ sess = "dialling"
    /\ sess' = "refused"
    /\ MarkFailing
    /\ UNCHANGED <<wait, work, flaps, backoffVars>>

\* Seeded defect: the ladder is reset by the welcome itself.
Welcome_Resets ==
    /\ sess = "linked"
    /\ sess' = "registered"
    /\ MarkRegistered
    /\ Cast("success")
    /\ UNCHANGED <<wait, work, flaps>>

\* 001: the row is connected, the stability timer runs.
Welcome ==
    /\ sess = "linked"
    /\ sess' = "registered"
    /\ MarkRegistered
    /\ UNCHANGED <<wait, work, flaps, backoffVars>>

\* :connection_stable
ConnectionStable ==
    /\ sess = "registered"
    /\ sess' = "stable"
    /\ flaps' = 0
    /\ Cast("success")
    /\ UNCHANGED <<row, wait, work>>

\* The client exits or a callback raises: terminate/2 records the failure
\* before the process is gone.
Crash ==
    /\ sess \in Live
    /\ sess' = "dead"
    /\ wait' = 0
    /\ RecordFailure
    /\ flaps' = (IF "reset" \in casts THEN 0 ELSE flaps) + 1
    /\ UNCHANGED <<row, work>>

\* The :transient restart of a crashed session, which never reads the row's
\* connection_state.
Restart ==
    /\ sess = "dead"
    /\ sess' = "starting"
    /\ UNCHANGED <<row, wait, work, flaps, backoffVars>>

\* 465, KILL or a permanent 904: a clean stop and a detached task.
TerminalFailure(t) ==
    /\ sess \in {"linked", "registered", "stable"}
    /\ work[t].at = "idle"
    /\ sess' = "none"
    /\ wait' = 0
    /\ work' = [work EXCEPT ![t] = [at |-> "fail.load", cred |-> "parked"]]
    /\ UNCHANGED <<row, flaps, backoffVars>>

\* The Backoff server works through its casts.
BackoffHandles(c) ==
    /\ HandleCast(c)
    /\ flaps' = IF c = "reset" THEN 0 ELSE flaps
    /\ UNCHANGED <<row, sess, wait, work>>

-----------------------------------------------------------------------------
(* The workers.                                                            *)

\* A worker that reaches "idle" forgets what it read.
Goto(w, at) ==
    work' = [work EXCEPT ![w] = IF at = "idle" THEN Idle ELSE [@ EXCEPT !.at = at]]

\* A worker reads the credential.
Begin(w, at) == work' = [work EXCEPT ![w] = [at |-> at, cred |-> row]]

\* A row write by a worker, on the credential it read.
Commit(w, from, to) ==
    /\ row' = IF work[w].cred \in from THEN to ELSE row
    /\ Goto(w, "idle")
    /\ UNCHANGED <<sess, wait, flaps, backoffVars>>

Stop(w, next) ==
    /\ StopSession
    /\ wait' = 0
    /\ Goto(w, next)
    /\ UNCHANGED <<row, flaps, backoffVars>>

\* spawn/4 with a session up, or with admission granted: the ladder is reset
\* and a session is registered for the key.  start_child finds a crashed
\* session already restarted.
Spawned ==
    /\ sess' = IF sess = "none" THEN "starting" ELSE sess
    /\ UNCHANGED wait

Admit(w, at, next) ==
    /\ work[w].at = at
    /\ Cast("reset")
    /\ Spawned
    /\ Goto(w, next)
    /\ UNCHANGED <<row, flaps>>

\* Admission refuses; it is not asked while a session is up.
Refuse(w, at, next) ==
    /\ work[w].at = at
    /\ sess \notin Live
    /\ Goto(w, next)
    /\ UNCHANGED <<row, sess, wait, flaps, backoffVars>>

\* PATCH connected: spawn first, write the row after.
ConnectLoad(w) ==
    /\ work[w].at = "idle"
    /\ Begin(w, "connect.spawn")
    /\ UNCHANGED <<row, sess, wait, flaps, backoffVars>>

ConnectSpawn(w) == Admit(w, "connect.spawn", "connect.commit")

ConnectRefused(w) == Refuse(w, "connect.spawn", "idle")

\* Networks.connect/1
ConnectCommit(w) ==
    /\ work[w].at = "connect.commit"
    /\ Commit(w, {"parked", "failed"}, "connected")

\* PATCH parked, from a row that is wanted up.
DisconnectLoad(w) ==
    /\ work[w].at = "idle"
    /\ row \in WantedUp
    /\ Begin(w, "disconnect.stop")
    /\ UNCHANGED <<row, sess, wait, flaps, backoffVars>>

DisconnectStop(w) ==
    /\ work[w].at = "disconnect.stop"
    /\ Stop(w, "disconnect.commit")

DisconnectCommit(w) ==
    /\ work[w].at = "disconnect.commit"
    /\ Commit(w, WantedUp, "parked")

\* PATCH identity on a live session: stop, respawn, and park a row whose
\* respawn was refused.
BounceLoad(w) ==
    /\ work[w].at = "idle"
    /\ sess \in Live
    /\ Begin(w, "bounce.stop")
    /\ UNCHANGED <<row, sess, wait, flaps, backoffVars>>

BounceStop(w) ==
    /\ work[w].at = "bounce.stop"
    /\ Stop(w, "bounce.spawn")

BounceSpawn(w) == Admit(w, "bounce.spawn", "idle")

\* Seeded defect: a refused respawn is only logged.
BounceRefused_LogOnly(w) == Refuse(w, "bounce.spawn", "idle")

BounceRefused(w) == Refuse(w, "bounce.spawn", "bounce.park")

\* mark_parked/2: stop again, then the write.
BouncePark(w) ==
    /\ work[w].at = "bounce.park"
    /\ Stop(w, "bounce.commit")

BounceCommit(w) ==
    /\ work[w].at = "bounce.commit"
    /\ Commit(w, WantedUp, "parked")

\* mark_failed_by_ids/3 in the detached task: read, refuse a parked row.
FailLoad(t) ==
    /\ work[t].at = "fail.load"
    /\ IF row \in WantedUp THEN Begin(t, "fail.stop") ELSE Goto(t, "idle")
    /\ UNCHANGED <<row, sess, wait, flaps, backoffVars>>

FailStop(t) ==
    /\ work[t].at = "fail.stop"
    /\ Stop(t, "fail.commit")

FailCommit(t) ==
    /\ work[t].at = "fail.commit"
    /\ Commit(t, WantedUp, "failed")

\* The node restarts: processes and the ETS table are gone, the row stays.
Reboot ==
    /\ Reboots
    /\ sess' = "none"
    /\ wait' = 0
    /\ work' = [w \in Workers |->
                   IF w = Boot THEN [Idle EXCEPT !.at = "boot.load"] ELSE Idle]
    /\ count' = 0
    /\ casts' = {}
    /\ flaps' = 0
    /\ UNCHANGED row

\* Bootstrap.run/0 lists the rows that are wanted up, then spawns them.  The
\* endpoint already answers requests.
BootLoad ==
    /\ work[Boot].at = "boot.load"
    /\ IF row \in WantedUp THEN Begin(Boot, "boot.spawn") ELSE Goto(Boot, "idle")
    /\ UNCHANGED <<row, sess, wait, flaps, backoffVars>>

BootSpawn == Admit(Boot, "boot.spawn", "idle")

BootRefused == Refuse(Boot, "boot.spawn", "idle")

-----------------------------------------------------------------------------

\* A bound session at rest, or a credential nobody connected yet.
ConnInit ==
    /\ \/ row = "connected" /\ sess = "starting"
       \/ row \in {"parked", "failed"} /\ sess = "none"
    /\ wait = 0
    /\ work = [w \in Workers |-> Idle]
    /\ flaps = 0
    /\ BackoffInit

Session ==
    \/ StartClient \/ BackoffFires \/ Connected \/ ConnectFailed \/ Welcome
    \/ ConnectionStable \/ Crash \/ Restart

Connect(w) == ConnectLoad(w) \/ ConnectSpawn(w) \/ ConnectRefused(w) \/ ConnectCommit(w)
Disconnect(w) == DisconnectLoad(w) \/ DisconnectStop(w) \/ DisconnectCommit(w)
Bounce(w) ==
    \/ BounceLoad(w) \/ BounceStop(w) \/ BounceSpawn(w) \/ BounceRefused(w)
    \/ BouncePark(w) \/ BounceCommit(w)
Fail(t) == FailLoad(t) \/ FailStop(t) \/ FailCommit(t)

ConnNext ==
    \/ Session
    \/ \E c \in Casts : BackoffHandles(c)
    \/ \E w \in Requests :
        \/ "connect" \in Kinds /\ Connect(w)
        \/ "disconnect" \in Kinds /\ Disconnect(w)
        \/ "bounce" \in Kinds /\ Bounce(w)
    \/ \E t \in Tasks : TerminalFailure(t) \/ Fail(t)
    \/ Reboot \/ BootLoad \/ BootSpawn \/ BootRefused

\* The supervisor restarts what crashed, and timers fire.
ConnFairness ==
    /\ WF_vars(Restart)
    /\ WF_vars(StartClient)
    /\ WF_vars(BackoffFires)

ConnSpec == ConnInit /\ [][ConnNext]_vars /\ ConnFairness

-----------------------------------------------------------------------------
(* Properties.                                                             *)

ConnTypeOK ==
    /\ row \in Rows
    /\ sess \in Sessions
    /\ wait \in Nat
    /\ work \in [Workers -> [at : Steps, cred : Rows]]
    /\ flaps \in Nat
    /\ count \in Nat
    /\ casts \subseteq Casts

\* Once nobody is working on the binding, a row that is parked or failed has
\* no session behind it: stop_session/2 is about the key, so neither a crash
\* nor the restart of a crashed session survives a disconnect.
DownIsStopped == Quiet /\ row \notin WantedUp => sess = "none"

\* Once nobody is working on the binding, a row that reads connected or
\* failing has a session, crashed and restarting ones included: no refused
\* spawn leaves a connected row with nothing behind it.
WantedUpHasSession == Quiet /\ row \in WantedUp => sess # "none"

\* Once nobody is working on the binding, a registered session's row says
\* connected: the failing mark of an earlier attempt is always taken back.
RegisteredIsConnected == Quiet /\ sess \in Registered => row = "connected"

\* Every failure since the last proven connection or operator reset is on the
\* ladder when the restarted session reads it: record_failure/2 has returned
\* before the process is gone, and a welcome alone proves nothing.
LadderClimbs == flaps <= count

\* A session restarted after a failure never dials at once, whatever resets
\* and successes are still queued at the Backoff server.
CrashedSessionWaits ==
    [][sess = "starting" /\ sess' = "dialling" => flaps = 0]_vars

\* The wait drawn for any count is never zero and stays within a quarter of
\* the cap, however long the outage: the exponent is clamped, the count is not.
WaitIsBounded == sess = "backoff" => wait \in 1..(CapMs + CapMs \div 4)

\* Once crashes end (from some moment on the session is never killed), a
\* session that dropped is dialling again in the end, however high the ladder,
\* or it was stopped.
CrashesEnd == <>[][sess' = "dead" => sess = "dead"]_vars
DropIsRetried ==
    CrashesEnd => (sess \in {"dead", "starting", "backoff"}
                       ~> sess \notin {"dead", "starting", "backoff"})

=============================================================================
