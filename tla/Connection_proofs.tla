------------------------- MODULE Connection_proofs -------------------------
(***************************************************************************)
(* The reconnect ladder for every base, cap and length of outage, and      *)
(* concurrent connects for every number of requests.                       *)
(***************************************************************************)
EXTENDS Connection, WellFoundedInduction, TLAPS

-----------------------------------------------------------------------------
(* Induction over the natural numbers, stated about sets instead of        *)
(* predicates: a property P is proved for every n by taking S to be        *)
(* {n \in Nat : P(n)}.  The facts follow from the well-foundedness of <.   *)

\* Some well-founded relation is the order of the natural numbers.
LEMMA NatOrder ==
    \E R : /\ \A x, y \in Nat : <<x, y>> \in R <=> x < y
           /\ IsWellFoundedOn(R, Nat)
<1>1. \A x, y \in Nat : <<x, y>> \in OpToRel(<, Nat) <=> x < y
  BY DEF OpToRel
<1>. QED
  BY <1>1, NatLessThanWellFounded

\* A set with an element has a minimal one.
LEMMA MinimalElement ==
    ASSUME NEW R, NEW S, IsWellFoundedOn(R, S), NEW T, T \subseteq S, NEW e \in T
    PROVE  \E x \in T : \A y \in T : ~ (<<y, x>> \in R)
<1>1. T # {}
  OBVIOUS
<1>. QED
  BY <1>1, WFMin, Zenon

\* A set of natural numbers with an element has a least one.
LEMMA LeastElement ==
    ASSUME NEW S, S \subseteq Nat, NEW e \in S
    PROVE  \E x \in S : \A y \in S : x <= y
<1>1. PICK R : /\ \A x, y \in Nat : <<x, y>> \in R <=> x < y
               /\ IsWellFoundedOn(R, Nat)
  BY NatOrder
<1>2. IsWellFoundedOn(R, Nat)
  BY <1>1
<1>3. \E x \in S : \A y \in S : ~ (<<y, x>> \in R)
  BY ONLY <1>2, S \subseteq Nat, e \in S, MinimalElement, Zenon
<1>4. PICK x \in S : \A y \in S : ~ (<<y, x>> \in R)
  BY <1>3
<1>5. \A y \in S : ~ (y < x)
  BY <1>1, <1>4, Zenon
<1>. QED
  BY <1>5

\* A set of natural numbers that holds 0 and every successor is all of them.
LEMMA SetInduction ==
    ASSUME NEW S, S \subseteq Nat, 0 \in S, \A n \in S : n + 1 \in S
    PROVE  S = Nat
<1>. SUFFICES ASSUME NEW e \in Nat \ S PROVE FALSE
  OBVIOUS
<1>. DEFINE T == Nat \ S
<1>1. PICK x \in T : \A y \in T : x <= y
  BY LeastElement
<1>2. x - 1 \in S
  BY <1>1
<1>3. (x - 1) + 1 \in S
  BY <1>2
<1>. QED
  BY <1>3

-----------------------------------------------------------------------------
(* The ladder's arithmetic.                                                *)

\* g computes the doublings up to n.
DoublesTo(g, n) ==
    /\ g \in [0..n -> Nat \ {0}]
    /\ \A e \in 0..n : g[e] = IF e = 0 THEN BaseMs ELSE 2 * g[e - 1]

\* The doublings can be computed as far as wanted.
LEMMA DoublesExist == ASSUME NEW n \in Nat PROVE \E g : DoublesTo(g, n)
<1>. DEFINE S == {k \in Nat : \E g : DoublesTo(g, k)}
<1>1. 0 \in S
  <2>. DEFINE g == [e \in 0..0 |-> BaseMs]
  <2>1. DoublesTo(g, 0)
    BY LadderAssumption DEF DoublesTo
  <2>. QED
    BY <2>1
<1>2. ASSUME NEW k \in S PROVE k + 1 \in S
  <2>1. PICK g : DoublesTo(g, k)
    OBVIOUS
  <2>. DEFINE h == [e \in 0..(k + 1) |-> IF e = k + 1 THEN 2 * g[k] ELSE g[e]]
  <2>2. g[k] \in Nat \ {0}
    BY <2>1 DEF DoublesTo
  <2>3. h \in [0..(k + 1) -> Nat \ {0}]
    BY <2>1, <2>2 DEF DoublesTo
  <2>4. ASSUME NEW e \in 0..(k + 1)
        PROVE  h[e] = IF e = 0 THEN BaseMs ELSE 2 * h[e - 1]
    BY <2>1 DEF DoublesTo
  <2>5. DoublesTo(h, k + 1)
    BY <2>3, <2>4 DEF DoublesTo
  <2>. QED
    BY <2>5
<1>3. S = Nat
  BY <1>1, <1>2, SetInduction
<1>. QED
  BY <1>3

\* Two computations agree as far as both go.
LEMMA DoublesAgree ==
    ASSUME NEW m \in Nat, NEW n \in Nat, NEW g, NEW h, DoublesTo(g, m), DoublesTo(h, n)
    PROVE  \A e \in Nat : e <= m /\ e <= n => g[e] = h[e]
<1>. DEFINE S == {e \in Nat : e <= m /\ e <= n => g[e] = h[e]}
<1>1. 0 \in S
  BY DEF DoublesTo
<1>2. ASSUME NEW e \in S PROVE e + 1 \in S
  <2>1. CASE e + 1 <= m /\ e + 1 <= n
    <3>1. e + 1 \in 0..m /\ e + 1 \in 0..n /\ (e + 1) - 1 = e /\ e + 1 # 0
      BY <2>1
    <3>2. g[e + 1] = 2 * g[e] /\ h[e + 1] = 2 * h[e]
      BY <3>1 DEF DoublesTo
    <3>. QED
      BY <2>1, <3>2
  <2>. QED
    BY <2>1
<1>3. S = Nat
  BY <1>1, <1>2, SetInduction
<1>. QED
  BY <1>3

\* The recursive definition of Doubled defines a function of positive values.
LEMMA DoubledDef ==
    /\ Doubled \in [Nat -> Nat \ {0}]
    /\ Doubled = [e \in Nat |-> IF e = 0 THEN BaseMs ELSE 2 * Doubled[e - 1]]
<1>. DEFINE G(n) == CHOOSE g : DoublesTo(g, n)
            F == [n \in Nat |-> G(n)[n]]
<1>1. \A n \in Nat : DoublesTo(G(n), n)
  BY DoublesExist
<1>. HIDE DEF G
<1>2. F \in [Nat -> Nat \ {0}]
  BY <1>1 DEF DoublesTo
<1>3. ASSUME NEW n \in Nat PROVE F[n] = IF n = 0 THEN BaseMs ELSE 2 * F[n - 1]
  <2>1. CASE n = 0
    BY <1>1, <2>1 DEF DoublesTo
  <2>2. CASE n # 0
    <3>1. n - 1 \in Nat /\ n - 1 <= n /\ n - 1 <= n - 1 /\ n \in 0..n
      BY <2>2
    <3>2. G(n)[n - 1] = G(n - 1)[n - 1]
      BY <1>1, <3>1, DoublesAgree
    <3>3. G(n)[n] = 2 * G(n)[n - 1]
      BY <1>1, <2>2, <3>1 DEF DoublesTo
    <3>. QED
      BY <2>2, <3>1, <3>2, <3>3
  <2>. QED
    BY <2>1, <2>2
<1>. HIDE DEF F
<1>4. F = [e \in Nat |-> IF e = 0 THEN BaseMs ELSE 2 * F[e - 1]]
  BY <1>2, <1>3
<1>5. Doubled = [e \in Nat |-> IF e = 0 THEN BaseMs ELSE 2 * Doubled[e - 1]]
  BY <1>4, Zenon DEF Doubled
<1>. DEFINE S == {n \in Nat : Doubled[n] \in Nat \ {0}}
<1>6. 0 \in S
  BY <1>5, LadderAssumption
<1>7. ASSUME NEW n \in S PROVE n + 1 \in S
  <2>1. Doubled[n + 1] = 2 * Doubled[(n + 1) - 1]
    BY <1>5
  <2>. QED
    BY <2>1
<1>8. S = Nat
  BY <1>6, <1>7, SetInduction
<1>9. \A n \in Nat : Doubled[n] \in Nat \ {0}
  BY <1>8
<1>. QED
  BY <1>5, <1>9

\* The clamp exists, whether or not a doubling reaches the cap.
LEMMA MaxExponentType == MaxExponent \in 0..64
<1>. DEFINE S == {e \in 0..64 : e < 64 => Doubled[e] >= CapMs}
<1>1. S \subseteq Nat /\ 64 \in S
  OBVIOUS
<1>2. PICK x \in S : \A y \in S : x <= y
  BY <1>1, LeastElement
<1>3. ASSUME NEW d \in 0..(x - 1) PROVE Doubled[d] < CapMs
  <2>1. d \notin S /\ d \in 0..64 /\ d \in Nat
    BY <1>2
  <2>. QED
    BY <2>1, DoubledDef, LadderAssumption
<1>. QED
  BY <1>2, <1>3 DEF MaxExponent

\* What a count above zero is capped to.
LEMMA CappedBounds == ASSUME NEW n \in Nat \ {0} PROVE Capped(n) \in 1..CapMs
<1>. DEFINE e == Smaller(n - 1, MaxExponent)
<1>1. e \in Nat
  BY MaxExponentType DEF Smaller
<1>2. Doubled[e] \in Nat \ {0}
  BY <1>1, DoubledDef
<1>3. Capped(n) = Smaller(Doubled[e], CapMs)
  BY DEF Capped
<1>. QED
  BY <1>2, <1>3, LadderAssumption DEF Smaller

\* Every wait compute_wait/1 may draw: zero without a failure, and otherwise at
\* least one and at most a quarter above the cap.
LEMMA ComputeWaitBounds ==
    ASSUME NEW n \in Nat, NEW w \in ComputeWait(n)
    PROVE  /\ w \in Nat
           /\ w = 0 <=> n = 0
           /\ w <= CapMs + CapMs \div 4
<1>1. CASE n = 0
  BY <1>1, LadderAssumption DEF ComputeWait
<1>2. CASE n # 0
  <2>. DEFINE c == Capped(n)
  <2>1. c \in 1..CapMs /\ CapMs \in Nat
    BY <1>2, CappedBounds, LadderAssumption
  <2>2. w \in (c - (c * 25) \div 100)..(c + (c * 25) \div 100)
    BY <1>2 DEF ComputeWait, Jitter
  <2>. HIDE DEF c
  <2>3. (c * 25) \div 100 < c /\ (c * 25) \div 100 \in Nat
    BY <2>1
  <2>4. (c * 25) \div 100 <= CapMs \div 4
    BY <2>1
  <2>. QED
    BY <1>2, <2>1, <2>2, <2>3, <2>4
<1>. QED
  BY <1>1, <1>2

-----------------------------------------------------------------------------
(* The ladder under every interleaving.                                    *)

\* A queued success means nothing failed since the link was proven: a failure
\* flushes the queue before it is recorded.
SuccessIsProven == "success" \in casts => flaps = 0

LadderInv ==
    /\ ConnTypeOK
    /\ LadderClimbs
    /\ SuccessIsProven
    /\ WaitIsBounded

WorkType == work \in [Workers -> [at : Steps, cred : Rows]]

\* Moving on keeps a worker's record well formed.
LEMMA GotoType ==
    ASSUME WorkType, NEW w \in Workers, NEW at \in Steps, Goto(w, at)
    PROVE  WorkType'
BY DEF WorkType, Goto, Idle, Steps, Rows

\* So does reading the row.
LEMMA BeginType ==
    ASSUME WorkType, row \in Rows, NEW w \in Workers, NEW at \in Steps, Begin(w, at)
    PROVE  WorkType'
BY DEF WorkType, Begin

\* A step that leaves the ladder, the wait and the history alone keeps the
\* invariant if it keeps the types.
LEMMA LadderUntouched ==
    ASSUME LadderInv, UNCHANGED <<wait, flaps, backoffVars>>, row' \in Rows,
           sess' \in Sessions, sess' = "backoff" => sess = "backoff", WorkType'
    PROVE  LadderInv'
BY DEF LadderInv, ConnTypeOK, LadderClimbs, SuccessIsProven, WaitIsBounded,
       WorkType, backoffVars

\* A stopped key has no wait.
LEMMA StopKeeps ==
    ASSUME LadderInv, NEW w \in Workers, NEW next \in Steps, Stop(w, next)
    PROVE  LadderInv'
<1>1. WorkType'
  BY GotoType DEF Stop, LadderInv, ConnTypeOK, WorkType
<1>2. sess' = "none" /\ wait' = 0 /\ UNCHANGED <<row, flaps, count, casts>>
  BY DEF Stop, StopSession, backoffVars
<1>. QED
  BY <1>1, <1>2 DEF LadderInv, ConnTypeOK, LadderClimbs, SuccessIsProven,
     WaitIsBounded, WorkType, Sessions

\* A reset that is only queued changes no count.
LEMMA AdmitKeeps ==
    ASSUME LadderInv, NEW w \in Workers, NEW at, NEW next \in Steps, Admit(w, at, next)
    PROVE  LadderInv'
<1>1. WorkType'
  BY GotoType DEF Admit, LadderInv, ConnTypeOK, WorkType
<1>2. /\ casts' = casts \cup {"reset"}
      /\ UNCHANGED <<row, wait, flaps, count>>
      /\ sess' = IF sess = "none" THEN "starting" ELSE sess
  BY DEF Admit, Cast, Spawned
<1>. QED
  BY <1>1, <1>2 DEF LadderInv, ConnTypeOK, LadderClimbs, SuccessIsProven,
     WaitIsBounded, WorkType, Sessions, Casts

LEMMA RefuseKeeps ==
    ASSUME LadderInv, NEW w \in Workers, NEW at, NEW next \in Steps, Refuse(w, at, next)
    PROVE  LadderInv'
<1>1. WorkType'
  BY GotoType DEF Refuse, LadderInv, ConnTypeOK, WorkType
<1>. QED
  BY <1>1, LadderUntouched DEF Refuse, LadderInv, ConnTypeOK

LEMMA CommitKeeps ==
    ASSUME LadderInv, NEW w \in Workers, NEW from, NEW to \in Rows, Commit(w, from, to)
    PROVE  LadderInv'
<1>1. WorkType'
  BY GotoType DEF Commit, LadderInv, ConnTypeOK, WorkType, Steps
<1>2. row' \in Rows
  BY DEF Commit, LadderInv, ConnTypeOK
<1>. QED
  BY <1>1, <1>2, LadderUntouched DEF Commit, LadderInv, ConnTypeOK

\* The session's own steps.
LEMMA SessionKeeps == ASSUME LadderInv, Session PROVE LadderInv'
<1>. USE DEF LadderInv
<1>1. CASE StartClient
  <2>1. /\ wait' \in Nat
        /\ wait' = 0 <=> count = 0
        /\ wait' <= CapMs + CapMs \div 4
    BY <1>1, ComputeWaitBounds DEF StartClient, ConnTypeOK
  <2>2. CapMs + CapMs \div 4 \in Nat
    BY LadderAssumption
  <2>. QED
    BY <1>1, <2>1, <2>2 DEF StartClient, ConnTypeOK, LadderClimbs, SuccessIsProven,
       WaitIsBounded, Sessions, backoffVars
<1>2. CASE BackoffFires
  BY <1>2 DEF BackoffFires, ConnTypeOK, LadderClimbs, SuccessIsProven,
     WaitIsBounded, Sessions, backoffVars
<1>3. CASE Connected
  BY <1>3, LadderUntouched DEF Connected, ConnTypeOK, WorkType, Sessions
<1>4. CASE ConnectFailed
  BY <1>4, LadderUntouched DEF ConnectFailed, MarkFailing, ConnTypeOK, WorkType, Sessions, Rows
<1>5. CASE Welcome
  BY <1>5, LadderUntouched DEF Welcome, MarkRegistered, ConnTypeOK, WorkType, Sessions, Rows
<1>6. CASE ConnectionStable
  BY <1>6 DEF ConnectionStable, Cast, ConnTypeOK, LadderClimbs, SuccessIsProven,
     WaitIsBounded, Sessions, Casts
<1>7. CASE Crash
  <2>1. /\ sess' = "dead" /\ wait' = 0 /\ casts' = {}
        /\ count' = (IF casts = {} THEN count ELSE 0) + 1
        /\ flaps' = (IF "reset" \in casts THEN 0 ELSE flaps) + 1
        /\ UNCHANGED <<row, work>>
    BY <1>7 DEF Crash, RecordFailure
  <2>2. casts # {} => (IF "reset" \in casts THEN 0 ELSE flaps) = 0
    BY DEF ConnTypeOK, Casts, SuccessIsProven
  <2>3. LadderClimbs'
    BY <2>1, <2>2 DEF ConnTypeOK, LadderClimbs
  <2>. QED
    BY <2>1, <2>3 DEF ConnTypeOK, SuccessIsProven, WaitIsBounded, Sessions
<1>8. CASE Restart
  BY <1>8, LadderUntouched DEF Restart, ConnTypeOK, WorkType, Sessions
<1>. QED
  BY <1>1, <1>2, <1>3, <1>4, <1>5, <1>6, <1>7, <1>8 DEF Session

LEMMA BackoffKeeps == ASSUME LadderInv, NEW c \in Casts, BackoffHandles(c) PROVE LadderInv'
<1>1. /\ casts' = casts \ {c} /\ c \in casts /\ count' = 0
      /\ flaps' = IF c = "reset" THEN 0 ELSE flaps
      /\ UNCHANGED <<row, sess, wait, work>>
  BY DEF BackoffHandles, HandleCast
<1>2. flaps' = 0
  BY <1>1 DEF LadderInv, SuccessIsProven, Casts
<1>. QED
  BY <1>1, <1>2 DEF LadderInv, ConnTypeOK, LadderClimbs, SuccessIsProven, WaitIsBounded

\* Requests.
LEMMA RequestKeeps ==
    ASSUME LadderInv, NEW w \in Requests, Connect(w) \/ Disconnect(w) \/ Bounce(w)
    PROVE  LadderInv'
<1>. w \in Workers
  BY DEF Workers
<1>. USE DEF Steps
<1>1. ASSUME NEW at \in Steps, Begin(w, at), UNCHANGED <<row, sess, wait, flaps, backoffVars>>
      PROVE  LadderInv'
  <2>1. WorkType'
    BY <1>1, BeginType DEF LadderInv, ConnTypeOK, WorkType
  <2>. QED
    BY <1>1, <2>1, LadderUntouched DEF LadderInv, ConnTypeOK
<1>2. CASE Connect(w)
  BY <1>1, <1>2, AdmitKeeps, RefuseKeeps, CommitKeeps
     DEF Connect, ConnectLoad, ConnectSpawn, ConnectRefused, ConnectCommit, Rows
<1>3. CASE Disconnect(w)
  BY <1>1, <1>3, StopKeeps, CommitKeeps
     DEF Disconnect, DisconnectLoad, DisconnectStop, DisconnectCommit, Rows
<1>4. CASE Bounce(w)
  BY <1>1, <1>4, StopKeeps, AdmitKeeps, RefuseKeeps, CommitKeeps
     DEF Bounce, BounceLoad, BounceStop, BounceSpawn, BounceRefused, BouncePark,
         BounceCommit, Rows
<1>. QED
  BY <1>2, <1>3, <1>4

\* The task that records a terminal failure.
LEMMA TaskKeeps ==
    ASSUME LadderInv, NEW t \in Tasks, TerminalFailure(t) \/ Fail(t)
    PROVE  LadderInv'
<1>. t \in Workers
  BY DEF Workers
<1>1. CASE TerminalFailure(t)
  <2>1. WorkType'
    BY <1>1 DEF TerminalFailure, LadderInv, ConnTypeOK, WorkType, Steps, Rows
  <2>. QED
    BY <1>1, <2>1 DEF TerminalFailure, LadderInv, ConnTypeOK, LadderClimbs,
       SuccessIsProven, WaitIsBounded, WorkType, Sessions, backoffVars
<1>2. CASE FailLoad(t)
  <2>1. WorkType'
    BY <1>2, BeginType, GotoType DEF FailLoad, LadderInv, ConnTypeOK, WorkType, Steps
  <2>. QED
    BY <1>2, <2>1, LadderUntouched DEF FailLoad, LadderInv, ConnTypeOK
<1>3. CASE FailStop(t)
  BY <1>3, StopKeeps DEF FailStop, Steps
<1>4. CASE FailCommit(t)
  BY <1>4, CommitKeeps DEF FailCommit, Rows
<1>. QED
  BY <1>1, <1>2, <1>3, <1>4 DEF Fail

\* Restarts of the node and Bootstrap.
LEMMA BootKeeps ==
    ASSUME LadderInv, Reboot \/ BootLoad \/ BootSpawn \/ BootRefused
    PROVE  LadderInv'
<1>. Boot \in Workers
  BY DEF Workers
<1>1. CASE Reboot
  <2>1. WorkType'
    BY <1>1 DEF Reboot, WorkType, Idle, Steps, Rows
  <2>. QED
    BY <1>1, <2>1 DEF Reboot, LadderInv, ConnTypeOK, LadderClimbs,
       SuccessIsProven, WaitIsBounded, WorkType, Sessions, Casts
<1>2. CASE BootLoad
  <2>1. WorkType'
    BY <1>2, BeginType, GotoType DEF BootLoad, LadderInv, ConnTypeOK, WorkType, Steps
  <2>. QED
    BY <1>2, <2>1, LadderUntouched DEF BootLoad, LadderInv, ConnTypeOK
<1>3. CASE BootSpawn
  BY <1>3, AdmitKeeps DEF BootSpawn, Steps
<1>4. CASE BootRefused
  BY <1>4, RefuseKeeps DEF BootRefused, Steps
<1>. QED
  BY <1>1, <1>2, <1>3, <1>4

LEMMA LadderInit == ConnInit => LadderInv
BY DEF ConnInit, BackoffInit, LadderInv, ConnTypeOK, LadderClimbs, SuccessIsProven,
   WaitIsBounded, Rows, Sessions, Casts, Idle, Steps, Workers

LEMMA LadderNext == LadderInv /\ [ConnNext]_vars => LadderInv'
<1>. SUFFICES ASSUME LadderInv, [ConnNext]_vars PROVE LadderInv'
  OBVIOUS
<1>1. CASE UNCHANGED vars
  BY <1>1, LadderUntouched DEF vars, backoffVars, LadderInv, ConnTypeOK, WorkType
<1>2. CASE ConnNext
  BY <1>2, SessionKeeps, BackoffKeeps, RequestKeeps, TaskKeeps, BootKeeps DEF ConnNext
<1>. QED
  BY <1>1, <1>2

LEMMA LadderAlways == ConnSpec => []LadderInv
BY LadderInit, LadderNext, PTL DEF ConnSpec

\* The variables keep their types: every wait the ladder yields is a natural
\* number, for every base, cap and count.
THEOREM TypeCorrect == ConnSpec => []ConnTypeOK
<1>1. LadderInv => ConnTypeOK
  BY DEF LadderInv
<1>. QED
  BY <1>1, LadderAlways, PTL

\* Every failure since the last proven link or reset is on the ladder when a
\* restarted session reads it, however the Backoff server's casts are delayed.
THEOREM FailuresAreCounted == ConnSpec => []LadderClimbs
<1>1. LadderInv => LadderClimbs
  BY DEF LadderInv
<1>. QED
  BY <1>1, LadderAlways, PTL

\* No wait is zero or more than a quarter above the cap, for every count.
THEOREM WaitsAreBounded == ConnSpec => []WaitIsBounded
<1>1. LadderInv => WaitIsBounded
  BY DEF LadderInv
<1>. QED
  BY <1>1, LadderAlways, PTL

\* Only handle_continue({:start_client, _}) takes a starting session to the dial.
LEMMA OnlyStartDials ==
    ASSUME ConnTypeOK, ConnNext, sess = "starting", sess' = "dialling"
    PROVE  StartClient
<1>1. CASE Session
  BY <1>1 DEF Session, BackoffFires, Connected, ConnectFailed, Welcome,
     ConnectionStable, Crash, Restart
<1>2. ASSUME NEW w, NEW at, NEW next, Admit(w, at, next) \/ Refuse(w, at, next)
      PROVE  FALSE
  BY <1>2 DEF Admit, Spawned, Refuse
<1>3. ASSUME NEW w, NEW next, Stop(w, next) PROVE FALSE
  BY <1>3 DEF Stop, StopSession
<1>4. ASSUME NEW w, NEW from, NEW to, Commit(w, from, to) PROVE FALSE
  BY <1>4 DEF Commit
<1>5. CASE \E c \in Casts : BackoffHandles(c)
  BY <1>5 DEF BackoffHandles
<1>6. ASSUME NEW w \in Requests, Connect(w) \/ Disconnect(w) \/ Bounce(w) PROVE FALSE
  BY <1>2, <1>3, <1>4, <1>6
     DEF Connect, ConnectLoad, ConnectSpawn, ConnectRefused, ConnectCommit,
         Disconnect, DisconnectLoad, DisconnectStop, DisconnectCommit,
         Bounce, BounceLoad, BounceStop, BounceSpawn, BounceRefused, BouncePark,
         BounceCommit
<1>7. ASSUME NEW t \in Tasks, TerminalFailure(t) \/ Fail(t) PROVE FALSE
  BY <1>3, <1>4, <1>7 DEF TerminalFailure, Fail, FailLoad, FailStop, FailCommit
<1>8. CASE Reboot \/ BootLoad \/ BootSpawn \/ BootRefused
  BY <1>2, <1>8 DEF Reboot, BootLoad, BootSpawn, BootRefused
<1>. QED
  BY <1>1, <1>5, <1>6, <1>7, <1>8 DEF ConnNext

\* A session restarted after a failure never dials at once, however many
\* requests, tasks and restarts are about.
THEOREM CrashesWait == ConnSpec => CrashedSessionWaits
<1>1. ASSUME LadderInv, [ConnNext]_vars
      PROVE  [sess = "starting" /\ sess' = "dialling" => flaps = 0]_vars
  <2>. SUFFICES ASSUME ConnNext, sess = "starting", sess' = "dialling" PROVE flaps = 0
    BY <1>1 DEF vars
  <2>1. StartClient
    BY <1>1, OnlyStartDials DEF LadderInv
  <2>2. wait' \in ComputeWait(count) /\ wait' = 0
    BY <2>1 DEF StartClient
  <2>3. count = 0
    BY <1>1, <2>2, ComputeWaitBounds DEF LadderInv, ConnTypeOK
  <2>. QED
    BY <1>1, <2>3 DEF LadderInv, ConnTypeOK, LadderClimbs
<1>. QED
  BY <1>1, LadderAlways, PTL DEF ConnSpec, CrashedSessionWaits

-----------------------------------------------------------------------------
(* Concurrent connects.                                                    *)

\* Nothing but connects: no other request, no terminal failure, no restart.
OnlyConnects == Kinds = {"connect"} /\ Tasks = {} /\ ~ Reboots

At(w) == work[w].at
Cred(w) == work[w].cred

\* A connect that found the row down, has a session up and will write the row.
Promise(w) == At(w) = "connect.commit" /\ Cred(w) \notin WantedUp

\* The inductive invariant of concurrent connects: the row never goes down
\* again once up, whoever is about to write it has spawned, and a session
\* behind a row that is down has a request about to put the row up.
ConnectsInv ==
    /\ \A w \in Workers : At(w) \in {"idle", "connect.spawn", "connect.commit"}
    /\ At(Boot) = "idle"
    /\ \A w \in Workers : At(w) # "idle" /\ Cred(w) \in WantedUp => row \in WantedUp
    /\ \A w \in Workers : At(w) = "connect.commit" => sess # "none"
    /\ row \in WantedUp => sess # "none"
    /\ row \notin WantedUp /\ sess # "none" => \E w \in Workers : Promise(w)
    /\ sess \in Registered => row # "failing"

LEMMA ConnectsInit == OnlyConnects /\ ConnInit => ConnectsInv
BY DEF ConnInit, ConnectsInv, At, Cred, Promise, Idle, WantedUp, Registered, Workers

\* A step of the session alone neither ends it nor takes the row down.
LEMMA SessionConverges ==
    ASSUME ConnTypeOK, ConnectsInv, UNCHANGED work, sess # "none", sess' # "none",
           row' \in WantedUp <=> row \in WantedUp,
           sess' \in Registered => row' # "failing"
    PROVE  ConnectsInv'
BY DEF ConnectsInv, At, Cred, Promise

\* A step of one connect.
LEMMA ConnectConverges ==
    ASSUME ConnTypeOK, ConnectsInv, NEW w \in Requests, Connect(w)
    PROVE  ConnectsInv'
<1>. w \in Workers
  BY DEF Workers
<1>. \A v \in Workers : work[v].at \in Steps /\ work[v].cred \in Rows
  BY DEF ConnTypeOK
<1>1. CASE ConnectLoad(w)
  BY <1>1, WorkerAssumption DEF ConnectLoad, Begin, ConnectsInv, ConnTypeOK, At, Cred, Promise
<1>2. CASE ConnectSpawn(w)
  BY <1>2 DEF ConnectSpawn, Admit, Spawned, Goto, ConnectsInv, ConnTypeOK, At, Cred,
     Promise, Registered
<1>3. CASE ConnectRefused(w)
  BY <1>3 DEF ConnectRefused, Refuse, Goto, Idle, ConnectsInv, ConnTypeOK, At, Cred, Promise
<1>4. CASE ConnectCommit(w)
  BY <1>4 DEF ConnectCommit, Commit, Goto, Idle, ConnectsInv, ConnTypeOK, At, Cred,
     Promise, WantedUp, Rows, Registered
<1>. QED
  BY <1>1, <1>2, <1>3, <1>4 DEF Connect

LEMMA ConnectsNext ==
    ASSUME OnlyConnects, ConnTypeOK, ConnectsInv, [ConnNext]_vars
    PROVE  ConnectsInv'
<1>1. CASE UNCHANGED vars
  BY <1>1 DEF vars, ConnectsInv, At, Cred, Promise
<1>2. CASE Session
  <2>1. /\ UNCHANGED work
        /\ sess # "none" /\ sess' # "none"
        /\ row' \in WantedUp <=> row \in WantedUp
        /\ sess' \in Registered => row' # "failing"
    BY <1>2 DEF Session, StartClient, BackoffFires, Connected, ConnectFailed, MarkFailing,
       Welcome, MarkRegistered, ConnectionStable, Crash, Restart, ConnectsInv,
       Live, Registered, WantedUp
  <2>. QED
    BY <2>1, SessionConverges
<1>3. CASE \E c \in Casts : BackoffHandles(c)
  BY <1>3 DEF BackoffHandles, ConnectsInv, At, Cred, Promise
<1>4. ASSUME NEW w \in Requests, Connect(w)
      PROVE  ConnectsInv'
  BY <1>4, ConnectConverges
<1>5. ~ BootLoad /\ ~ BootSpawn /\ ~ BootRefused
  BY DEF BootLoad, BootSpawn, BootRefused, Admit, Refuse, ConnectsInv, At
<1>. QED
  BY <1>1, <1>2, <1>3, <1>4, <1>5 DEF ConnNext, OnlyConnects, Reboot

\* However many connects run at once, and whatever the session does meanwhile:
\* once they are done, row and session agree.
THEOREM ConnectsConverge ==
    ASSUME OnlyConnects
    PROVE  ConnSpec => [](DownIsStopped /\ WantedUpHasSession /\ RegisteredIsConnected)
<1>1. ConnTypeOK /\ ConnectsInv => DownIsStopped /\ WantedUpHasSession /\ RegisteredIsConnected
  BY DEF ConnTypeOK, ConnectsInv, At, Promise, Quiet, DownIsStopped, WantedUpHasSession,
     RegisteredIsConnected, Registered, WantedUp
<1>2. ConnInit => ConnectsInv
  BY ConnectsInit
<1>3. ConnTypeOK /\ ConnectsInv /\ [ConnNext]_vars => ConnectsInv'
  BY ConnectsNext
<1>. QED
  BY <1>1, <1>2, <1>3, TypeCorrect, PTL DEF ConnSpec

-----------------------------------------------------------------------------
(* One request after another.                                              *)

\* Connects, disconnects and identity changes that wait for each other, whatever
\* the session does meanwhile.
OneAtATime == (\A v, w \in Requests : v = w) /\ Tasks = {} /\ ~ Reboots

\* A request that has read the row and not yet touched the session.
Resting == {"idle", "connect.spawn", "disconnect.stop", "bounce.stop"}

\* A request that has stopped the session.
Stopped == {"disconnect.commit", "bounce.spawn", "bounce.park", "bounce.commit"}

Agree == row \in WantedUp <=> sess # "none"

\* The inductive invariant of one request after another: what it read about the
\* row is still true when it writes, and row and session disagree only between
\* the call that touches the session and the write that follows.
SoloInv ==
    /\ At(Boot) = "idle"
    /\ \A w \in Requests :
        /\ At(w) \in Resting \cup Stopped \cup {"connect.commit"}
        /\ At(w) # "idle" => (Cred(w) \in WantedUp <=> row \in WantedUp)
        /\ At(w) \in Stopped \cup {"disconnect.stop", "bounce.stop"} => row \in WantedUp
        /\ At(w) \in Stopped => sess = "none"
        /\ At(w) = "connect.commit" => sess # "none"
    /\ (\A w \in Requests : At(w) \in Resting) => Agree
    /\ sess \in Registered => row # "failing"

\* A step of the request w, from what it does to w's own part.
LEMMA SoloStep ==
    ASSUME OneAtATime, ConnTypeOK, SoloInv, NEW w \in Requests,
           NEW r, work' = [work EXCEPT ![w] = r],
           r.at \in Resting \cup Stopped \cup {"connect.commit"},
           r.at # "idle" => (r.cred \in WantedUp <=> row' \in WantedUp),
           r.at \in Stopped \cup {"disconnect.stop", "bounce.stop"} => row' \in WantedUp,
           r.at \in Stopped => sess' = "none",
           r.at = "connect.commit" => sess' # "none",
           r.at \in Resting => (row' \in WantedUp <=> sess' # "none"),
           sess' \in Registered => row' # "failing"
    PROVE  SoloInv'
<1>1. work'[w] = r /\ work'[Boot] = work[Boot]
  BY WorkerAssumption DEF ConnTypeOK, Workers
<1>2. \A v \in Requests : v = w
  BY DEF OneAtATime
<1>3. At(Boot)' = "idle"
  BY <1>1 DEF SoloInv, At
<1>. QED
  BY <1>1, <1>2, <1>3 DEF SoloInv, At, Cred, Agree

\* The records a request moves to.
LEMMA Moves ==
    ASSUME ConnTypeOK, NEW w \in Requests
    PROVE  /\ \A at : at # "idle" /\ Goto(w, at) =>
                 \E r : work' = [work EXCEPT ![w] = r] /\ r.at = at /\ r.cred = work[w].cred
           /\ Goto(w, "idle") => \E r : work' = [work EXCEPT ![w] = r] /\ r.at = "idle"
           /\ \A at : Begin(w, at) =>
                 \E r : work' = [work EXCEPT ![w] = r] /\ r.at = at /\ r.cred = row
<1>1. work[w] \in [at : Steps, cred : Rows]
  BY DEF ConnTypeOK, Workers
<1>2. ASSUME NEW at, at # "idle", Goto(w, at)
      PROVE  \E r : work' = [work EXCEPT ![w] = r] /\ r.at = at /\ r.cred = work[w].cred
  <2>. DEFINE r == [work[w] EXCEPT !.at = at]
  <2>1. work' = [work EXCEPT ![w] = r]
    BY <1>2 DEF Goto
  <2>2. r.at = at /\ r.cred = work[w].cred
    BY <1>1
  <2>. HIDE DEF r
  <2>. QED
    BY <2>1, <2>2
<1>3. ASSUME Goto(w, "idle") PROVE \E r : work' = [work EXCEPT ![w] = r] /\ r.at = "idle"
  <2>1. work' = [work EXCEPT ![w] = Idle] /\ Idle.at = "idle"
    BY <1>3 DEF Goto, Idle
  <2>. HIDE DEF Idle
  <2>. QED
    BY <2>1
<1>4. ASSUME NEW at, Begin(w, at)
      PROVE  \E r : work' = [work EXCEPT ![w] = r] /\ r.at = at /\ r.cred = row
  <2>. DEFINE r == [at |-> at, cred |-> row]
  <2>1. work' = [work EXCEPT ![w] = r] /\ r.at = at /\ r.cred = row
    BY <1>4 DEF Begin
  <2>. HIDE DEF r
  <2>. QED
    BY <2>1
<1>. QED
  BY <1>2, <1>3, <1>4

\* What the invariant says of the only request.
LEMMA SoloAt ==
    ASSUME OneAtATime, SoloInv, NEW w \in Requests
    PROVE  /\ At(w) # "idle" => (Cred(w) \in WantedUp <=> row \in WantedUp)
           /\ At(w) \in Stopped \cup {"disconnect.stop", "bounce.stop"} => row \in WantedUp
           /\ At(w) \in Stopped => sess = "none"
           /\ At(w) = "connect.commit" => sess # "none"
           /\ At(w) \in Resting => Agree
           /\ sess \in Registered => row # "failing"
BY DEF SoloInv, OneAtATime

LEMMA ConnectSolo ==
    ASSUME OneAtATime, ConnTypeOK, SoloInv, NEW w \in Requests, Connect(w)
    PROVE  SoloInv'
<1>. USE SoloAt, Moves, SoloStep DEF Agree, Resting, Stopped, At, Cred
<1>1. CASE ConnectLoad(w)
  BY <1>1 DEF ConnectLoad
<1>2. CASE ConnectSpawn(w)
  BY <1>2 DEF ConnectSpawn, Admit, Spawned, Registered
<1>3. CASE ConnectRefused(w)
  BY <1>3 DEF ConnectRefused, Refuse
<1>4. CASE ConnectCommit(w)
  BY <1>4 DEF ConnectCommit, Commit, WantedUp, ConnTypeOK, Rows
<1>. QED
  BY <1>1, <1>2, <1>3, <1>4 DEF Connect

LEMMA DisconnectSolo ==
    ASSUME OneAtATime, ConnTypeOK, SoloInv, NEW w \in Requests, Disconnect(w)
    PROVE  SoloInv'
<1>. USE SoloAt, Moves, SoloStep DEF Agree, Resting, Stopped, At, Cred
<1>1. CASE DisconnectLoad(w)
  BY <1>1 DEF DisconnectLoad
<1>2. CASE DisconnectStop(w)
  BY <1>2 DEF DisconnectStop, Stop, StopSession, Registered
<1>3. CASE DisconnectCommit(w)
  BY <1>3 DEF DisconnectCommit, Commit, WantedUp, Registered
<1>. QED
  BY <1>1, <1>2, <1>3 DEF Disconnect

LEMMA BounceSolo ==
    ASSUME OneAtATime, ConnTypeOK, SoloInv, NEW w \in Requests, Bounce(w)
    PROVE  SoloInv'
<1>. USE SoloAt, Moves, SoloStep DEF Agree, Resting, Stopped, At, Cred
<1>1. CASE BounceLoad(w)
  BY <1>1 DEF BounceLoad, Live
<1>2. CASE BounceStop(w)
  BY <1>2 DEF BounceStop, Stop, StopSession, Registered
<1>3. CASE BounceSpawn(w)
  BY <1>3 DEF BounceSpawn, Admit, Spawned, Registered
<1>4. CASE BounceRefused(w)
  BY <1>4 DEF BounceRefused, Refuse
<1>5. CASE BouncePark(w)
  BY <1>5 DEF BouncePark, Stop, StopSession, Registered
<1>6. CASE BounceCommit(w)
  BY <1>6 DEF BounceCommit, Commit, WantedUp, Registered
<1>. QED
  BY <1>1, <1>2, <1>3, <1>4, <1>5, <1>6 DEF Bounce

LEMMA SoloNext ==
    ASSUME OneAtATime, ConnTypeOK, SoloInv, [ConnNext]_vars
    PROVE  SoloInv'
<1>1. CASE UNCHANGED vars
  BY <1>1 DEF vars, SoloInv, At, Cred, Agree
<1>2. CASE Session
  <2>1. /\ UNCHANGED work
        /\ sess # "none" /\ sess' # "none"
        /\ row' \in WantedUp <=> row \in WantedUp
        /\ sess' \in Registered => row' # "failing"
    BY <1>2 DEF Session, StartClient, BackoffFires, Connected, ConnectFailed, MarkFailing,
       Welcome, MarkRegistered, ConnectionStable, Crash, Restart, SoloInv,
       Live, Registered, WantedUp
  <2>. QED
    BY <2>1 DEF SoloInv, At, Cred, Agree
<1>3. CASE \E c \in Casts : BackoffHandles(c)
  BY <1>3 DEF BackoffHandles, SoloInv, At, Cred, Agree
<1>4. ASSUME NEW w \in Requests, Connect(w) \/ Disconnect(w) \/ Bounce(w)
      PROVE  SoloInv'
  BY <1>4, ConnectSolo, DisconnectSolo, BounceSolo
<1>5. ~ BootLoad /\ ~ BootSpawn /\ ~ BootRefused
  BY DEF BootLoad, BootSpawn, BootRefused, Admit, Refuse, SoloInv, At
<1>. QED
  BY <1>1, <1>2, <1>3, <1>4, <1>5 DEF ConnNext, OneAtATime, Reboot

\* Whatever is asked of a network, one request after the other, and however the
\* session crashes, restarts and registers between their steps: once a request
\* is done, a row that is down has no session, a row that is wanted up has one,
\* and a registered session's row says connected.
THEOREM RequestsConverge ==
    ASSUME OneAtATime
    PROVE  ConnSpec => [](DownIsStopped /\ WantedUpHasSession /\ RegisteredIsConnected)
<1>1. ConnTypeOK /\ SoloInv => DownIsStopped /\ WantedUpHasSession /\ RegisteredIsConnected
  BY DEF ConnTypeOK, SoloInv, At, Quiet, DownIsStopped, WantedUpHasSession, Agree, Resting,
     RegisteredIsConnected, Registered, WantedUp, Workers
<1>2. ConnInit => SoloInv
  BY DEF ConnInit, SoloInv, At, Cred, Idle, WantedUp, Registered, Workers, Resting, Stopped, Agree
<1>3. ConnTypeOK /\ SoloInv /\ [ConnNext]_vars => SoloInv'
  BY SoloNext
<1>. QED
  BY <1>1, <1>2, <1>3, TypeCorrect, PTL DEF ConnSpec

=============================================================================
