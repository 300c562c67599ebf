------------------------------ MODULE Backoff ------------------------------
(***************************************************************************)
(* Grappa.Session.Backoff: the reconnect ladder of one (subject, network)  *)
(* key.  The table row is its count (0: no row); casts are the deletions   *)
(* queued at the GenServer.  Both casts delete the row, so their order and *)
(* number do not matter and the queue is the set of those pending.         *)
(* record_failure is a call: whatever was queued before it is handled      *)
(* first, and its caller goes on only when the row is written.             *)
(***************************************************************************)
EXTENDS Naturals, FiniteSets

CONSTANTS
    BaseMs,         \* @base_ms
    CapMs,          \* @cap_ms
    MaxCount        \* bound on the failures the model counts

ASSUME LadderAssumption ==
    /\ BaseMs \in Nat \ {0}
    /\ CapMs \in Nat \ {0}
    /\ MaxCount \in Nat \ {0}

VARIABLES count, casts

backoffVars == <<count, casts>>

Casts == {"reset", "success"}

-----------------------------------------------------------------------------

Smaller(a, b) == IF a <= b THEN a ELSE b

\* The base doubled e times.
Doubled[e \in Nat] == IF e = 0 THEN BaseMs ELSE 2 * Doubled[e - 1]

\* @max_exponent: the first doubling in 0..64 that reaches the cap, or 64.
MaxExponent ==
    CHOOSE e \in 0..64 :
        /\ e < 64 => Doubled[e] >= CapMs
        /\ \A d \in 0..(e - 1) : Doubled[d] < CapMs

Capped(n) == Smaller(Doubled[Smaller(n - 1, MaxExponent)], CapMs)

Jitter(n) == (Capped(n) * 25) \div 100

\* Seeded defect: the first failure costs nothing.
ComputeWait_FirstIsFree(n) ==
    IF n <= 1 THEN {0} ELSE (Capped(n) - Jitter(n))..(Capped(n) + Jitter(n))

\* The waits compute_wait/1 may draw for a count.
ComputeWait(n) ==
    IF n = 0 THEN {0} ELSE (Capped(n) - Jitter(n))..(Capped(n) + Jitter(n))

-----------------------------------------------------------------------------

BackoffInit ==
    /\ count = 0
    /\ casts = {}

\* record_success/2 and reset/2: queued, not waited for.
Cast(c) ==
    /\ casts' = casts \cup {c}
    /\ UNCHANGED count

\* Seeded defect: the row is taken down one rung.
HandleCast_OneRung(c) ==
    /\ c \in casts
    /\ casts' = casts \ {c}
    /\ count' = count - 1

\* handle_cast: delete the row.
HandleCast(c) ==
    /\ c \in casts
    /\ casts' = casts \ {c}
    /\ count' = 0

\* record_failure/2: the queue first, then the bump.
RecordFailure ==
    /\ count < MaxCount
    /\ count' = (IF casts = {} THEN count ELSE 0) + 1
    /\ casts' = {}

=============================================================================
