------------------------- MODULE AwaySession_proofs -------------------------
(***************************************************************************)
(* The away side of a session, for any profile of settings, texts, nicks   *)
(* and mailbox bounds: what it owes to presence, to the credential row and *)
(* to the ircd. A mailbox is argued about by the positions of its kinds:   *)
(* ws events alternate in it the way PresenceFeed sends them.              *)
(***************************************************************************)
EXTENDS AwaySession, SequenceTheorems, TLAPS

-----------------------------------------------------------------------------
(* Sequences.                                                              *)

IsSeq(s) == \E S : s \in Seq(S)

\* t is s without its p-th element.
Removal(s, t, p) ==
    /\ p \in 1..Len(s) /\ Len(t) = Len(s) - 1
    /\ \A i \in 1..Len(t) : t[i] = s[IF i < p THEN i ELSE i + 1]

LEMMA SeqLen == ASSUME NEW s, IsSeq(s) PROVE Len(s) \in Nat
BY LenProperties DEF IsSeq

LEMMA EmptyIsSeq == IsSeq(<<>>) /\ Len(<<>>) = 0
<1>1. <<>> \in Seq({})
  OBVIOUS
<1>. QED
  BY <1>1 DEF IsSeq

\* The elements of a sequence are a set it is over, and so is any larger one.
LEMMA SeqOver ==
    ASSUME NEW s, IsSeq(s), NEW T, \A i \in 1..Len(s) : s[i] \in T
    PROVE  s \in Seq(T)
<1>1. PICK S : s \in Seq(S)
  BY DEF IsSeq
<1>2. Len(s) \in Nat /\ s \in [1..Len(s) -> S]
  BY <1>1, LenProperties
<1>3. s = [i \in 1..Len(s) |-> s[i]]
  BY <1>2
<1>4. s \in [1..Len(s) -> T]
  BY <1>3
<1>. QED
  BY <1>2, <1>4, SeqDef

LEMMA AppendSeq ==
    ASSUME NEW s, IsSeq(s), NEW m
    PROVE  /\ IsSeq(Append(s, m)) /\ Len(Append(s, m)) = Len(s) + 1
           /\ \A i \in 1..Len(s) : Append(s, m)[i] = s[i]
           /\ Append(s, m)[Len(s) + 1] = m
<1>. DEFINE T == {s[i] : i \in 1..Len(s)} \cup {m}
<1>1. s \in Seq(T) /\ m \in T
  BY SeqOver
<1>. HIDE DEF T
<1>2. Append(s, m) \in Seq(T)
  BY <1>1, AppendProperties
<1>. QED
  BY <1>1, <1>2, AppendProperties DEF IsSeq

LEMMA ConcatSeq ==
    ASSUME NEW s, NEW u, IsSeq(s), IsSeq(u)
    PROVE  /\ IsSeq(s \o u) /\ Len(s \o u) = Len(s) + Len(u)
           /\ \A i \in 1..(Len(s) + Len(u)) :
                (s \o u)[i] = IF i <= Len(s) THEN s[i] ELSE u[i - Len(s)]
<1>. DEFINE T == {s[i] : i \in 1..Len(s)} \cup {u[i] : i \in 1..Len(u)}
<1>1. s \in Seq(T) /\ u \in Seq(T)
  BY SeqOver
<1>. HIDE DEF T
<1>. QED
  BY <1>1, ConcatProperties DEF IsSeq

LEMMA TailSeq ==
    ASSUME NEW s, IsSeq(s), s # <<>>
    PROVE  IsSeq(Tail(s)) /\ Removal(s, Tail(s), 1) /\ Head(s) = s[1] /\ Len(s) \in Nat \ {0}
<1>1. PICK S : s \in Seq(S)
  BY DEF IsSeq
<1>2. /\ Tail(s) \in Seq(S) /\ Len(Tail(s)) = Len(s) - 1 /\ Head(s) = s[1] /\ Len(s) \in Nat
      /\ \A i \in 1..(Len(s) - 1) : Tail(s)[i] = s[i + 1]
  BY <1>1, HeadTailProperties, LenProperties
<1>3. Len(s) # 0
  BY <1>1, EmptySeq
<1>. QED
  BY <1>2, <1>3 DEF IsSeq, Removal

LEMMA WithoutSeq ==
    ASSUME NEW s, IsSeq(s), NEW p \in 1..Len(s)
    PROVE  IsSeq(Without(s, p)) /\ Removal(s, Without(s, p), p)
<1>. DEFINE T == {s[i] : i \in 1..Len(s)}
            w == Without(s, p)
            n == Len(s) - 1
<1>1. Len(s) \in Nat /\ n \in Nat
  BY SeqLen
<1>2. w \in [1..n -> T]
  BY <1>1 DEF Without
<1>3. w \in Seq(T) /\ Len(w) = n
  <2>1. w \in Seq(T)
    BY <1>1, <1>2, SeqDef
  <2>. QED
    BY <1>1, <1>2, <2>1, LenProperties
<1>4. \A i \in 1..n : w[i] = s[IF i < p THEN i ELSE i + 1]
  BY DEF Without
<1>. QED
  BY <1>3, <1>4 DEF IsSeq, Removal

-----------------------------------------------------------------------------
(* Mailboxes.                                                              *)

At(s, k) == {i \in 1..Len(s) : s[i].kind = k}
Shown(s) == At(s, "ws_visible")
Hidden(s) == At(s, "ws_all_hidden")

\* No ws event is queued.
NoWs(s) == Shown(s) = {} /\ Hidden(s) = {}

\* The last ws event, if there is one, is what was told last.
EndsWith(s, e) ==
    /\ e = "ws_visible" => \A i \in Hidden(s) : \E j \in Shown(s) : i < j
    /\ e = "ws_all_hidden" => \A i \in Shown(s) : \E j \in Hidden(s) : i < j

\* Between two ws_all_hidden there is a ws_visible.
Alternates(s) ==
    \A i, k \in Hidden(s) : i < k => \E j \in Shown(s) : i < j /\ j < k

\* The first ws event, if there is one, is ws_visible.
ShowsFirst(s) == \A i \in Hidden(s) : \E j \in Shown(s) : j < i

OneFire(s) == \A i, j \in At(s, "fire") : i = j

\* Taking an element out keeps the others, in their order.
LEMMA RemovalKeeps ==
    ASSUME NEW s, NEW t, NEW p, IsSeq(s), Removal(s, t, p), NEW k
    PROVE  /\ \A i \in At(t, k) : (IF i < p THEN i ELSE i + 1) \in At(s, k)
           /\ \A j \in At(s, k) \ {p} : (IF j < p THEN j ELSE j - 1) \in At(t, k)
<1>1. Len(s) \in Nat /\ p \in 1..Len(s) /\ Len(t) = Len(s) - 1
  BY SeqLen DEF Removal
<1>2. ASSUME NEW i \in At(t, k) PROVE (IF i < p THEN i ELSE i + 1) \in At(s, k)
  BY <1>1, <1>2 DEF Removal, At
<1>3. ASSUME NEW j \in At(s, k) \ {p} PROVE (IF j < p THEN j ELSE j - 1) \in At(t, k)
  <2>. DEFINE i == IF j < p THEN j ELSE j - 1
  <2>1. j \in 1..Len(s) /\ j # p /\ s[j].kind = k
    BY DEF At
  <2>2. i \in 1..Len(t) /\ (IF i < p THEN i ELSE i + 1) = j
    BY <1>1, <2>1
  <2>3. t[i] = s[IF i < p THEN i ELSE i + 1]
    BY <2>2 DEF Removal
  <2>. QED
    BY <2>1, <2>2, <2>3 DEF At
<1>. QED
  BY <1>2, <1>3

LEMMA RemovalWs ==
    ASSUME NEW s, NEW t, NEW p, IsSeq(s), Removal(s, t, p), p \notin Shown(s), p \notin Hidden(s),
           NEW e
    PROVE  /\ NoWs(t) => NoWs(s)
           /\ EndsWith(s, e) => EndsWith(t, e)
           /\ Alternates(s) => Alternates(t)
           /\ ShowsFirst(s) => ShowsFirst(t)
<1>. DEFINE up(i) == IF i < p THEN i ELSE i + 1
            dn(j) == IF j < p THEN j ELSE j - 1
<1>1. /\ \A i \in Shown(t) : up(i) \in Shown(s) /\ i \in Int
      /\ \A i \in Hidden(t) : up(i) \in Hidden(s) /\ i \in Int
      /\ \A j \in Shown(s) : dn(j) \in Shown(t) /\ j \in Int /\ j # p
      /\ \A j \in Hidden(s) : dn(j) \in Hidden(t) /\ j \in Int /\ j # p
      /\ p \in Int
  <2>1. /\ \A i \in Shown(t) : up(i) \in Shown(s)
        /\ \A i \in Hidden(t) : up(i) \in Hidden(s)
        /\ \A j \in Shown(s) \ {p} : dn(j) \in Shown(t)
        /\ \A j \in Hidden(s) \ {p} : dn(j) \in Hidden(t)
    BY RemovalKeeps DEF Shown, Hidden
  <2>2. /\ \A i \in Shown(t) \cup Hidden(t) \cup Shown(s) \cup Hidden(s) : i \in Int
        /\ p \in Int
    BY SeqLen DEF Shown, Hidden, At, Removal
  <2>. QED
    BY <2>1, <2>2
<1>2. NoWs(t) => NoWs(s)
  BY <1>1 DEF NoWs
<1>3. EndsWith(s, e) => EndsWith(t, e)
  BY <1>1 DEF EndsWith
<1>4. Alternates(s) => Alternates(t)
  BY <1>1 DEF Alternates
<1>5. ShowsFirst(s) => ShowsFirst(t)
  BY <1>1 DEF ShowsFirst
<1>. QED
  BY <1>2, <1>3, <1>4, <1>5

\* Handling the ws event at the head.
LEMMA HeadWs ==
    ASSUME NEW s, NEW t, IsSeq(s), Removal(s, t, 1), NEW e
    PROVE  /\ EndsWith(s, e) => EndsWith(t, e)
           /\ Alternates(s) => Alternates(t)
           /\ 1 \in Hidden(s) /\ Alternates(s) => ShowsFirst(t)
           /\ 1 \in Hidden(s) /\ EndsWith(s, e) /\ NoWs(t) => e # "ws_visible"
<1>1. /\ \A i \in Shown(t) : i + 1 \in Shown(s) /\ i \in Nat \ {0}
      /\ \A i \in Hidden(t) : i + 1 \in Hidden(s) /\ i \in Nat \ {0}
      /\ \A j \in Shown(s) : j # 1 => j - 1 \in Shown(t)
      /\ \A j \in Hidden(s) : j # 1 => j - 1 \in Hidden(t)
      /\ \A j \in Shown(s) \cup Hidden(s) : j \in Nat \ {0}
  BY SeqLen DEF Shown, Hidden, At, Removal
<1>2. EndsWith(s, e) => EndsWith(t, e)
  BY <1>1 DEF EndsWith
<1>3. Alternates(s) => Alternates(t)
  BY <1>1 DEF Alternates
<1>4. 1 \in Hidden(s) /\ Alternates(s) => ShowsFirst(t)
  BY <1>1 DEF Alternates, ShowsFirst
<1>5. 1 \in Hidden(s) /\ EndsWith(s, e) /\ NoWs(t) => e # "ws_visible"
  BY <1>1 DEF EndsWith, NoWs
<1>. QED
  BY <1>2, <1>3, <1>4, <1>5

\* Queueing a message adds its position, the last, to its kind.
LEMMA AppendAt ==
    ASSUME NEW s, IsSeq(s), NEW m, NEW k
    PROVE  At(Append(s, m), k) = At(s, k) \cup (IF m.kind = k THEN {Len(s) + 1} ELSE {})
BY AppendSeq, SeqLen DEF At

LEMMA AppendWs ==
    ASSUME NEW s, IsSeq(s), NEW m, NEW e
    PROVE  LET t == Append(s, m)
           IN  /\ m.kind \notin Events => /\ NoWs(t) <=> NoWs(s)
                                          /\ EndsWith(t, e) <=> EndsWith(s, e)
                                          /\ Alternates(t) <=> Alternates(s)
                                          /\ ShowsFirst(t) <=> ShowsFirst(s)
               /\ m.kind = "ws_visible" => /\ ~NoWs(t) /\ EndsWith(t, "ws_visible")
                                           /\ Alternates(s) => Alternates(t)
                                           /\ ShowsFirst(s) => ShowsFirst(t)
               /\ m.kind = "ws_all_hidden" /\ EndsWith(s, "ws_visible") =>
                     /\ ~NoWs(t) /\ EndsWith(t, "ws_all_hidden")
                     /\ Alternates(s) => Alternates(t)
                     /\ ShowsFirst(s) /\ ~NoWs(s) => ShowsFirst(t)
<1>. DEFINE t == Append(s, m)
            n == Len(s) + 1
<1>1. /\ n \in Nat
      /\ \A i \in Shown(s) \cup Hidden(s) : i \in Nat /\ i < n
  BY SeqLen DEF Shown, Hidden, At
<1>2. /\ Shown(t) = Shown(s) \cup (IF m.kind = "ws_visible" THEN {n} ELSE {})
      /\ Hidden(t) = Hidden(s) \cup (IF m.kind = "ws_all_hidden" THEN {n} ELSE {})
  BY AppendAt DEF Shown, Hidden
<1>. HIDE DEF t, n
<1>3. CASE m.kind \notin Events
  BY <1>2, <1>3 DEF Events, NoWs, EndsWith, Alternates, ShowsFirst, t
<1>4. CASE m.kind = "ws_visible"
  <2>1. Shown(t) = Shown(s) \cup {n} /\ Hidden(t) = Hidden(s)
    BY <1>2, <1>4
  <2>. QED
    BY <1>1, <1>4, <2>1 DEF Events, NoWs, EndsWith, Alternates, ShowsFirst, t
<1>5. CASE m.kind = "ws_all_hidden"
  <2>1. Shown(t) = Shown(s) /\ Hidden(t) = Hidden(s) \cup {n}
    BY <1>2, <1>5
  <2>2. EndsWith(t, "ws_all_hidden")
    BY <1>1, <2>1 DEF EndsWith
  <2>3. EndsWith(s, "ws_visible") /\ Alternates(s) => Alternates(t)
    BY <1>1, <2>1 DEF EndsWith, Alternates
  <2>4. EndsWith(s, "ws_visible") /\ ShowsFirst(s) /\ ~NoWs(s) => ShowsFirst(t)
    BY <1>1, <2>1 DEF EndsWith, ShowsFirst, NoWs
  <2>. QED
    BY <1>5, <2>1, <2>2, <2>3, <2>4 DEF NoWs, Events, t
<1>. QED
  BY <1>3, <1>4, <1>5 DEF Events, t

-----------------------------------------------------------------------------
(* The invariant.                                                          *)

Boxes == IsSeq(mailbox) /\ IsSeq(wire)

Sane ==
    /\ link \in {"down", "starting", "connecting", "online"}
    /\ timer \in {"nil", "armed", "fired"}
    /\ away = [state |-> away.state, since |-> away.since, reason |-> away.reason]
    /\ away.state \in {"present", "away_explicit", "away_auto"}
    /\ away.state = "present" => away = Present
    /\ row = [since |-> row.since, reason |-> row.reason]
    /\ peer = [away |-> peer.away, nick |-> peer.nick]
    /\ posting # <<>> => Head(posting).kind \in {"debounce", "reason", "suffix", "site"}

\* A process that is gone has nothing, one that starts has what the row says.
Unborn ==
    /\ link = "down" => mailbox = <<>> /\ away = Present /\ ~reclaim
    /\ link \in {"down", "starting"} =>
         timer = "nil" /\ away.state # "away_auto" /\ NoWs(mailbox) /\ wire = <<>>
    /\ link # "online" => peer.away = None

\* The reference to the timer is true of the mailbox.
TimerTrue == OneFire(mailbox) /\ (timer = "fired" <=> At(mailbox, "fire") # {})

\* What is queued continues what the session knows: whoever is auto-away or
\* about to be hears of a return first.
HearsFirst ==
    Subscribed =>
        /\ EndsWith(mailbox, told[Self]) /\ Alternates(mailbox)
        /\ timer # "nil" \/ away.state = "away_auto" => ShowsFirst(mailbox)
        /\ away.state = "away_auto" => timer = "nil"
        /\ NoWs(mailbox) /\ told[Self] = "ws_visible" =>
             away.state # "away_auto" /\ timer = "nil"

AwayInv == Boxes /\ Sane /\ Unborn /\ TimerTrue /\ HearsFirst

\* t holds what s held but for what is not a ws event, a welcome, or a fire.
Kept(s, t) ==
    /\ NoWs(t) => NoWs(s)
    /\ EndsWith(s, told[Self]) => EndsWith(t, told[Self])
    /\ Alternates(s) => Alternates(t)
    /\ ShowsFirst(s) => ShowsFirst(t)

-----------------------------------------------------------------------------
(* What a handler does to the mailbox.                                     *)

LEMMA Empties == NoWs(<<>>) /\ OneFire(<<>>) /\ \A k : At(<<>>, k) = {}
BY EmptyIsSeq DEF NoWs, OneFire, Shown, Hidden, At

\* The head of the mailbox, when it is of kind k.
LEMMA HeadOf ==
    ASSUME Boxes, NEW k, Is(k)
    PROVE  /\ IsSeq(Tail(mailbox)) /\ Removal(mailbox, Tail(mailbox), 1)
           /\ 1 \in At(mailbox, k) /\ Head(mailbox) = mailbox[1]
           /\ \A l : l # k => 1 \notin At(mailbox, l)
BY TailSeq DEF Is, Boxes, At

\* Taking a head of another kind leaves the kind as it was.
LEMMA RemovalAt ==
    ASSUME NEW s, NEW t, NEW p, IsSeq(s), Removal(s, t, p), NEW k, p \notin At(s, k)
    PROVE  At(t, k) = {} <=> At(s, k) = {}
BY RemovalKeeps

LEMMA RemovalOneFire ==
    ASSUME NEW s, NEW t, NEW p, IsSeq(s), Removal(s, t, p), OneFire(s)
    PROVE  OneFire(t) /\ (p \in At(s, "fire") => At(t, "fire") = {})
<1>1. \A i \in At(t, "fire") : (IF i < p THEN i ELSE i + 1) \in At(s, "fire") /\ i \in Int
  BY RemovalKeeps, SeqLen DEF At, Removal
<1>2. p \in Int
  BY SeqLen DEF Removal
<1>. QED
  BY <1>1, <1>2 DEF OneFire

\* A message that is neither a ws event nor a fire is taken.
LEMMA Pop ==
    ASSUME AwayInv, NEW k, Is(k), k \notin Events, k # "fire", mailbox' = Tail(mailbox)
    PROVE  /\ IsSeq(mailbox') /\ Kept(mailbox, mailbox') /\ OneFire(mailbox')
           /\ At(mailbox', "fire") = {} <=> At(mailbox, "fire") = {}
           /\ k # "welcome" => (At(mailbox', "welcome") = {} <=> At(mailbox, "welcome") = {})
<1>1. /\ IsSeq(mailbox) /\ IsSeq(Tail(mailbox)) /\ Removal(mailbox, Tail(mailbox), 1)
      /\ \A l : l # k => 1 \notin At(mailbox, l)
  BY HeadOf DEF AwayInv, Boxes
<1>2. 1 \notin Shown(mailbox) /\ 1 \notin Hidden(mailbox)
  BY <1>1 DEF Shown, Hidden, Events
<1>3. Kept(mailbox, Tail(mailbox))
  BY <1>1, <1>2, RemovalWs DEF Kept
<1>4. OneFire(Tail(mailbox))
  BY <1>1, RemovalOneFire DEF AwayInv, TimerTrue
<1>5. At(Tail(mailbox), "fire") = {} <=> At(mailbox, "fire") = {}
  BY <1>1, RemovalAt
<1>6. k # "welcome" => (At(Tail(mailbox), "welcome") = {} <=> At(mailbox, "welcome") = {})
  BY <1>1, RemovalAt
<1>. QED
  BY <1>1, <1>3, <1>4, <1>5, <1>6

\* The rest of the mailbox and what draining it of a fire leaves.
LEMMA DrainRest ==
    ASSUME AwayInv, NEW k, Is(k), k # "fire"
    PROVE  LET rest == Tail(mailbox)
           IN  /\ IsSeq(Drained) /\ At(Drained, "fire") = {} /\ OneFire(Drained)
               /\ Kept(rest, Drained)
               /\ At(Drained, "welcome") = {} <=> At(rest, "welcome") = {}
<1>. DEFINE rest == Tail(mailbox)
            p == CHOOSE i \in 1..Len(rest) : rest[i].kind = "fire"
<1>1. /\ IsSeq(mailbox) /\ IsSeq(rest) /\ Removal(mailbox, rest, 1) /\ 1 \notin At(mailbox, "fire")
  BY HeadOf DEF AwayInv, Boxes
<1>2. OneFire(rest) /\ (At(rest, "fire") = {} <=> At(mailbox, "fire") = {})
  BY <1>1, RemovalOneFire, RemovalAt DEF AwayInv, TimerTrue
<1>3. CASE timer # "fired"
  <2>1. Drained = rest
    BY <1>3 DEF Drained
  <2>2. At(rest, "fire") = {}
    BY <1>2, <1>3 DEF AwayInv, TimerTrue
  <2>. HIDE DEF rest
  <2>. QED
    BY <1>1, <1>2, <2>1, <2>2 DEF Kept, rest
<1>4. CASE timer = "fired"
  <2>1. \E i \in 1..Len(rest) : rest[i].kind = "fire"
    BY <1>2, <1>4 DEF AwayInv, TimerTrue, At
  <2>2. p \in 1..Len(rest) /\ rest[p].kind = "fire"
    BY <2>1
  <2>3. Drained = Without(rest, p)
    BY <1>4 DEF Drained
  <2>. HIDE DEF p, rest
  <2>4. IsSeq(Drained) /\ Removal(rest, Drained, p)
    BY <1>1, <2>2, <2>3, WithoutSeq
  <2>5. /\ p \in At(rest, "fire") /\ p \notin Shown(rest) /\ p \notin Hidden(rest)
        /\ p \notin At(rest, "welcome")
    BY <2>2 DEF At, Shown, Hidden
  <2>6. At(Drained, "fire") = {} /\ OneFire(Drained)
    BY <1>1, <1>2, <2>4, <2>5, RemovalOneFire
  <2>7. Kept(rest, Drained)
    BY <1>1, <2>4, <2>5, RemovalWs DEF Kept
  <2>8. At(Drained, "welcome") = {} <=> At(rest, "welcome") = {}
    BY <1>1, <2>4, <2>5, RemovalAt
  <2>. QED
    BY <2>4, <2>6, <2>7, <2>8 DEF rest
<1>. QED
  BY <1>3, <1>4

\* A setting is handled: the fire it finds is drained.
LEMMA DrainSetting ==
    ASSUME AwayInv, NEW k, Is(k), k \notin Events, k # "fire"
    PROVE  /\ IsSeq(Drained) /\ At(Drained, "fire") = {} /\ OneFire(Drained)
           /\ Kept(mailbox, Drained)
           /\ k # "welcome" => (At(Drained, "welcome") = {} <=> At(mailbox, "welcome") = {})
<1>. DEFINE rest == Tail(mailbox)
<1>1. /\ IsSeq(Drained) /\ At(Drained, "fire") = {} /\ OneFire(Drained)
      /\ Kept(rest, Drained)
      /\ At(Drained, "welcome") = {} <=> At(rest, "welcome") = {}
  BY DrainRest
<1>2. /\ IsSeq(mailbox) /\ Removal(mailbox, rest, 1) /\ \A l : l # k => 1 \notin At(mailbox, l)
  BY HeadOf DEF AwayInv, Boxes
<1>3. 1 \notin Shown(mailbox) /\ 1 \notin Hidden(mailbox)
  BY <1>2 DEF Shown, Hidden, Events
<1>4. Kept(mailbox, rest)
  BY <1>2, <1>3, RemovalWs DEF Kept
<1>5. k # "welcome" => (At(rest, "welcome") = {} <=> At(mailbox, "welcome") = {})
  BY <1>2, RemovalAt
<1>. HIDE DEF rest
<1>. QED
  BY <1>1, <1>4, <1>5 DEF Kept

\* A ws event is handled: what follows still ends as it did and alternates, and
\* a return follows a hide.
LEMMA DrainWs ==
    ASSUME AwayInv, NEW k \in Events, Is(k)
    PROVE  /\ IsSeq(Drained) /\ At(Drained, "fire") = {} /\ OneFire(Drained)
           /\ EndsWith(Drained, told[Self]) /\ Alternates(Drained)
           /\ k = "ws_all_hidden" =>
                ShowsFirst(Drained) /\ (NoWs(Drained) => told[Self] # "ws_visible")
           /\ At(Drained, "welcome") = {} <=> At(mailbox, "welcome") = {}
<1>. DEFINE rest == Tail(mailbox)
<1>1. /\ IsSeq(Drained) /\ At(Drained, "fire") = {} /\ OneFire(Drained)
      /\ Kept(rest, Drained)
      /\ At(Drained, "welcome") = {} <=> At(rest, "welcome") = {}
  BY DrainRest DEF Events
<1>2. /\ IsSeq(mailbox) /\ Removal(mailbox, rest, 1) /\ 1 \notin At(mailbox, "welcome")
      /\ 1 \in At(mailbox, k)
  BY HeadOf DEF AwayInv, Boxes, Events
<1>3. EndsWith(mailbox, told[Self]) /\ Alternates(mailbox)
  BY DEF AwayInv, HearsFirst, Is
<1>4. At(rest, "welcome") = {} <=> At(mailbox, "welcome") = {}
  BY <1>2, RemovalAt
<1>. HIDE DEF rest
<1>5. /\ EndsWith(rest, told[Self]) /\ Alternates(rest)
      /\ k = "ws_all_hidden" =>
           ShowsFirst(rest) /\ (NoWs(rest) => told[Self] # "ws_visible")
  BY <1>2, <1>3, HeadWs DEF Hidden
<1>. QED
  BY <1>1, <1>4, <1>5 DEF Kept

\* The hide of somebody explicitly away is passed over.
LEMMA SkipWs ==
    ASSUME AwayInv, Is("ws_all_hidden"), mailbox' = Tail(mailbox)
    PROVE  /\ IsSeq(mailbox') /\ OneFire(mailbox')
           /\ At(mailbox', "fire") = {} <=> At(mailbox, "fire") = {}
           /\ EndsWith(mailbox', told[Self]) /\ Alternates(mailbox') /\ ShowsFirst(mailbox')
           /\ NoWs(mailbox') => told[Self] # "ws_visible"
           /\ At(mailbox', "welcome") = {} <=> At(mailbox, "welcome") = {}
<1>1. /\ IsSeq(mailbox) /\ IsSeq(mailbox') /\ Removal(mailbox, mailbox', 1)
      /\ 1 \notin At(mailbox, "welcome") /\ 1 \notin At(mailbox, "fire")
      /\ 1 \in Hidden(mailbox)
  BY HeadOf DEF AwayInv, Boxes, Hidden
<1>2. EndsWith(mailbox, told[Self]) /\ Alternates(mailbox) /\ OneFire(mailbox)
  BY DEF AwayInv, HearsFirst, TimerTrue, Is
<1>. QED
  BY <1>1, <1>2, HeadWs, RemovalAt, RemovalOneFire

\* The fire is taken: there is no other.
LEMMA TakeFire ==
    ASSUME AwayInv, Is("fire"), mailbox' = Tail(mailbox)
    PROVE  /\ IsSeq(mailbox') /\ OneFire(mailbox') /\ At(mailbox', "fire") = {}
           /\ Kept(mailbox, mailbox') /\ timer = "fired"
           /\ At(mailbox', "welcome") = {} <=> At(mailbox, "welcome") = {}
<1>1. /\ IsSeq(mailbox) /\ IsSeq(mailbox') /\ Removal(mailbox, mailbox', 1)
      /\ 1 \notin At(mailbox, "welcome") /\ 1 \in At(mailbox, "fire")
      /\ 1 \notin Hidden(mailbox) /\ 1 \notin Shown(mailbox)
  BY HeadOf DEF AwayInv, Boxes, Hidden, Shown
<1>2. OneFire(mailbox) /\ timer = "fired"
  BY <1>1 DEF AwayInv, TimerTrue
<1>. QED
  BY <1>1, <1>2, RemovalWs, RemovalAt, RemovalOneFire DEF Kept

\* A message that is neither a ws event nor a fire is queued.
LEMMA Push ==
    ASSUME AwayInv, NEW m, m.kind \notin Events, m.kind # "fire", mailbox' = Append(mailbox, m)
    PROVE  /\ IsSeq(mailbox') /\ Kept(mailbox, mailbox') /\ OneFire(mailbox')
           /\ NoWs(mailbox) => NoWs(mailbox')
           /\ At(mailbox', "fire") = {} <=> At(mailbox, "fire") = {}
           /\ At(mailbox, "welcome") # {} => At(mailbox', "welcome") # {}
<1>1. IsSeq(mailbox) /\ OneFire(mailbox)
  BY DEF AwayInv, Boxes, TimerTrue
<1>2. At(mailbox', "fire") = At(mailbox, "fire") /\ At(mailbox, "welcome") \subseteq At(mailbox', "welcome")
  <2>1. At(Append(mailbox, m), "fire") =
          At(mailbox, "fire") \cup (IF m.kind = "fire" THEN {Len(mailbox) + 1} ELSE {})
    BY <1>1, AppendAt
  <2>2. At(Append(mailbox, m), "welcome") =
          At(mailbox, "welcome") \cup (IF m.kind = "welcome" THEN {Len(mailbox) + 1} ELSE {})
    BY <1>1, AppendAt
  <2>. QED
    BY <2>1, <2>2
<1>3. OneFire(mailbox')
  BY <1>1, <1>2 DEF OneFire
<1>4. /\ NoWs(Append(mailbox, m)) <=> NoWs(mailbox)
      /\ EndsWith(Append(mailbox, m), told[Self]) <=> EndsWith(mailbox, told[Self])
      /\ Alternates(Append(mailbox, m)) <=> Alternates(mailbox)
      /\ ShowsFirst(Append(mailbox, m)) <=> ShowsFirst(mailbox)
  BY <1>1, AppendWs
<1>5. IsSeq(Append(mailbox, m))
  BY <1>1, AppendSeq
<1>. QED
  BY <1>1, <1>2, <1>3, <1>4, <1>5 DEF Kept

LEMMA SendSeq ==
    ASSUME Boxes, NEW ls, IsSeq(ls), Send(ls)
    PROVE  IsSeq(wire')
BY ConcatSeq DEF Boxes, Send

LEMMA Lines ==
    ASSUME NEW a, NEW b
    PROVE  IsSeq(<<a>>) /\ IsSeq(<<a, b>>)
<1>1. <<a>> \in Seq({a, b}) /\ <<a, b>> \in Seq({a, b})
  OBVIOUS
<1>. QED
  BY <1>1 DEF IsSeq

-----------------------------------------------------------------------------
(* The handlers.                                                           *)

\* What every handler leaves alone.
Steady == /\ Subscribed /\ link' = link /\ told' = told
          /\ peer' = peer /\ posting' = posting

LEMMA AfterPop ==
    ASSUME AwayInv, Steady, NEW k, Is(k), k \notin Events, k # "fire", mailbox' = Tail(mailbox),
           timer' = timer, away'.state = "away_auto" => away.state = "away_auto"
    PROVE  IsSeq(mailbox') /\ TimerTrue' /\ HearsFirst'
<1>1. /\ IsSeq(mailbox') /\ Kept(mailbox, mailbox') /\ OneFire(mailbox')
      /\ At(mailbox', "fire") = {} <=> At(mailbox, "fire") = {}
  BY Pop
<1>2. TimerTrue'
  BY <1>1 DEF AwayInv, TimerTrue
<1>3. HearsFirst'
  BY <1>1 DEF AwayInv, HearsFirst, Kept, Steady
<1>. QED
  BY <1>1, <1>2, <1>3

LEMMA AfterSetting ==
    ASSUME AwayInv, Steady, NEW k, Is(k), k \notin Events, k # "fire", mailbox' = Drained,
           timer' \in {"nil", "armed"}, timer = "nil" => timer' = "nil",
           away' = away
    PROVE  IsSeq(mailbox') /\ TimerTrue' /\ HearsFirst'
<1>1. /\ IsSeq(mailbox') /\ Kept(mailbox, mailbox') /\ OneFire(mailbox')
      /\ At(mailbox', "fire") = {}
  BY DrainSetting
<1>2. TimerTrue'
  BY <1>1 DEF TimerTrue
<1>3. HearsFirst'
  BY <1>1 DEF AwayInv, HearsFirst, Kept, Steady
<1>. QED
  BY <1>1, <1>2, <1>3

LEMMA AutoLines ==
    ASSUME Boxes, SetAutoAwayInternal
    PROVE  IsSeq(wire')
BY SendSeq, Lines DEF SetAutoAwayInternal

LEMMA UnsetLines ==
    ASSUME Boxes, UnsetAwayInternal
    PROVE  IsSeq(wire')
<1>. DEFINE ls == IF restore \in {NoNick, nick} THEN <<>> ELSE <<Line("NICK", restore)>>
<1>1. IsSeq(<<Line("AWAY", None)>>) /\ IsSeq(ls)
  BY Lines, EmptyIsSeq
<1>2. Send(<<Line("AWAY", None)>> \o ls)
  BY DEF UnsetAwayInternal
<1>. HIDE DEF ls
<1>3. IsSeq(<<Line("AWAY", None)>> \o ls)
  BY <1>1, ConcatSeq
<1>. QED
  BY <1>2, <1>3, SendSeq

LEMMA PresentIsSane ==
    /\ Present = [state |-> Present.state, since |-> Present.since, reason |-> Present.reason]
    /\ Present.state = "present" /\ Present.reason = None
BY DEF Present

LEMMA WsVisibleInv == ASSUME AwayInv, WsVisible PROVE AwayInv'
<1>1. Is("ws_visible") /\ Steady /\ mailbox' = Drained /\ timer' = "nil" /\ row' = row
  BY DEF WsVisible, feedVars, Steady, Is, storeVars
<1>2. /\ IsSeq(mailbox') /\ At(mailbox', "fire") = {} /\ OneFire(mailbox')
      /\ EndsWith(mailbox', told[Self]) /\ Alternates(mailbox')
  BY <1>1, DrainWs DEF Events
<1>3. away'.state # "away_auto" /\ Sane'
  BY <1>1, PresentIsSane DEF WsVisible, UnsetAwayInternal, AwayInv, Sane, Steady
<1>4. IsSeq(wire')
  BY UnsetLines DEF WsVisible, AwayInv, Boxes
<1>5. TimerTrue' /\ HearsFirst'
  BY <1>1, <1>2, <1>3 DEF TimerTrue, HearsFirst, Steady
<1>6. Unborn'
  BY <1>1 DEF AwayInv, Unborn, Steady, Subscribed
<1>. QED
  BY <1>2, <1>3, <1>4, <1>5, <1>6 DEF AwayInv, Boxes

LEMMA WsAllHiddenInv == ASSUME AwayInv, WsAllHidden PROVE AwayInv'
<1>1. /\ Is("ws_all_hidden") /\ Steady /\ row' = row /\ away' = away /\ wire' = wire
  BY DEF WsAllHidden, feedVars, Steady, Is, storeVars, ircdVars
<1>2. Unborn'
  BY <1>1 DEF AwayInv, Unborn, Steady, Subscribed
<1>3. CASE away.state = "away_explicit"
  <2>1. mailbox' = Tail(mailbox) /\ timer' = timer
    BY <1>3 DEF WsAllHidden
  <2>2. /\ IsSeq(mailbox') /\ OneFire(mailbox')
        /\ At(mailbox', "fire") = {} <=> At(mailbox, "fire") = {}
        /\ EndsWith(mailbox', told[Self]) /\ Alternates(mailbox') /\ ShowsFirst(mailbox')
        /\ NoWs(mailbox') => told[Self] # "ws_visible"
    BY <1>1, <2>1, SkipWs
  <2>3. TimerTrue' /\ HearsFirst'
    BY <1>1, <1>3, <2>1, <2>2 DEF AwayInv, TimerTrue, HearsFirst, Steady
  <2>. QED
    BY <1>1, <1>2, <2>1, <2>2, <2>3 DEF AwayInv, Boxes, Sane, Steady
<1>4. CASE away.state # "away_explicit"
  <2>1. mailbox' = Drained /\ timer' \in {"nil", "armed"}
    BY <1>4 DEF WsAllHidden, ArmAutoAwayDebounce
  <2>2. away.state # "away_auto"
    <3>1. 1 \in Hidden(mailbox) /\ Alternates(mailbox) /\ ~(\E j \in Shown(mailbox) : j < 1)
      BY <1>1, HeadOf DEF AwayInv, Hidden, Shown, At, HearsFirst, Is
    <3>. QED
      BY <1>1, <3>1 DEF AwayInv, HearsFirst, ShowsFirst, Is
  <2>3. /\ IsSeq(mailbox') /\ At(mailbox', "fire") = {} /\ OneFire(mailbox')
        /\ EndsWith(mailbox', told[Self]) /\ Alternates(mailbox') /\ ShowsFirst(mailbox')
        /\ NoWs(mailbox') => told[Self] # "ws_visible"
    BY <1>1, <2>1, DrainWs DEF Events
  <2>4. TimerTrue' /\ HearsFirst'
    BY <1>1, <2>1, <2>2, <2>3 DEF TimerTrue, HearsFirst, Steady
  <2>. QED
    BY <1>1, <1>2, <2>1, <2>3, <2>4 DEF AwayInv, Boxes, Sane, Steady
<1>. QED
  BY <1>3, <1>4

LEMMA DebounceFireInv == ASSUME AwayInv, DebounceFire PROVE AwayInv'
<1>1. Is("fire") /\ Steady /\ mailbox' = Tail(mailbox) /\ timer' = "nil" /\ row' = row
  BY DEF DebounceFire, feedVars, Steady, Is, storeVars
<1>2. /\ IsSeq(mailbox') /\ OneFire(mailbox') /\ At(mailbox', "fire") = {}
      /\ Kept(mailbox, mailbox') /\ timer = "fired"
  BY <1>1, TakeFire
<1>3. Sane'
  BY <1>1 DEF DebounceFire, SetAutoAwayInternal, AwayInv, Sane, Steady
<1>4. IsSeq(wire')
  BY AutoLines DEF DebounceFire, AwayInv, Boxes
<1>5. TimerTrue' /\ HearsFirst'
  BY <1>1, <1>2 DEF TimerTrue, HearsFirst, Steady, AwayInv, Kept
<1>6. Unborn'
  BY <1>1 DEF AwayInv, Unborn, Steady, Subscribed
<1>. QED
  BY <1>2, <1>3, <1>4, <1>5, <1>6 DEF AwayInv, Boxes

LEMMA SetExplicitAwayInv == ASSUME AwayInv, SetExplicitAway PROVE AwayInv'
<1>1. Is("away") /\ Steady /\ mailbox' = Tail(mailbox) /\ timer' = timer
  BY DEF SetExplicitAway, feedVars, Steady, Is, storeVars, ircdVars
<1>2. Sane' /\ (away'.state = "away_auto" => away.state = "away_auto")
  BY <1>1, PresentIsSane DEF SetExplicitAway, AwayInv, Sane, Steady, storeVars, Persist
<1>3. IsSeq(wire')
  BY SendSeq, Lines DEF SetExplicitAway, AwayInv, Boxes
<1>4. IsSeq(mailbox') /\ TimerTrue' /\ HearsFirst'
  BY <1>1, <1>2, AfterPop DEF Events
<1>5. Unborn'
  BY <1>1 DEF AwayInv, Unborn, Steady, Subscribed
<1>. QED
  BY <1>2, <1>3, <1>4, <1>5 DEF AwayInv, Boxes

LEMMA UnsetExplicitAwayInv == ASSUME AwayInv, UnsetExplicitAway PROVE AwayInv'
<1>1. Is("back") /\ Steady /\ mailbox' = Tail(mailbox) /\ timer' = timer
  BY DEF UnsetExplicitAway, feedVars, Steady, Is, storeVars, ircdVars
<1>2. Sane' /\ (away'.state = "away_auto" => away.state = "away_auto")
  BY <1>1, PresentIsSane DEF UnsetExplicitAway, AwayInv, Sane, Steady, storeVars, Persist, NoRow, UnsetAwayInternal
<1>3. IsSeq(wire')
  BY UnsetLines DEF UnsetExplicitAway, AwayInv, Boxes
<1>4. IsSeq(mailbox') /\ TimerTrue' /\ HearsFirst'
  BY <1>1, <1>2, AfterPop DEF Events
<1>5. Unborn'
  BY <1>1 DEF AwayInv, Unborn, Steady, Subscribed
<1>. QED
  BY <1>2, <1>3, <1>4, <1>5 DEF AwayInv, Boxes

LEMMA DebounceChangedInv == ASSUME AwayInv, DebounceChanged PROVE AwayInv'
<1>1. Is("debounce") /\ Steady /\ away' = away /\ wire' = wire /\ row' = row
  BY DEF DebounceChanged, feedVars, Steady, Is, storeVars, ircdVars
<1>2. \/ mailbox' = Tail(mailbox) /\ timer' = timer
      \/ /\ mailbox' = Drained /\ timer' \in {"nil", "armed"}
         /\ timer = "nil" => timer' = "nil"
  BY DEF DebounceChanged, ApplyAutoAwayDebounce, ArmAutoAwayDebounce
<1>3. IsSeq(mailbox') /\ TimerTrue' /\ HearsFirst'
  BY <1>1, <1>2, AfterPop, AfterSetting DEF Events
<1>4. Sane'
  BY <1>1, <1>2 DEF AwayInv, Sane, Steady
<1>5. Unborn'
  BY <1>1 DEF AwayInv, Unborn, Steady, Subscribed
<1>. QED
  BY <1>1, <1>3, <1>4, <1>5 DEF AwayInv, Boxes

LEMMA SiteDefaultChangedInv == ASSUME AwayInv, SiteDefaultChanged PROVE AwayInv'
<1>1. Is("site") /\ Steady /\ away' = away /\ wire' = wire /\ row' = row
  BY DEF SiteDefaultChanged, feedVars, Steady, Is, storeVars, ircdVars
<1>2. \/ mailbox' = Tail(mailbox) /\ timer' = timer
      \/ /\ mailbox' = Drained /\ timer' \in {"nil", "armed"}
         /\ timer = "nil" => timer' = "nil"
  BY DEF SiteDefaultChanged, ApplyAutoAwayDebounce, ArmAutoAwayDebounce
<1>3. IsSeq(mailbox') /\ TimerTrue' /\ HearsFirst'
  BY <1>1, <1>2, AfterPop, AfterSetting DEF Events
<1>4. Sane'
  BY <1>1, <1>2 DEF AwayInv, Sane, Steady
<1>5. Unborn'
  BY <1>1 DEF AwayInv, Unborn, Steady, Subscribed
<1>. QED
  BY <1>1, <1>3, <1>4, <1>5 DEF AwayInv, Boxes

LEMMA ReasonChangedInv == ASSUME AwayInv, ReasonChanged PROVE AwayInv'
<1>1. Is("reason") /\ Steady /\ mailbox' = Tail(mailbox) /\ timer' = timer
  BY DEF ReasonChanged, feedVars, Steady, Is, storeVars, ircdVars
<1>2. Sane' /\ (away'.state = "away_auto" => away.state = "away_auto")
  BY <1>1, PresentIsSane DEF ReasonChanged, AwayInv, Sane, Steady, storeVars
<1>3. IsSeq(wire')
  BY SendSeq, Lines DEF ReasonChanged, AwayInv, Boxes
<1>4. IsSeq(mailbox') /\ TimerTrue' /\ HearsFirst'
  BY <1>1, <1>2, AfterPop DEF Events
<1>5. Unborn'
  BY <1>1 DEF AwayInv, Unborn, Steady, Subscribed
<1>. QED
  BY <1>2, <1>3, <1>4, <1>5 DEF AwayInv, Boxes

LEMMA SuffixChangedInv == ASSUME AwayInv, SuffixChanged PROVE AwayInv'
<1>1. Is("suffix") /\ Steady /\ mailbox' = Tail(mailbox) /\ timer' = timer
  BY DEF SuffixChanged, feedVars, Steady, Is, storeVars, ircdVars
<1>2. Sane' /\ (away'.state = "away_auto" => away.state = "away_auto")
  BY <1>1, PresentIsSane DEF SuffixChanged, AwayInv, Sane, Steady, storeVars
<1>3. IsSeq(wire')
  BY DEF SuffixChanged, AwayInv, Boxes, ircdVars
<1>4. IsSeq(mailbox') /\ TimerTrue' /\ HearsFirst'
  BY <1>1, <1>2, AfterPop DEF Events
<1>5. Unborn'
  BY <1>1 DEF AwayInv, Unborn, Steady, Subscribed
<1>. QED
  BY <1>2, <1>3, <1>4, <1>5 DEF AwayInv, Boxes

LEMMA SendNickInv == ASSUME AwayInv, SendNick PROVE AwayInv'
<1>1. Is("nick") /\ Steady /\ mailbox' = Tail(mailbox) /\ timer' = timer
  BY DEF SendNick, feedVars, Steady, Is, storeVars, ircdVars
<1>2. Sane' /\ (away'.state = "away_auto" => away.state = "away_auto")
  BY <1>1, PresentIsSane DEF SendNick, AwayInv, Sane, Steady, storeVars
<1>3. IsSeq(wire')
  BY SendSeq, Lines DEF SendNick, AwayInv, Boxes
<1>4. IsSeq(mailbox') /\ TimerTrue' /\ HearsFirst'
  BY <1>1, <1>2, AfterPop DEF Events
<1>5. Unborn'
  BY <1>1 DEF AwayInv, Unborn, Steady, Subscribed
<1>. QED
  BY <1>2, <1>3, <1>4, <1>5 DEF AwayInv, Boxes

LEMMA NickEchoInv == ASSUME AwayInv, NickEcho PROVE AwayInv'
<1>1. Is("echo") /\ Steady /\ mailbox' = Tail(mailbox) /\ timer' = timer
  BY DEF NickEcho, feedVars, Steady, Is, storeVars, ircdVars
<1>2. Sane' /\ (away'.state = "away_auto" => away.state = "away_auto")
  BY <1>1, PresentIsSane DEF NickEcho, AwayInv, Sane, Steady, storeVars
<1>3. IsSeq(wire')
  BY DEF NickEcho, AwayInv, Boxes, ircdVars
<1>4. IsSeq(mailbox') /\ TimerTrue' /\ HearsFirst'
  BY <1>1, <1>2, AfterPop DEF Events
<1>5. Unborn'
  BY <1>1 DEF AwayInv, Unborn, Steady, Subscribed
<1>. QED
  BY <1>2, <1>3, <1>4, <1>5 DEF AwayInv, Boxes

LEMMA NickRefusedInv == ASSUME AwayInv, NickRefused PROVE AwayInv'
<1>1. Is("433") /\ Steady /\ mailbox' = Tail(mailbox) /\ timer' = timer
  BY DEF NickRefused, feedVars, Steady, Is, storeVars, ircdVars
<1>2. Sane' /\ (away'.state = "away_auto" => away.state = "away_auto")
  BY <1>1, PresentIsSane DEF NickRefused, AwayInv, Sane, Steady, storeVars
<1>3. IsSeq(wire')
  BY DEF NickRefused, AwayInv, Boxes, ircdVars
<1>4. IsSeq(mailbox') /\ TimerTrue' /\ HearsFirst'
  BY <1>1, <1>2, AfterPop DEF Events
<1>5. Unborn'
  BY <1>1 DEF AwayInv, Unborn, Steady, Subscribed
<1>. QED
  BY <1>2, <1>3, <1>4, <1>5 DEF AwayInv, Boxes

LEMMA WelcomeInv == ASSUME AwayInv, Welcome PROVE AwayInv'
<1>1. Is("welcome") /\ Steady /\ mailbox' = Tail(mailbox) /\ timer' = timer
  BY DEF Welcome, feedVars, Steady, Is, storeVars, ircdVars
<1>2. Sane' /\ (away'.state = "away_auto" => away.state = "away_auto")
  BY <1>1, PresentIsSane DEF Welcome, AwayInv, Sane, Steady, storeVars
<1>3. IsSeq(wire')
  BY SendSeq, Lines, EmptyIsSeq DEF Welcome, AwayInv, Boxes
<1>4. IsSeq(mailbox') /\ TimerTrue' /\ HearsFirst'
  BY <1>1, <1>2, AfterPop DEF Events
<1>5. Unborn'
  BY <1>1 DEF AwayInv, Unborn, Steady, Subscribed
<1>. QED
  BY <1>2, <1>3, <1>4, <1>5 DEF AwayInv, Boxes

LEMMA NickReclaimInv == ASSUME AwayInv, NickReclaim PROVE AwayInv'
<1>1. Is("reclaim") /\ Steady /\ mailbox' = Tail(mailbox) /\ timer' = timer
  BY DEF NickReclaim, feedVars, Steady, Is, storeVars, ircdVars
<1>2. Sane' /\ (away'.state = "away_auto" => away.state = "away_auto")
  BY <1>1, PresentIsSane DEF NickReclaim, AwayInv, Sane, Steady, storeVars
<1>3. IsSeq(wire')
  BY SendSeq, Lines, EmptyIsSeq DEF NickReclaim, AwayInv, Boxes
<1>4. IsSeq(mailbox') /\ TimerTrue' /\ HearsFirst'
  BY <1>1, <1>2, AfterPop DEF Events
<1>5. Unborn'
  BY <1>1 DEF AwayInv, Unborn, Steady, Subscribed
<1>. QED
  BY <1>2, <1>3, <1>4, <1>5 DEF AwayInv, Boxes

-----------------------------------------------------------------------------
(* The other steps.                                                        *)

\* A message of another kind is queued, or none, and nothing else that the
\* invariant is about changes.
LEMMA AfterPush ==
    ASSUME AwayInv, link' = link, told' = told, timer' = timer, away' = away,
           \/ mailbox' = mailbox
           \/ \E m : /\ m.kind \notin Events /\ m.kind # "fire" /\ Alive
                    /\ mailbox' = Append(mailbox, m)
    PROVE  /\ IsSeq(mailbox') /\ TimerTrue' /\ HearsFirst'
           /\ link = "down" => mailbox' = <<>>
           /\ NoWs(mailbox) => NoWs(mailbox')
<1>1. CASE mailbox' = mailbox
  BY <1>1 DEF AwayInv, Boxes, TimerTrue, HearsFirst, Unborn, Subscribed
<1>2. ASSUME NEW m, m.kind \notin Events, m.kind # "fire", Alive, mailbox' = Append(mailbox, m)
      PROVE  /\ IsSeq(mailbox') /\ TimerTrue' /\ HearsFirst' /\ Alive
             /\ NoWs(mailbox) => NoWs(mailbox')
  <2>1. /\ IsSeq(mailbox') /\ Kept(mailbox, mailbox') /\ OneFire(mailbox')
        /\ NoWs(mailbox) => NoWs(mailbox')
        /\ At(mailbox', "fire") = {} <=> At(mailbox, "fire") = {}
    BY <1>2, Push
  <2>2. TimerTrue'
    BY <2>1 DEF AwayInv, TimerTrue
  <2>3. HearsFirst'
    BY <2>1 DEF AwayInv, HearsFirst, Kept, Subscribed
  <2>. QED
    BY <1>2, <2>1, <2>2, <2>3
<1>. QED
  BY <1>1, <1>2 DEF Alive

\* The same step keeps the invariant when the stores and the wire are in order.
LEMMA PushInv ==
    ASSUME AwayInv, link' = link, told' = told, timer' = timer, away' = away,
           \/ mailbox' = mailbox
           \/ \E m : /\ m.kind \notin Events /\ m.kind # "fire" /\ Alive
                    /\ mailbox' = Append(mailbox, m),
           IsSeq(wire'), row' = row,
           posting' # <<>> => Head(posting').kind \in {"debounce", "reason", "suffix", "site"},
           peer' = [away |-> peer'.away, nick |-> peer'.nick],
           reclaim' => reclaim,
           link \in {"down", "starting"} => wire' = wire,
           link # "online" => peer'.away = peer.away
    PROVE  AwayInv'
<1>1. /\ IsSeq(mailbox') /\ TimerTrue' /\ HearsFirst'
      /\ link = "down" => mailbox' = <<>>
      /\ NoWs(mailbox) => NoWs(mailbox')
  BY AfterPush
<1>2. Sane'
  BY DEF AwayInv, Sane
<1>3. Unborn'
  BY <1>1 DEF AwayInv, Unborn
<1>. QED
  BY <1>1, <1>2, <1>3 DEF AwayInv, Boxes

LEMMA ReclaimTickInv == ASSUME AwayInv, ReclaimTick PROVE AwayInv'
<1>1. Alive /\ Msg("reclaim", None).kind = "reclaim"
  BY DEF ReclaimTick, AwayInv, Unborn, Alive, Msg
<1>. QED
  BY <1>1, PushInv DEF ReclaimTick, feedVars, storeVars, ircdVars, AwayInv, Sane, Boxes, Events

LEMMA UserCallsInv == ASSUME AwayInv, UserCalls PROVE AwayInv'
<1>1. \A k, a : Msg(k, a).kind = k
  BY DEF Msg
<1>. QED
  BY <1>1, PushInv DEF UserCalls, feedVars, storeVars, ircdVars, AwayInv, Sane, Boxes, Events

LEMMA PutSettingInv == ASSUME AwayInv, PutSetting PROVE AwayInv'
<1>1. \A k, a : Msg(k, a).kind = k
  BY DEF Msg
<1>2. posting' # <<>> => Head(posting').kind \in {"debounce", "reason", "suffix", "site"}
  BY <1>1 DEF PutSetting
<1>. QED
  BY <1>2, PushInv DEF PutSetting, feedVars, procVars, ircdVars, AwayInv, Sane, Boxes

LEMMA PutSiteDefaultInv == ASSUME AwayInv, PutSiteDefault PROVE AwayInv'
<1>1. posting' # <<>> => Head(posting').kind \in {"debounce", "reason", "suffix", "site"}
  BY DEF PutSiteDefault, Msg
<1>. QED
  BY <1>1, PushInv DEF PutSiteDefault, feedVars, procVars, ircdVars, AwayInv, Sane, Boxes

LEMMA PostSettingInv == ASSUME AwayInv, PostSetting PROVE AwayInv'
<1>1. Head(posting).kind \notin Events /\ Head(posting).kind # "fire"
  BY DEF PostSetting, AwayInv, Sane, Events
<1>2. \/ mailbox' = mailbox
      \/ Alive /\ mailbox' = Append(mailbox, Head(posting))
  BY DEF PostSetting, Deliver, Alive, Subscribed
<1>. QED
  BY <1>1, <1>2, PushInv DEF PostSetting, feedVars, ircdVars, AwayInv, Sane, Boxes

LEMMA IrcdTakesInv == ASSUME AwayInv, IrcdTakes PROVE AwayInv'
<1>1. wire # <<>> /\ wire' = Tail(wire) /\ link \notin {"down", "starting"}
  BY DEF IrcdTakes, AwayInv, Unborn
<1>2. IsSeq(wire')
  BY <1>1, TailSeq DEF AwayInv, Boxes
<1>3. /\ peer' = [away |-> peer'.away, nick |-> peer'.nick]
      /\ link # "online" => peer'.away = peer.away
  BY DEF IrcdTakes, AwayInv, Sane
<1>4. \A k, a : Msg(k, a).kind = k
  BY DEF Msg
<1>5. \/ mailbox' = mailbox
      \/ \E m : /\ m.kind \notin Events /\ m.kind # "fire" /\ Alive
               /\ mailbox' = Append(mailbox, m)
  BY <1>1, <1>4 DEF IrcdTakes, Events, Alive
<1>. QED
  BY <1>1, <1>2, <1>3, <1>5, PushInv DEF IrcdTakes, feedVars, storeVars, AwayInv, Sane

LEMMA IrcdWelcomeInv == ASSUME AwayInv, IrcdWelcome PROVE AwayInv'
<1>. DEFINE m == Msg("welcome", peer.nick)
<1>1. m.kind = "welcome" /\ mailbox' = Append(mailbox, m)
  BY DEF IrcdWelcome, Msg
<1>. HIDE DEF m
<1>2. /\ IsSeq(mailbox') /\ Kept(mailbox, mailbox') /\ OneFire(mailbox')
      /\ At(mailbox', "fire") = {} <=> At(mailbox, "fire") = {}
  BY <1>1, Push DEF Events
<1>3. TimerTrue' /\ HearsFirst'
  BY <1>2 DEF AwayInv, TimerTrue, HearsFirst, Kept, Subscribed, IrcdWelcome, feedVars
<1>4. Sane' /\ Unborn' /\ IsSeq(wire')
  BY DEF AwayInv, Sane, Unborn, Boxes, IrcdWelcome, storeVars, ircdVars
<1>. QED
  BY <1>2, <1>3, <1>4 DEF AwayInv, Boxes

LEMMA TimerFiresInv == ASSUME AwayInv, TimerFires PROVE AwayInv'
<1>. DEFINE m == Msg("fire", None)
<1>1. /\ m.kind = "fire" /\ mailbox' = Append(mailbox, m) /\ timer = "armed" /\ timer' = "fired"
      /\ link' = link /\ told' = told /\ away' = away /\ wire' = wire /\ row' = row
      /\ peer' = peer /\ posting' = posting
  BY DEF TimerFires, Msg, feedVars, storeVars, ircdVars
<1>. HIDE DEF m
<1>2. IsSeq(mailbox) /\ IsSeq(mailbox') /\ Subscribed
  BY <1>1, AppendSeq DEF AwayInv, Boxes, Sane, Unborn, Subscribed
<1>3. At(mailbox', "fire") = At(mailbox, "fire") \cup {Len(mailbox) + 1}
  BY <1>1, <1>2, AppendAt
<1>4. TimerTrue'
  BY <1>1, <1>3 DEF AwayInv, TimerTrue, OneFire
<1>5. /\ NoWs(mailbox') <=> NoWs(mailbox)
      /\ EndsWith(mailbox', told[Self]) <=> EndsWith(mailbox, told[Self])
      /\ Alternates(mailbox') <=> Alternates(mailbox)
      /\ ShowsFirst(mailbox') <=> ShowsFirst(mailbox)
  BY <1>1, <1>2, AppendWs DEF Events
<1>6. HearsFirst'
  BY <1>1, <1>5 DEF AwayInv, HearsFirst, Subscribed
<1>7. Sane' /\ Unborn'
  BY <1>1, <1>2 DEF AwayInv, Sane, Unborn, Subscribed
<1>. QED
  BY <1>1, <1>2, <1>4, <1>6, <1>7 DEF AwayInv, Boxes

LEMMA CrashInv == ASSUME AwayInv, Crash PROVE AwayInv'
<1>1. Sane' /\ Unborn'
  BY Empties, PresentIsSane DEF Crash, AwayInv, Sane, Unborn, storeVars
<1>2. TimerTrue' /\ HearsFirst'
  BY Empties DEF Crash, TimerTrue, HearsFirst, Subscribed
<1>. QED
  BY <1>1, <1>2, EmptyIsSeq DEF Crash, AwayInv, Boxes

LEMMA BootInv == ASSUME AwayInv, Boot PROVE AwayInv'
<1>1. Sane' /\ Unborn'
  BY PresentIsSane DEF Boot, AwayInv, Sane, Unborn, storeVars, ircdVars
<1>2. TimerTrue' /\ HearsFirst'
  BY DEF Boot, AwayInv, TimerTrue, HearsFirst, Subscribed
<1>. QED
  BY <1>1, <1>2 DEF Boot, AwayInv, Boxes, ircdVars

LEMMA SubscribeInv == ASSUME AwayInv, Subscribe PROVE AwayInv'
<1>1. Sane' /\ Unborn' /\ TimerTrue' /\ Boxes'
  BY DEF Subscribe, AwayInv, Sane, Unborn, TimerTrue, Boxes, procVars, storeVars, ircdVars
<1>2. HearsFirst'
  BY DEF Subscribe, AwayInv, Unborn, HearsFirst, procVars, feedVars,
         EndsWith, Alternates, ShowsFirst, NoWs
<1>. QED
  BY <1>1, <1>2 DEF AwayInv

LEMMA AnnounceInv == ASSUME AwayInv, Announce PROVE AwayInv'
<1>1. /\ link' = link /\ timer' = timer /\ away' = away /\ wire' = wire /\ row' = row
      /\ peer' = peer /\ posting' = posting /\ reclaim' = reclaim
  BY DEF Announce, storeVars, ircdVars
<1>2. CASE ~Subscribed
  <2>1. mailbox' = mailbox
    BY <1>2 DEF Announce, Deliver
  <2>. QED
    BY <1>1, <1>2, <2>1 DEF AwayInv, Boxes, Sane, Unborn, TimerTrue, HearsFirst, Subscribed
<1>3. CASE Subscribed
  <2>1. PICK e \in Events :
          /\ e = "ws_all_hidden" => told[Self] = "ws_visible"
          /\ told'[Self] = e /\ mailbox' = Append(mailbox, Msg(e, None))
    BY <1>3, SelfAssumption DEF Announce, Deliver, Show, Hide, Broadcast, Events
  <2>. DEFINE m == Msg(e, None)
  <2>2. m.kind = e /\ mailbox' = Append(mailbox, m)
    BY <2>1 DEF Msg
  <2>. HIDE DEF m
  <2>3. IsSeq(mailbox) /\ IsSeq(mailbox')
    BY <2>2, AppendSeq DEF AwayInv, Boxes
  <2>4. /\ e = "ws_visible" => /\ ~NoWs(mailbox') /\ EndsWith(mailbox', "ws_visible")
                               /\ Alternates(mailbox) => Alternates(mailbox')
                               /\ ShowsFirst(mailbox) => ShowsFirst(mailbox')
        /\ e = "ws_all_hidden" /\ EndsWith(mailbox, "ws_visible") =>
              /\ ~NoWs(mailbox') /\ EndsWith(mailbox', "ws_all_hidden")
              /\ Alternates(mailbox) => Alternates(mailbox')
              /\ ShowsFirst(mailbox) /\ ~NoWs(mailbox) => ShowsFirst(mailbox')
    BY <2>2, <2>3, AppendWs DEF Events
  <2>5. HearsFirst'
    BY <1>1, <1>3, <2>1, <2>4 DEF AwayInv, HearsFirst, Events
  <2>6. At(mailbox', "fire") = At(mailbox, "fire")
    <3>1. At(Append(mailbox, m), "fire") =
            At(mailbox, "fire") \cup (IF m.kind = "fire" THEN {Len(mailbox) + 1} ELSE {})
      BY <2>3, AppendAt
    <3>. QED
      BY <2>2, <3>1 DEF Events
  <2>7. TimerTrue'
    BY <1>1, <2>6 DEF AwayInv, TimerTrue, OneFire
  <2>8. Sane' /\ Unborn'
    BY <1>1, <1>3 DEF AwayInv, Sane, Unborn, Subscribed
  <2>. QED
    BY <1>1, <2>3, <2>5, <2>7, <2>8 DEF AwayInv, Boxes
<1>. QED
  BY <1>2, <1>3

-----------------------------------------------------------------------------

LEMMA AwayInvInit == AwayInit => AwayInv
<1>. SUFFICES ASSUME AwayInit PROVE AwayInv
  OBVIOUS
<1>1. Boxes /\ TimerTrue /\ HearsFirst
  BY EmptyIsSeq, Empties DEF AwayInit, Boxes, TimerTrue, HearsFirst, Subscribed
<1>2. Sane
  BY PresentIsSane DEF AwayInit, Sane, NoRow
<1>3. Unborn
  BY Empties DEF AwayInit, Unborn, Present
<1>. QED
  BY <1>1, <1>2, <1>3 DEF AwayInv

LEMMA AwayInvStep == AwayInv /\ [AwayNext]_awayVars => AwayInv'
<1>. SUFFICES ASSUME AwayInv, [AwayNext]_awayVars PROVE AwayInv'
  OBVIOUS
<1>1. CASE Handle
  BY <1>1, WsVisibleInv, WsAllHiddenInv, DebounceFireInv, SetExplicitAwayInv, UnsetExplicitAwayInv,
     DebounceChangedInv, SiteDefaultChangedInv, ReasonChangedInv, SuffixChangedInv, SendNickInv,
     NickEchoInv, NickRefusedInv, WelcomeInv, NickReclaimInv DEF Handle
<1>2. CASE UNCHANGED awayVars
  BY <1>2 DEF AwayInv, Boxes, Sane, Unborn, TimerTrue, HearsFirst, Subscribed,
     awayVars, feedVars, procVars, storeVars, ircdVars
<1>. QED
  BY <1>1, <1>2, TimerFiresInv, ReclaimTickInv, CrashInv, BootInv, SubscribeInv, AnnounceInv,
     UserCallsInv, PutSettingInv, PutSiteDefaultInv, PostSettingInv, IrcdWelcomeInv, IrcdTakesInv
     DEF AwayNext

LEMMA AwayInvHolds == AwaySpec => []AwayInv
<1>. QED
  BY AwayInvInit, AwayInvStep, PTL DEF AwaySpec

\* Once what presence sent is handled, whoever has a visible device is neither
\* auto-away nor about to be, whatever fires, settings and calls were queued.
THEOREM WatchedIsNotAway == AwaySpec => []NoAutoAwayWhileWatched
<1>1. AwayInv => NoAutoAwayWhileWatched
  BY DEF AwayInv, HearsFirst, NoAutoAwayWhileWatched, WsQueued, Queued, NoWs, Shown, Hidden, At
<1>. QED
  BY <1>1, AwayInvHolds, PTL

\* While the session stays auto-away the start of its window does not move: a
\* fire needs a hide, and the alternation of presence puts a return before it.
THEOREM AutoWindowStays == AwaySpec => AutoWindowFixed
<1>1. ASSUME AwayInv, [AwayNext]_awayVars, away.state = "away_auto", away'.state = "away_auto"
      PROVE  away'.since = away.since
  <2>1. ~DebounceFire
    BY <1>1, TakeFire DEF DebounceFire, AwayInv, HearsFirst, Is
  <2>2. CASE Handle
    BY <1>1, <2>1, <2>2, PresentIsSane
       DEF Handle, WsVisible, WsAllHidden, SetExplicitAway, UnsetExplicitAway, DebounceChanged,
           SiteDefaultChanged, ReasonChanged, SuffixChanged, SendNick, NickEcho, NickRefused,
           Welcome, NickReclaim, UnsetAwayInternal, AwayInv, Sane
  <2>3. CASE UNCHANGED awayVars
    BY <2>3 DEF awayVars, procVars
  <2>4. CASE Boot \/ Crash
    BY <1>1, <2>4, PresentIsSane DEF Boot, Crash
  <2>. QED
    BY <1>1, <2>2, <2>3, <2>4
       DEF AwayNext, TimerFires, ReclaimTick, Subscribe, Announce, UserCalls, PutSetting,
           PutSiteDefault, PostSetting, IrcdWelcome, IrcdTakes, procVars
<1>. QED
  BY <1>1, AwayInvHolds, PTL DEF AwaySpec, AutoWindowFixed

\* Only /back, another /away or a restart ends an explicit away: presence, the
\* timer and the settings leave it as it is.
THEOREM ExplicitStays == AwaySpec => ExplicitSticks
<1>1. ASSUME AwayInv, [AwayNext]_awayVars, away.state = "away_explicit", away' # away
      PROVE  link' = "down" \/ Is("back") \/ Is("away")
  <2>1. CASE Handle
    BY <1>1, <2>1
       DEF Handle, WsVisible, WsAllHidden, DebounceFire, SetExplicitAway, UnsetExplicitAway,
           DebounceChanged, SiteDefaultChanged, ReasonChanged, SuffixChanged, SendNick, NickEcho,
           NickRefused, Welcome, NickReclaim
  <2>2. CASE UNCHANGED awayVars
    BY <1>1, <2>2 DEF awayVars, procVars
  <2>3. CASE Boot \/ Crash
    BY <1>1, <2>3, PresentIsSane DEF Boot, Crash, AwayInv, Unborn
  <2>. QED
    BY <1>1, <2>1, <2>2, <2>3
       DEF AwayNext, TimerFires, ReclaimTick, Subscribe, Announce, UserCalls, PutSetting,
           PutSiteDefault, PostSetting, IrcdWelcome, IrcdTakes, procVars
<1>. QED
  BY <1>1, AwayInvHolds, PTL DEF AwaySpec, ExplicitSticks

\* The away columns hold the explicit away and nothing else, whatever crashes,
\* unless the last write of them failed.
THEOREM RowIsTrue == AwaySpec => []RowIsExplicitAway
<1>1. AwayInit => RowIsExplicitAway
  BY DEF AwayInit, RowIsExplicitAway, Alive
<1>2. ASSUME AwayInv, RowIsExplicitAway, [AwayNext]_awayVars PROVE RowIsExplicitAway'
  <2>1. CASE SetExplicitAway \/ UnsetExplicitAway
    BY <1>2, <2>1, PresentIsSane
       DEF SetExplicitAway, UnsetExplicitAway, Persist, UnsetAwayInternal, RowIsExplicitAway, Alive
  <2>2. CASE Handle /\ ~SetExplicitAway /\ ~UnsetExplicitAway
    <3>1. row' = row /\ dirty' = dirty /\ link' = link
      BY <2>2 DEF Handle, WsVisible, WsAllHidden, DebounceFire, DebounceChanged,
           SiteDefaultChanged, ReasonChanged, SuffixChanged, SendNick, NickEcho, NickRefused,
           Welcome, NickReclaim, storeVars
    <3>2. \/ away' = away
          \/ away.state # "away_explicit" /\ away'.state # "away_explicit"
      BY <1>2, <2>2, PresentIsSane
         DEF Handle, WsVisible, WsAllHidden, DebounceFire, DebounceChanged,
             SiteDefaultChanged, ReasonChanged, SuffixChanged, SendNick, NickEcho, NickRefused,
             Welcome, NickReclaim, UnsetAwayInternal, SetAutoAwayInternal, AwayInv, Sane
    <3>. QED
      BY <1>2, <3>1, <3>2 DEF RowIsExplicitAway, Alive
  <2>3. CASE UNCHANGED awayVars
    BY <1>2, <2>3 DEF awayVars, procVars, storeVars, RowIsExplicitAway, Alive
  <2>4. CASE Crash
    BY <2>4 DEF Crash, RowIsExplicitAway, Alive
  <2>5. CASE Boot
    <3>1. row' = row /\ row = [since |-> row.since, reason |-> row.reason]
      BY <1>2, <2>5 DEF Boot, AwayInv, Sane, storeVars
    <3>. QED
      BY <2>5, <3>1, PresentIsSane DEF Boot, RowIsExplicitAway, Alive
  <2>6. CASE Subscribe \/ IrcdWelcome
    BY <1>2, <2>6 DEF Subscribe, IrcdWelcome, procVars, storeVars, RowIsExplicitAway, Alive
  <2>7. CASE \/ TimerFires \/ ReclaimTick \/ Announce \/ UserCalls \/ PutSetting
             \/ PutSiteDefault \/ PostSetting \/ IrcdTakes
    BY <1>2, <2>7
       DEF TimerFires, ReclaimTick, Announce, UserCalls, PutSetting,
           PutSiteDefault, PostSetting, IrcdTakes, procVars, storeVars, RowIsExplicitAway, Alive
  <2>. QED
    BY <1>2, <2>1, <2>2, <2>3, <2>4, <2>5, <2>6, <2>7 DEF AwayNext
<1>. QED
  BY <1>1, <1>2, AwayInvHolds, PTL DEF AwaySpec

-----------------------------------------------------------------------------
(* What the network is told.                                               *)

AwayAt(w) == {i \in 1..Len(w) : w[i].verb = "AWAY"}

\* Once the lines w are taken, a network that shows p shows r.
Shows(w, p, r) ==
    /\ AwayAt(w) = {} => p = r
    /\ \A i \in AwayAt(w) : (\A j \in AwayAt(w) : j <= i) => w[i].arg = r

\* The network shows the session's away, or will once 001 is handled.
NetworkInv ==
    \/ Shows(wire, peer.away, away.reason)
    \/ away.state # "present" /\ (link # "online" \/ At(mailbox, "welcome") # {})

LEMMA ShowsConcat ==
    ASSUME NEW w, NEW u, IsSeq(w), IsSeq(u), NEW p, NEW r
    PROVE  /\ AwayAt(u) = {} /\ Shows(w, p, r) => Shows(w \o u, p, r)
           /\ AwayAt(u) # {} /\ Shows(u, p, r) => Shows(w \o u, p, r)
<1>. DEFINE t == w \o u
            n == Len(w)
            m == Len(u)
<1>1. /\ n \in Nat /\ m \in Nat /\ Len(t) = n + m
      /\ \A i \in 1..n : t[i] = w[i]
      /\ \A i \in 1..m : t[n + i] = u[i]
      /\ \A i \in 1..(n + m) : i > n => t[i] = u[i - n] /\ i - n \in 1..m
  BY ConcatSeq, SeqLen
<1>. HIDE DEF t
<1>2. /\ \A i \in AwayAt(w) : i \in AwayAt(t) /\ i \in 1..n /\ t[i] = w[i]
      /\ \A i \in AwayAt(u) : n + i \in AwayAt(t) /\ i \in 1..m
      /\ \A i \in AwayAt(t) : /\ i \in 1..(n + m)
                               /\ \/ i \in AwayAt(w) /\ i <= n
                                  \/ i - n \in AwayAt(u) /\ t[i] = u[i - n]
  BY <1>1 DEF AwayAt
<1>. HIDE DEF n, m
<1>3. AwayAt(u) = {} /\ Shows(w, p, r) => Shows(t, p, r)
  <2>1. SUFFICES ASSUME AwayAt(u) = {}, Shows(w, p, r) PROVE Shows(t, p, r)
    OBVIOUS
  <2>2. AwayAt(t) = AwayAt(w)
    BY <1>2, <2>1
  <2>. QED
    BY <1>2, <2>1, <2>2 DEF Shows
<1>4. AwayAt(u) # {} /\ Shows(u, p, r) => Shows(t, p, r)
  <2>1. SUFFICES ASSUME AwayAt(u) # {}, Shows(u, p, r) PROVE Shows(t, p, r)
    OBVIOUS
  <2>2. AwayAt(t) # {}
    BY <1>2, <2>1
  <2>3. ASSUME NEW i \in AwayAt(t), \A j \in AwayAt(t) : j <= i PROVE t[i].arg = r
    <3>1. PICK k \in AwayAt(u) : TRUE
      BY <2>1
    <3>2. n + k <= i /\ k \in 1..m /\ n \in Nat /\ m \in Nat /\ i \in 1..(n + m)
      BY <1>1, <1>2, <2>3
    <3>3. i - n \in AwayAt(u) /\ t[i] = u[i - n]
      BY <1>2, <3>2
    <3>4. \A j \in AwayAt(u) : j <= i - n
      BY <1>2, <2>3, <3>2
    <3>. QED
      BY <2>1, <3>3, <3>4 DEF Shows
  <2>. QED
    BY <2>2, <2>3 DEF Shows
<1>. QED
  BY <1>3, <1>4 DEF t

LEMMA ShowsTail ==
    ASSUME NEW w, IsSeq(w), w # <<>>, NEW p, NEW r, Shows(w, p, r)
    PROVE  /\ w[1].verb = "AWAY" => Shows(Tail(w), w[1].arg, r)
           /\ w[1].verb # "AWAY" \/ p = r => Shows(Tail(w), p, r)
<1>. DEFINE t == Tail(w)
<1>1. /\ Len(w) \in Nat \ {0} /\ Len(t) = Len(w) - 1
      /\ \A i \in 1..Len(t) : t[i] = w[i + 1]
  BY TailSeq DEF Removal
<1>. HIDE DEF t
<1>2. /\ \A i \in AwayAt(t) : i + 1 \in AwayAt(w) /\ i \in Nat \ {0} /\ t[i] = w[i + 1]
      /\ \A j \in AwayAt(w) : j \in Nat /\ (j = 1 \/ j - 1 \in AwayAt(t))
      /\ w[1].verb = "AWAY" <=> 1 \in AwayAt(w)
  BY <1>1 DEF AwayAt
<1>3. ASSUME NEW i \in AwayAt(t), \A j \in AwayAt(t) : j <= i PROVE t[i].arg = r
  <2>1. i + 1 \in AwayAt(w) /\ \A j \in AwayAt(w) : j <= i + 1
    BY <1>2, <1>3
  <2>. QED
    BY <1>2, <2>1 DEF Shows
<1>4. AwayAt(t) = {} /\ w[1].verb = "AWAY" => w[1].arg = r
  BY <1>2 DEF Shows
<1>5. AwayAt(t) = {} /\ w[1].verb # "AWAY" => p = r
  BY <1>2 DEF Shows
<1>. QED
  BY <1>3, <1>4, <1>5 DEF Shows, t

\* A welcome waits until it is handled.
LEMMA HandleKeeps ==
    ASSUME AwayInv, NEW k, Is(k), k # "welcome",
           \/ mailbox' = Tail(mailbox)
           \/ mailbox' = Drained /\ k # "fire",
           At(mailbox, "welcome") # {}
    PROVE  At(mailbox', "welcome") # {}
<1>. DEFINE rest == Tail(mailbox)
<1>1. At(rest, "welcome") # {}
  BY HeadOf, RemovalAt DEF AwayInv, Boxes
<1>2. k # "fire" => (At(Drained, "welcome") = {} <=> At(rest, "welcome") = {})
  BY DrainRest
<1>. QED
  BY <1>1, <1>2

\* A step that sends no AWAY and leaves the session's away and the network alone.
LEMMA QuietStep ==
    ASSUME AwayInv, NetworkInv, link' = link, peer'.away = peer.away, away' = away,
           At(mailbox, "welcome") # {} => At(mailbox', "welcome") # {},
           \/ wire' = wire
           \/ \E ls : IsSeq(ls) /\ AwayAt(ls) = {} /\ wire' = wire \o ls
    PROVE  NetworkInv'
<1>1. IsSeq(wire)
  BY DEF AwayInv, Boxes
<1>2. Shows(wire, peer.away, away.reason) => Shows(wire', peer'.away, away'.reason)
  BY <1>1, ShowsConcat
<1>. QED
  BY <1>2 DEF NetworkInv

\* A step that says the session's away, whatever else it sends.
LEMMA SaysAway ==
    ASSUME AwayInv, NEW ls, IsSeq(ls), Send(ls), AwayAt(ls) # {},
           Shows(ls, peer'.away, away'.reason)
    PROVE  NetworkInv'
<1>1. IsSeq(wire) /\ wire' = wire \o ls
  BY DEF AwayInv, Boxes, Send
<1>. QED
  BY <1>1, ShowsConcat DEF NetworkInv

LEMMA OneLine ==
    ASSUME NEW v, NEW a
    PROVE  /\ IsSeq(<<Line(v, a)>>)
           /\ v # "AWAY" => AwayAt(<<Line(v, a)>>) = {}
           /\ v = "AWAY" => /\ AwayAt(<<Line(v, a)>>) # {}
                            /\ \A p : Shows(<<Line(v, a)>>, p, a)
<1>1. /\ Len(<<Line(v, a)>>) = 1 /\ <<Line(v, a)>>[1].verb = v
      /\ <<Line(v, a)>>[1].arg = a
  BY DEF Line
<1>2. AwayAt(<<Line(v, a)>>) = IF v = "AWAY" THEN {1} ELSE {}
  BY <1>1 DEF AwayAt
<1>. QED
  BY <1>1, <1>2, Lines DEF Shows

\* AWAY a, then a NICK or nothing.
LEMMA AwayThenNick ==
    ASSUME NEW a, NEW n, NEW ls, ls \in {<<>>, <<Line("NICK", n)>>}
    PROVE  LET all == <<Line("AWAY", a)>> \o ls
           IN  IsSeq(all) /\ AwayAt(all) # {} /\ \A p : Shows(all, p, a)
<1>. DEFINE h == <<Line("AWAY", a)>>
            all == h \o ls
<1>1. IsSeq(h) /\ AwayAt(h) # {} /\ \A p : Shows(h, p, a)
  BY OneLine
<1>2. AwayAt(<<>>) = {}
  BY EmptyIsSeq DEF AwayAt
<1>3. IsSeq(ls) /\ AwayAt(ls) = {}
  BY <1>2, OneLine, EmptyIsSeq
<1>4. Len(h) = 1 /\ Len(ls) \in Nat /\ h[1].verb = "AWAY"
  BY <1>3, SeqLen DEF Line
<1>. HIDE DEF h
<1>5. IsSeq(all) /\ \A p : Shows(all, p, a)
  BY <1>1, <1>3, ConcatSeq, ShowsConcat
<1>6. 1 \in AwayAt(all)
  <2>1. /\ Len(h \o ls) = Len(h) + Len(ls)
        /\ \A i \in 1..(Len(h) + Len(ls)) :
              (h \o ls)[i] = IF i <= Len(h) THEN h[i] ELSE ls[i - Len(h)]
    BY <1>1, <1>3, ConcatSeq
  <2>2. Len(all) = 1 + Len(ls) /\ all[1] = h[1]
    BY <1>4, <2>1
  <2>. QED
    BY <1>4, <2>2 DEF AwayAt
<1>. QED
  BY <1>5, <1>6 DEF h

LEMMA RenameLines ==
    ASSUME NEW a, NEW n
    PROVE  LET all == <<Line("AWAY", a), Line("NICK", n)>>
           IN  IsSeq(all) /\ AwayAt(all) # {} /\ \A p : Shows(all, p, a)
<1>. DEFINE all == <<Line("AWAY", a), Line("NICK", n)>>
<1>1. /\ Len(all) = 2 /\ all[1].verb = "AWAY" /\ all[1].arg = a /\ all[2].verb = "NICK"
      /\ IsSeq(all)
  BY Lines DEF Line
<1>. HIDE DEF all
<1>2. AwayAt(all) = {1}
  BY <1>1 DEF AwayAt
<1>. QED
  BY <1>1, <1>2 DEF Shows, all

LEMMA AutoSays == ASSUME AwayInv, SetAutoAwayInternal PROVE NetworkInv'
<1>1. \A n : LET all == <<Line("AWAY", mine.reason), Line("NICK", n)>>
             IN  IsSeq(all) /\ AwayAt(all) # {} /\ \A p : Shows(all, p, mine.reason)
  BY RenameLines
<1>2. away'.reason = mine.reason
  BY DEF SetAutoAwayInternal
<1>. QED
  BY <1>1, <1>2, OneLine, SaysAway DEF SetAutoAwayInternal

LEMMA UnsetSays == ASSUME AwayInv, UnsetAwayInternal PROVE NetworkInv'
<1>. DEFINE ls == IF restore \in {NoNick, nick} THEN <<>> ELSE <<Line("NICK", restore)>>
            all == <<Line("AWAY", None)>> \o ls
<1>1. IsSeq(all) /\ AwayAt(all) # {} /\ \A p : Shows(all, p, None)
  BY AwayThenNick
<1>2. Send(all) /\ away'.reason = None
  BY PresentIsSane DEF UnsetAwayInternal
<1>. HIDE DEF all
<1>. QED
  BY <1>1, <1>2, SaysAway

LEMMA HandleNetwork == ASSUME AwayInv, NetworkInv, Handle PROVE NetworkInv'
<1>1. /\ link' = link /\ peer' = peer
  BY DEF Handle, WsVisible, WsAllHidden, DebounceFire, SetExplicitAway, UnsetExplicitAway,
         DebounceChanged, SiteDefaultChanged, ReasonChanged, SuffixChanged, SendNick, NickEcho,
         NickRefused, Welcome, NickReclaim, ircdVars
<1>2. CASE UnsetAwayInternal
  BY <1>2, UnsetSays
<1>3. CASE SetAutoAwayInternal
  BY <1>3, AutoSays
<1>4. CASE SetExplicitAway \/ (ReasonChanged /\ away.state = "away_auto")
  <2>1. PICK a : Send(<<Line("AWAY", a)>>) /\ away'.reason = a
    BY <1>4 DEF SetExplicitAway, ReasonChanged, AwayInv, Sane
  <2>. QED
    BY <2>1, OneLine, SaysAway
<1>5. CASE Welcome /\ away.state # "present"
  <2>1. Send(<<Line("AWAY", away.reason)>>) /\ away' = away
    BY <1>5 DEF Welcome
  <2>. QED
    BY <2>1, OneLine, SaysAway
<1>6. CASE Welcome /\ away.state = "present"
  <2>1. Send(<<>>) /\ away' = away /\ Shows(wire, peer.away, away.reason)
    BY <1>6 DEF Welcome, NetworkInv
  <2>2. IsSeq(<<>>) /\ AwayAt(<<>>) = {} /\ IsSeq(wire)
    BY EmptyIsSeq DEF AwayAt, AwayInv, Boxes
  <2>3. Shows(wire \o <<>>, peer.away, away.reason)
    BY <2>1, <2>2, ShowsConcat
  <2>. QED
    BY <1>1, <2>1, <2>3 DEF NetworkInv, Send
<1>7. CASE /\ away' = away /\ wire' = wire
           /\ Handle /\ ~Welcome
  <2>1. \E k : /\ Is(k) /\ k # "welcome"
              /\ \/ mailbox' = Tail(mailbox)
                 \/ mailbox' = Drained /\ k # "fire"
    BY <1>7
       DEF Handle, WsVisible, WsAllHidden, DebounceFire, SetExplicitAway, UnsetExplicitAway,
           DebounceChanged, SiteDefaultChanged, ReasonChanged, SuffixChanged, SendNick, NickEcho,
           NickRefused, NickReclaim, ApplyAutoAwayDebounce
  <2>2. At(mailbox, "welcome") # {} => At(mailbox', "welcome") # {}
    BY <2>1, HandleKeeps
  <2>. QED
    BY <1>1, <1>7, <2>2, QuietStep
<1>8. CASE SendNick \/ NickReclaim
  <2>1. PICK ls : Send(ls) /\ IsSeq(ls) /\ AwayAt(ls) = {}
    <3>1. IsSeq(<<>>) /\ AwayAt(<<>>) = {}
      BY EmptyIsSeq DEF AwayAt
    <3>2. \E a : Send(<<>>) \/ Send(<<Line("NICK", a)>>)
      BY <1>8 DEF SendNick, NickReclaim
    <3>. QED
      BY <3>1, <3>2, OneLine
  <2>2. \E k : Is(k) /\ k # "welcome" /\ mailbox' = Tail(mailbox)
    BY <1>8 DEF SendNick, NickReclaim
  <2>3. At(mailbox, "welcome") # {} => At(mailbox', "welcome") # {}
    BY <2>2, HandleKeeps
  <2>4. away' = away
    BY <1>8 DEF SendNick, NickReclaim
  <2>. QED
    BY <1>1, <2>1, <2>3, <2>4, QuietStep DEF Send
<1>9. \/ UnsetAwayInternal \/ SetAutoAwayInternal \/ SetExplicitAway \/ Welcome
      \/ SendNick \/ NickReclaim
      \/ ReasonChanged /\ away.state = "away_auto"
      \/ away' = away /\ wire' = wire
  BY DEF Handle, WsVisible, WsAllHidden, DebounceFire, UnsetExplicitAway,
         DebounceChanged, SiteDefaultChanged, ReasonChanged, SuffixChanged, NickEcho,
         NickRefused, ircdVars
<1>. QED
  BY <1>2, <1>3, <1>4, <1>5, <1>6, <1>7, <1>8, <1>9

LEMMA IrcdTakesNetwork == ASSUME AwayInv, NetworkInv, IrcdTakes PROVE NetworkInv'
<1>1. /\ IsSeq(wire) /\ wire # <<>> /\ wire' = Tail(wire) /\ Head(wire) = wire[1]
      /\ away' = away /\ link' = link
  BY TailSeq DEF IrcdTakes, AwayInv, Boxes
<1>2. At(mailbox, "welcome") # {} => At(mailbox', "welcome") # {}
  <2>1. \/ mailbox' = mailbox
        \/ \E m : mailbox' = Append(mailbox, m)
    BY DEF IrcdTakes
  <2>2. \A m : At(mailbox, "welcome") \subseteq At(Append(mailbox, m), "welcome")
    <3>1. IsSeq(mailbox)
      BY DEF AwayInv, Boxes
    <3>2. \A m : At(Append(mailbox, m), "welcome") =
                   At(mailbox, "welcome") \cup (IF m.kind = "welcome" THEN {Len(mailbox) + 1} ELSE {})
      BY <3>1, AppendAt
    <3>. QED
      BY <3>2
  <2>. QED
    BY <2>1, <2>2
<1>3. CASE ~Shows(wire, peer.away, away.reason)
  BY <1>1, <1>2, <1>3 DEF NetworkInv
<1>4. CASE Shows(wire, peer.away, away.reason)
  <2>1. CASE wire[1].verb = "AWAY" /\ link = "online"
    <3>1. peer'.away = wire[1].arg
      BY <1>1, <2>1 DEF IrcdTakes, AwayInv, Sane
    <3>2. Shows(Tail(wire), wire[1].arg, away.reason)
      BY <1>1, <1>4, <2>1, ShowsTail
    <3>. QED
      BY <1>1, <3>1, <3>2 DEF NetworkInv
  <2>2. CASE wire[1].verb # "AWAY"
    <3>1. peer'.away = peer.away
      BY <1>1, <2>2 DEF IrcdTakes, AwayInv, Sane
    <3>2. Shows(Tail(wire), peer.away, away.reason)
      BY <1>1, <1>4, <2>2, ShowsTail
    <3>. QED
      BY <1>1, <3>1, <3>2 DEF NetworkInv
  <2>3. CASE wire[1].verb = "AWAY" /\ link # "online" /\ away.state = "present"
    <3>1. peer' = peer /\ peer.away = None /\ away.reason = None
      BY <1>1, <2>3, PresentIsSane DEF IrcdTakes, AwayInv, Sane, Unborn
    <3>2. Shows(Tail(wire), peer.away, away.reason)
      BY <1>1, <1>4, <3>1, ShowsTail
    <3>. QED
      BY <1>1, <3>1, <3>2 DEF NetworkInv
  <2>4. CASE link # "online" /\ away.state # "present"
    BY <1>1, <2>4 DEF NetworkInv
  <2>. QED
    BY <2>1, <2>2, <2>3, <2>4
<1>. QED
  BY <1>3, <1>4

LEMMA NetworkInvStep ==
    ASSUME AwayInv, NetworkInv, [AwayNext]_awayVars
    PROVE  NetworkInv'
<1>1. CASE Crash \/ Boot
  <2>1. away'.state = "present" => away'.reason = None
    BY <1>1, PresentIsSane DEF Crash, Boot
  <2>2. wire' = <<>> /\ peer'.away = None /\ link' # "online"
    BY <1>1 DEF Crash, Boot, AwayInv, Unborn, ircdVars
  <2>3. AwayAt(<<>>) = {}
    BY EmptyIsSeq DEF AwayAt
  <2>. QED
    BY <2>1, <2>2, <2>3 DEF NetworkInv, Shows
<1>2. CASE Subscribe \/ UNCHANGED awayVars
  BY <1>2 DEF Subscribe, awayVars, procVars, ircdVars, NetworkInv
<1>3. \A m : At(mailbox, "welcome") \subseteq At(Append(mailbox, m), "welcome")
  <2>1. IsSeq(mailbox)
    BY DEF AwayInv, Boxes
  <2>2. \A m : At(Append(mailbox, m), "welcome") =
                 At(mailbox, "welcome") \cup (IF m.kind = "welcome" THEN {Len(mailbox) + 1} ELSE {})
    BY <2>1, AppendAt
  <2>. QED
    BY <2>2
<1>4. CASE IrcdWelcome
  <2>. DEFINE m == Msg("welcome", peer.nick)
  <2>1. m.kind = "welcome" /\ mailbox' = Append(mailbox, m)
    BY <1>4 DEF IrcdWelcome, Msg
  <2>. HIDE DEF m
  <2>2. At(Append(mailbox, m), "welcome") =
          At(mailbox, "welcome") \cup (IF m.kind = "welcome" THEN {Len(mailbox) + 1} ELSE {})
    BY AppendAt DEF AwayInv, Boxes
  <2>3. At(mailbox', "welcome") # {}
    BY <2>1, <2>2
  <2>. QED
    BY <1>4, <2>3 DEF IrcdWelcome, NetworkInv, ircdVars
<1>5. CASE \/ TimerFires \/ ReclaimTick \/ Announce \/ UserCalls \/ PutSetting
           \/ PutSiteDefault \/ PostSetting
  <2>1. /\ link' = link /\ peer' = peer /\ away' = away /\ wire' = wire
        /\ \/ mailbox' = mailbox
           \/ \E m : mailbox' = Append(mailbox, m)
    BY <1>5 DEF TimerFires, ReclaimTick, Announce, UserCalls, PutSetting, PutSiteDefault,
                PostSetting, Deliver, procVars, ircdVars
  <2>. QED
    BY <1>3, <2>1, QuietStep
<1>. QED
  BY <1>1, <1>2, <1>4, <1>5, HandleNetwork, IrcdTakesNetwork DEF AwayNext

\* With 001 handled and no AWAY in flight the network shows what the session
\* believes, however returns, fires, retunes and reconnects interleaved.
THEOREM NetworkIsTold == AwaySpec => []UpstreamAgrees
<1>1. AwayInit => NetworkInv
  BY PresentIsSane, EmptyIsSeq DEF AwayInit, NetworkInv, Shows, AwayAt
<1>2. NetworkInv => UpstreamAgrees
  BY DEF NetworkInv, UpstreamAgrees, Shows, AwayAt, At, Queued
<1>. QED
  BY <1>1, <1>2, NetworkInvStep, AwayInvHolds, PTL DEF AwaySpec

-----------------------------------------------------------------------------
(* Types.                                                                  *)

\* What is queued is of a kind somebody sends and carries what its handler
\* stores; the NICKs on the wire ask for nicks somebody wears.
Fits(m) ==
    /\ m.kind \in Kinds
    /\ m.kind = "debounce" => m.arg \in Windows
    /\ m.kind \in {"nick", "welcome"} => m.arg \in Nicks
    /\ m.kind = "echo" => m.arg[2] \in Nicks
AllFit(s) == \A i \in 1..Len(s) : Fits(s[i])
AllNicks(w) == \A i \in 1..Len(w) : w[i].verb = "NICK" => w[i].arg \in Nicks

\* The settings, stored, announced and copied.
Settled ==
    /\ prefs = [debounce |-> prefs.debounce, reason |-> prefs.reason, suffix |-> prefs.suffix]
    /\ mine = [debounce |-> mine.debounce, reason |-> mine.reason, suffix |-> mine.suffix]
    /\ prefs.debounce \in Windows /\ site \in SiteWindows
    /\ mine.debounce \in (Windows \cup SiteWindows) \ {"site"}
    /\ posting # <<>> => Fits(Head(posting))

\* The nicks worn, wanted back and asked for.
Named ==
    /\ nick \in Nicks /\ peer.nick \in Nicks
    /\ restore \in Nicks \cup {NoNick}
    /\ restore # NoNick => away.state # "present" /\ Alive
    /\ AllNicks(wire)

\* The clock, the window of the away and the window the row remembers.
Dated ==
    /\ clock \in 0..(Stamps - 1)
    /\ away.state # "present" => away.since \in 0..(Stamps - 1)
    /\ row = NoRow \/ row.since \in 0..(Stamps - 1)
    /\ dirty \in BOOLEAN /\ reclaim \in BOOLEAN

TypesInv == knobs \in Profiles /\ AllFit(mailbox) /\ Settled /\ Named /\ Dated

\* What the knobs allow does not change.
LEMMA KnobsStay ==
    ASSUME [AwayNext]_awayVars
    PROVE  knobs' = knobs /\ Nicks' = Nicks /\ Windows' = Windows /\ SiteWindows' = SiteWindows
<1>1. ASSUME Handle PROVE knobs' = knobs
  BY <1>1 DEF Handle, WsVisible, WsAllHidden, DebounceFire, SetExplicitAway, UnsetExplicitAway,
     DebounceChanged, SiteDefaultChanged, ReasonChanged, SuffixChanged, SendNick, NickEcho,
     NickRefused, Welcome, NickReclaim
<1>2. knobs' = knobs
  BY <1>1 DEF AwayNext, TimerFires, ReclaimTick, Crash, Boot, Subscribe, Announce, UserCalls,
     PutSetting, PutSiteDefault, PostSetting, IrcdWelcome, IrcdTakes, awayVars
<1>. QED
  BY <1>2 DEF Nicks, UserNicks, Windows, SiteWindows

\* Taking an element out leaves elements of the sequence.
LEMMA RemovalFits ==
    ASSUME NEW s, NEW t, NEW p, IsSeq(s), Removal(s, t, p), AllFit(s)
    PROVE  AllFit(t)
<1>1. \A i \in 1..Len(t) : (IF i < p THEN i ELSE i + 1) \in 1..Len(s)
  BY SeqLen DEF Removal
<1>. QED
  BY <1>1 DEF AllFit, Removal

\* A handler takes its message out of the mailbox, and the fire it cancels.
LEMMA HandledMail ==
    ASSUME Handle
    PROVE  \E k : /\ Is(k)
                  /\ mailbox' = Tail(mailbox) \/ (mailbox' = Drained /\ k # "fire")
BY DEF Handle, WsVisible, WsAllHidden, DebounceFire, SetExplicitAway, UnsetExplicitAway,
       DebounceChanged, SiteDefaultChanged, ApplyAutoAwayDebounce, ReasonChanged, SuffixChanged,
       SendNick, NickEcho, NickRefused, Welcome, NickReclaim

LEMMA HandledFits ==
    ASSUME AwayInv, AllFit(mailbox), Handle
    PROVE  AllFit(mailbox')
<1>. DEFINE rest == Tail(mailbox)
            p == CHOOSE i \in 1..Len(rest) : rest[i].kind = "fire"
<1>1. PICK k : Is(k) /\ (mailbox' = rest \/ (mailbox' = Drained /\ k # "fire"))
  BY HandledMail
<1>2. /\ IsSeq(mailbox) /\ IsSeq(rest) /\ Removal(mailbox, rest, 1)
      /\ k # "fire" => 1 \notin At(mailbox, "fire")
  BY <1>1, HeadOf DEF AwayInv, Boxes
<1>3. AllFit(rest)
  BY <1>2, RemovalFits
<1>4. ASSUME mailbox' = Drained, k # "fire", timer = "fired" PROVE AllFit(mailbox')
  <2>1. At(rest, "fire") # {}
    BY <1>2, <1>4, RemovalAt DEF AwayInv, TimerTrue
  <2>2. p \in 1..Len(rest)
    BY <2>1 DEF At
  <2>3. mailbox' = Without(rest, p)
    BY <1>4 DEF Drained
  <2>. HIDE DEF p, rest
  <2>. QED
    BY <1>2, <1>3, <2>2, <2>3, WithoutSeq, RemovalFits
<1>. QED
  BY <1>1, <1>3, <1>4 DEF Drained

\* A message that fits is queued.
LEMMA PushFits ==
    ASSUME AwayInv, AllFit(mailbox), NEW m, Fits(m)
    PROVE  AllFit(Append(mailbox, m))
<1>1. /\ Len(Append(mailbox, m)) = Len(mailbox) + 1 /\ Len(mailbox) \in Nat
      /\ \A i \in 1..Len(mailbox) : Append(mailbox, m)[i] = mailbox[i]
      /\ Append(mailbox, m)[Len(mailbox) + 1] = m
  BY AppendSeq, SeqLen DEF AwayInv, Boxes
<1>2. \A i \in 1..(Len(mailbox) + 1) : i \in 1..Len(mailbox) \/ i = Len(mailbox) + 1
  BY <1>1
<1>. QED
  BY <1>1, <1>2 DEF AllFit

\* The nicks that can be asked for with /nick are nicks.
LEMMA UserNicksFit ==
    ASSUME knobs \in Profiles
    PROVE  /\ UserNicks \subseteq Nicks /\ Own \in Nicks
           /\ "site" \notin SiteWindows
           /\ \A n \in Nicks : \A i \in 0..2 : <<n[1], i>> \in Nicks /\ n[2] \in 0..2
<1>1. \A n \in UserNicks : n = <<n[1], n[2]>> /\ n[2] \in 0..2
  BY ProfilesAssumption DEF UserNicks
<1>2. UserNicks \subseteq Nicks
  BY <1>1 DEF Nicks
<1>3. Own \in Nicks
  BY DEF Own, Nicks
<1>4. \A n \in Nicks : \A i \in 0..2 : <<n[1], i>> \in Nicks /\ n[2] \in 0..2
  BY DEF Nicks
<1>. QED
  BY <1>2, <1>3, <1>4, ProfilesAssumption DEF SiteWindows

\* The kinds and contents of the messages that are sent.
LEMMA SentFits ==
    ASSUME TypesInv
    PROVE  /\ \A k \in Kinds : \A a : k \notin {"debounce", "nick", "welcome", "echo"} => Fits(Msg(k, a))
           /\ \A w \in Windows : Fits(Msg("debounce", w))
           /\ \A n \in UserNicks : Fits(Msg("nick", n))
           /\ \A n \in Nicks : Fits(Msg("welcome", n)) /\ \A o : Fits(Msg("echo", <<o, n>>))
<1>1. \A k, a : Msg(k, a).kind = k /\ Msg(k, a).arg = a
  BY DEF Msg
<1>2. {"debounce", "nick", "welcome", "echo"} \subseteq Kinds
  BY DEF Kinds
<1>3. UserNicks \subseteq Nicks
  BY UserNicksFit DEF TypesInv
<1>. QED
  BY <1>1, <1>2, <1>3 DEF Fits

\* Every step leaves messages that fit in the mailbox.
LEMMA MailStep ==
    ASSUME AwayInv, TypesInv, [AwayNext]_awayVars
    PROVE  AllFit(mailbox)'
<1>1. AllFit(mailbox) /\ (AllFit(mailbox') => AllFit(mailbox)')
  BY KnobsStay DEF TypesInv, AllFit, Fits
<1>2. ASSUME NEW m, Fits(m), mailbox' = Append(mailbox, m) PROVE AllFit(mailbox')
  BY <1>1, <1>2, PushFits
<1>3. CASE mailbox' = mailbox
  BY <1>1, <1>3
<1>4. CASE Handle
  BY <1>1, <1>4, HandledFits
<1>5. CASE TimerFires \/ ReclaimTick
  <2>1. Fits(Msg("fire", None)) /\ Fits(Msg("reclaim", None))
    BY SentFits DEF Kinds
  <2>. QED
    BY <1>1, <1>2, <1>5, <2>1 DEF TimerFires, ReclaimTick
<1>6. CASE Crash
  <2>1. AllFit(<<>>)
    BY EmptyIsSeq DEF AllFit
  <2>. QED
    BY <1>1, <1>6, <2>1 DEF Crash
<1>7. CASE Announce
  <2>1. Fits(Msg("ws_visible", None)) /\ Fits(Msg("ws_all_hidden", None))
    BY SentFits DEF Kinds
  <2>. QED
    BY <1>1, <1>2, <1>3, <1>7, <2>1 DEF Announce, Deliver
<1>8. CASE UserCalls
  <2>1. /\ \A r : Fits(Msg("away", r)) /\ Fits(Msg("back", None))
        /\ \A n \in UserNicks : Fits(Msg("nick", n))
    BY SentFits DEF Kinds
  <2>. QED
    BY <1>1, <1>2, <1>8, <2>1 DEF UserCalls
<1>9. CASE PostSetting
  <2>1. Fits(Head(posting))
    BY <1>9 DEF PostSetting, TypesInv, Settled
  <2>. QED
    BY <1>1, <1>2, <1>3, <1>9, <2>1 DEF PostSetting, Deliver
<1>10. CASE IrcdWelcome
  <2>1. Fits(Msg("welcome", peer.nick))
    BY SentFits DEF TypesInv, Named
  <2>. QED
    BY <1>1, <1>2, <1>10, <2>1 DEF IrcdWelcome
<1>11. CASE IrcdTakes
  <2>1. wire # <<>> /\ Len(wire) \in Nat \ {0} /\ Head(wire) = wire[1]
    BY <1>11, TailSeq DEF IrcdTakes, AwayInv, Boxes
  <2>2. Head(wire).verb = "NICK" => Fits(Msg("echo", <<peer.nick, Head(wire).arg>>))
    BY <2>1, SentFits DEF TypesInv, Named, AllNicks
  <2>3. Fits(Msg("433", None))
    BY SentFits DEF Kinds
  <2>. QED
    BY <1>1, <1>2, <1>3, <1>11, <2>2, <2>3 DEF IrcdTakes
<1>. QED
  BY <1>3, <1>4, <1>5, <1>6, <1>7, <1>8, <1>9, <1>10, <1>11
  DEF AwayNext, awayVars, procVars, Boot, Subscribe, PutSetting, PutSiteDefault

\* The head of the mailbox fits.
LEMMA HeadFits ==
    ASSUME AwayInv, TypesInv, NEW k, Is(k)
    PROVE  Fits(Head(mailbox)) /\ Head(mailbox).kind = k
<1>1. 1 \in At(mailbox, k) /\ Head(mailbox) = mailbox[1]
  BY HeadOf DEF AwayInv
<1>. QED
  BY <1>1 DEF At, TypesInv, AllFit

\* A preference stands for a window of the user's or of the site's.
LEMMA WindowFits ==
    ASSUME TypesInv, NEW w \in Windows
    PROVE  Window(w) \in (Windows \cup SiteWindows) \ {"site"}
BY UserNicksFit DEF TypesInv, Settled, Window

\* Every step leaves the settings in order.
LEMMA SettledStep ==
    ASSUME AwayInv, TypesInv, [AwayNext]_awayVars
    PROVE  Settled'
<1>. DEFINE W == (Windows \cup SiteWindows) \ {"site"}
<1>1. /\ Windows' = Windows /\ SiteWindows' = SiteWindows /\ \A m : Fits(m) => Fits(m)'
      /\ Settled
  BY KnobsStay DEF TypesInv, Fits
<1>2. CASE UNCHANGED <<prefs, site, posting, mine>>
  <2>1. Fits(Head(posting)) => Fits(Head(posting))'
    <3>1. PICK m : m = Head(posting)
      OBVIOUS
    <3>. QED
      BY <1>1, <1>2, <3>1 DEF Fits
  <2>. QED
    BY <1>1, <1>2, <2>1 DEF Settled
<1>3. ASSUME UNCHANGED <<prefs, site, posting>>, NEW w \in W, mine' = [mine EXCEPT !.debounce = w]
      PROVE  Settled'
  BY <1>1, <1>3 DEF Settled, Fits
<1>4. CASE DebounceChanged
  <2>1. Head(mailbox).arg \in Windows
    BY <1>4, HeadFits DEF DebounceChanged, Fits
  <2>2. Window(Head(mailbox).arg) \in W
    BY <2>1, WindowFits
  <2>. QED
    BY <1>3, <1>4, <2>2 DEF DebounceChanged, ApplyAutoAwayDebounce, storeVars
<1>5. CASE SiteDefaultChanged
  <2>1. Window(prefs.debounce) \in W
    BY WindowFits DEF TypesInv, Settled
  <2>. QED
    BY <1>2, <1>3, <1>5, <2>1 DEF SiteDefaultChanged, ApplyAutoAwayDebounce, storeVars
<1>6. CASE ReasonChanged \/ SuffixChanged
  <2>1. UNCHANGED <<prefs, site, posting>>
    BY <1>6 DEF ReasonChanged, SuffixChanged, storeVars
  <2>2. /\ mine' = [debounce |-> mine'.debounce, reason |-> mine'.reason, suffix |-> mine'.suffix]
        /\ mine'.debounce = mine.debounce
    BY <1>1, <1>6 DEF ReasonChanged, SuffixChanged, Settled
  <2>. QED
    BY <1>1, <2>1, <2>2 DEF Settled, Fits
<1>7. CASE Boot
  <2>1. UNCHANGED <<prefs, site, posting>>
    BY <1>7 DEF Boot, storeVars
  <2>2. /\ mine' = [debounce |-> mine'.debounce, reason |-> mine'.reason, suffix |-> mine'.suffix]
        /\ mine'.debounce = Window(prefs.debounce)
    BY <1>1, <1>7 DEF Boot, Settled
  <2>3. Window(prefs.debounce) \in W
    BY WindowFits DEF TypesInv, Settled
  <2>. QED
    BY <1>1, <2>1, <2>2, <2>3 DEF Settled, Fits
<1>8. CASE PutSetting
  <2>1. mine' = mine /\ site' = site
    BY <1>8 DEF PutSetting, procVars
  <2>2. /\ prefs' = [debounce |-> prefs'.debounce, reason |-> prefs'.reason, suffix |-> prefs'.suffix]
        /\ prefs'.debounce \in Windows
    BY <1>1, <1>8 DEF PutSetting, Settled
  <2>3. PICK m : posting' = <<m>> /\ Fits(m)
    BY <1>8, SentFits DEF PutSetting, Kinds
  <2>. QED
    BY <1>1, <2>1, <2>2, <2>3 DEF Settled
<1>9. CASE PutSiteDefault
  <2>1. Fits(Msg("site", None))
    BY SentFits DEF Kinds
  <2>2. PICK m : posting' = <<m>> /\ Fits(m)
    BY <1>9, <2>1 DEF PutSiteDefault
  <2>. QED
    BY <1>1, <1>9, <2>2 DEF PutSiteDefault, procVars, Settled
<1>10. CASE PostSetting
  BY <1>1, <1>10 DEF PostSetting, Settled
<1>11. CASE Handle
  BY <1>2, <1>4, <1>5, <1>6, <1>11 DEF Handle, WsVisible, WsAllHidden, DebounceFire,
     SetExplicitAway, UnsetExplicitAway, SendNick, NickEcho, NickRefused, Welcome, NickReclaim,
     storeVars
<1>. QED
  BY <1>2, <1>7, <1>8, <1>9, <1>10, <1>11 DEF AwayNext, TimerFires, ReclaimTick, Crash, Subscribe,
     Announce, UserCalls, IrcdWelcome, IrcdTakes, awayVars, procVars, storeVars

\* Every step keeps the clock in its range, and what it stamps.
LEMMA DatedStep ==
    ASSUME AwayInv, TypesInv, [AwayNext]_awayVars
    PROVE  Dated'
<1>1. (clock + 1) % Stamps \in 0..(Stamps - 1)
  BY StampsAssumption DEF TypesInv, Dated
<1>2. /\ Present.state = "present" /\ clock # Stamps
      /\ away = [state |-> away.state, since |-> away.since, reason |-> away.reason]
      /\ \A s, r : [since |-> s, reason |-> r].since = s
      /\ \A x, s, r : [state |-> x, since |-> s, reason |-> r].since = s
  BY StampsAssumption DEF Present, TypesInv, Dated, AwayInv, Sane
<1>3. CASE Handle
  <2>1. clock' \in 0..(Stamps - 1)
    BY <1>1, <1>3 DEF Handle, WsVisible, WsAllHidden, DebounceFire, SetExplicitAway,
       UnsetExplicitAway, DebounceChanged, SiteDefaultChanged, ReasonChanged, SuffixChanged,
       SendNick, NickEcho, NickRefused, Welcome, NickReclaim, SetAutoAwayInternal,
       Tick, ircdVars, TypesInv, Dated
  <2>2. away'.state # "present" => away'.since \in 0..(Stamps - 1)
    <3>1. /\ away.state # "present" => away.since \in 0..(Stamps - 1)
          /\ clock \in 0..(Stamps - 1)
      BY DEF TypesInv, Dated
    <3>2. CASE ReasonChanged
      BY <1>2, <3>1, <3>2 DEF ReasonChanged
    <3>3. CASE away' = away \/ away' = Present
      BY <1>2, <3>1, <3>3
    <3>4. CASE SetExplicitAway
      BY <3>1, <3>4 DEF SetExplicitAway
    <3>5. CASE SetAutoAwayInternal
      BY <3>1, <3>5 DEF SetAutoAwayInternal
    <3>6. \/ away' = away \/ away' = Present \/ ReasonChanged \/ SetExplicitAway
          \/ SetAutoAwayInternal
      BY <1>3 DEF Handle, WsVisible, WsAllHidden, DebounceFire, UnsetExplicitAway,
         DebounceChanged, SiteDefaultChanged, SuffixChanged, SendNick, NickEcho, NickRefused,
         Welcome, NickReclaim, UnsetAwayInternal
    <3>. QED
      BY <3>2, <3>3, <3>4, <3>5, <3>6
  <2>3. (row' = NoRow \/ row'.since \in 0..(Stamps - 1)) /\ dirty' \in BOOLEAN
    <3>1. /\ row = NoRow \/ row.since \in 0..(Stamps - 1)
          /\ dirty \in BOOLEAN /\ clock \in 0..(Stamps - 1)
      BY DEF TypesInv, Dated
    <3>2. CASE row' = row /\ dirty' = dirty
      BY <3>1, <3>2
    <3>3. CASE SetExplicitAway
      <4>1. Persist([since |-> clock, reason |-> Head(mailbox).arg])
        BY <3>3 DEF SetExplicitAway
      <4>2. row' \in {row, [since |-> clock, reason |-> Head(mailbox).arg]} /\ dirty' \in BOOLEAN
        BY <4>1 DEF Persist
      <4>. QED
        BY <1>2, <3>1, <4>2
    <3>4. CASE Persist(NoRow)
      BY <3>1, <3>4 DEF Persist
    <3>5. (row' = row /\ dirty' = dirty) \/ SetExplicitAway \/ Persist(NoRow)
      BY <1>3 DEF Handle, WsVisible, WsAllHidden, DebounceFire, UnsetExplicitAway,
         DebounceChanged, SiteDefaultChanged, ReasonChanged, SuffixChanged, SendNick, NickEcho,
         NickRefused, Welcome, NickReclaim, storeVars
    <3>. QED
      BY <3>2, <3>3, <3>4, <3>5
  <2>4. reclaim' \in BOOLEAN
    BY <1>3 DEF Handle, WsVisible, WsAllHidden, DebounceFire, SetExplicitAway,
       UnsetExplicitAway, DebounceChanged, SiteDefaultChanged, ReasonChanged, SuffixChanged,
       SendNick, NickEcho, NickRefused, Welcome, NickReclaim, TypesInv, Dated
  <2>. QED
    BY <2>1, <2>2, <2>3, <2>4 DEF Dated, NoRow
<1>4. CASE Boot
  BY <1>2, <1>4 DEF Boot, TypesInv, Dated, storeVars, NoRow
<1>5. CASE Crash
  BY <1>2, <1>5 DEF Crash, TypesInv, Dated, storeVars, NoRow
<1>. QED
  BY <1>3, <1>4, <1>5 DEF AwayNext, TimerFires, ReclaimTick, Subscribe, Announce, UserCalls,
     PutSetting, PutSiteDefault, PostSetting, IrcdWelcome, IrcdTakes, awayVars, procVars, storeVars,
     ircdVars, TypesInv, Dated, NoRow

\* Lines that ask for nicks, after lines that do.
LEMMA NicksConcat ==
    ASSUME NEW s, NEW u, IsSeq(s), IsSeq(u), AllNicks(s), AllNicks(u)
    PROVE  AllNicks(s \o u)
<1>1. /\ Len(s) \in Nat /\ Len(u) \in Nat /\ Len(s \o u) = Len(s) + Len(u)
      /\ \A i \in 1..(Len(s) + Len(u)) :
            (s \o u)[i] = IF i <= Len(s) THEN s[i] ELSE u[i - Len(s)]
  BY ConcatSeq, SeqLen
<1>2. ASSUME NEW i \in 1..Len(s \o u), i <= Len(s)
      PROVE  (s \o u)[i].verb = "NICK" => (s \o u)[i].arg \in Nicks
  BY <1>1, <1>2 DEF AllNicks
<1>3. ASSUME NEW i \in 1..Len(s \o u), ~(i <= Len(s))
      PROVE  (s \o u)[i].verb = "NICK" => (s \o u)[i].arg \in Nicks
  <2>1. i - Len(s) \in 1..Len(u) /\ (s \o u)[i] = u[i - Len(s)]
    BY <1>1, <1>3
  <2>. QED
    BY <2>1 DEF AllNicks
<1>. QED
  BY <1>2, <1>3 DEF AllNicks

LEMMA NicksTail ==
    ASSUME NEW s, IsSeq(s), s # <<>>, AllNicks(s)
    PROVE  AllNicks(Tail(s))
<1>1. /\ Len(s) \in Nat /\ Len(Tail(s)) = Len(s) - 1
      /\ \A i \in 1..Len(Tail(s)) : Tail(s)[i] = s[i + 1]
  BY TailSeq DEF Removal
<1>2. \A i \in 1..Len(Tail(s)) : i + 1 \in 1..Len(s)
  BY <1>1
<1>. QED
  BY <1>1, <1>2 DEF AllNicks

\* The lines the handlers send.
LEMMA NickLines ==
    ASSUME NEW v, NEW a, NEW n
    PROVE  /\ IsSeq(<<>>) /\ AllNicks(<<>>)
           /\ IsSeq(<<Line(v, a)>>) /\ (v = "NICK" => a \in Nicks) => AllNicks(<<Line(v, a)>>)
           /\ IsSeq(<<Line("AWAY", a), Line("NICK", n)>>)
           /\ n \in Nicks => AllNicks(<<Line("AWAY", a), Line("NICK", n)>>)
<1>1. IsSeq(<<>>) /\ AllNicks(<<>>)
  BY EmptyIsSeq DEF AllNicks
<1>2. (v = "NICK" => a \in Nicks) => AllNicks(<<Line(v, a)>>)
  BY DEF AllNicks, Line
<1>3. n \in Nicks => AllNicks(<<Line("AWAY", a), Line("NICK", n)>>)
  <2>. DEFINE w == <<Line("AWAY", a), Line("NICK", n)>>
  <2>1. Len(w) = 2 /\ w[1].verb = "AWAY" /\ w[2].arg = n
    BY DEF Line
  <2>. HIDE DEF w
  <2>2. n \in Nicks => AllNicks(w)
    BY <2>1 DEF AllNicks
  <2>. QED
    BY <2>2 DEF w
<1>. QED
  BY <1>1, <1>2, <1>3, Lines

\* What a handler sends asks for nicks.
LEMMA SentNicks ==
    ASSUME TypesInv, NEW ls, IsSeq(ls), AllNicks(ls), AwayInv, Send(ls)
    PROVE  AllNicks(wire')
BY NicksConcat DEF TypesInv, Named, AwayInv, Boxes, Send

\* The renames of an away and of a return ask for nicks.
LEMMA AutoNicks ==
    ASSUME AwayInv, TypesInv, SetAutoAwayInternal
    PROVE  AllNicks(wire')
<1>1. CASE AwayNickTarget = NoNick
  <2>1. Send(<<Line("AWAY", mine.reason)>>)
    BY <1>1 DEF SetAutoAwayInternal
  <2>. QED
    BY <2>1, NickLines, SentNicks, Lines
<1>2. CASE AwayNickTarget # NoNick
  <2>1. Send(<<Line("AWAY", mine.reason), Line("NICK", AwayNickTarget)>>)
    BY <1>2 DEF SetAutoAwayInternal
  <2>2. nick \in Nicks /\ nick[2] \in 0..2 /\ \A i \in 0..2 : <<nick[1], i>> \in Nicks
    BY UserNicksFit DEF TypesInv, Named
  <2>3. AwayNickTarget \in Nicks
    BY <1>2, <2>2 DEF AwayNickTarget
  <2>. QED
    BY <2>1, <2>3, NickLines, SentNicks, Lines
<1>. QED
  BY <1>1, <1>2

LEMMA UnsetNicks ==
    ASSUME AwayInv, TypesInv, UnsetAwayInternal
    PROVE  AllNicks(wire')
<1>. DEFINE h == <<Line("AWAY", None)>>
            ls == IF restore \in {NoNick, nick} THEN <<>> ELSE <<Line("NICK", restore)>>
<1>1. Send(h \o ls)
  BY DEF UnsetAwayInternal
<1>2. IsSeq(h) /\ AllNicks(h)
  BY NickLines, Lines
<1>3. IsSeq(ls) /\ AllNicks(ls)
  <2>1. CASE restore \in {NoNick, nick}
    BY <2>1, NickLines
  <2>2. CASE restore \notin {NoNick, nick}
    <3>1. restore \in Nicks
      BY <2>2 DEF TypesInv, Named
    <3>. QED
      BY <2>2, <3>1, NickLines, Lines
  <2>. QED
    BY <2>1, <2>2
<1>. HIDE DEF h, ls
<1>4. IsSeq(h \o ls) /\ AllNicks(h \o ls)
  BY <1>2, <1>3, ConcatSeq, NicksConcat
<1>. QED
  BY <1>1, <1>4, SentNicks

\* A handler sends one or two lines, or none.
LEMMA HandleNicks ==
    ASSUME AwayInv, TypesInv, Handle
    PROVE  AllNicks(wire')
<1>. DEFINE head == Head(mailbox).arg
<1>1. CASE SetAutoAwayInternal \/ UnsetAwayInternal
  BY <1>1, AutoNicks, UnsetNicks
<1>2. CASE wire' = wire
  BY <1>2 DEF TypesInv, Named
<1>3. ASSUME NEW v, NEW a, v = "NICK" => a \in Nicks, Send(<<Line(v, a)>>) PROVE AllNicks(wire')
  BY <1>3, NickLines, Lines, SentNicks
<1>4. ASSUME Send(<<>>) PROVE AllNicks(wire')
  BY <1>4, NickLines, SentNicks
<1>5. CASE SetExplicitAway \/ ReasonChanged
  BY <1>2, <1>3, <1>5 DEF SetExplicitAway, ReasonChanged
<1>6. CASE SendNick
  <2>1. head \in Nicks
    BY <1>6, HeadFits DEF SendNick, Fits
  <2>. QED
    BY <1>3, <1>6, <2>1 DEF SendNick
<1>7. CASE Welcome
  <2>1. CASE away.state = "present"
    BY <1>4, <1>7, <2>1 DEF Welcome
  <2>2. CASE away.state # "present"
    BY <1>3, <1>7, <2>2 DEF Welcome
  <2>. QED
    BY <2>1, <2>2
<1>8. CASE NickReclaim
  <2>1. CASE nick = Own
    BY <1>4, <1>8, <2>1 DEF NickReclaim
  <2>2. CASE nick # Own
    BY <1>3, <1>8, <2>2, UserNicksFit DEF NickReclaim, TypesInv
  <2>. QED
    BY <2>1, <2>2
<1>. QED
  BY <1>1, <1>2, <1>5, <1>6, <1>7, <1>8 DEF Handle, WsVisible, WsAllHidden, DebounceFire,
     UnsetExplicitAway, DebounceChanged, SiteDefaultChanged, SuffixChanged, NickEcho, NickRefused,
     ircdVars

\* Every step leaves lines that ask for nicks on the wire.
LEMMA WireStep ==
    ASSUME AwayInv, TypesInv, [AwayNext]_awayVars
    PROVE  AllNicks(wire')
<1>1. CASE Crash
  BY <1>1, NickLines DEF Crash
<1>2. CASE IrcdTakes
  BY <1>2, NicksTail DEF IrcdTakes, AwayInv, Boxes, TypesInv, Named
<1>3. CASE wire' = wire
  BY <1>3 DEF TypesInv, Named
<1>. QED
  BY <1>1, <1>2, <1>3, HandleNicks DEF AwayNext, TimerFires, ReclaimTick, Boot, Subscribe,
     Announce, UserCalls, PutSetting, PutSiteDefault, PostSetting, IrcdWelcome, awayVars, ircdVars

\* Every step leaves us with a nick, and the ircd with one for us.
LEMMA WornStep ==
    ASSUME AwayInv, TypesInv, [AwayNext]_awayVars
    PROVE  nick' \in Nicks /\ peer'.nick \in Nicks
<1>1. nick \in Nicks /\ peer.nick \in Nicks /\ Own \in Nicks
  BY UserNicksFit DEF TypesInv, Named
<1>2. CASE Crash
  BY <1>1, <1>2 DEF Crash
<1>3. CASE NickEcho
  <2>1. Head(mailbox).arg[2] \in Nicks
    BY <1>3, HeadFits DEF NickEcho, Fits
  <2>. QED
    BY <1>1, <1>3, <2>1 DEF NickEcho, ircdVars
<1>4. CASE Welcome
  <2>1. Head(mailbox).arg \in Nicks
    BY <1>4, HeadFits DEF Welcome, Fits
  <2>. QED
    BY <1>1, <1>4, <2>1 DEF Welcome
<1>5. CASE IrcdTakes
  <2>1. wire # <<>> /\ Len(wire) \in Nat \ {0} /\ Head(wire) = wire[1]
    BY <1>5, TailSeq DEF IrcdTakes, AwayInv, Boxes
  <2>2. Head(wire).verb = "NICK" => Head(wire).arg \in Nicks
    BY <2>1 DEF TypesInv, Named, AllNicks
  <2>3. peer = [away |-> peer.away, nick |-> peer.nick]
    BY DEF AwayInv, Sane
  <2>4. \A x : [peer EXCEPT !.nick = x].nick = x /\ [peer EXCEPT !.away = x].nick = peer.nick
    BY <2>3
  <2>. QED
    BY <1>1, <1>5, <2>2, <2>4 DEF IrcdTakes
<1>6. CASE nick' = nick /\ peer' = peer
  BY <1>1, <1>6
<1>. QED
  BY <1>2, <1>3, <1>4, <1>5, <1>6 DEF AwayNext, Handle, WsVisible, WsAllHidden, DebounceFire,
     SetExplicitAway, UnsetExplicitAway, DebounceChanged, SiteDefaultChanged, ReasonChanged,
     SuffixChanged, SendNick, NickRefused, NickReclaim, TimerFires, ReclaimTick, Boot, Subscribe,
     Announce, UserCalls, PutSetting, PutSiteDefault, PostSetting, IrcdWelcome, awayVars, procVars,
     ircdVars

\* Every step leaves a nick to take back only to a session that is away.
LEMMA RestoreStep ==
    ASSUME AwayInv, TypesInv, [AwayNext]_awayVars
    PROVE  /\ restore' \in Nicks \cup {NoNick}
           /\ restore' # NoNick => away'.state # "present" /\ Alive'
<1>1. /\ restore \in Nicks \cup {NoNick} /\ nick \in Nicks
      /\ restore # NoNick => away.state # "present" /\ Alive
      /\ away = [state |-> away.state, since |-> away.since, reason |-> away.reason]
  BY DEF TypesInv, Named, AwayInv, Sane
<1>2. CASE restore' = NoNick
  BY <1>2
<1>3. CASE SetAutoAwayInternal /\ link' = link /\ Subscribed
  <2>1. away'.state = "away_auto" /\ restore' \in {restore, nick} /\ Alive'
    BY <1>3 DEF SetAutoAwayInternal, Alive, Subscribed
  <2>. QED
    BY <1>1, <2>1
<1>4. CASE restore' = restore /\ link' = link /\ away' = away
  BY <1>1, <1>4 DEF Alive
<1>5. CASE restore' = restore /\ link' = link
           /\ (away'.state = "away_explicit" \/ away'.state = away.state)
  BY <1>1, <1>5 DEF Alive
<1>6. CASE Boot \/ Subscribe \/ IrcdWelcome
  BY <1>1, <1>6 DEF Boot, Subscribe, IrcdWelcome, Alive, procVars
<1>7. CASE SetExplicitAway \/ ReasonChanged
  <2>1. restore' = restore /\ link' = link
    BY <1>7 DEF SetExplicitAway, ReasonChanged
  <2>2. away'.state = "away_explicit" \/ away'.state = away.state
    BY <1>1, <1>7 DEF SetExplicitAway, ReasonChanged
  <2>. QED
    BY <1>5, <2>1, <2>2
<1>8. CASE Handle
  BY <1>2, <1>3, <1>4, <1>7, <1>8 DEF Handle, WsVisible, WsAllHidden, DebounceFire,
     UnsetExplicitAway, DebounceChanged, SiteDefaultChanged, SuffixChanged, SendNick, NickEcho,
     NickRefused, Welcome, NickReclaim, UnsetAwayInternal, Is
<1>. QED
  BY <1>2, <1>4, <1>6, <1>8 DEF AwayNext, TimerFires, ReclaimTick, Crash,
     Announce, UserCalls, PutSetting, PutSiteDefault, PostSetting, IrcdTakes, awayVars, procVars

LEMMA TypesInvStep == AwayInv /\ TypesInv /\ [AwayNext]_awayVars => TypesInv'
<1>. SUFFICES ASSUME AwayInv, TypesInv, [AwayNext]_awayVars
              PROVE  TypesInv'
  OBVIOUS
<1>1. knobs' \in Profiles /\ Nicks' = Nicks
  BY KnobsStay DEF TypesInv
<1>2. Named'
  BY <1>1, WireStep, WornStep, RestoreStep DEF Named, AllNicks
<1>. QED
  BY <1>1, <1>2, MailStep, SettledStep, DatedStep DEF TypesInv

LEMMA TypesInvInit == AwayInit => TypesInv
<1>. SUFFICES ASSUME AwayInit PROVE TypesInv
  OBVIOUS
<1>1. knobs \in Profiles /\ AllFit(mailbox)
  BY EmptyIsSeq DEF AwayInit, AllFit
<1>2. Named
  <2>1. AllNicks(<<>>) /\ Own \in Nicks
    BY <1>1, UserNicksFit, EmptyIsSeq DEF AllNicks
  <2>. QED
    BY <2>1 DEF AwayInit, Named
<1>3. Dated
  <2>1. 0 \in 0..(Stamps - 1)
    BY StampsAssumption
  <2>2. clock = 0 /\ away.state = "present" /\ row = NoRow /\ dirty = FALSE /\ reclaim = FALSE
    BY PresentIsSane DEF AwayInit
  <2>. QED
    BY <2>1, <2>2 DEF Dated
<1>4. Settled
  BY <1>1, UserNicksFit DEF AwayInit, Settled
<1>. QED
  BY <1>1, <1>2, <1>3, <1>4 DEF TypesInv

\* The process and its stores hold what the code can put there: one fire is
\* queued exactly when the timer has fired, a nick to take back is outstanding
\* only while away, and a window is open only then.
THEOREM AwayTypes == AwaySpec => []AwayTypeOK
<1>1. AwayInv /\ TypesInv => AwayTypeOK
  <2>. SUFFICES ASSUME AwayInv, TypesInv PROVE AwayTypeOK
    OBVIOUS
  <2>1. (away.state = "present") <=> (away.since = Stamps)
    BY StampsAssumption DEF AwayInv, Sane, TypesInv, Dated, Present
  <2>2. row.since \in 0..Stamps
    BY StampsAssumption DEF TypesInv, Dated, NoRow
  <2>3. Fires = At(mailbox, "fire") /\ \A i \in 1..Len(mailbox) : mailbox[i].kind \in Kinds
    BY DEF Fires, At, TypesInv, AllFit, Fits
  <2>. QED
    BY <2>1, <2>2, <2>3 DEF AwayTypeOK, AwayInv, Sane, TimerTrue, OneFire, TypesInv, Settled,
       Named, Dated
<1>. QED
  BY <1>1, TypesInvInit, TypesInvStep, AwayInvHolds, PTL DEF AwaySpec

=============================================================================
