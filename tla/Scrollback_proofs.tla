------------------------- MODULE Scrollback_proofs -------------------------
(***************************************************************************)
(* The scrollback store for every page size, ring, log, session and number *)
(* of fetches on the wire.                                                 *)
(***************************************************************************)
EXTENDS Scrollback, FiniteSetTheorems, TLAPS

-----------------------------------------------------------------------------
(* The pages, the marks and the fetches.                                    *)

\* A page holds rows the server has.
LEMMA PageIds ==
    ASSUME log \in Nat
    PROVE  /\ \A s \in 0..log : NewestPage(s) \subseteq Ids
           /\ \A a \in 0..log, s \in 0..log : AfterPage(a, s) \subseteq Ids
           /\ \A b \in 0..log : BeforePage(b) \subseteq Ids /\ BeforePage(b + 1) \subseteq Ids
BY SizesAssumption DEF NewestPage, AfterPage, BeforePage, Ids

\* The newest of some rows is a row, or 0.
LEMMA NewestBound ==
    ASSUME log \in Nat, NEW rs \in SUBSET Ids
    PROVE  NewestOf(rs) \in 0..log
<1>1. CASE \E l \in rs : IsLast(rs, l)
  <2>1. NewestOf(rs) = CHOOSE l \in rs : IsLast(rs, l)
    BY <1>1 DEF NewestOf
  <2>2. NewestOf(rs) \in rs
    BY <1>1, <2>1, Zenon
  <2>3. NewestOf(rs) \in Ids
    BY <2>2
  <2>. QED
    BY <2>3 DEF Ids
<1>2. CASE ~ \E l \in rs : IsLast(rs, l)
  BY <1>2 DEF NewestOf
<1>. QED
  BY <1>1, <1>2

\* A page after a is empty or ends at its newest row.
LEMMA AfterPageNewest ==
    ASSUME NEW a \in Nat, NEW s \in Nat, Cardinality(AfterPage(a, s)) = Page
    PROVE  NewestOf(AfterPage(a, s)) >= 1
<1>. DEFINE top == IF s < a + Page THEN s ELSE a + Page
<1>1. AfterPage(a, s) # {}
  BY SizesAssumption, FS_EmptySet
<1>2. IsLast(AfterPage(a, s), top)
  BY <1>1, SizesAssumption DEF AfterPage, IsLast
<1>. QED
  BY <1>2 DEF NewestOf, IsLast, AfterPage

\* What a fetch carries.
LEMMA AskOK ==
    ASSUME SbTypeOK, NEW op \in Ops, NEW leg \in Legs, NEW arg \in 0..log, NEW from \in 0..log,
           NEW page \in SUBSET Ids
    PROVE  Ask(op, leg, arg, from, page) \in Requests
BY DEF SbTypeOK, Ask, Requests

\* The far-behind record is kept or dropped.
LEMMA RetireOK == \A f, rs, c : Retire(f, rs, c) \in {f, 0}
BY DEF Retire

\* Where a refresh resumes from.
LEMMA ResumeOK ==
    ASSUME log \in Nat, NEW seen \in 0..log, NEW c \in 0..log, NEW rs \in SUBSET Ids
    PROVE  ResumeCursor(seen, c, rs) \in 0..log
BY NewestBound DEF ResumeCursor

\* The ring keeps some of the rows it is given.
LEMMA CapSubset == \A rs : CapScrollbackRing(rs) \subseteq rs
BY DEF CapScrollbackRing, Suffix

\* An appended page keeps the store within the log.
LEMMA AppendOK ==
    ASSUME SbTypeOK, NEW page \in SUBSET Ids, Append(page)
    PROVE  rows' \subseteq Ids /\ far' \in 0..log /\ moreOut' \in BOOLEAN
<1>1. CASE page \subseteq rows
  BY <1>1 DEF Append, SbTypeOK
<1>2. CASE ~ page \subseteq rows
  <2>1. rows' \subseteq rows \cup page
    BY <1>2, CapSubset DEF Append
  <2>2. far' \in {cursor, far, 0}
    BY <1>2, RetireOK DEF Append
  <2>3. moreOut' \in BOOLEAN
    BY <1>2 DEF Append
  <2>. QED
    BY <2>1, <2>2, <2>3 DEF SbTypeOK
<1>. QED
  BY <1>1, <1>2

\* So does an older, newer or cold page.
LEMMA MergeOK ==
    ASSUME SbTypeOK, NEW page \in SUBSET Ids, Merge(page)
    PROVE  rows' \subseteq Ids /\ far' \in 0..log
BY RetireOK DEF Merge, SbTypeOK

LEMMA SeenOK ==
    ASSUME SbTypeOK, NEW page \in SUBSET Ids, Seen(page)
    PROVE  lastSeen' \in 0..log
BY NewestBound DEF Seen, SbTypeOK

LEMMA AnchorOK ==
    ASSUME SbTypeOK, NEW r \in reqs, NEW s \in 0..log, AnchorAtTail(r, s)
    PROVE  rows' \subseteq Ids /\ far' \in 0..log /\ lastSeen' \in 0..log /\ moreOut' = FALSE
<1>1. NewestPage(s) \subseteq Ids
  BY PageIds DEF SbTypeOK
<1>2. r.from \in 0..log
  BY DEF SbTypeOK, Requests
<1>. QED
  BY <1>1, <1>2, RetireOK, SeenOK DEF AnchorAtTail, SbTypeOK

\* The set of fetches depends on the log alone, and grows with it.
LEMMA SameLog == log' = log => Requests' = Requests /\ Ids' = Ids
BY DEF Requests, Ids

LEMMA RequestsGrow ==
    ASSUME log \in Nat, log' \in Nat, log <= log'
    PROVE  Ids \subseteq Ids' /\ Requests \subseteq Requests'
<1>1. Ids \subseteq Ids' /\ 0..log \subseteq 0..log'
  BY DEF Ids
<1>. QED
  BY <1>1 DEF Requests

\* A fetch on the wire, field by field.
LEMMA OnWire ==
    ASSUME SbTypeOK, NEW r \in reqs
    PROVE  /\ r.op \in Ops /\ r.leg \in Legs /\ r.tok \in Nat /\ r.log \in 0..log
           /\ r.arg \in 0..log /\ r.from \in 0..log /\ r.page \in SUBSET Ids
           /\ \A s \in r.log..log : s \in 0..log
BY DEF SbTypeOK, Requests

\* A disturbance spent is one less.
LEMMA SpendOK ==
    ASSUME SbTypeOK, NEW k \in Disturbances, Spend(k)
    PROVE  budget' \in [Disturbances -> Nat]
<1>1. budget[k] \in Nat /\ budget[k] > 0
  BY DEF SbTypeOK, Spend
<1>. QED
  BY <1>1 DEF SbTypeOK, Spend

\* A refresh asked for, whether it starts or waits.
LEMMA RefreshCallOK ==
    ASSUME SbTypeOK, NEW c \in 0..log, RefreshCall(c)
    PROVE  reqs' \subseteq Requests /\ refreshing' \in BOOLEAN /\ queued' \in BOOLEAN
<1>1. Ask("refresh", "page", ResumeCursor(lastSeen, c, rows), 0, {}) \in Requests
  BY AskOK, ResumeOK DEF SbTypeOK, Ops, Legs
<1>. QED
  BY <1>1 DEF RefreshCall, SbTypeOK

\* A refresh that ends, with the one queued behind it.
LEMMA RefreshEndsOK ==
    ASSUME SbTypeOK, NEW r \in reqs, RefreshEnds(r), lastSeen' \in 0..log, rows' \subseteq Ids
    PROVE  reqs' \subseteq Requests /\ refreshing' \in BOOLEAN /\ queued' \in BOOLEAN
<1>1. Ask("refresh", "page", ResumeCursor(lastSeen', cursor, rows'), 0, {}) \in Requests
  BY AskOK, ResumeOK DEF SbTypeOK, Ops, Legs
<1>. QED
  BY <1>1 DEF RefreshEnds, SbTypeOK

-----------------------------------------------------------------------------
(* Type correctness.                                                        *)

\* The operator's gestures.
LEMMA OperatorType ==
    ASSUME SbTypeOK, Operator
    PROVE  SbTypeOK'
<1>. USE DEF store, latches, resume
<1>0. log \in Nat /\ (log' = log => Requests' = Requests /\ Ids' = Ids)
  BY SameLog DEF SbTypeOK
<1>. DEFINE Cold == Ask("cold", IF cursor = 0 THEN "newest" ELSE "probe", cursor, 0, {})
<1>a. Cold \in Requests
  BY AskOK DEF SbTypeOK, Ops, Legs
<1>. HIDE DEF Cold
<1>b. \A k \in Disturbances : Spend(k) => budget' \in [Disturbances -> Nat]
  BY SpendOK
<1>1. CASE Select
  <2>1. reqs' \subseteq Requests /\ refreshing' \in BOOLEAN /\ queued' \in BOOLEAN
    BY <1>1, <1>a, RefreshCallOK DEF Select, ColdCall, SbTypeOK, Cold
  <2>. QED
    BY <1>0, <1>1, <2>1 DEF Select, ColdCall, SbTypeOK
<1>2. CASE ScrollUp
  <2>1. PICK h \in rows : reqs' = reqs \cup {Ask("older", "page", h, 0, {})}
    BY <1>2 DEF ScrollUp
  <2>2. Ask("older", "page", h, 0, {}) \in Requests
    BY AskOK DEF SbTypeOK, Ops, Legs, Ids
  <2>. QED
    BY <1>0, <1>2, <2>1, <2>2 DEF ScrollUp, SbTypeOK
<1>3. CASE ScrollDown
  <2>1. PICK l \in rows : reqs' = reqs \cup {Ask("newer", "page", l, 0, {})}
    BY <1>3 DEF ScrollDown
  <2>2. Ask("newer", "page", l, 0, {}) \in Requests
    BY AskOK DEF SbTypeOK, Ops, Legs, Ids
  <2>. QED
    BY <1>0, <1>3, <2>1, <2>2 DEF ScrollDown, SbTypeOK
<1>4. CASE JumpBack
  <2>1. Ask("jump", "around", far, far, {}) \in Requests
    BY AskOK DEF SbTypeOK, Ops, Legs
  <2>. QED
    BY <1>0, <1>4, <1>b, <2>1 DEF Disturbances, JumpBack, SbTypeOK
<1>5. CASE Send
  <2>1. log' = log + 1 /\ log' \in Nat /\ own' = own \cup {log + 1}
    BY <1>5 DEF Send, SbTypeOK
  <2>2. Ids \subseteq Ids' /\ Requests \subseteq Requests' /\ log + 1 \in Ids'
    BY <2>1, RequestsGrow DEF SbTypeOK, Ids
  <2>3. Ask("send", "post", log + 1, 0, {}) \in Requests'
    BY <2>1 DEF Ask, Requests, SbTypeOK, Ops, Legs, Ids
  <2>. QED
    BY <1>5, <1>b, <2>1, <2>2, <2>3 DEF Disturbances, Send, SbTypeOK
<1>6. CASE Dismiss
  <2>1. NewestOf(rows) \in 0..log
    BY NewestBound DEF SbTypeOK
  <2>2. cursor' \in 0..log
    BY <1>6, <2>1 DEF Dismiss, Advance, SbTypeOK
  <2>. QED
    BY <1>0, <1>6, <2>2 DEF Dismiss, SbTypeOK
<1>7. CASE Reveal
  <2>1. budget' \in [Disturbances -> Nat]
    BY <1>7, <1>b DEF Disturbances, Reveal
  <2>2. reqs' \subseteq Requests
    BY <1>7, <1>a DEF Reveal, SbTypeOK, Cold
  <2>3. Requests' = Requests /\ Ids' = Ids /\ log' = log
    BY <1>0, <1>7 DEF Reveal
  <2>4. /\ loaded' \in BOOLEAN /\ coldBusy' \in BOOLEAN /\ jumpBusy' \in BOOLEAN
        /\ moreOut' \in BOOLEAN /\ moreBusy' \in BOOLEAN
        /\ newerOut' \in BOOLEAN /\ newerBusy' \in BOOLEAN
        /\ refreshing' \in BOOLEAN /\ queued' \in BOOLEAN
    BY <1>7 DEF Reveal, SbTypeOK
  <2>5. /\ rows' \subseteq Ids' /\ cursor' \in 0..log' /\ far' \in 0..log' /\ lastSeen' \in 0..log'
        /\ own' \subseteq Ids' /\ next' \in 1..(log' + 1) /\ conn' \in {"down", "open", "joined"}
    BY <1>0, <1>7, <2>3 DEF Reveal, SbTypeOK
  <2>. QED
    BY <1>0, <1>7, <2>1, <2>2, <2>3, <2>4, <2>5 DEF Reveal, SbTypeOK
<1>8. CASE \E m \in rows : Settle(m)
  BY <1>0, <1>8, <1>b DEF Disturbances, Settle, SbTypeOK, Ids
<1>9. CASE \E id \in Ids : Mention(id)
  <2>1. PICK id \in Ids : Mention(id)
    BY <1>9
  <2>2. Ask("goto", "wait", id, 0, {}) \in Requests
    BY AskOK DEF SbTypeOK, Ops, Legs, Ids
  <2>. QED
    BY <1>0, <1>b, <2>1, <2>2 DEF Disturbances, Mention, SbTypeOK
<1>. QED
  BY <1>1, <1>2, <1>3, <1>4, <1>5, <1>6, <1>7, <1>8, <1>9 DEF Operator

\* The server, the socket and the other devices.
LEMMA NetworkType ==
    ASSUME SbTypeOK, Network
    PROVE  SbTypeOK'
<1>. USE DEF store, latches, resume
<1>0. log \in Nat /\ (log' = log => Requests' = Requests /\ Ids' = Ids)
  BY SameLog DEF SbTypeOK
<1>b. \A k \in Disturbances : Spend(k) => budget' \in [Disturbances -> Nat]
  BY SpendOK
<1>1. CASE Say
  <2>1. log' = log + 1 /\ log' \in Nat
    BY <1>1 DEF Say, SbTypeOK
  <2>2. Ids \subseteq Ids' /\ Requests \subseteq Requests'
    BY <2>1, RequestsGrow DEF SbTypeOK
  <2>. QED
    BY <1>1, <2>1, <2>2 DEF Say, SbTypeOK
<1>2. CASE Deliver
  <2>1. {next} \subseteq Ids /\ next + 1 \in 1..(log + 1)
    BY <1>2 DEF Deliver, SbTypeOK, Ids
  <2>2. rows' \subseteq Ids /\ far' \in 0..log /\ moreOut' \in BOOLEAN
    BY <1>2, <2>1, AppendOK DEF Deliver
  <2>3. lastSeen' \in 0..log
    BY <1>2, <2>1, SeenOK DEF Deliver
  <2>. QED
    BY <1>0, <1>2, <2>1, <2>2, <2>3 DEF Deliver, SbTypeOK
<1>3. CASE Drop
  BY <1>0, <1>3, <1>b DEF Disturbances, Drop, SbTypeOK
<1>4. CASE Reopen
  <2>1. reqs' \subseteq Requests /\ refreshing' \in BOOLEAN /\ queued' \in BOOLEAN
    BY <1>4, RefreshCallOK DEF Reopen, SbTypeOK
  <2>. QED
    BY <1>0, <1>4, <2>1 DEF Reopen, SbTypeOK
<1>5. CASE Rotate
  <2>1. budget' \in [Disturbances -> Nat] /\ tok' \in Nat
    BY <1>5, <1>b DEF Disturbances, Rotate, SbTypeOK
  <2>2. Requests' = Requests /\ Ids' = Ids /\ log' = log
    BY <1>0, <1>5 DEF Rotate
  <2>3. /\ loaded' \in BOOLEAN /\ coldBusy' \in BOOLEAN /\ jumpBusy' \in BOOLEAN
        /\ moreOut' \in BOOLEAN /\ moreBusy' \in BOOLEAN
        /\ newerOut' \in BOOLEAN /\ newerBusy' \in BOOLEAN
        /\ refreshing' \in BOOLEAN /\ queued' \in BOOLEAN
    BY <1>5 DEF Rotate, SbTypeOK
  <2>4. /\ rows' \subseteq Ids' /\ cursor' \in 0..log' /\ far' \in 0..log' /\ lastSeen' \in 0..log'
        /\ own' \subseteq Ids' /\ next' \in 1..(log' + 1) /\ conn' \in {"down", "open", "joined"}
    BY <1>0, <1>5, <2>2 DEF Rotate, SbTypeOK
  <2>. QED
    BY <1>0, <1>5, <2>1, <2>2, <2>3, <2>4 DEF Rotate, SbTypeOK
<1>6. CASE \E c \in {0} \cup Ids : JoinOk(c)
  <2>1. PICK c \in {0} \cup Ids : JoinOk(c)
    BY <1>6
  <2>2. cursor' \in 0..log
    BY <2>1 DEF JoinOk, Advance, SbTypeOK, Ids
  <2>3. reqs' \subseteq Requests /\ refreshing' \in BOOLEAN /\ queued' \in BOOLEAN
    BY <2>1, <2>2, RefreshCallOK DEF JoinOk
  <2>4. far' \in 0..log
    BY <2>1, RetireOK DEF JoinOk, SbTypeOK
  <2>. QED
    BY <1>0, <1>b, <2>1, <2>2, <2>3, <2>4 DEF Disturbances, JoinOk, SbTypeOK
<1>7. CASE \E c \in Ids : Echo(c)
  BY <1>0, <1>7, <1>b, RetireOK DEF Disturbances, Echo, SbTypeOK, Ids
<1>. QED
  BY <1>1, <1>2, <1>3, <1>4, <1>5, <1>6, <1>7 DEF Network

\* A cold load's answers.
LEMMA ColdType ==
    ASSUME SbTypeOK, NEW r \in reqs, NEW s \in 0..log, budget' \in [Disturbances -> Nat],
           ColdNewest(r, s) \/ \E t \in 0..log : ColdProbe(r, t) \/ ColdAround(r, s) \/ ColdTail(r, s) \/ ColdFails(r)
    PROVE  SbTypeOK'
<1>. USE DEF store, latches, resume
<1>0. log \in Nat /\ (log' = log => Requests' = Requests /\ Ids' = Ids)
  BY SameLog DEF SbTypeOK
<1>r. r \in Requests /\ r.arg \in 0..log /\ r.from \in 0..log /\ r.page \in SUBSET Ids
  BY OnWire DEF SbTypeOK
<1>p. /\ NewestPage(s) \subseteq Ids /\ AfterPage(r.arg, s) \subseteq Ids
      /\ BeforePage(r.arg) \subseteq Ids /\ BeforePage(r.arg + 1) \subseteq Ids
  BY <1>0, <1>r, PageIds
<1>1. CASE ColdNewest(r, s)
  <2>1. rows' \subseteq Ids /\ cursor' \in 0..log
    BY <1>1, <1>p DEF ColdNewest, SbTypeOK
  <2>2. far' \in 0..log
    BY <1>1, RetireOK DEF ColdNewest, SbTypeOK
  <2>. QED
    BY <1>0, <1>1, <2>1, <2>2 DEF ColdNewest, ColdEnds, SbTypeOK
<1>2. CASE \E t \in 0..log : ColdProbe(r, t)
  <2>1. PICK t \in 0..log : ColdProbe(r, t)
    BY <1>2
  <2>. DEFINE Leg == IF FarBehind(r.arg, t) THEN "tail" ELSE "around"
  <2>2. Leg \in Legs /\ "cold" \in Ops
    BY DEF Legs, Ops
  <2>3. Ask("cold", Leg, r.arg, r.arg, {}) \in Requests
    BY <1>r, <2>2, AskOK
  <2>4. reqs' \subseteq Requests
    BY <2>1, <2>3 DEF ColdProbe, SbTypeOK
  <2>. QED
    BY <1>0, <2>1, <2>4 DEF ColdProbe, SbTypeOK
<1>3. CASE ColdAround(r, s)
  <2>1. rows' \subseteq Ids /\ far' \in 0..log
    BY <1>3, <1>p, MergeOK DEF ColdAround, SbTypeOK
  <2>. QED
    BY <1>0, <1>3, <2>1 DEF ColdAround, ColdEnds, SbTypeOK
<1>4. CASE ColdTail(r, s)
  <2>1. rows' \subseteq Ids /\ far' \in 0..log /\ lastSeen' \in 0..log /\ moreOut' \in BOOLEAN
    BY <1>4, AnchorOK DEF ColdTail
  <2>. QED
    BY <1>0, <1>4, <2>1 DEF ColdTail, ColdEnds, SbTypeOK
<1>5. CASE ColdFails(r)
  BY <1>0, <1>5 DEF ColdFails, ColdEnds, SbTypeOK
<1>. QED
  BY <1>1, <1>2, <1>3, <1>4, <1>5

\* A refresh's answers.
LEMMA RefreshType ==
    ASSUME SbTypeOK, NEW r \in reqs, NEW s \in 0..log, budget' \in [Disturbances -> Nat],
           RefreshPage(r, s) \/ \E t \in 0..log : RefreshProbe(r, t) \/ \E from \in 0..log : RefreshTarget(r, from) \/ RefreshTail(r, s) \/ RefreshFails(r)
    PROVE  SbTypeOK'
<1>. USE DEF store, latches, resume
<1>0. log \in Nat /\ (log' = log => Requests' = Requests /\ Ids' = Ids)
  BY SameLog DEF SbTypeOK
<1>r. r \in Requests /\ r.arg \in 0..log /\ r.from \in 0..log /\ r.page \in SUBSET Ids
  BY OnWire DEF SbTypeOK
<1>p. /\ NewestPage(s) \subseteq Ids /\ AfterPage(r.arg, s) \subseteq Ids
      /\ BeforePage(r.arg) \subseteq Ids /\ BeforePage(r.arg + 1) \subseteq Ids
  BY <1>0, <1>r, PageIds
<1>1. CASE RefreshPage(r, s)
  <2>1. rows' \subseteq Ids /\ far' \in 0..log /\ moreOut' \in BOOLEAN
    BY <1>1, <1>p, AppendOK DEF RefreshPage
  <2>2. lastSeen' \in 0..log
    BY <1>1, <1>p, SeenOK DEF RefreshPage
  <2>3. reqs' \subseteq Requests /\ refreshing' \in BOOLEAN /\ queued' \in BOOLEAN /\ newerOut' \in BOOLEAN
    <3>1. CASE Cardinality(AfterPage(r.arg, s)) = Page
      <4>1. Ask("refresh", "probe", NewestOf(AfterPage(r.arg, s)), 0, {}) \in Requests
        BY <1>0, <1>p, NewestBound, AskOK DEF Ops, Legs
      <4>. QED
        BY <1>1, <3>1, <4>1 DEF RefreshPage, SbTypeOK
    <3>2. CASE Cardinality(AfterPage(r.arg, s)) # Page
      BY <1>1, <3>2, <2>1, <2>2, RefreshEndsOK DEF RefreshPage, SbTypeOK
    <3>. QED
      BY <3>1, <3>2
  <2>. QED
    BY <1>0, <1>1, <2>1, <2>2, <2>3 DEF RefreshPage, SbTypeOK
<1>2. CASE \E t \in 0..log : RefreshProbe(r, t)
  <2>1. PICK t \in 0..log : RefreshProbe(r, t)
    BY <1>2
  <2>2. reqs' \subseteq Requests /\ refreshing' \in BOOLEAN /\ queued' \in BOOLEAN
    <3>1. CASE FarBehind(r.arg, t)
      <4>1. /\ Ask("refresh", "tail", r.arg, r.arg, {}) \in Requests
            /\ Ask("refresh", "target", r.arg, cursor, {}) \in Requests
        BY <1>r, AskOK DEF Ops, Legs, SbTypeOK
      <4>. QED
        BY <2>1, <3>1, <4>1 DEF RefreshProbe, SbTypeOK
    <3>2. CASE ~ FarBehind(r.arg, t)
      <4>1. rows' = rows /\ lastSeen' = lastSeen /\ RefreshEnds(r)
        BY <2>1, <3>2 DEF RefreshProbe
      <4>. QED
        BY <4>1, RefreshEndsOK DEF SbTypeOK
    <3>. QED
      BY <3>1, <3>2
  <2>. QED
    BY <1>0, <2>1, <2>2 DEF RefreshProbe, SbTypeOK
<1>3. CASE \E from \in 0..log : RefreshTarget(r, from)
  <2>1. PICK from \in 0..log : RefreshTarget(r, from)
    BY <1>3
  <2>2. Ask("refresh", "tail", r.arg, from, {}) \in Requests
    BY <1>r, AskOK DEF Ops, Legs
  <2>. QED
    BY <1>0, <2>1, <2>2 DEF RefreshTarget, SbTypeOK
<1>4. CASE RefreshTail(r, s)
  <2>1. rows' \subseteq Ids /\ far' \in 0..log /\ lastSeen' \in 0..log /\ moreOut' \in BOOLEAN
    BY <1>4, AnchorOK DEF RefreshTail
  <2>2. reqs' \subseteq Requests /\ refreshing' \in BOOLEAN /\ queued' \in BOOLEAN
    BY <1>4, <2>1, RefreshEndsOK DEF RefreshTail
  <2>. QED
    BY <1>0, <1>4, <2>1, <2>2 DEF RefreshTail, SbTypeOK
<1>5. CASE RefreshFails(r)
  <2>1. rows' = rows /\ lastSeen' = lastSeen /\ RefreshEnds(r)
    BY <1>5 DEF RefreshFails
  <2>2. reqs' \subseteq Requests /\ refreshing' \in BOOLEAN /\ queued' \in BOOLEAN
    BY <2>1, RefreshEndsOK DEF SbTypeOK
  <2>. QED
    BY <1>0, <1>5, <2>2 DEF RefreshFails, SbTypeOK
<1>. QED
  BY <1>1, <1>2, <1>3, <1>4, <1>5

\* The answers of the scrolls, of a send, and of another identity.
LEMMA ScrollType ==
    ASSUME SbTypeOK, NEW r \in reqs, NEW s \in 0..log, budget' \in [Disturbances -> Nat],
           OlderPage(r) \/ OlderFails(r) \/ NewerPage(r, s) \/ NewerFails(r) \/ SendPage(r) \/ SendFails(r) \/ Stale(r)
    PROVE  SbTypeOK'
<1>. USE DEF store, latches, resume
<1>0. log \in Nat /\ (log' = log => Requests' = Requests /\ Ids' = Ids)
  BY SameLog DEF SbTypeOK
<1>r. r \in Requests /\ r.arg \in 0..log /\ r.from \in 0..log /\ r.page \in SUBSET Ids
  BY OnWire DEF SbTypeOK
<1>p. /\ NewestPage(s) \subseteq Ids /\ AfterPage(r.arg, s) \subseteq Ids
      /\ BeforePage(r.arg) \subseteq Ids /\ BeforePage(r.arg + 1) \subseteq Ids
  BY <1>0, <1>r, PageIds
<1>1. CASE OlderPage(r)
  <2>1. rows' \subseteq Ids /\ far' \in 0..log /\ moreOut' \in BOOLEAN
    BY <1>1, <1>p, MergeOK DEF OlderPage, SbTypeOK
  <2>. QED
    BY <1>0, <1>1, <2>1 DEF OlderPage, SbTypeOK
<1>2. CASE OlderFails(r)
  BY <1>0, <1>2 DEF OlderFails, SbTypeOK
<1>3. CASE NewerPage(r, s)
  <2>1. rows' \subseteq Ids /\ far' \in 0..log /\ newerOut' \in BOOLEAN
    BY <1>3, <1>p, MergeOK DEF NewerPage, SbTypeOK
  <2>. QED
    BY <1>0, <1>3, <2>1 DEF NewerPage, SbTypeOK
<1>4. CASE NewerFails(r)
  BY <1>0, <1>4 DEF NewerFails, SbTypeOK
<1>5. CASE SendPage(r)
  <2>1. cursor' \in 0..log
    BY <1>5, <1>r DEF SendPage, SbTypeOK
  <2>2. far' \in 0..log
    BY <1>5, RetireOK DEF SendPage, SbTypeOK
  <2>. QED
    BY <1>0, <1>5, <2>1, <2>2 DEF SendPage, SbTypeOK
<1>6. CASE SendFails(r)
  BY <1>0, <1>6 DEF SendFails, SbTypeOK
<1>7. CASE Stale(r)
  BY <1>0, <1>7 DEF Stale, SbTypeOK
<1>. QED
  BY <1>1, <1>2, <1>3, <1>4, <1>5, <1>6, <1>7

\* The answers of the two jumps.
LEMMA JumpType ==
    ASSUME SbTypeOK, NEW r \in reqs, NEW s \in 0..log, budget' \in [Disturbances -> Nat],
           JumpPage(r, s) \/ GotoPage(r, s) \/ GotoProbe(r) \/ JumpFails(r) \/ MentionWaited(r)
    PROVE  SbTypeOK'
<1>. USE DEF store, latches, resume
<1>0. log \in Nat /\ (log' = log => Requests' = Requests /\ Ids' = Ids)
  BY SameLog DEF SbTypeOK
<1>r. r \in Requests /\ r.arg \in 0..log /\ r.from \in 0..log /\ r.page \in SUBSET Ids
  BY OnWire DEF SbTypeOK
<1>p. /\ NewestPage(s) \subseteq Ids /\ AfterPage(r.arg, s) \subseteq Ids
      /\ BeforePage(r.arg) \subseteq Ids /\ BeforePage(r.arg + 1) \subseteq Ids
  BY <1>0, <1>r, PageIds
<1>1. CASE JumpPage(r, s)
  <2>1. rows' \subseteq Ids
    BY <1>1, <1>p DEF JumpPage
  <2>2. far' = 0 /\ 0 \in 0..log
    BY <1>0, <1>1 DEF JumpPage
  <2>3. moreOut' \in BOOLEAN /\ newerOut' \in BOOLEAN /\ jumpBusy' \in BOOLEAN
    BY <1>1 DEF JumpPage, JumpEnds
  <2>. QED
    BY <1>0, <1>1, <2>1, <2>2, <2>3 DEF JumpPage, JumpEnds, SbTypeOK
<1>2. CASE GotoPage(r, s)
  <2>1. \A page : Land(page, 0) => far' \in 0..log /\ rows' = page
    BY RetireOK DEF Land, SbTypeOK
  <2>2. Ask("goto", "probe", cursor, cursor, AfterPage(r.arg, s) \cup BeforePage(r.arg + 1)) \in Requests
    BY <1>p, AskOK DEF Ops, Legs, SbTypeOK
  <2>3. PICK oldest : IF Holed(BeforePage(r.arg + 1), oldest)
          THEN /\ reqs' = (reqs \ {r}) \cup
                     {Ask("goto", "probe", cursor, cursor, AfterPage(r.arg, s) \cup BeforePage(r.arg + 1))}
               /\ UNCHANGED <<rows, far, newerOut, moreOut, jumpBusy>>
          ELSE Land(AfterPage(r.arg, s) \cup BeforePage(r.arg + 1), 0) /\ JumpEnds(r)
    BY <1>2 DEF GotoPage
  <2>4. CASE Holed(BeforePage(r.arg + 1), oldest)
    BY <1>0, <1>2, <2>2, <2>3, <2>4 DEF GotoPage, SbTypeOK
  <2>5. CASE ~ Holed(BeforePage(r.arg + 1), oldest)
    <3>1. rows' \subseteq Ids /\ far' \in 0..log
      BY <1>p, <2>1, <2>3, <2>5
    <3>. QED
      BY <1>0, <1>2, <2>3, <2>5, <3>1 DEF GotoPage, JumpEnds, Land, SbTypeOK
  <2>. QED
    BY <2>4, <2>5
<1>3. CASE GotoProbe(r)
  <2>1. rows' \subseteq Ids /\ far' \in 0..log
    BY <1>3, <1>r, RetireOK DEF GotoProbe, Land, SbTypeOK
  <2>. QED
    BY <1>0, <1>3, <2>1 DEF GotoProbe, Land, JumpEnds, SbTypeOK
<1>4. CASE JumpFails(r)
  BY <1>0, <1>4 DEF JumpFails, JumpEnds, SbTypeOK
<1>5. CASE MentionWaited(r)
  <2>1. Ask("goto", "around", r.arg, 0, {}) \in Requests
    BY <1>0, <1>r, AskOK DEF Ops, Legs
  <2>. QED
    BY <1>0, <1>5, <2>1 DEF MentionWaited, SbTypeOK
<1>. QED
  BY <1>1, <1>2, <1>3, <1>4, <1>5

\* One answer, or one failure.
LEMMA WireType ==
    ASSUME SbTypeOK, NEW r \in reqs, Answered(r) \/ Fails(r)
    PROVE  SbTypeOK'
<1>0. log \in Nat /\ 0 \in 0..log /\ r.from \in 0..log /\ r.arg \in 0..log /\ \A s \in r.log..log : s \in 0..log
  BY OnWire DEF SbTypeOK
<1>1. budget' \in [Disturbances -> Nat]
  BY SpendOK DEF Answered, Fails, SbTypeOK, Disturbances
<1>2. CASE Answered(r)
  BY <1>0, <1>1, <1>2, ColdType, RefreshType, ScrollType, JumpType DEF Answered, Answer
<1>3. CASE Fails(r)
  BY <1>0, <1>1, <1>3, ColdType, RefreshType, ScrollType, JumpType DEF Fails
<1>. QED
  BY <1>2, <1>3

LEMMA InitType == Init => SbTypeOK
<1>. SUFFICES ASSUME Init PROVE SbTypeOK
  OBVIOUS
<1>1. PICK start \in Sessions : log = start.log /\ cursor = start.cursor /\ budget = start.budget
  BY DEF Init
<1>2. /\ log \in Nat /\ cursor \in 0..log /\ 0 \in 0..log /\ log + 1 \in 1..(log + 1)
      /\ budget \in [Disturbances -> Nat]
  BY <1>1, SizesAssumption
<1>. QED
  BY <1>2 DEF Init, SbTypeOK

LEMMA StutterType == SbTypeOK /\ UNCHANGED sbVars => SbTypeOK'
BY SameLog DEF sbVars, store, latches, resume, SbTypeOK

\* Rows and marks stay within the server's log, whatever the pages, the ring
\* and the number of fetches on the wire.
THEOREM TypeCorrect == Spec => []SbTypeOK
<1>1. SbTypeOK /\ [Next]_sbVars => SbTypeOK'
  BY OperatorType, NetworkType, WireType, StutterType DEF Next
<1>. QED
  BY InitType, <1>1, PTL DEF Spec

-----------------------------------------------------------------------------
(* The latch of the older end.                                              *)

\* An empty older page means that the head is the first row there is.
LEMMA EmptyMeansFirst ==
    ASSUME NEW h \in Nat \ {0}, BeforePage(h) = {}
    PROVE  h = 1
<1>1. CASE h > 1
  <2>1. h - 1 \in BeforePage(h)
    BY <1>1, SizesAssumption DEF BeforePage
  <2>. QED
    BY <2>1
<1>. QED
  BY <1>1

LEMMA MoreOutStep ==
    ASSUME SbTypeOK, MoreOutIsTrue, [Next]_sbVars
    PROVE  MoreOutIsTrue'
<1>. USE DEF store, latches, resume, MoreOutIsTrue
<1>1. ASSUME NEW page, Append(page) PROVE moreOut' => 1 \in rows'
  BY <1>1 DEF Append
<1>2. ASSUME NEW page, Merge(page), UNCHANGED moreOut PROVE moreOut' => 1 \in rows'
  BY <1>2 DEF Merge
<1>3. CASE Operator
  BY <1>3 DEF Operator, Select, ScrollUp, ScrollDown, JumpBack, Send, Dismiss, Reveal, Settle,
     Mention, ColdCall
<1>4. CASE Network
  BY <1>1, <1>4 DEF Network, Say, Deliver, Drop, Reopen, Rotate, JoinOk, Echo
<1>5. ASSUME NEW r \in reqs, Answered(r)
      PROVE  moreOut' => 1 \in rows'
  <2>1. CASE \E s \in r.log..log : RefreshPage(r, s)
    BY <1>1, <2>1 DEF RefreshPage
  <2>2. CASE OlderPage(r)
    <3>1. CASE IsHead(rows, r.arg)
      <4>1. r.arg \in rows
        BY <3>1 DEF IsHead
      <4>a. r.arg \in Nat \ {0} /\ 1 \in Nat
        <5>1. \A m \in rows : m \in Nat \ {0}
          BY DEF SbTypeOK, Ids
        <5>. QED
          BY <4>1, <5>1, Zenon
      <4>2. rows \subseteq rows' /\ moreOut' = (moreOut \/ BeforePage(r.arg) = {})
        BY <2>2, <3>1 DEF OlderPage, Merge
      <4>. QED
        BY <4>1, <4>a, <4>2, EmptyMeansFirst
    <3>2. CASE ~ IsHead(rows, r.arg)
      BY <2>2, <3>2 DEF OlderPage
    <3>. QED
      BY <3>1, <3>2
  <2>3. CASE \E s \in r.log..log : ColdAround(r, s) \/ NewerPage(r, s)
    BY <2>3 DEF ColdAround, NewerPage, Merge
  <2>4. CASE \E s \in r.log..log : ColdTail(r, s) \/ RefreshTail(r, s)
    BY <2>4 DEF ColdTail, RefreshTail, AnchorAtTail
  <2>5. CASE \E s \in r.log..log : ColdNewest(r, s) \/ ColdProbe(r, s) \/ RefreshProbe(r, s)
    BY <2>5 DEF ColdNewest, ColdProbe, RefreshProbe
  <2>6. CASE \E s \in r.log..log : JumpPage(r, s)
    BY <2>6 DEF JumpPage
  <2>7. CASE \E s \in r.log..log : GotoPage(r, s)
    <3>1. moreOut' = FALSE \/ (moreOut' = moreOut /\ rows' = rows)
      BY <2>7 DEF GotoPage, Land
    <3>. QED
      BY <3>1
  <2>8. CASE GotoProbe(r)
    BY <2>8 DEF GotoProbe, Land
  <2>9. CASE MentionWaited(r) \/ RefreshTarget(r, r.from) \/ SendPage(r) \/ Stale(r)
    BY <2>9 DEF MentionWaited, RefreshTarget, SendPage, Stale
  <2>. QED
    BY <1>5, <2>1, <2>2, <2>3, <2>4, <2>5, <2>6, <2>7, <2>8, <2>9 DEF Answered, Answer
<1>6. ASSUME NEW r \in reqs, Fails(r)
      PROVE  moreOut' => 1 \in rows'
  BY <1>6 DEF Fails, ColdFails, ColdProbe, RefreshFails, RefreshProbe, RefreshTarget, OlderFails,
     NewerFails, JumpFails, SendFails
<1>7. CASE UNCHANGED sbVars
  BY <1>7 DEF sbVars
<1>. QED
  BY <1>3, <1>4, <1>5, <1>6, <1>7 DEF Next

\* Scrolling up stops asking only at the first row there is.
THEOREM OlderEndIsReal == Spec => []MoreOutIsTrue
<1>1. Init => MoreOutIsTrue
  BY DEF Init, MoreOutIsTrue
<1>2. SbTypeOK /\ MoreOutIsTrue /\ [Next]_sbVars => MoreOutIsTrue'
  BY MoreOutStep
<1>. QED
  BY <1>1, <1>2, TypeCorrect, PTL DEF Spec

-----------------------------------------------------------------------------
(* Answers of another identity, and older pages.                            *)

\* The operator and the network take no fetch off the wire.
LEMMA OnlyAnswersRemove ==
    ASSUME Operator \/ Network
    PROVE  reqs \subseteq reqs'
BY DEF Operator, Network, Select, ColdCall, RefreshCall, ScrollUp, ScrollDown, JumpBack, Send,
   Dismiss, Reveal, Settle, Mention, Say, Deliver, Drop, Reopen, Rotate, JoinOk, Echo

\* An answer takes its own fetch off the wire and no other.
LEMMA OneAtATime ==
    ASSUME NEW r \in reqs, Answered(r) \/ Fails(r)
    PROVE  reqs \ {r} \subseteq reqs'
BY DEF Answered, Answer, Fails, ColdNewest, ColdProbe, ColdAround, ColdTail, ColdFails, ColdEnds,
   RefreshPage, RefreshProbe, RefreshTarget, RefreshTail, RefreshFails, RefreshEnds, OlderPage,
   OlderFails, NewerPage, NewerFails, JumpPage, GotoPage, GotoProbe, JumpFails, JumpEnds, SendPage,
   SendFails, Stale, MentionWaited

\* An answer of another identity meets identityMoved.
LEMMA StaleStep ==
    ASSUME NEW r \in reqs, ~ Current(r), Answered(r) \/ Fails(r)
    PROVE  UNCHANGED <<cursor, rows, far, loaded, latches, jumpBusy, resume>>
<1>1. Stale(r) \/ MentionWaited(r)
  BY DEF Answered, Answer, Fails, ColdNewest, ColdProbe, ColdAround, ColdTail, ColdFails,
     RefreshPage, RefreshProbe, RefreshTarget, RefreshTail, RefreshFails, OlderPage,
     OlderFails, NewerPage, NewerFails, JumpPage, GotoPage, GotoProbe, JumpFails, SendPage, SendFails
<1>. QED
  BY <1>1 DEF Stale, MentionWaited, Current

\* However many identities and fetches there are: what one identity asked for
\* never reaches the store of the next.
THEOREM StaleAnswers == Spec => StaleAnswersChangeNothing
<1>1. ASSUME [Next]_sbVars, NEW r \in reqs, ~ Current(r), r \notin reqs'
      PROVE  UNCHANGED <<cursor, rows, far, loaded, latches, jumpBusy, resume>>
  <2>1. ~ Operator /\ ~ Network
    BY <1>1, OnlyAnswersRemove
  <2>2. CASE \E q \in reqs : Answered(q) \/ Fails(q)
    <3>1. PICK q \in reqs : Answered(q) \/ Fails(q)
      BY <2>2
    <3>2. q = r
      BY <1>1, <3>1, OneAtATime
    <3>. QED
      BY <1>1, <3>1, <3>2, StaleStep
  <2>3. CASE UNCHANGED sbVars
    BY <1>1, <2>3 DEF sbVars
  <2>. QED
    BY <1>1, <2>1, <2>2, <2>3 DEF Next
<1>2. [Next]_sbVars => [\A r \in reqs : ~Current(r) /\ r \notin reqs' =>
           UNCHANGED <<cursor, rows, far, loaded, latches, jumpBusy, resume>>]_sbVars
  BY <1>1
<1>. QED
  BY <1>2, PTL DEF Spec, StaleAnswersChangeNothing

\* An older page fits under the head it was asked for.
THEOREM OlderPagesAbut == Spec => OlderPageAbuts
<1>1. ASSUME SbTypeOK, SbTypeOK', NEW r \in reqs, OlderPage(r), Contiguous(rows)
      PROVE  Contiguous(rows)'
  <2>1. log' = log /\ Ids' = Ids
    BY <1>1, SameLog DEF OlderPage
  <2>2. CASE ~ IsHead(rows, r.arg)
    BY <1>1, <2>1, <2>2 DEF OlderPage, Contiguous
  <2>3. CASE IsHead(rows, r.arg)
    <3>1. rows' = rows \cup BeforePage(r.arg)
      BY <1>1, <2>3 DEF OlderPage, Merge
    <3>2. ASSUME NEW m \in Ids, NEW h \in rows', NEW l \in rows', h < m, m < l
          PROVE  m \in rows'
      <4>1. log \in Nat /\ rows \subseteq 1..log /\ rows' \subseteq 1..log /\ m \in 1..log /\ r.arg \in 0..log
        BY <1>1, <2>1, OnWire DEF SbTypeOK, Ids
      <4>2. CASE m < r.arg
        <5>1. h \in BeforePage(r.arg)
          BY <2>3, <3>1, <3>2, <4>1, <4>2 DEF IsHead
        <5>2. m \in BeforePage(r.arg)
          BY <3>2, <4>1, <4>2, <5>1, SizesAssumption DEF BeforePage
        <5>. QED
          BY <3>1, <5>2
      <4>3. CASE m = r.arg
        BY <2>3, <3>1, <4>3 DEF IsHead
      <4>4. CASE m > r.arg
        <5>1. r.arg \in rows /\ r.arg < m
          BY <2>3, <4>4 DEF IsHead
        <5>2. l \in rows
          BY <3>1, <3>2, <4>1, <4>4 DEF BeforePage
        <5>. QED
          BY <1>1, <3>1, <3>2, <5>1, <5>2 DEF Contiguous
      <4>. QED
        BY <4>1, <4>2, <4>3, <4>4
    <3>. QED
      BY <2>1, <3>2 DEF Contiguous
  <2>. QED
    BY <2>2, <2>3
<1>2. SbTypeOK /\ SbTypeOK' /\ [Next]_sbVars =>
        [\A r \in reqs : OlderPage(r) /\ Contiguous(rows) => Contiguous(rows)']_sbVars
  BY <1>1
<1>. QED
  BY <1>2, TypeCorrect, PTL DEF Spec, OlderPageAbuts

-----------------------------------------------------------------------------
(* Unread rows.                                                             *)

\* A fetch that may end at the tail knows where the unread region starts.
Marked(r) ==
    /\ r.leg = "tail" => r.from # 0
    /\ r.op = "cold" /\ r.leg = "probe" => r.arg # 0
    /\ r.op = "refresh" /\ r.leg \in {"probe", "target"} => r.arg # 0
    /\ r.op = "refresh" /\ r.leg = "target" => r.from # 0
AllMarked == \A r \in reqs : Marked(r)

\* A fetch is marked by what it was asked with.
LEMMA AskMarked ==
    ASSUME NEW op, NEW leg, NEW arg, NEW from, NEW page
    PROVE  /\ leg \notin {"tail", "probe", "target"} => Marked(Ask(op, leg, arg, from, page))
           /\ arg # 0 /\ from # 0 => Marked(Ask(op, leg, arg, from, page))
           /\ arg # 0 /\ leg = "probe" => Marked(Ask(op, leg, arg, from, page))
           /\ op = "goto" /\ leg = "probe" => Marked(Ask(op, leg, arg, from, page))
BY DEF Marked, Ask

\* The operator and the network ask for no tail, and for a probe only with a
\* cursor to probe from.
LEMMA GesturesMarked ==
    ASSUME AllMarked, Operator \/ Network
    PROVE  AllMarked'
<1>1. ASSUME NEW r, Marked(r), reqs' = reqs \cup {r} PROVE AllMarked'
  BY <1>1 DEF AllMarked
<1>2. Marked(Ask("cold", IF cursor = 0 THEN "newest" ELSE "probe", cursor, 0, {}))
  <2>1. CASE cursor = 0
    BY <2>1, AskMarked
  <2>2. CASE cursor # 0
    BY <2>2, AskMarked
  <2>. QED
    BY <2>1, <2>2
<1>3. ASSUME NEW c, RefreshCall(c) PROVE AllMarked'
  <2>1. Marked(Ask("refresh", "page", ResumeCursor(lastSeen, c, rows), 0, {}))
    BY AskMarked
  <2>2. reqs' = reqs \/ reqs' = reqs \cup {Ask("refresh", "page", ResumeCursor(lastSeen, c, rows), 0, {})}
    BY <1>3 DEF RefreshCall
  <2>. QED
    BY <1>1, <2>1, <2>2 DEF AllMarked
<1>4. CASE reqs' = reqs
  BY <1>4 DEF AllMarked
<1>5. CASE Select
  BY <1>1, <1>2, <1>3, <1>5 DEF Select, ColdCall
<1>6. CASE Reveal
  BY <1>1, <1>2, <1>6 DEF Reveal
<1>7. CASE ScrollUp \/ ScrollDown \/ JumpBack \/ Send
  BY <1>1, <1>7, AskMarked DEF ScrollUp, ScrollDown, JumpBack, Send
<1>8. CASE \E id \in Ids : Mention(id)
  BY <1>1, <1>8, AskMarked DEF Mention
<1>9. CASE Reopen \/ \E c \in {0} \cup Ids : JoinOk(c)
  BY <1>3, <1>9 DEF Reopen, JoinOk
<1>. QED
  BY <1>4, <1>5, <1>6, <1>7, <1>8, <1>9 DEF Operator, Network, Dismiss, Settle, Say, Deliver, Drop,
     Rotate, Echo

\* An answer asks again with the mark it had, or with a row it has just read.
LEMMA AnswersMarked ==
    ASSUME SbTypeOK, AllMarked, NEW r \in reqs, Answered(r) \/ Fails(r)
    PROVE  AllMarked'
<1>0. /\ Marked(r) /\ r.arg \in Nat /\ r.from \in Nat
      /\ \A s \in r.log..log : s \in Nat
  BY OnWire DEF AllMarked, SbTypeOK
<1>1. ASSUME NEW q, Marked(q), reqs' = (reqs \ {r}) \cup {q} PROVE AllMarked'
  BY <1>1 DEF AllMarked
<1>2. CASE reqs' = reqs \ {r}
  BY <1>2 DEF AllMarked
<1>3. ASSUME RefreshEnds(r) PROVE AllMarked'
  <2>1. Marked(Ask("refresh", "page", ResumeCursor(lastSeen', cursor, rows'), 0, {}))
    BY AskMarked
  <2>. HIDE DEF Marked
  <2>. QED
    BY <1>1, <1>2, <1>3, <2>1 DEF RefreshEnds
<1>4. ASSUME NEW s, ColdProbe(r, s) PROVE AllMarked'
  <2>1. r.arg # 0
    BY <1>0, <1>4 DEF ColdProbe, Marked
  <2>2. \A leg : Marked(Ask("cold", leg, r.arg, r.arg, {}))
    BY <2>1, AskMarked
  <2>. QED
    BY <1>1, <1>4, <2>2 DEF ColdProbe
<1>5. ASSUME NEW s \in Nat, RefreshPage(r, s) PROVE AllMarked'
  <2>. DEFINE page == AfterPage(r.arg, s)
  <2>1. CASE Cardinality(page) = Page
    <3>1. NewestOf(page) # 0
      BY <1>0, <2>1, AfterPageNewest
    <3>2. Marked(Ask("refresh", "probe", NewestOf(page), 0, {}))
      BY <3>1, AskMarked
    <3>. QED
      BY <1>1, <1>5, <2>1, <3>2 DEF RefreshPage
  <2>2. CASE Cardinality(page) # Page
    BY <1>3, <1>5, <2>2 DEF RefreshPage
  <2>. QED
    BY <2>1, <2>2
<1>6. ASSUME NEW s, RefreshProbe(r, s) PROVE AllMarked'
  <2>1. r.arg # 0
    BY <1>0, <1>6 DEF RefreshProbe, Marked
  <2>2. /\ Marked(Ask("refresh", "tail", r.arg, r.arg, {}))
        /\ cursor # 0 => Marked(Ask("refresh", "target", r.arg, cursor, {}))
    BY <2>1, AskMarked
  <2>3. CASE FarBehind(r.arg, s)
    <3>1. \/ reqs' = (reqs \ {r}) \cup {Ask("refresh", "tail", r.arg, r.arg, {})}
          \/ cursor # 0 /\ reqs' = (reqs \ {r}) \cup {Ask("refresh", "target", r.arg, cursor, {})}
      BY <1>6, <2>3 DEF RefreshProbe
    <3>. QED
      BY <1>1, <2>2, <3>1
  <2>4. CASE ~ FarBehind(r.arg, s)
    BY <1>3, <1>6, <2>4 DEF RefreshProbe
  <2>. QED
    BY <2>3, <2>4
<1>7. ASSUME NEW from \in {r.from, r.arg}, RefreshTarget(r, from) PROVE AllMarked'
  <2>1. r.arg # 0 /\ from # 0
    BY <1>0, <1>7 DEF RefreshTarget, Marked
  <2>2. Marked(Ask("refresh", "tail", r.arg, from, {}))
    BY <2>1, AskMarked
  <2>. QED
    BY <1>1, <1>7, <2>2 DEF RefreshTarget
<1>8. ASSUME NEW s, GotoPage(r, s) PROVE AllMarked'
  <2>. DEFINE page == AfterPage(r.arg, s) \cup BeforePage(r.arg + 1)
  <2>1. Marked(Ask("goto", "probe", cursor, cursor, page))
    BY AskMarked
  <2>2. reqs' \in {reqs \ {r}, (reqs \ {r}) \cup {Ask("goto", "probe", cursor, cursor, page)}}
    BY <1>8 DEF GotoPage, JumpEnds
  <2>. HIDE DEF page
  <2>. QED
    BY <1>1, <1>2, <2>1, <2>2
<1>9. ASSUME MentionWaited(r) PROVE AllMarked'
  <2>1. Marked(Ask("goto", "around", r.arg, 0, {}))
    BY AskMarked
  <2>2. reqs' \in {reqs \ {r}, (reqs \ {r}) \cup {Ask("goto", "around", r.arg, 0, {})}}
    BY <1>9 DEF MentionWaited
  <2>. QED
    BY <1>1, <1>2, <2>1, <2>2
<1>10. CASE Answered(r)
  BY <1>0, <1>2, <1>3, <1>4, <1>5, <1>6, <1>7, <1>8, <1>9, <1>10 DEF Answered, Answer, ColdNewest,
     ColdAround, ColdTail, ColdEnds, RefreshTail, NewerPage, JumpPage, JumpEnds, OlderPage,
     GotoProbe, SendPage, Stale
<1>11. CASE Fails(r)
  BY <1>2, <1>3, <1>4, <1>6, <1>7, <1>11 DEF Fails, ColdFails, ColdEnds, RefreshFails, OlderFails,
     NewerFails, JumpFails, JumpEnds, SendFails
<1>. QED
  BY <1>10, <1>11

LEMMA MarkedAlways == Spec => []AllMarked
<1>1. Init => AllMarked
  BY DEF Init, AllMarked
<1>2. SbTypeOK /\ AllMarked /\ [Next]_sbVars => AllMarked'
  <2>1. AllMarked /\ UNCHANGED sbVars => AllMarked'
    BY DEF sbVars, AllMarked
  <2>. QED
    BY <2>1, GesturesMarked, AnswersMarked DEF Next
<1>. QED
  BY <1>1, <1>2, TypeCorrect, PTL DEF Spec

\* What the ring takes past the cursor, it takes from under more than a page of
\* unread rows, and then nothing near the cursor is left.
LEMMA CapTakes ==
    ASSUME log \in Nat, cursor \in Nat, NEW rs \in SUBSET Ids, NEW m \in rs,
           m \notin CapScrollbackRing(rs), cursor # 0, m > cursor
    PROVE  /\ UnreadDropped(rs)
           /\ \A k \in CapScrollbackRing(rs) : ~(cursor + 1 >= k)
<1>0. m \in Nat /\ \A k \in rs : k \in Nat
  BY DEF Ids
<1>1. CASE ~ Cardinality({k \in rs : k > cursor}) > Page
  <2>1. m \in {k \in rs : cursor # 0 /\ k >= cursor}
    BY <1>0
  <2>. QED
    BY <1>1, <2>1 DEF CapScrollbackRing
<1>2. CASE Cardinality({k \in rs : k > cursor}) > Page
  <2>1. CapScrollbackRing(rs) = Suffix(rs, Page)
    BY <1>2 DEF CapScrollbackRing
  <2>2. ASSUME NEW k \in Suffix(rs, Page), cursor + 1 >= k PROVE FALSE
    <3>. DEFINE above == {j \in rs : j > cursor}
                from == {j \in rs : j >= k}
    <3>1. k \in rs /\ Cardinality(from) <= Page
      BY <2>2 DEF Suffix
    <3>2. ASSUME NEW j \in above PROVE j \in from
      <4>1. j \in rs /\ j \in Nat /\ j > cursor /\ k \in Nat
        BY <1>0, <3>1
      <4>2. j >= k
        BY <2>2, <4>1
      <4>. QED
        BY <4>1, <4>2
    <3>3. IsFiniteSet(from)
      <4>1. IsFiniteSet(Ids)
        BY FS_Interval DEF Ids
      <4>. QED
        BY <4>1, FS_Subset
    <3>4. Cardinality(above) <= Cardinality(from) /\ Cardinality(from) \in Nat /\ Cardinality(above) \in Nat
      BY <3>2, <3>3, FS_Subset, FS_CardinalityType
    <3>. HIDE DEF from
    <3>. QED
      BY <1>2, <3>1, <3>4, SizesAssumption
  <2>. QED
    BY <1>2, <2>1, <2>2 DEF UnreadDropped
<1>. QED
  BY <1>1, <1>2

\* An append that takes an unread row marks the window.
LEMMA AppendMarks ==
    ASSUME SbTypeOK, NEW page \in SUBSET Ids, Append(page), NEW m \in rows \ rows',
           cursor # 0, m > cursor
    PROVE  far' # 0
<1>. DEFINE merged == rows \cup page
            arrived == {k \in page \ rows : k > NewestOf(rows)} \ own
            marked == IF far = 0
                      THEN IF UnreadDropped(merged) THEN cursor ELSE 0
                      ELSE IF arrived # {} /\ cursor # 0 THEN cursor ELSE far
<1>1. rows' = CapScrollbackRing(merged) /\ far' = Retire(marked, rows', cursor)
  BY DEF Append
<1>2. log \in Nat /\ cursor \in Nat /\ merged \in SUBSET Ids /\ m \in merged
  BY DEF SbTypeOK
<1>. HIDE DEF merged, arrived
<1>3. /\ UnreadDropped(merged)
      /\ \A k \in CapScrollbackRing(merged) : ~(cursor + 1 >= k)
  BY <1>1, <1>2, CapTakes
<1>4. marked # 0
  BY <1>3
<1>. HIDE DEF marked
<1>. QED
  BY <1>1, <1>3, <1>4 DEF Retire

\* The newest page ends at the newest row.
LEMMA NewestPageEnds ==
    ASSUME NEW s \in Nat
    PROVE  NewestOf(NewestPage(s)) = s
<1>1. CASE s = 0
  <2>1. NewestPage(s) = {}
    BY <1>1 DEF NewestPage
  <2>. QED
    BY <1>1, <2>1 DEF NewestOf
<1>2. CASE s # 0
  <2>1. IsLast(NewestPage(s), s) /\ s \in NewestPage(s)
    BY <1>2, SizesAssumption DEF NewestPage, IsLast
  <2>2. \A l \in NewestPage(s) : l \in Nat /\ l <= s
    BY DEF NewestPage
  <2>3. \A l \in NewestPage(s) : IsLast(NewestPage(s), l) => l = s
    BY <2>1, <2>2 DEF IsLast
  <2>. HIDE DEF NewestPage
  <2>. QED
    BY <2>1, <2>3 DEF NewestOf
<1>. QED
  BY <1>1, <1>2

\* An anchoring that takes an unread row leaves the record of where it was.
LEMMA AnchorMarks ==
    ASSUME SbTypeOK, NEW r \in reqs, Marked(r), r.leg = "tail", NEW s \in Nat, AnchorAtTail(r, s),
           NEW m \in rows \ rows', m > cursor
    PROVE  far' # 0
<1>. DEFINE page == NewestPage(s)
<1>1. /\ m \in Nat /\ cursor \in Nat /\ (\A k \in rows : k \in Nat)
      /\ r.from # 0
  BY DEF SbTypeOK, Ids, Marked
<1>2. /\ rows' = page \cup {k \in rows : k > s}
      /\ far' = Retire(r.from, rows', cursor)
  BY NewestPageEnds DEF AnchorAtTail
<1>3. \A k \in page : k \in Nat /\ k + Tail > s
  BY DEF NewestPage
<1>4. m <= s /\ ~(m + Tail > s)
  BY <1>1, <1>2, SizesAssumption DEF NewestPage, SbTypeOK, Ids
<1>. HIDE DEF page
<1>5. ASSUME NEW k \in rows' PROVE k \in Nat /\ k > m
  <2>1. CASE k \in page
    BY <1>1, <1>3, <1>4, <2>1, SizesAssumption
  <2>2. CASE k \in rows /\ k > s
    BY <1>1, <1>4, <2>2
  <2>. QED
    BY <1>2, <2>1, <2>2
<1>6. \A k \in rows' : ~(cursor + 1 >= k)
  BY <1>1, <1>5
<1>. QED
  BY <1>1, <1>2, <1>6 DEF Retire

\* An answer keeps the unread rows, marks the window, or lands a jump.
LEMMA AnswerKeeps ==
    ASSUME SbTypeOK, AllMarked, NEW r \in reqs, Answered(r) \/ Fails(r), NEW m \in rows \ rows',
           cursor # 0, m > cursor'
    PROVE  far' # 0 \/ Landed
<1>0. Marked(r) /\ r.arg \in 0..log /\ \A s \in r.log..log : s \in 0..log /\ s \in Nat
  BY OnWire DEF AllMarked, SbTypeOK
<1>1. rows' # rows
  OBVIOUS
<1>2. CASE \E s \in r.log..log : RefreshPage(r, s)
  <2>1. PICK s \in r.log..log : RefreshPage(r, s)
    BY <1>2
  <2>2. AfterPage(r.arg, s) \in SUBSET Ids /\ Append(AfterPage(r.arg, s)) /\ cursor' = cursor
    BY <1>0, <2>1, PageIds DEF RefreshPage, SbTypeOK
  <2>. QED
    BY <2>2, AppendMarks
<1>3. CASE \E s \in r.log..log : ColdTail(r, s) \/ RefreshTail(r, s)
  <2>1. PICK s \in r.log..log : ColdTail(r, s) \/ RefreshTail(r, s)
    BY <1>3
  <2>2. r.leg = "tail" /\ AnchorAtTail(r, s) /\ cursor' = cursor
    BY <2>1 DEF ColdTail, RefreshTail
  <2>. QED
    BY <1>0, <2>2, AnchorMarks
<1>4. CASE \E s \in r.log..log : JumpPage(r, s)
  BY <1>4 DEF JumpPage, JumpEnds, Landed
<1>5. CASE \E s \in r.log..log : GotoPage(r, s)
  <2>1. r.op = "goto" /\ JumpEnds(r)
    BY <1>1, <1>5 DEF GotoPage
  <2>. QED
    BY <2>1 DEF JumpEnds, Landed
<1>6. CASE GotoProbe(r)
  BY <1>6 DEF GotoProbe, JumpEnds, Landed
<1>7. CASE OlderPage(r) \/ \E s \in r.log..log : ColdNewest(r, s) \/ ColdAround(r, s) \/ NewerPage(r, s)
  <2>1. rows \subseteq rows'
    BY <1>7 DEF OlderPage, ColdNewest, ColdAround, NewerPage, Merge
  <2>. QED
    BY <2>1
<1>8. CASE Answered(r)
  BY <1>1, <1>2, <1>3, <1>4, <1>5, <1>6, <1>7, <1>8 DEF Answered, Answer, ColdProbe, RefreshProbe,
     MentionWaited, RefreshTarget, SendPage, Stale, store
<1>9. CASE Fails(r)
  BY <1>1, <1>9 DEF Fails, ColdFails, ColdProbe, RefreshFails, RefreshProbe, RefreshTarget,
     OlderFails, NewerFails, JumpFails, SendFails, store
<1>. QED
  BY <1>8, <1>9

\* Past the read cursor no row leaves the pane silently: the ring and the
\* anchoring at the tail mark the window as far behind, for every page size,
\* ring and history of fetches.
THEOREM UnreadStays == Spec => UnreadIsKept
<1>1. ASSUME SbTypeOK, AllMarked, [Next]_sbVars, NEW m \in rows \ rows', cursor # 0, m > cursor'
      PROVE  far' # 0 \/ Landed \/ Reveal \/ Rotate
  <2>1. CASE Operator
    BY <1>1, <2>1 DEF Operator, Select, ScrollUp, ScrollDown, JumpBack, Send, Dismiss, Settle,
       Mention, store
  <2>2. CASE Deliver
    <3>1. {next} \in SUBSET Ids /\ Append({next}) /\ cursor' = cursor
      BY <1>1, <2>2 DEF Deliver, SbTypeOK, Ids
    <3>. QED
      BY <1>1, <3>1, AppendMarks
  <2>3. CASE Network /\ ~ Deliver
    BY <1>1, <2>3 DEF Network, Say, Drop, Reopen, JoinOk, Echo, store
  <2>4. CASE \E r \in reqs : Answered(r) \/ Fails(r)
    BY <1>1, <2>4, AnswerKeeps
  <2>5. CASE UNCHANGED sbVars
    BY <1>1, <2>5 DEF sbVars, store
  <2>. QED
    BY <1>1, <2>1, <2>2, <2>3, <2>4, <2>5 DEF Next
<1>2. SbTypeOK /\ AllMarked /\ [Next]_sbVars =>
        [\A m \in rows \ rows' : cursor # 0 /\ m > cursor' => far' # 0 \/ Landed \/ Reveal \/ Rotate]_sbVars
  BY <1>1
<1>. QED
  BY <1>2, TypeCorrect, MarkedAlways, PTL DEF Spec, UnreadIsKept

=============================================================================
