----------------------------- MODULE Scrollback -----------------------------
(***************************************************************************)
(* The scrollback store of the web client: the rows of one window, the     *)
(* fetches that fill it (cold load, reconnect refresh, older and newer     *)
(* pages, the two jumps), the live rows of its topic, and the record that  *)
(* says its unread region is not in the pane ("far behind").               *)
(*                                                                         *)
(* Rows are the server's ids 1..log in order of arrival (server_time       *)
(* follows the id). Every fetch is a record in reqs: it is answered, or    *)
(* fails, at any later moment, from the log as it was at some moment in    *)
(* between; handlers run to completion, everything may happen across an    *)
(* await. Ids stand for whole rows; counts, DOM and wording are left out,  *)
(* and so is the measured count under the divider.                         *)
(***************************************************************************)
EXTENDS Naturals, FiniteSets

CONSTANTS
    Page,       \* PAGE_LIMIT and UNREAD_RETENTION_CAP
    Tail,       \* rows of a page asked for without a limit (server default)
    Ring,       \* SCROLLBACK_RING_CAP
    MaxLog,     \* bound: rows the server ever stores
    MaxReqs,    \* bound: fetches on the wire when the operator starts another
    Sessions    \* bound: the log and read cursor a session starts with, and
                \* how often each disturbance may happen in it

Disturbances == {"drop", "fail", "rotate", "reveal", "echo", "send", "jump", "goto", "settle"}

ASSUME SizesAssumption ==
    /\ Page \in Nat \ {0} /\ Tail \in Nat \ {0} /\ Ring \in Nat \ {0}
    /\ MaxLog \in Nat /\ MaxReqs \in Nat
    /\ Sessions \subseteq [log : Nat, cursor : Nat, budget : [Disturbances -> Nat]]
    /\ \A start \in Sessions : start.cursor <= start.log

VARIABLES
    log,        \* server: newest id; rows 1..log exist
    own,        \* server: the rows this user sent
    conn,       \* socket and topic: down, open (topic not joined), joined
    next,       \* next id the joined topic will push
    tok,        \* the bearer of the current identity
    cursor,     \* local read cursor, 0 for null
    rows,       \* scrollbackByChannel[key]
    far,        \* farBehindByChannel[key].resumeFrom, 0 for no record
    loaded,     \* key in loadedChannels
    coldBusy,   \* key in initialLoadInFlight
    moreOut, moreBusy,     \* loadMoreExhausted, loadMoreInFlight
    newerOut, newerBusy,   \* loadNewerExhausted, loadNewerInFlight
    jumpBusy,   \* jumpInFlight
    lastSeen,   \* reconnectBackfill's high-water mark, 0 for none
    refreshing, queued,    \* refreshInFlight, refreshQueued
    reqs,       \* fetches on the wire
    budget      \* what is left of the disturbances

latches == <<moreOut, moreBusy, newerOut, newerBusy>>
resume == <<lastSeen, refreshing, queued>>
store == <<rows, far, loaded, coldBusy, latches, jumpBusy, resume>>
sbVars == <<log, own, conn, next, tok, cursor, store, reqs, budget>>

Ids == 1..log
IsHead(rs, h) == h \in rs /\ \A m \in rs : h <= m
IsLast(rs, l) == l \in rs /\ \A m \in rs : m <= l
NewestOf(rs) == IF \E l \in rs : IsLast(rs, l) THEN CHOOSE l \in rs : IsLast(rs, l) ELSE 0

Spend(k) == budget[k] > 0 /\ budget' = [budget EXCEPT ![k] = @ - 1]

-----------------------------------------------------------------------------
(* The pages the server answers with, from the log as it was at s.         *)

\* listMessages
NewestPage(s) == {m \in 1..s : m + Tail > s}

\* Seeded defect: one row too many, below the first id.
BeforePage_OffByOne(b) == {m \in 0..b : m < b /\ m + Tail + 1 >= b}

\* listMessages with a before
BeforePage(b) == {m \in 1..b : m < b /\ m + Tail >= b}

\* listMessagesAfter
AfterPage(a, s) == {m \in 1..s : m > a /\ m <= a + Page}

\* countMessagesAfter and isFarBehind
FarBehind(a, s) == s > a + Page

\* The handlers that ask again within one call keep the call's op.
Ask(op, leg, arg, from, page) ==
    [op |-> op, leg |-> leg, tok |-> tok, log |-> log, arg |-> arg, from |-> from, page |-> page]

-----------------------------------------------------------------------------
(* The store's writers.                                                     *)

\* The newest n of a set of rows.
Suffix(rs, n) == {m \in rs : Cardinality({k \in rs : k >= m}) <= n}

\* capScrollbackRing: a page of unread rows at most; else the ring, which
\* never takes a row at or after the cursor.
CapScrollbackRing(rs) ==
    IF cursor # 0 /\ Cardinality({m \in rs : m > cursor}) > Page
    THEN Suffix(rs, Page)
    ELSE Suffix(rs, Ring) \cup {m \in rs : cursor # 0 /\ m >= cursor}

UnreadDropped(rs) == cursor # 0 /\ Cardinality({m \in rs : m > cursor}) > Page

\* The effect that retires the far-behind record once the pane reaches back
\* to the cursor; it runs after every write of the three.
Retire(f, rs, c) == IF f # 0 /\ c # 0 /\ \E m \in rs : c + 1 >= m THEN 0 ELSE f

\* Seeded defect: rows the ring took leave the older end latched.
Append_KeepLatch(page) ==
    /\ IF page \subseteq rows THEN UNCHANGED <<rows, far>>
       ELSE /\ rows' = CapScrollbackRing(rows \cup page)
            /\ far' = Retire(IF far = 0 /\ UnreadDropped(rows \cup page) THEN cursor ELSE far,
                             rows', cursor)
    /\ UNCHANGED moreOut

\* appendPageToScrollback: merge, cap, and the record of what the cap took.
Append(page) ==
    LET merged == rows \cup page
        arrived == {m \in page \ rows : m > NewestOf(rows)} \ own
        marked == IF far = 0
                  THEN IF UnreadDropped(merged) THEN cursor ELSE 0
                  ELSE IF arrived # {} /\ cursor # 0 THEN cursor ELSE far
    IN  IF page \subseteq rows THEN UNCHANGED <<rows, far, moreOut>>
        ELSE /\ rows' = CapScrollbackRing(merged)
             /\ moreOut' = (moreOut /\ rows' = merged)
             /\ far' = Retire(marked, rows', cursor)

\* mergeIntoScrollback: no cap.
Merge(page) ==
    /\ rows' = rows \cup page
    /\ far' = Retire(far, rows', cursor)

Seen(page) == lastSeen' = IF NewestOf(page) > lastSeen THEN NewestOf(page) ELSE lastSeen

\* setReadCursor's local half: it only advances.
Advance(c) == cursor' = IF c > cursor THEN c ELSE cursor

\* getResumeCursor, with refreshScrollback's fallbacks.
ResumeCursor(seen, c, rs) == IF seen # 0 THEN seen ELSE IF c # 0 THEN c ELSE NewestOf(rs)

-----------------------------------------------------------------------------
(* Starting fetches.                                                        *)

\* loadInitialScrollback up to its first await: once per window.
ColdCall ==
    /\ ~loaded
    /\ loaded' = TRUE /\ coldBusy' = TRUE
    /\ reqs' = reqs \cup {Ask("cold", IF cursor = 0 THEN "newest" ELSE "probe", cursor, 0, {})}

\* refreshScrollback up to its first await; c is the cursor it reads.
RefreshCall(c) ==
    IF refreshing THEN queued' = TRUE /\ UNCHANGED <<refreshing, reqs>>
    ELSE /\ refreshing' = TRUE /\ UNCHANGED queued
         /\ reqs' = reqs \cup {Ask("refresh", "page", ResumeCursor(lastSeen, c, rows), 0, {})}

\* selection effect: the window is opened.
Select ==
    /\ Cardinality(reqs) < MaxReqs
    /\ IF loaded THEN RefreshCall(cursor) /\ UNCHANGED <<loaded, coldBusy>>
                 ELSE ColdCall /\ UNCHANGED <<refreshing, queued>>
    /\ UNCHANGED <<log, own, conn, next, tok, cursor, rows, far, latches, jumpBusy, lastSeen, budget>>

\* loadMore: the pane was scrolled to its oldest row.
ScrollUp ==
    /\ Cardinality(reqs) < MaxReqs
    /\ ~moreOut /\ ~moreBusy
    /\ \E h \in rows : IsHead(rows, h) /\ reqs' = reqs \cup {Ask("older", "page", h, 0, {})}
    /\ moreBusy' = TRUE
    /\ UNCHANGED <<log, own, conn, next, tok, cursor, rows, far, loaded, coldBusy, moreOut,
                   newerOut, newerBusy, jumpBusy, resume, budget>>

\* loadNewer: the pane was scrolled to its newest row.
ScrollDown ==
    /\ Cardinality(reqs) < MaxReqs
    /\ ~newerOut /\ ~newerBusy
    /\ \E l \in rows : IsLast(rows, l) /\ reqs' = reqs \cup {Ask("newer", "page", l, 0, {})}
    /\ newerBusy' = TRUE
    /\ UNCHANGED <<log, own, conn, next, tok, cursor, rows, far, loaded, coldBusy, moreOut,
                   moreBusy, newerOut, jumpBusy, resume, budget>>

\* jumpToUnread: the banner's jump back.
JumpBack ==
    /\ Cardinality(reqs) < MaxReqs
    /\ far # 0 /\ ~jumpBusy /\ Spend("jump")
    /\ jumpBusy' = TRUE
    /\ reqs' = reqs \cup {Ask("jump", "around", far, far, {})}
    /\ UNCHANGED <<log, own, conn, next, tok, cursor, rows, far, loaded, coldBusy, latches, resume>>

\* jumpToMessage up to its first await: a cold load in flight goes first.
Mention(id) ==
    /\ Cardinality(reqs) < MaxReqs
    /\ loaded /\ Spend("goto")
    /\ reqs' = reqs \cup {Ask("goto", "wait", id, 0, {})}
    /\ UNCHANGED <<log, own, conn, next, tok, cursor, store>>

\* jumpToMessage after that wait.
MentionWaited(r) ==
    /\ r.op = "goto" /\ r.leg = "wait" /\ ~coldBusy
    /\ IF r.tok # tok \/ r.arg \in rows \/ jumpBusy
       THEN reqs' = reqs \ {r} /\ UNCHANGED jumpBusy
       ELSE /\ reqs' = (reqs \ {r}) \cup {Ask("goto", "around", r.arg, 0, {})}
            /\ jumpBusy' = TRUE
    /\ UNCHANGED <<log, own, conn, next, tok, cursor, rows, far, loaded, coldBusy, latches, resume>>

\* sendMessage: the server stores the row; its answer moves the cursor.
Send ==
    /\ Cardinality(reqs) < MaxReqs
    /\ log < MaxLog /\ Spend("send")
    /\ log' = log + 1 /\ own' = own \cup {log + 1}
    /\ reqs' = reqs \cup {Ask("send", "post", log + 1, 0, {})}
    /\ UNCHANGED <<conn, next, tok, cursor, store>>

-----------------------------------------------------------------------------
(* Answers. s is the log the server answered from.                          *)

Current(r) == r.tok = tok

\* loadInitialScrollback's finally runs whoever is signed in.
ColdEnds(r) == coldBusy' = FALSE /\ reqs' = reqs \ {r}

\* A window nobody has read here: the newest page, marked as read.
ColdNewest(r, s) ==
    /\ r.op = "cold" /\ r.leg = "newest" /\ Current(r)
    /\ rows' = rows \cup NewestPage(s)
    /\ cursor' = IF cursor = 0 THEN s ELSE cursor
    /\ far' = Retire(far, rows', cursor')
    /\ ColdEnds(r)
    /\ UNCHANGED <<log, own, conn, next, tok, loaded, latches, jumpBusy, resume>>

\* The probe decides between the tail and the region around the cursor; a
\* failed one keeps the region.
ColdProbe(r, s) ==
    /\ r.op = "cold" /\ r.leg = "probe" /\ Current(r)
    /\ reqs' = (reqs \ {r}) \cup
                 {Ask("cold", IF FarBehind(r.arg, s) THEN "tail" ELSE "around", r.arg, r.arg, {})}
    /\ UNCHANGED <<log, own, conn, next, tok, cursor, store>>

\* Unread and read context, unless a refresh has moved the pane to the tail.
ColdAround(r, s) ==
    /\ r.op = "cold" /\ r.leg = "around" /\ Current(r)
    /\ IF far = 0 THEN Merge(AfterPage(r.arg, s) \cup BeforePage(r.arg + 1))
                  ELSE UNCHANGED <<rows, far>>
    /\ ColdEnds(r)
    /\ UNCHANGED <<log, own, conn, next, tok, cursor, loaded, latches, jumpBusy, resume>>

\* A failed page reopens the load-once gate.
ColdFails(r) ==
    /\ r.op = "cold" /\ r.leg # "probe" /\ Current(r)
    /\ loaded' = FALSE
    /\ ColdEnds(r)
    /\ UNCHANGED <<log, own, conn, next, tok, cursor, rows, far, latches, jumpBusy, resume>>

\* Seeded defect: the queued refresh is not issued again.
RefreshEnds_Forget(r) ==
    /\ refreshing' = FALSE /\ UNCHANGED queued /\ reqs' = reqs \ {r}

\* refreshScrollback's finally: a refresh queued meanwhile is issued now.
RefreshEnds(r) ==
    /\ refreshing' = queued /\ queued' = FALSE
    /\ reqs' = (reqs \ {r}) \cup
               IF queued THEN {Ask("refresh", "page", ResumeCursor(lastSeen', cursor, rows'), 0, {})}
                         ELSE {}

\* The page after the resume cursor; a full one asks how much is left.
RefreshPage(r, s) ==
    LET page == AfterPage(r.arg, s)
    IN  /\ r.op = "refresh" /\ r.leg = "page" /\ Current(r)
        /\ Append(page) /\ Seen(page)
        /\ IF Cardinality(page) = Page
           THEN /\ newerOut' = FALSE
                /\ reqs' = (reqs \ {r}) \cup {Ask("refresh", "probe", NewestOf(page), 0, {})}
                /\ UNCHANGED <<refreshing, queued>>
           ELSE RefreshEnds(r) /\ UNCHANGED newerOut
        /\ UNCHANGED <<log, own, conn, next, tok, cursor, loaded, coldBusy, moreBusy, newerBusy,
                       jumpBusy>>

\* resolveJumpTarget up to its await: the jump lands on the read cursor.
RefreshProbe(r, s) ==
    /\ r.op = "refresh" /\ r.leg = "probe" /\ Current(r)
    /\ UNCHANGED <<rows, lastSeen>>
    /\ IF FarBehind(r.arg, s)
       THEN /\ reqs' = (reqs \ {r}) \cup
                 {IF cursor = 0 \/ cursor >= r.arg THEN Ask("refresh", "tail", r.arg, r.arg, {})
                                                   ELSE Ask("refresh", "target", r.arg, cursor, {})}
            /\ UNCHANGED <<refreshing, queued>>
       ELSE RefreshEnds(r)
    /\ UNCHANGED <<log, own, conn, next, tok, cursor, far, loaded, coldBusy, latches, jumpBusy>>

\* resolveJumpTarget's own probe: when it fails the anchor has to do.
RefreshTarget(r, from) ==
    /\ r.op = "refresh" /\ r.leg = "target" /\ Current(r)
    /\ reqs' = (reqs \ {r}) \cup {Ask("refresh", "tail", r.arg, from, {})}
    /\ UNCHANGED <<log, own, conn, next, tok, cursor, store>>

\* Seeded defect: live rows that arrived during the await are overwritten.
AnchorAtTail_Overwrite(r, s) ==
    LET page == NewestPage(s)
    IN  /\ rows' = page
        /\ Seen(page)
        /\ moreOut' = FALSE
        /\ far' = Retire(r.from, rows', cursor)

\* anchorAtTail: the newest page replaces all but the rows newer than it.
AnchorAtTail(r, s) ==
    LET page == NewestPage(s)
    IN  /\ rows' = page \cup {m \in rows : m > NewestOf(page)}
        /\ Seen(page)
        /\ moreOut' = FALSE
        /\ far' = Retire(r.from, rows', cursor)

ColdTail(r, s) ==
    /\ r.op = "cold" /\ r.leg = "tail" /\ Current(r)
    /\ AnchorAtTail(r, s)
    /\ ColdEnds(r)
    /\ UNCHANGED <<log, own, conn, next, tok, cursor, loaded, moreBusy, newerOut, newerBusy,
                   jumpBusy, refreshing, queued>>

RefreshTail(r, s) ==
    /\ r.op = "refresh" /\ r.leg = "tail" /\ Current(r)
    /\ AnchorAtTail(r, s)
    /\ RefreshEnds(r)
    /\ UNCHANGED <<log, own, conn, next, tok, cursor, loaded, coldBusy, moreBusy, newerOut,
                   newerBusy, jumpBusy>>

\* The page or the tail cannot be had.
RefreshFails(r) ==
    /\ r.op = "refresh" /\ r.leg \in {"page", "tail"} /\ Current(r)
    /\ UNCHANGED <<rows, lastSeen>>
    /\ RefreshEnds(r)
    /\ UNCHANGED <<log, own, conn, next, tok, cursor, far, loaded, coldBusy, latches, jumpBusy>>

\* Seeded defect: the page is merged whatever heads the pane by now.
OlderPage_AnyHead(r) ==
    /\ r.op = "older" /\ Current(r)
    /\ Merge(BeforePage(r.arg))
    /\ moreOut' = (moreOut \/ BeforePage(r.arg) = {})
    /\ moreBusy' = FALSE
    /\ reqs' = reqs \ {r}
    /\ UNCHANGED <<log, own, conn, next, tok, cursor, loaded, coldBusy, newerOut, newerBusy,
                   jumpBusy, resume>>

\* loadMore after its await: a page for another head is dropped; an empty one
\* means nothing is older.
OlderPage(r) ==
    /\ r.op = "older" /\ Current(r)
    /\ IF IsHead(rows, r.arg)
       THEN /\ Merge(BeforePage(r.arg))
            /\ moreOut' = (moreOut \/ BeforePage(r.arg) = {})
       ELSE UNCHANGED <<rows, far, moreOut>>
    /\ moreBusy' = FALSE
    /\ reqs' = reqs \ {r}
    /\ UNCHANGED <<log, own, conn, next, tok, cursor, loaded, coldBusy, newerOut, newerBusy,
                   jumpBusy, resume>>

OlderFails(r) ==
    /\ r.op = "older" /\ Current(r)
    /\ moreBusy' = FALSE
    /\ reqs' = reqs \ {r}
    /\ UNCHANGED <<log, own, conn, next, tok, cursor, rows, far, loaded, coldBusy, moreOut,
                   newerOut, newerBusy, jumpBusy, resume>>

\* loadNewer after its await: no look at what the pane is by now.
NewerPage(r, s) ==
    /\ r.op = "newer" /\ Current(r)
    /\ IF AfterPage(r.arg, s) = {}
       THEN newerOut' = TRUE /\ UNCHANGED <<rows, far>>
       ELSE Merge(AfterPage(r.arg, s)) /\ UNCHANGED newerOut
    /\ newerBusy' = FALSE
    /\ reqs' = reqs \ {r}
    /\ UNCHANGED <<log, own, conn, next, tok, cursor, loaded, coldBusy, moreOut, moreBusy,
                   jumpBusy, resume>>

NewerFails(r) ==
    /\ r.op = "newer" /\ Current(r)
    /\ newerBusy' = FALSE
    /\ reqs' = reqs \ {r}
    /\ UNCHANGED <<log, own, conn, next, tok, cursor, rows, far, loaded, coldBusy, moreOut,
                   moreBusy, newerOut, jumpBusy, resume>>

JumpEnds(r) == jumpBusy' = FALSE /\ reqs' = reqs \ {r}

\* jumpToUnread: the region around the resume point replaces the pane.
JumpPage(r, s) ==
    /\ r.op = "jump" /\ Current(r)
    /\ rows' = AfterPage(r.arg, s) \cup BeforePage(r.arg + 1)
    /\ far' = 0
    /\ newerOut' = FALSE /\ moreOut' = FALSE
    /\ JumpEnds(r)
    /\ UNCHANGED <<log, own, conn, next, tok, cursor, loaded, coldBusy, moreBusy, newerBusy,
                   resume>>

\* jumpToMessage's pages: the before page is a hole's sign only when it is as
\* long as a forward page.
Holed(before, oldest) ==
    /\ cursor # 0 /\ oldest > cursor + 1
    /\ Cardinality(before) = Page
    /\ far = 0

\* jumpToMessage's swap, with the record a measured hole leaves.
Land(page, from) ==
    /\ rows' = page
    /\ newerOut' = FALSE /\ moreOut' = FALSE
    /\ far' = Retire(IF from # 0 THEN from ELSE far, page, cursor)

GotoPage(r, s) ==
    LET before == BeforePage(r.arg + 1)
        page == AfterPage(r.arg, s) \cup before
    IN  /\ r.op = "goto" /\ r.leg = "around" /\ Current(r)
        /\ \E oldest \in page : IsHead(page, oldest) /\
             IF Holed(before, oldest)
             THEN /\ reqs' = (reqs \ {r}) \cup {Ask("goto", "probe", cursor, cursor, page)}
                  /\ UNCHANGED <<rows, far, newerOut, moreOut, jumpBusy>>
             ELSE Land(page, 0) /\ JumpEnds(r)
        /\ UNCHANGED <<log, own, conn, next, tok, cursor, loaded, coldBusy, moreBusy, newerBusy,
                       resume>>

GotoProbe(r) ==
    /\ r.op = "goto" /\ r.leg = "probe" /\ Current(r)
    /\ Land(r.page, r.from)
    /\ JumpEnds(r)
    /\ UNCHANGED <<log, own, conn, next, tok, cursor, loaded, coldBusy, moreBusy, newerBusy,
                   resume>>

\* Either jump fails: the pane stays as it is.
JumpFails(r) ==
    /\ r.op \in {"jump", "goto"} /\ r.leg # "wait" /\ Current(r)
    /\ JumpEnds(r)
    /\ UNCHANGED <<log, own, conn, next, tok, cursor, rows, far, loaded, coldBusy, latches, resume>>

\* sendMessage's answer: the sender has read up to the own row.
SendPage(r) ==
    /\ r.op = "send" /\ Current(r)
    /\ cursor' = IF rows # {} /\ r.arg > cursor THEN r.arg ELSE cursor
    /\ far' = Retire(far, rows, cursor')
    /\ reqs' = reqs \ {r}
    /\ UNCHANGED <<log, own, conn, next, tok, rows, loaded, coldBusy, latches, jumpBusy, resume>>

SendFails(r) ==
    /\ r.op = "send" /\ Current(r)
    /\ reqs' = reqs \ {r}
    /\ UNCHANGED <<log, own, conn, next, tok, cursor, store>>

\* Seeded defect: anchorAtTail does not ask who is signed in.
Stale_Anchors(r) ==
    /\ r.tok # tok /\ r.leg # "wait"
    /\ reqs' = reqs \ {r}
    /\ coldBusy' = IF r.op = "cold" THEN FALSE ELSE coldBusy
    /\ IF r.leg = "tail" THEN AnchorAtTail(r, r.log) ELSE UNCHANGED <<rows, far, lastSeen, moreOut>>
    /\ UNCHANGED <<log, own, conn, next, tok, cursor, loaded, moreBusy, newerOut, newerBusy,
                   jumpBusy, refreshing, queued>>

\* identityMoved: an answer for another identity ends the call, and only the
\* cold load's own marker is cleared.
Stale(r) ==
    /\ r.tok # tok /\ r.leg # "wait"
    /\ reqs' = reqs \ {r}
    /\ coldBusy' = IF r.op = "cold" THEN FALSE ELSE coldBusy
    /\ UNCHANGED <<log, own, conn, next, tok, cursor, rows, far, loaded, latches, jumpBusy, resume>>

\* An answer, or the end of a call whose identity is gone.
Answer(r) ==
    \/ \E s \in r.log..log :
         \/ ColdNewest(r, s)
         \/ ColdProbe(r, s)
         \/ ColdAround(r, s)
         \/ ColdTail(r, s)
         \/ RefreshPage(r, s)
         \/ RefreshProbe(r, s)
         \/ RefreshTail(r, s)
         \/ NewerPage(r, s)
         \/ JumpPage(r, s)
         \/ GotoPage(r, s)
    \/ MentionWaited(r)
    \/ RefreshTarget(r, r.from)
    \/ OlderPage(r)
    \/ GotoProbe(r)
    \/ SendPage(r)
    \/ Stale(r)

Answered(r) == Answer(r) /\ UNCHANGED budget

\* A fetch fails. A failed probe is taken for no gap.
Fails(r) ==
    /\ Spend("fail")
    /\ \/ ColdFails(r)
       \/ ColdProbe(r, 0)
       \/ RefreshFails(r)
       \/ RefreshProbe(r, 0)
       \/ RefreshTarget(r, r.arg)
       \/ OlderFails(r)
       \/ NewerFails(r)
       \/ JumpFails(r)
       \/ SendFails(r)

-----------------------------------------------------------------------------
(* The server, the socket, the other devices and the operator.              *)

Say ==
    /\ log < MaxLog
    /\ log' = log + 1
    /\ UNCHANGED <<own, conn, next, tok, cursor, store, reqs, budget>>

\* routeMessage: a live row of the joined topic, in order.
Deliver ==
    /\ conn = "joined" /\ next <= log
    /\ Append({next}) /\ Seen({next})
    /\ next' = next + 1
    /\ UNCHANGED <<log, own, conn, tok, cursor, loaded, coldBusy, moreBusy, newerOut, newerBusy,
                   jumpBusy, refreshing, queued, reqs, budget>>

\* The socket closes; what the topic was about to push is gone.
Drop ==
    /\ conn # "down" /\ Spend("drop")
    /\ conn' = "down"
    /\ UNCHANGED <<log, own, next, tok, cursor, store, reqs>>

\* The socket opens: the sweep refreshes before the topic has rejoined.
Reopen ==
    /\ conn = "down" /\ conn' = "open"
    /\ RefreshCall(cursor)
    /\ UNCHANGED <<log, own, next, tok, cursor, rows, far, loaded, coldBusy, latches, jumpBusy,
                   lastSeen, budget>>

\* joinRealChannel's ok: the subscription starts here; the reply's cursor c
\* only advances the local one; then a refresh.
JoinOk(c) ==
    /\ conn = "open" /\ conn' = "joined"
    /\ next' = log + 1
    /\ IF c > cursor THEN Spend("echo") ELSE UNCHANGED budget
    /\ Advance(c)
    /\ far' = Retire(far, rows, cursor')
    /\ RefreshCall(cursor')
    /\ UNCHANGED <<log, own, tok, rows, loaded, coldBusy, latches, jumpBusy, lastSeen>>

\* read_cursor_set: another device read to c; applied as it comes.
Echo(c) ==
    /\ conn = "joined" /\ c # cursor /\ Spend("echo")
    /\ cursor' = c
    /\ far' = Retire(far, rows, c)
    /\ UNCHANGED <<log, own, conn, next, tok, rows, loaded, coldBusy, latches, jumpBusy, resume, reqs>>

\* setCursorIfAdvances: a row the operator has in view; frozen while far.
Settle(m) ==
    /\ far = 0 /\ m > cursor /\ Spend("settle")
    /\ cursor' = m
    /\ UNCHANGED <<log, own, conn, next, tok, store, reqs>>

\* dismissFarBehind: the banner's x, or leaving the window.
Dismiss ==
    /\ far # 0
    /\ far' = 0
    /\ Advance(NewestOf(rows))
    /\ UNCHANGED <<log, own, conn, next, tok, rows, loaded, coldBusy, latches, jumpBusy, resume, reqs, budget>>

\* purgeScrollback and a cold load: presence rows are shown again.
Reveal ==
    /\ Cardinality(reqs) < MaxReqs
    /\ rows # {} \/ loaded
    /\ Spend("reveal")
    /\ rows' = {} /\ far' = 0
    /\ moreOut' = FALSE /\ moreBusy' = FALSE /\ newerOut' = FALSE /\ newerBusy' = FALSE
    /\ loaded' = TRUE /\ coldBusy' = TRUE
    /\ reqs' = reqs \cup {Ask("cold", IF cursor = 0 THEN "newest" ELSE "probe", cursor, 0, {})}
    /\ UNCHANGED <<log, own, conn, next, tok, cursor, jumpBusy, resume>>

\* onIdentityChange: another bearer; the cold load's marker is not scoped.
Rotate ==
    /\ Spend("rotate")
    /\ tok' = tok + 1
    /\ conn' = "open" /\ cursor' = 0
    /\ rows' = {} /\ far' = 0 /\ loaded' = FALSE
    /\ moreOut' = FALSE /\ moreBusy' = FALSE /\ newerOut' = FALSE /\ newerBusy' = FALSE
    /\ jumpBusy' = FALSE /\ lastSeen' = 0 /\ refreshing' = FALSE /\ queued' = FALSE
    /\ UNCHANGED <<log, own, next, coldBusy, reqs>>

Init ==
    /\ \E start \in Sessions : log = start.log /\ cursor = start.cursor /\ budget = start.budget
    /\ own = {}
    /\ conn = "open" /\ next = log + 1 /\ tok = 0
    /\ rows = {} /\ far = 0 /\ loaded = FALSE /\ coldBusy = FALSE
    /\ moreOut = FALSE /\ moreBusy = FALSE /\ newerOut = FALSE /\ newerBusy = FALSE
    /\ jumpBusy = FALSE /\ lastSeen = 0 /\ refreshing = FALSE /\ queued = FALSE
    /\ reqs = {}

Operator ==
    \/ Select \/ ScrollUp \/ ScrollDown \/ JumpBack \/ Send \/ Dismiss \/ Reveal
    \/ \E m \in rows : Settle(m)
    \/ \E id \in Ids : Mention(id)

Network ==
    \/ Say \/ Deliver \/ Drop \/ Reopen \/ Rotate
    \/ \E c \in {0} \cup Ids : JoinOk(c)
    \/ \E c \in Ids : Echo(c)

Next ==
    \/ Operator
    \/ Network
    \/ \E r \in reqs : Answered(r) \/ Fails(r)

\* A fetch on the wire settles one day (the answer, a timeout, a reset).
Spec == Init /\ [][Next]_sbVars /\ WF_sbVars(\E r \in reqs : r.op = "refresh" /\ (Answered(r) \/ Fails(r)))

-----------------------------------------------------------------------------
(* Properties.                                                              *)

Ops == {"cold", "refresh", "older", "newer", "jump", "goto", "send"}
Legs == {"newest", "probe", "around", "tail", "page", "target", "wait", "post"}
Requests == [op : Ops, leg : Legs, tok : Nat, log : 0..log, arg : 0..log, from : 0..log,
             page : SUBSET Ids]

\* What the store holds: rows the server has, marks within the log, and
\* fetches that carry what their handlers need.
SbTypeOK ==
    /\ log \in Nat /\ own \subseteq Ids /\ rows \subseteq Ids
    /\ conn \in {"down", "open", "joined"}
    /\ next \in 1..(log + 1) /\ tok \in Nat
    /\ cursor \in 0..log /\ far \in 0..log /\ lastSeen \in 0..log
    /\ loaded \in BOOLEAN /\ coldBusy \in BOOLEAN /\ jumpBusy \in BOOLEAN
    /\ moreOut \in BOOLEAN /\ moreBusy \in BOOLEAN
    /\ newerOut \in BOOLEAN /\ newerBusy \in BOOLEAN
    /\ refreshing \in BOOLEAN /\ queued \in BOOLEAN
    /\ reqs \subseteq Requests
    /\ budget \in [Disturbances -> Nat]

\* loadMore stops asking (loadMoreExhausted) only when the pane holds the
\* first row there is: whatever moved the older end since has unlatched it.
MoreOutIsTrue == moreOut => 1 \in rows

\* Nothing the server holds is missing between two rows of rs.
Contiguous(rs) == \A m \in Ids : (\E h \in rs : h < m) /\ (\E l \in rs : m < l) => m \in rs

\* An older page never leaves rows missing between itself and the pane, even
\* when the pane was replaced while the page was on its way (loadMore).
OlderPageAbuts ==
    [][\A r \in reqs : OlderPage(r) /\ Contiguous(rows) => Contiguous(rows)']_sbVars

\* The answer of a fetch of another identity changes nothing that belongs to
\* this one, at any of the awaits of any of the calls (identityMoved).
StaleAnswersChangeNothing ==
    [][\A r \in reqs : ~Current(r) /\ r \notin reqs' =>
         UNCHANGED <<cursor, rows, far, loaded, latches, jumpBusy, resume>>]_sbVars

\* A jump's answer, which replaces the pane on request.
Landed == \E r \in reqs : r.op \in {"jump", "goto"} /\ r \notin reqs'

\* A row past the read cursor leaves the pane only when the window is marked
\* as far behind (capScrollbackRing, anchorAtTail), never silently.
UnreadIsKept ==
    [][\A m \in rows \ rows' : cursor # 0 /\ m > cursor' => far' # 0 \/ Landed \/ Reveal \/ Rotate]_sbVars

\* A refresh asked for while another runs is issued when that one ends: it is
\* the only one ordered after the new subscription (refreshScrollback).
RefreshIsAnswered == queued ~> ~queued

\* No fetch of this identity is on the wire.
Quiet == \A r \in reqs : ~Current(r)

\* What a comment of refreshScrollback claims ("the re-run closes the hole"),
\* and the program does not keep: no row is missing between two rows of the
\* pane once every fetch has settled.
NoSilentHole == Quiet => Contiguous(rows)

=============================================================================
