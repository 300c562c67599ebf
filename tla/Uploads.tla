------------------------------- MODULE Uploads -------------------------------
(***************************************************************************)
(* The upload orchestrator of the web client: files picked in a window     *)
(* pass the privacy notice and the send confirm, wait in the window's      *)
(* queue, are prepared and uploaded one at a time, and each link is posted *)
(* where its file was picked. A run is one call of dispatchUpload past its *)
(* first await; it is live while the window holds its AbortController.     *)
(*                                                                         *)
(* Files are numbers in the order they are picked. Progress, labels, ttl   *)
(* and the texts of errors are left out.                                   *)
(***************************************************************************)
EXTENDS Integers, Sequences, FiniteSets

CONSTANTS
    Windows,    \* channel keys
    NoWindow,
    MaxFiles,   \* bound: files ever picked
    MaxRuns,    \* bound: calls of dispatchUpload not settled yet when files are picked
    Sessions    \* bound: what the files are, the opt-in, and how many shares,
                \* retries and changes of identity may happen

Files == 1..MaxFiles

\* plain; video to be transcoded; clip: video to be sent as it is; huge: over
\* the host's cap; alien: of a type the host refuses.
Kinds == {"plain", "video", "clip", "huge", "alien"}
Disturbances == {"share", "retry", "rotate"}

ASSUME UploadAssumption ==
    /\ NoWindow \notin Windows
    /\ MaxFiles \in Nat /\ MaxRuns \in Nat
    /\ Sessions \subseteq [kind : [Files -> Kinds], confirm : BOOLEAN,
                           budget : [Disturbances -> Nat]]

VARIABLES
    kind,       \* what each file turns out to be
    confirmOn,  \* uploadConfirmEnabled
    budget,     \* what is left of the disturbances
    tok,        \* the bearer; 0: signed out
    picker,     \* history: the bearer each file was picked under, 0: not picked
    win,        \* per window: inflight, queue, entry, lastAttempt, batch
    runs,       \* calls of dispatchUpload awaiting something, or rejected
    modal,      \* modalState: the window the privacy notice is open for
    pending,    \* pendingTrigger: the files waiting behind it
    acked,      \* the notice was remembered
    asking,     \* the send confirm: its window and files
    posted,     \* links posted: the file and the bearer they went out under
    behind      \* history: the windows whose files were left to the open notice

store == <<win, runs, modal, pending, acked, asking>>
upVars == <<kind, confirmOn, budget, tok, picker, store, posted, behind>>

Picked == {f \in Files : picker[f] # 0}
Batches == {<<>>} \cup {[i \in 1..n |-> Cardinality(Picked) + i] : n \in 1..2}
NoAsk == [key |-> NoWindow, files |-> <<>>]
Spend(k) == budget[k] > 0 /\ budget' = [budget EXCEPT ![k] = @ - 1]

-----------------------------------------------------------------------------
(* The window's queue. c is the controller a dispatch would create.         *)

Fresh == CHOOSE c \in 1..(Cardinality(runs) + 1) : \A r \in runs : r.ctl # c

\* dispatchUpload up to its first await. A refused type leaves what is in
\* flight alone; anything else replaces it.
Dispatch(w, f, c) ==
    CASE kind[f] = "alien" -> [w EXCEPT !.last = f, !.entry = "error"]
      [] kind[f] = "huge" -> [w EXCEPT !.last = f, !.entry = "error", !.inflight = 0]
      [] kind[f] = "clip" -> [w EXCEPT !.last = f, !.inflight = c]
      [] OTHER -> [w EXCEPT !.last = f, !.inflight = c, !.entry = "busy"]

\* The call goes on when it holds the window.
Begun(k, w, c) ==
    IF w.inflight # c THEN {}
    ELSE {[ctl |-> c, key |-> k, file |-> w.last,
           leg |-> CASE kind[w.last] = "video" -> "transcode"
                     [] kind[w.last] = "clip" -> "probe"
                     [] OTHER -> "upload"]}

\* pumpQueue
Pump(w, c) ==
    IF w.queue = <<>> THEN [w EXCEPT !.index = 0, !.total = 0]
    ELSE LET rest == Tail(w.queue)
             total == IF w.total # 0 THEN w.total ELSE Len(rest) + 1
         IN  Dispatch([w EXCEPT !.queue = rest, !.index = total - Len(rest), !.total = total],
                      Head(w.queue), c)

\* Seeded defect: the batch counter restarts with every selection.
Enqueued_Restart(w, fs, active) ==
    [w EXCEPT !.queue = @ \o fs, !.index = 0, !.total = Len(fs)]

\* enqueueUploads: the counter grows while a batch is ongoing.
Enqueued(w, fs, active) ==
    IF active \/ w.queue # <<>>
    THEN [w EXCEPT !.queue = @ \o fs, !.total = @ + Len(fs)]
    ELSE [w EXCEPT !.queue = fs, !.index = 0, !.total = Len(fs)]

\* isActive, with the notice open for m.
Active(k, m) == win[k].inflight # 0 \/ m = k

Become(k, w, ended) ==
    /\ win' = [win EXCEPT ![k] = w]
    /\ runs' = (runs \ ended) \cup Begun(k, w, Fresh)

\* enqueueUploads: a busy window's queue is drained by whatever it waits for.
Enqueue(k, fs, m) ==
    LET w == Enqueued(win[k], fs, Active(k, m))
    IN  IF fs = <<>> THEN UNCHANGED <<win, runs>>
        ELSE Become(k, IF Active(k, m) THEN w ELSE Pump(w, Fresh), {})

-----------------------------------------------------------------------------
(* The doors.                                                               *)

\* What follows the notice: the confirm when it is opted in, else the queue.
Proceed(k, fs, m) ==
    IF confirmOn THEN asking' = [key |-> k, files |-> fs] /\ UNCHANGED <<win, runs>>
                 ELSE Enqueue(k, fs, m) /\ UNCHANGED asking

\* triggerUploads
Trigger(k, fs) ==
    /\ fs # <<>> /\ Cardinality(Picked) + Len(fs) <= MaxFiles
    /\ picker' = [f \in Files |-> IF \E i \in 1..Len(fs) : fs[i] = f THEN tok ELSE picker[f]]
    /\ IF acked THEN Proceed(k, fs, modal) /\ UNCHANGED <<modal, pending>>
       ELSE modal' = k /\ pending' = fs /\ UNCHANGED <<win, runs, asking>>
    /\ UNCHANGED <<kind, confirmOn, tok, acked, posted, behind>>

\* Nothing covers the compose box.
Free == tok # 0 /\ modal = NoWindow /\ asking = NoAsk /\ Cardinality(runs) < MaxRuns

\* The picker, a drop or a paste.
Pick(k) == Free /\ \E fs \in Batches : Trigger(k, fs) /\ UNCHANGED budget

\* The files the OS shared, delivered once the client is up: no gesture of
\* the operator, so dialogs may be open.
Share(k) ==
    /\ tok # 0 /\ Cardinality(runs) < MaxRuns /\ Spend("share")
    /\ \E fs \in Batches : Trigger(k, fs)

\* acknowledgePrivacy
Acknowledge(remember) ==
    /\ modal # NoWindow /\ tok # 0
    /\ modal' = NoWindow /\ pending' = <<>>
    /\ acked' = (acked \/ remember)
    /\ Proceed(modal, pending, NoWindow)
    /\ UNCHANGED <<kind, confirmOn, budget, tok, picker, posted, behind>>

\* acceptConfirm: the confirm lies over the notice, and what is sent with
\* nothing in flight waits for the notice alone.
Accept ==
    /\ asking # NoAsk /\ tok # 0
    /\ asking' = NoAsk
    /\ Enqueue(asking.key, asking.files, modal)
    /\ behind' = behind \cup {k \in Windows : k = asking.key /\ k = modal /\ win[k].inflight = 0}
    /\ UNCHANGED <<kind, confirmOn, budget, tok, picker, modal, pending, acked, posted>>

\* dismissConfirm, or one row taken out of it; the last row closes it.
Remove(i) ==
    /\ asking # NoAsk /\ tok # 0
    /\ LET fs == asking.files
           rest == [j \in 1..(Len(fs) - 1) |-> IF j < i THEN fs[j] ELSE fs[j + 1]]
       IN  asking' = IF i = 0 \/ rest = <<>> THEN NoAsk ELSE [asking EXCEPT !.files = rest]
    /\ UNCHANGED <<kind, confirmOn, budget, tok, picker, win, runs, modal, pending, acked,
                   posted, behind>>

\* cancelUpload: the whole batch.
CancelUpload(k) ==
    /\ Free /\ win[k].entry = "busy"
    /\ win' = [win EXCEPT ![k] = [@ EXCEPT !.inflight = 0, !.queue = <<>>, !.index = 0,
                                           !.total = 0, !.entry = "none"]]
    /\ UNCHANGED <<kind, confirmOn, budget, tok, picker, runs, modal, pending, acked, asking,
                   posted, behind>>

\* dismissUpload from the privacy notice: the window's uploads go with it.
Decline ==
    /\ modal # NoWindow /\ tok # 0
    /\ modal' = NoWindow /\ pending' = <<>>
    /\ win' = [win EXCEPT ![modal] = [@ EXCEPT !.inflight = 0, !.queue = <<>>, !.index = 0,
                                               !.total = 0, !.entry = "none"]]
    /\ UNCHANGED <<kind, confirmOn, budget, tok, picker, runs, acked, asking, posted, behind>>

\* Seeded defect: the rest of the batch is not started.
Dismissed_NoPump(w, c) == [w EXCEPT !.inflight = 0, !.entry = "none"]

\* dismissUpload of a failed file: the rest of the batch goes on.
Dismissed(w, c) == Pump([w EXCEPT !.inflight = 0, !.entry = "none"], c)

DismissUpload(k) ==
    /\ Free /\ win[k].entry = "error"
    /\ Become(k, Dismissed(win[k], Fresh), {})
    /\ UNCHANGED <<kind, confirmOn, budget, tok, picker, modal, pending, acked, asking, posted,
                   behind>>

\* retryUpload: the last attempt goes first.
RetryUpload(k) ==
    /\ Free /\ win[k].entry = "error" /\ win[k].last # 0 /\ Spend("retry")
    /\ Become(k, Pump([win[k] EXCEPT !.entry = "none", !.queue = <<win[k].last>> \o @], Fresh), {})
    /\ UNCHANGED <<kind, confirmOn, tok, picker, modal, pending, acked, asking, posted, behind>>

-----------------------------------------------------------------------------
(* The runs. Every await is followed by a look at who holds the window.     *)

\* Seeded defect: a run posts its link whoever holds the window.
Live_Always(r) == TRUE

Live(r) == win[r.key].inflight = r.ctl

\* Seeded defect: the slot is not given back.
Refuse_KeepsSlot(r) ==
    /\ win' = [win EXCEPT ![r.key].entry = "error"]
    /\ runs' = runs \ {r}

Refuse(r) ==
    /\ win' = [win EXCEPT ![r.key] = [@ EXCEPT !.inflight = 0, !.entry = "error"]]
    /\ runs' = runs \ {r}

\* A superseded or cancelled run ends without a trace.
RunEnds(r) ==
    /\ ~Live(r)
    /\ runs' = runs \ {r}
    /\ UNCHANGED <<kind, confirmOn, budget, tok, picker, win, modal, pending, acked, asking,
                   posted, behind>>

\* prepareVideo: transcoded, or the original is looked at instead; too long.
Transcoded(r) ==
    /\ r.leg = "transcode" /\ Live(r)
    /\ \/ \E next \in {"upload", "probe"} :
            /\ runs' = (runs \ {r}) \cup {[r EXCEPT !.leg = next]}
            /\ win' = [win EXCEPT ![r.key].entry = "busy"]
       \/ Refuse(r)
    /\ UNCHANGED <<kind, confirmOn, budget, tok, picker, modal, pending, acked, asking, posted,
                   behind>>

\* prepareVideo: the chunk of the transcoder does not load. The await rejects,
\* the promise is discarded (startUpload), and the window stays as it is.
ImportFails(r) ==
    /\ r.leg = "transcode" /\ Live(r)
    /\ runs' = (runs \ {r}) \cup {[r EXCEPT !.leg = "rejected"]}
    /\ UNCHANGED <<kind, confirmOn, budget, tok, picker, win, modal, pending, acked, asking, posted,
                   behind>>

\* originalUnderPolicy and the cap.
Probed(r) ==
    /\ r.leg = "probe" /\ Live(r)
    /\ \/ /\ runs' = (runs \ {r}) \cup {[r EXCEPT !.leg = "upload"]}
          /\ win' = [win EXCEPT ![r.key].entry = "busy"]
       \/ Refuse(r)
    /\ UNCHANGED <<kind, confirmOn, budget, tok, picker, modal, pending, acked, asking, posted,
                   behind>>

\* The host answered: the link is posted by whoever is signed in, and the
\* next file starts.
Uploaded(r) ==
    /\ r.leg = "upload" /\ Live(r)
    /\ Become(r.key, Pump([win[r.key] EXCEPT !.inflight = 0, !.entry = "none"], Fresh), {r})
    /\ posted' = posted \cup IF tok # 0 THEN {[file |-> r.file, tok |-> tok]} ELSE {}
    /\ UNCHANGED <<kind, confirmOn, budget, tok, picker, modal, pending, acked, asking, behind>>

\* The host refused, or could not be reached. (Only an abort of the controller
\* aborts the POST, and who aborts it takes the window from it in the same turn.)
UploadFails(r) ==
    /\ r.leg = "upload" /\ Live(r)
    /\ Refuse(r)
    /\ UNCHANGED <<kind, confirmOn, budget, tok, picker, modal, pending, acked, asking, posted,
                   behind>>

\* setToken: signed out, or back in as somebody else. Nothing here is scoped
\* to an identity.
SignOut ==
    /\ tok # 0 /\ Spend("rotate")
    /\ tok' = 0
    /\ UNCHANGED <<kind, confirmOn, picker, store, posted, behind>>

SignIn ==
    /\ tok = 0 /\ tok' = 2
    /\ UNCHANGED <<kind, confirmOn, budget, picker, store, posted, behind>>

Idle == [inflight |-> 0, queue |-> <<>>, entry |-> "none", last |-> 0, index |-> 0, total |-> 0]

Init ==
    /\ \E s \in Sessions : kind = s.kind /\ confirmOn = s.confirm /\ budget = s.budget
    /\ tok = 1
    /\ picker = [f \in Files |-> 0]
    /\ win = [k \in Windows |-> Idle]
    /\ runs = {} /\ modal = NoWindow /\ pending = <<>> /\ asking = NoAsk /\ posted = {}
    /\ behind = {}
    /\ acked \in BOOLEAN

Settles(r) == RunEnds(r) \/ Transcoded(r) \/ Probed(r) \/ Uploaded(r) \/ UploadFails(r)

Next ==
    \/ \E k \in Windows :
         Pick(k) \/ Share(k) \/ CancelUpload(k) \/ DismissUpload(k) \/ RetryUpload(k)
    \/ \E remember \in BOOLEAN : Acknowledge(remember)
    \/ Decline \/ Accept \/ SignOut \/ SignIn
    \/ \E i \in 0..Len(asking.files) : Remove(i)
    \/ \E r \in runs : Settles(r) \/ ImportFails(r)

\* Every await settles or rejects, and an operator who is shown something answers it.
Fairness ==
    /\ WF_upVars(\E r \in runs : Settles(r))
    /\ \A k \in Windows : WF_upVars(DismissUpload(k))
    /\ WF_upVars(Decline \/ \E remember \in BOOLEAN : Acknowledge(remember))
    /\ WF_upVars(Accept \/ Remove(0))
    /\ WF_upVars(SignIn)

Spec == Init /\ [][Next]_upVars /\ Fairness

-----------------------------------------------------------------------------
(* Properties.                                                              *)

InSeq(f, s) == \E i \in 1..Len(s) : s[i] = f
Holds(r) == win[r.key].inflight = r.ctl

UpTypeOK ==
    /\ win \in [Windows -> [inflight : Nat, queue : Seq(Files),
                            entry : {"none", "busy", "error"}, last : {0} \cup Files,
                            index : Nat, total : Nat]]
    /\ runs \subseteq [ctl : Nat \ {0}, key : Windows, file : Files,
                       leg : {"transcode", "probe", "upload", "rejected"}]
    /\ modal \in Windows \cup {NoWindow} /\ pending \in Seq(Files)
    /\ asking \in [key : Windows \cup {NoWindow}, files : Seq(Files)]
    /\ picker \in [Files -> 0..2] /\ tok \in 0..2
    /\ posted \subseteq [file : Files, tok : 1..2] /\ behind \subseteq Windows

\* The counter the operator is shown, "(i/N)", accounts for every file of the
\* batch: those done or on their way and those still queued, whatever was
\* added, skipped or tried again meanwhile.
BatchAddsUp ==
    \A k \in Windows :
        LET w == win[k]
        IN  IF w.total = 0 THEN w.queue = <<>> ELSE w.index + Len(w.queue) = w.total

\* The calls that will end what the window is busy with, and the one that
\* would have, rejected: nothing in the code ends that.
Makers(k) == {r \in runs : r.key = k /\ Holds(r) /\ r.leg # "rejected"}
Abandoned(k) == \E r \in runs : r.key = k /\ Holds(r) /\ r.leg = "rejected"

\* A window that is busy has exactly one call that will end it, however many
\* were cancelled, replaced or tried again. The one exception is the chunk of
\* the transcoder that does not load: its window keeps an upload nobody makes,
\* and shows it as under way, so that the operator can cancel it.
BusyHasARun ==
    \A k \in Windows : win[k].inflight # 0 =>
        IF Abandoned(k) THEN Makers(k) = {} /\ win[k].entry = "busy"
        ELSE Cardinality(Makers(k)) = 1

\* What has become of a file.
FateOf(f) ==
    IF picker[f] = 0 THEN "new"
    ELSE IF \E p \in posted : p.file = f THEN "posted"
    ELSE IF InSeq(f, pending) \/ InSeq(f, asking.files) THEN "asked"
    ELSE IF \E k \in Windows : InSeq(f, win[k].queue) THEN "waiting"
    ELSE IF \E r \in runs : r.file = f /\ Holds(r) THEN "sending"
    ELSE IF \E k \in Windows : win[k].entry = "error" /\ win[k].last = f THEN "failed"
    ELSE "gone"

Abstract == INSTANCE UploadFate WITH Files <- Files, fate <- [f \in Files |-> FateOf(f)]

\* The pipeline implements UploadFate: no link is posted twice, none of a file
\* the operator cancelled, skipped or replaced, however late its run settles.
FatesAreKept == Abstract!Spec

\* Every file that waits is taken up or let go of in the end: whatever the
\* window waits for, its end starts the next file (pumpQueue), with two
\* exceptions. Behind a rejected call the queue waits for the operator to cancel.
\* And files sent under the notice that was open for their own window have
\* nothing to start them: acknowledging it may only open another confirm.
QueueDrains == \A k \in Windows :
    win[k].queue # <<>> ~> win[k].queue = <<>> \/ Abandoned(k) \/ k \in behind

=============================================================================
