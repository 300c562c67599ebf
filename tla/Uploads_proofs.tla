--------------------------- MODULE Uploads_proofs ---------------------------
(***************************************************************************)
(* For any windows, files and sessions: the counter of a window's batch    *)
(* stays in step with its queue; a busy window has one run that will end   *)
(* it; and the pipeline implements UploadFate.                             *)
(***************************************************************************)
EXTENDS Uploads, SequenceTheorems, FiniteSetTheorems, TLAPS

Fields == {"inflight", "queue", "entry", "last", "index", "total"}

\* A window's record whose counter is in step; an empty batch starts at zero.
InStep(w) ==
    /\ DOMAIN w = Fields
    /\ w.queue \in Seq(Nat) /\ w.last \in Nat /\ w.index \in Nat /\ w.total \in Nat
    /\ IF w.total = 0 THEN w.queue = <<>> /\ w.index = 0 ELSE w.index + Len(w.queue) = w.total

BatchInv ==
    /\ win = [k \in Windows |-> win[k]]
    /\ \A k \in Windows : InStep(win[k])
    /\ modal \in Windows \cup {NoWindow} /\ pending \in Seq(Nat)
    /\ DOMAIN asking = {"key", "files"}
    /\ asking # NoAsk => asking.key \in Windows
    /\ asking.files \in Seq(Nat)

-----------------------------------------------------------------------------

LEMMA LenOfTail ==
    ASSUME NEW q \in Seq(Nat), q # <<>>
    PROVE  Tail(q) \in Seq(Nat) /\ Len(q) = Len(Tail(q)) + 1 /\ Len(Tail(q)) \in Nat /\ Head(q) \in Nat
BY HeadTailProperties, LenProperties

\* What is set besides the counter and the queue does not matter.
LEMMA Marked ==
    ASSUME NEW w, InStep(w), NEW i, NEW e
    PROVE  /\ InStep([w EXCEPT !.inflight = i])
           /\ InStep([w EXCEPT !.entry = e])
           /\ InStep([w EXCEPT !.inflight = i, !.entry = e])
BY DEF InStep, Fields

\* The file handed to dispatchUpload may be anything.
LEMMA DispatchInStep ==
    ASSUME NEW w, InStep(w), NEW f \in Nat, NEW c
    PROVE  InStep(Dispatch(w, f, c))
BY DEF InStep, Fields, Dispatch

\* pumpQueue takes the counter one on, or back to zero at the end of a batch;
\* a file tried again goes before the queue and is counted already.
LEMMA PumpInStep ==
    ASSUME NEW w, DOMAIN w = Fields, NEW c,
           w.queue \in Seq(Nat), w.last \in Nat, w.total \in Nat,
           w.queue # <<>> => IF w.total = 0 THEN Len(w.queue) = 1 ELSE w.total >= Len(w.queue) - 1
    PROVE  InStep(Pump(w, c))
<1>1. CASE w.queue = <<>>
  BY <1>1 DEF Pump, InStep, Fields
<1>2. CASE w.queue # <<>>
  <2>. DEFINE rest == Tail(w.queue)
              total == IF w.total # 0 THEN w.total ELSE Len(rest) + 1
              v == [w EXCEPT !.queue = rest, !.index = total - Len(rest), !.total = total]
  <2>1. /\ rest \in Seq(Nat) /\ Len(w.queue) = Len(rest) + 1 /\ Len(rest) \in Nat
        /\ Head(w.queue) \in Nat
    BY <1>2, LenOfTail
  <2>2. Pump(w, c) = Dispatch(v, Head(w.queue), c)
    BY <1>2 DEF Pump
  <2>. HIDE DEF rest
  <2>3. total \in Nat \ {0} /\ total - Len(rest) \in Nat
    BY <1>2, <2>1
  <2>. HIDE DEF total
  <2>4. /\ DOMAIN v = Fields /\ v.queue = rest /\ v.index = total - Len(rest)
        /\ v.total = total /\ v.last = w.last
    BY DEF Fields
  <2>. HIDE DEF v
  <2>5. InStep(v)
    BY <2>1, <2>3, <2>4 DEF InStep
  <2>. QED
    BY <2>1, <2>2, <2>5, DispatchInStep
<1>. QED
  BY <1>1, <1>2

LEMMA PumpKeeps == ASSUME NEW w, InStep(w), NEW c PROVE InStep(Pump(w, c))
<1>1. Len(w.queue) \in Nat
  BY LenProperties DEF InStep
<1>2. /\ DOMAIN w = Fields /\ w.queue \in Seq(Nat) /\ w.last \in Nat /\ w.total \in Nat
      /\ w.queue # <<>> => IF w.total = 0 THEN Len(w.queue) = 1 ELSE w.total >= Len(w.queue) - 1
  BY <1>1 DEF InStep
<1>. QED
  BY <1>2, PumpInStep

\* Files added while a batch is under way lengthen it.
LEMMA EnqueuedInStep ==
    ASSUME NEW w, InStep(w), NEW fs \in Seq(Nat), fs # <<>>, NEW active
    PROVE  InStep(Enqueued(w, fs, active))
<1>. DEFINE q == w.queue \o fs
<1>1. /\ Len(fs) \in Nat \ {0} /\ q \in Seq(Nat) /\ Len(q) = Len(w.queue) + Len(fs)
      /\ Len(w.queue) \in Nat
      /\ w.total = 0 => Len(w.queue) = 0
  BY ConcatProperties, LenProperties, EmptySeq DEF InStep
<1>2. Enqueued(w, fs, active) =
        IF active \/ w.queue # <<>>
        THEN [w EXCEPT !.queue = q, !.total = @ + Len(fs)]
        ELSE [w EXCEPT !.queue = fs, !.index = 0, !.total = Len(fs)]
  BY DEF Enqueued
<1>. HIDE DEF q
<1>3. /\ w.last \in Nat /\ w.index \in Nat /\ w.total \in Nat
      /\ w.total = 0 => w.index = 0
      /\ w.total # 0 => w.index + Len(w.queue) = w.total
  BY DEF InStep
<1>4. CASE active \/ w.queue # <<>>
  <2>. DEFINE v == [w EXCEPT !.queue = q, !.total = @ + Len(fs)]
  <2>1. /\ DOMAIN v = Fields /\ v.queue = q /\ v.total = w.total + Len(fs)
        /\ v.last = w.last /\ v.index = w.index
    BY DEF InStep, Fields
  <2>2. Enqueued(w, fs, active) = v
    BY <1>2, <1>4
  <2>. HIDE DEF v
  <2>3. w.total + Len(fs) \in Nat \ {0} /\ w.index + Len(q) = w.total + Len(fs)
    <3>1. w.index + Len(w.queue) = w.total
      BY <1>1, <1>3
    <3>2. Len(q) = Len(w.queue) + Len(fs) /\ Len(fs) \in Nat /\ Len(fs) # 0
          /\ Len(w.queue) \in Nat /\ w.index \in Nat /\ w.total \in Nat
      BY <1>1, <1>3
    <3>3. w.total + Len(fs) \in Nat \ {0}
      BY <3>2
    <3>. QED
      BY <3>1, <3>2, <3>3
  <2>4. InStep(v)
    BY <1>1, <1>3, <2>1, <2>3 DEF InStep
  <2>. QED
    BY <2>2, <2>4
<1>5. CASE ~(active \/ w.queue # <<>>)
  <2>. DEFINE v == [w EXCEPT !.queue = fs, !.index = 0, !.total = Len(fs)]
  <2>1. /\ DOMAIN v = Fields /\ v.queue = fs /\ v.total = Len(fs)
        /\ v.last = w.last /\ v.index = 0
    BY DEF InStep, Fields
  <2>2. Enqueued(w, fs, active) = v
    BY <1>2, <1>5
  <2>. HIDE DEF v
  <2>3. InStep(v)
    BY <1>1, <1>3, <2>1 DEF InStep
  <2>. QED
    BY <2>2, <2>3
<1>. QED
  BY <1>4, <1>5

-----------------------------------------------------------------------------
(* The steps.                                                              *)

LEMMA BecomeInv ==
    ASSUME BatchInv, NEW k, NEW w, k \in Windows => InStep(w), NEW ended, Become(k, w, ended)
    PROVE  win' = [h \in Windows |-> win'[h]] /\ \A h \in Windows : InStep(win'[h])
BY DEF BatchInv, Become

LEMMA EnqueueInv ==
    ASSUME BatchInv, NEW k \in Windows, NEW fs \in Seq(Nat), NEW m, Enqueue(k, fs, m)
    PROVE  win' = [h \in Windows |-> win'[h]] /\ \A h \in Windows : InStep(win'[h])
<1>. DEFINE w == Enqueued(win[k], fs, Active(k, m))
<1>1. CASE fs = <<>>
  BY <1>1 DEF Enqueue, BatchInv
<1>2. CASE fs # <<>>
  <2>1. InStep(w) /\ InStep(Pump(w, Fresh))
    BY <1>2, EnqueuedInStep, PumpKeeps DEF BatchInv
  <2>. HIDE DEF w
  <2>2. Become(k, IF Active(k, m) THEN w ELSE Pump(w, Fresh), {})
    BY <1>2 DEF Enqueue, w
  <2>. QED
    BY <2>1, <2>2, BecomeInv
<1>. QED
  BY <1>1, <1>2

\* What follows the notice.
LEMMA ProceedInv ==
    ASSUME BatchInv, NEW k \in Windows, NEW fs \in Seq(Nat), NEW m, Proceed(k, fs, m)
    PROVE  /\ win' = [h \in Windows |-> win'[h]] /\ \A h \in Windows : InStep(win'[h])
           /\ DOMAIN asking' = {"key", "files"}
           /\ asking' # NoAsk => asking'.key \in Windows
           /\ asking'.files \in Seq(Nat)
<1>1. CASE confirmOn
  BY <1>1 DEF Proceed, BatchInv
<1>2. CASE ~confirmOn
  BY <1>2, EnqueueInv DEF Proceed, BatchInv
<1>. QED
  BY <1>1, <1>2

LEMMA BatchesAreSeqs == Batches \subseteq Seq(Nat)
<1>1. Cardinality(Picked) \in Nat
  <2>1. IsFiniteSet(Files)
    BY FS_Interval, UploadAssumption DEF Files
  <2>2. Picked \subseteq Files
    BY DEF Picked
  <2>3. IsFiniteSet(Picked)
    BY <2>1, <2>2, FS_Subset
  <2>. QED
    BY <2>3, FS_CardinalityType
<1>2. \A n \in 1..2 : [i \in 1..n |-> Cardinality(Picked) + i] \in Seq(Nat)
  <2>. TAKE n \in 1..2
  <2>1. n \in Nat /\ [i \in 1..n |-> Cardinality(Picked) + i] \in [1..n -> Nat]
    BY <1>1
  <2>. QED
    BY <2>1, SeqDef
<1>3. ASSUME NEW b \in Batches PROVE b \in Seq(Nat)
  <2>1. b = <<>> \/ \E n \in 1..2 : b = [i \in 1..n |-> Cardinality(Picked) + i]
    BY DEF Batches
  <2>2. CASE b = <<>>
    BY <2>2
  <2>3. ASSUME NEW n \in 1..2, b = [i \in 1..n |-> Cardinality(Picked) + i] PROVE b \in Seq(Nat)
    BY <1>2, <2>3
  <2>. QED
    BY <2>1, <2>2, <2>3
<1>. QED
  BY <1>3

LEMMA TriggerInv ==
    ASSUME BatchInv, NEW k \in Windows, NEW fs \in Batches, Trigger(k, fs)
    PROVE  BatchInv'
<1>1. fs \in Seq(Nat)
  BY BatchesAreSeqs
<1>2. CASE acked
  <2>1. Proceed(k, fs, modal) /\ modal' = modal /\ pending' = pending
    BY <1>2 DEF Trigger
  <2>. QED
    BY <1>1, <2>1, ProceedInv DEF BatchInv, NoAsk
<1>3. CASE ~acked
  BY <1>1, <1>3 DEF Trigger, BatchInv, NoAsk
<1>. QED
  BY <1>2, <1>3

LEMMA Cleared ==
    ASSUME NEW w, InStep(w)
    PROVE  InStep([w EXCEPT !.inflight = 0, !.queue = <<>>, !.index = 0,
                            !.total = 0, !.entry = "none"])
BY DEF InStep, Fields

LEMMA RetriedInStep ==
    ASSUME NEW w, InStep(w), NEW c
    PROVE  InStep(Pump([w EXCEPT !.entry = "none", !.queue = <<w.last>> \o @], c))
<1>. DEFINE q == <<w.last>> \o w.queue
            v == [w EXCEPT !.entry = "none", !.queue = <<w.last>> \o @]
<1>1. w.last \in Nat /\ w.queue \in Seq(Nat) /\ w.total \in Nat /\ w.index \in Nat
  BY DEF InStep
<1>2. <<w.last>> \in Seq(Nat) /\ Len(<<w.last>>) = 1
  BY <1>1
<1>3. q \in Seq(Nat) /\ Len(q) = 1 + Len(w.queue) /\ Len(w.queue) \in Nat
  BY <1>1, <1>2, ConcatProperties, LenProperties
<1>. HIDE DEF q
<1>4. DOMAIN v = Fields /\ v.queue = q /\ v.last = w.last /\ v.total = w.total
  BY DEF InStep, Fields, q
<1>. HIDE DEF v
<1>5. w.total = 0 => Len(w.queue) = 0
  BY EmptySeq DEF InStep
<1>6. w.total # 0 => w.total >= Len(q) - 1
  BY <1>1, <1>3 DEF InStep
<1>7. /\ DOMAIN v = Fields /\ v.queue \in Seq(Nat) /\ v.last \in Nat /\ v.total \in Nat
      /\ v.queue # <<>> => IF v.total = 0 THEN Len(v.queue) = 1 ELSE v.total >= Len(v.queue) - 1
  <2>1. /\ DOMAIN v = Fields /\ v.queue \in Seq(Nat) /\ v.last \in Nat /\ v.total \in Nat
        /\ Len(v.queue) = 1 + Len(w.queue) /\ v.total = w.total
    BY <1>1, <1>3, <1>4
  <2>2. CASE w.total = 0
    <3>1. Len(v.queue) = 1
      BY <1>5, <2>1, <2>2
    <3>. QED
      BY <2>1, <2>2, <3>1
  <2>3. CASE w.total # 0
    <3>1. v.total >= Len(v.queue) - 1
      BY <1>4, <1>6, <2>3
    <3>. QED
      BY <2>1, <2>3, <3>1
  <2>. QED
    BY <2>2, <2>3
<1>8. InStep(Pump(v, c))
  BY <1>7, PumpInStep
<1>. QED
  BY <1>8 DEF v

\* One row taken out of the confirm.
LEMMA OneLess ==
    ASSUME NEW q \in Seq(Nat), NEW i \in 0..Len(q), i # 0
    PROVE  [j \in 1..(Len(q) - 1) |-> IF j < i THEN q[j] ELSE q[j + 1]] \in Seq(Nat)
<1>. DEFINE rest == [j \in 1..(Len(q) - 1) |-> IF j < i THEN q[j] ELSE q[j + 1]]
<1>1. Len(q) \in Nat \ {0} /\ \A j \in 1..Len(q) : q[j] \in Nat
  BY LenProperties, ElementOfSeq
<1>2. ASSUME NEW j \in 1..(Len(q) - 1) PROVE (IF j < i THEN q[j] ELSE q[j + 1]) \in Nat
  <2>1. j \in 1..Len(q) /\ j + 1 \in 1..Len(q)
    BY <1>1, <1>2
  <2>. QED
    BY <1>1, <2>1
<1>3. rest \in [1..(Len(q) - 1) -> Nat] /\ Len(q) - 1 \in Nat
  BY <1>1, <1>2
<1>. HIDE DEF rest
<1>4. rest \in Seq(Nat)
  BY <1>3, SeqDef
<1>. QED
  BY <1>4 DEF rest

\* A step that touches no more than the marks of one window.
LEMMA OnlyWin ==
    ASSUME BatchInv, win' = [h \in Windows |-> win'[h]], \A h \in Windows : InStep(win'[h]),
           modal' \in {modal, NoWindow}, pending' \in {pending, <<>>},
           asking' \in {asking, NoAsk}
    PROVE  BatchInv'
<1>1. modal' \in Windows \cup {NoWindow}
  BY DEF BatchInv
<1>2. pending' \in Seq(Nat)
  <2>1. <<>> \in Seq(Nat)
    BY EmptySeq
  <2>. QED
    BY <2>1 DEF BatchInv
<1>3. /\ DOMAIN asking' = {"key", "files"}
      /\ asking' # NoAsk => asking'.key \in Windows
      /\ asking'.files \in Seq(Nat)
  <2>1. CASE asking' = NoAsk
    <3>1. DOMAIN NoAsk = {"key", "files"} /\ NoAsk.files = <<>>
      BY DEF NoAsk
    <3>. QED
      BY <2>1, <3>1, EmptySeq
  <2>2. CASE asking' = asking
    BY <2>2 DEF BatchInv, NoAsk
  <2>. QED
    BY <2>1, <2>2
<1>. QED
  BY <1>1, <1>2, <1>3 DEF BatchInv

LEMMA PutInv ==
    ASSUME BatchInv, NEW k, NEW v, k \in Windows => InStep(v), win' = [win EXCEPT ![k] = v]
    PROVE  win' = [h \in Windows |-> win'[h]] /\ \A h \in Windows : InStep(win'[h])
BY DEF BatchInv

LEMMA MarkedInv ==
    ASSUME BatchInv, NEW k, NEW i, NEW e,
           \/ win' = [win EXCEPT ![k] = [@ EXCEPT !.inflight = i, !.entry = e]]
           \/ win' = [win EXCEPT ![k].entry = e]
           \/ win' = [win EXCEPT ![k] = [@ EXCEPT !.inflight = 0, !.queue = <<>>, !.index = 0,
                                                  !.total = 0, !.entry = "none"]]
    PROVE  win' = [h \in Windows |-> win'[h]] /\ \A h \in Windows : InStep(win'[h])
<1>. DEFINE both == [win[k] EXCEPT !.inflight = i, !.entry = e]
            mark == [win[k] EXCEPT !.entry = e]
            none == [win[k] EXCEPT !.inflight = 0, !.queue = <<>>, !.index = 0,
                                   !.total = 0, !.entry = "none"]
<1>1. k \in Windows => InStep(both) /\ InStep(mark) /\ InStep(none)
  BY Marked, Cleared DEF BatchInv
<1>2. \/ win' = [win EXCEPT ![k] = both]
      \/ win' = [win EXCEPT ![k] = mark]
      \/ win' = [win EXCEPT ![k] = none]
  OBVIOUS
<1>. HIDE DEF both, mark, none
<1>. QED
  BY <1>1, <1>2, PutInv

LEMMA SettlesInv == ASSUME BatchInv, NEW r, Settles(r) PROVE BatchInv'
<1>1. CASE Uploaded(r)
  <2>. DEFINE w == [win[r.key] EXCEPT !.inflight = 0, !.entry = "none"]
  <2>1. r.key \in Windows => InStep(Pump(w, Fresh))
    <3>1. r.key \in Windows => InStep(w)
      BY Marked DEF BatchInv
    <3>. HIDE DEF w
    <3>. QED
      BY <3>1, PumpKeeps
  <2>2. win' = [h \in Windows |-> win'[h]] /\ \A h \in Windows : InStep(win'[h])
    BY <1>1, <2>1, BecomeInv DEF Uploaded
  <2>. QED
    BY <1>1, <2>2, OnlyWin DEF Uploaded
<1>2. CASE ~Uploaded(r)
  <2>1. /\ \/ win' = [win EXCEPT ![r.key] = [@ EXCEPT !.inflight = 0, !.entry = "error"]]
           \/ win' = [win EXCEPT ![r.key].entry = "busy"]
           \/ win' = win
        /\ modal' = modal /\ pending' = pending /\ asking' = asking
    BY <1>2 DEF Settles, RunEnds, Transcoded, Probed, UploadFails, Refuse
  <2>2. win' = [h \in Windows |-> win'[h]] /\ \A h \in Windows : InStep(win'[h])
    <3>1. CASE win' = [win EXCEPT ![r.key] = [@ EXCEPT !.inflight = 0, !.entry = "error"]]
      BY <3>1, MarkedInv
    <3>2. CASE win' = [win EXCEPT ![r.key].entry = "busy"]
      BY <3>2, MarkedInv
    <3>3. CASE win' = win
      BY <3>3 DEF BatchInv
    <3>. QED
      BY <2>1, <3>1, <3>2, <3>3
  <2>. QED
    BY <2>1, <2>2, OnlyWin
<1>. QED
  BY <1>1, <1>2

LEMMA BatchInvStep == BatchInv /\ [Next]_upVars => BatchInv'
<1>. SUFFICES ASSUME BatchInv, [Next]_upVars PROVE BatchInv'
  OBVIOUS
<1>1. CASE UNCHANGED upVars
  BY <1>1 DEF upVars, store, BatchInv, NoAsk
<1>2. ASSUME NEW k \in Windows, Pick(k) \/ Share(k) PROVE BatchInv'
  BY <1>2, TriggerInv DEF Pick, Share
<1>3. ASSUME NEW k \in Windows, CancelUpload(k) PROVE BatchInv'
  <2>1. win' = [h \in Windows |-> win'[h]] /\ \A h \in Windows : InStep(win'[h])
    BY <1>3, MarkedInv DEF CancelUpload
  <2>. QED
    BY <1>3, <2>1, OnlyWin DEF CancelUpload
<1>4. ASSUME NEW k \in Windows, DismissUpload(k) PROVE BatchInv'
  <2>1. InStep(Dismissed(win[k], Fresh))
    BY Marked, PumpKeeps DEF Dismissed, BatchInv
  <2>2. win' = [h \in Windows |-> win'[h]] /\ \A h \in Windows : InStep(win'[h])
    BY <1>4, <2>1, BecomeInv DEF DismissUpload
  <2>. QED
    BY <1>4, <2>2, OnlyWin DEF DismissUpload
<1>5. ASSUME NEW k \in Windows, RetryUpload(k) PROVE BatchInv'
  <2>1. InStep(Pump([win[k] EXCEPT !.entry = "none", !.queue = <<win[k].last>> \o @], Fresh))
    BY RetriedInStep DEF BatchInv
  <2>2. win' = [h \in Windows |-> win'[h]] /\ \A h \in Windows : InStep(win'[h])
    BY <1>5, <2>1, BecomeInv DEF RetryUpload
  <2>. QED
    BY <1>5, <2>2, OnlyWin DEF RetryUpload
<1>6. ASSUME NEW remember \in BOOLEAN, Acknowledge(remember) PROVE BatchInv'
  <2>1. modal \in Windows /\ pending \in Seq(Nat)
    BY <1>6 DEF Acknowledge, BatchInv
  <2>2. Proceed(modal, pending, NoWindow) /\ modal' = NoWindow /\ pending' = <<>>
    BY <1>6 DEF Acknowledge
  <2>. QED
    BY <2>1, <2>2, ProceedInv DEF BatchInv, NoAsk
<1>7. CASE Decline
  <2>1. win' = [h \in Windows |-> win'[h]] /\ \A h \in Windows : InStep(win'[h])
    BY <1>7, MarkedInv DEF Decline
  <2>. QED
    BY <1>7, <2>1, OnlyWin DEF Decline
<1>8. CASE Accept
  <2>1. asking.key \in Windows /\ asking.files \in Seq(Nat)
    BY <1>8 DEF Accept, BatchInv
  <2>2. win' = [h \in Windows |-> win'[h]] /\ \A h \in Windows : InStep(win'[h])
    BY <1>8, <2>1, EnqueueInv DEF Accept
  <2>. QED
    BY <1>8, <2>2, OnlyWin DEF Accept
<1>9. CASE SignOut \/ SignIn
  BY <1>9 DEF SignOut, SignIn, store, BatchInv, NoAsk
<1>10. ASSUME NEW i \in 0..Len(asking.files), Remove(i) PROVE BatchInv'
  <2>. DEFINE fs == asking.files
              rest == [j \in 1..(Len(fs) - 1) |-> IF j < i THEN fs[j] ELSE fs[j + 1]]
  <2>1. fs \in Seq(Nat) /\ asking # NoAsk /\ asking.key \in Windows
    BY <1>10 DEF Remove, BatchInv
  <2>2. CASE i = 0
    BY <1>10, <2>2 DEF Remove, BatchInv, NoAsk
  <2>3. CASE i # 0
    <3>1. rest \in Seq(Nat)
      BY <2>1, <2>3, OneLess
    <3>4. asking' = IF i = 0 \/ rest = <<>> THEN NoAsk ELSE [asking EXCEPT !.files = rest]
      BY <1>10 DEF Remove
    <3>. HIDE DEF rest
    <3>5. CASE asking' = NoAsk
      BY <1>10, <3>5, OnlyWin DEF Remove, BatchInv
    <3>6. CASE asking' = [asking EXCEPT !.files = rest]
      <4>1. DOMAIN asking' = {"key", "files"} /\ asking'.key = asking.key /\ asking'.files = rest
        BY <3>6 DEF BatchInv
      <4>. QED
        BY <1>10, <2>1, <3>1, <4>1 DEF Remove, BatchInv
    <3>. QED
      BY <3>4, <3>5, <3>6
  <2>. QED
    BY <2>2, <2>3
<1>11. ASSUME NEW r \in runs, Settles(r) PROVE BatchInv'
  BY <1>11, SettlesInv
<1>12. ASSUME NEW r \in runs, ImportFails(r) PROVE BatchInv'
  BY <1>12 DEF ImportFails, BatchInv, NoAsk
<1>. QED
  BY <1>1, <1>2, <1>3, <1>4, <1>5, <1>6, <1>7, <1>8, <1>9, <1>10, <1>11, <1>12 DEF Next

LEMMA BatchInvInit == Init => BatchInv
<1>. SUFFICES ASSUME Init PROVE BatchInv
  OBVIOUS
<1>1. InStep(Idle)
  BY DEF InStep, Idle, Fields
<1>2. win = [k \in Windows |-> Idle] /\ modal = NoWindow /\ pending = <<>> /\ asking = NoAsk
  BY DEF Init
<1>3. DOMAIN asking = {"key", "files"} /\ asking.files = <<>>
  BY <1>2 DEF NoAsk
<1>. QED
  BY <1>1, <1>2, <1>3, UploadAssumption DEF BatchInv

LEMMA BatchInvariant == Spec => []BatchInv
BY BatchInvInit, BatchInvStep, PTL DEF Spec

\* "(i/N)" accounts for the whole batch: the files done or on their way and those
\* queued, whatever was added, skipped, tried again or settled late.
THEOREM BatchCounts == Spec => []BatchAddsUp
<1>1. BatchInv => BatchAddsUp
  BY DEF BatchInv, InStep, BatchAddsUp
<1>. QED
  BY <1>1, BatchInvariant, PTL

-----------------------------------------------------------------------------
(* Where a file is: behind the notice, in the confirm, in a window's queue, *)
(* held by a window (on its way, or failed and shown), or posted. It is in  *)
(* one place at a time.                                                     *)

\* No file twice.
Once(s) == \A i, j \in 1..Len(s) : s[i] = s[j] => i = j

\* The file a window has taken up and not let go of.
Held(w) == IF w.inflight # 0 \/ w.entry = "error" THEN {w.last} ELSE {}
Mine(w) == Range(w.queue) \cup Held(w)
Asked == Range(pending) \cup Range(asking.files)
Posted == {p.file : p \in posted}

Window == [inflight : Nat, queue : Seq(Files), entry : {"none", "busy", "error"},
           last : {0} \cup Files, index : Int, total : Int]
Run == [ctl : Nat \ {0}, key : Windows, file : Files,
        leg : {"transcode", "probe", "upload", "rejected"}]

\* What a window holds is not in its queue as well, and is no refused type
\* while it is on its way.
Tidy(w) ==
    /\ w \in Window
    /\ Once(w.queue)
    /\ Held(w) \cap Range(w.queue) = {}
    /\ Held(w) \subseteq Files
    /\ w.inflight # 0 => kind[w.last] # "alien"

Typed ==
    /\ win \in [Windows -> Window]
    /\ runs \subseteq Run
    /\ modal \in Windows \cup {NoWindow} /\ pending \in Seq(Files) /\ Once(pending)
    /\ asking \in [key : Windows \cup {NoWindow}, files : Seq(Files)] /\ Once(asking.files)
    /\ asking # NoAsk => asking.key \in Windows
    /\ picker \in [Files -> 0..2] /\ tok \in 0..2
    /\ posted \subseteq [file : Files, tok : 1..2]

Apart ==
    /\ \A k, h \in Windows : k # h => Mine(win[k]) \cap Mine(win[h]) = {}
    /\ \A k \in Windows : Mine(win[k]) \cap (Asked \cup Posted) = {}
    /\ Range(pending) \cap Range(asking.files) = {}
    /\ Asked \cap Posted = {}

\* Only picked files are anywhere, and they are numbered as they are picked.
Numbered == Picked = 1..Cardinality(Picked)
Known ==
    /\ \A k \in Windows : Mine(win[k]) \subseteq Picked
    /\ Asked \subseteq Picked /\ Posted \subseteq Picked

\* One controller, one run; what a window waits for is a run of the file it
\* took up last.
Owned ==
    /\ IsFiniteSet(runs)
    /\ \A r, s \in runs : r.ctl = s.ctl => r = s
    /\ \A k \in Windows : win[k].inflight # 0 =>
          \E r \in runs : r.key = k /\ r.ctl = win[k].inflight
    /\ \A r \in runs : Holds(r) => r.file = win[r.key].last

PipeInv ==
    /\ Typed
    /\ \A k \in Windows : Tidy(win[k])
    /\ Apart /\ Known /\ Numbered /\ Owned

\* What a step may do with the files picked before it.
Kept ==
    /\ Picked \subseteq Picked' /\ Posted \subseteq Posted'
    /\ Asked' \cap Picked \subseteq Asked
    /\ \A k \in Windows, f \in Picked :
          /\ f \in Range(win'[k].queue) => f \in Asked \cup Range(win[k].queue)
          /\ f \in Mine(win'[k]) => f \in Asked \cup Mine(win[k])

\* A step posts no more than the file of one live run.
Sent ==
    \/ Posted' = Posted
    \/ \E r \in runs : Holds(r) /\ Posted' = Posted \cup {r.file}

-----------------------------------------------------------------------------
(* Sequences without repetition.                                            *)

LEMMA Indexed ==
    ASSUME NEW S, NEW q \in Seq(S), NEW f
    PROVE  f \in Range(q) <=> \E i \in 1..Len(q) : q[i] = f
BY RangeEquality

LEMMA NoFiles == <<>> \in Seq(Files) /\ Once(<<>>) /\ Range(<<>>) = {}
<1>1. <<>> \in Seq(Files) /\ Len(<<>>) = 0
  BY EmptySeq
<1>2. \A f : f \notin Range(<<>>)
  <2>. TAKE f
  <2>1. f \in Range(<<>>) <=> \E i \in 1..Len(<<>>) : <<>>[i] = f
    BY <1>1, Indexed
  <2>. QED
    BY <1>1, <2>1
<1>. QED
  BY <1>1, <1>2 DEF Once

LEMMA Taken ==
    ASSUME NEW q \in Seq(Files), q # <<>>
    PROVE  /\ Tail(q) \in Seq(Files) /\ Head(q) \in Files
           /\ Range(Tail(q)) \subseteq Range(q) /\ Head(q) \in Range(q)
           /\ Once(q) => Once(Tail(q)) /\ Head(q) \notin Range(Tail(q))
<1>. DEFINE rest == Tail(q)
<1>1. /\ rest \in Seq(Files) /\ Head(q) = q[1] /\ Len(q) \in Nat /\ Len(rest) \in Nat
      /\ Len(q) = Len(rest) + 1 /\ \A i \in 1..Len(rest) : rest[i] = q[i + 1]
      /\ Head(q) \in Files
  BY HeadTailProperties, LenProperties
<1>. HIDE DEF rest
<1>2. /\ \A f : f \in Range(q) <=> \E i \in 1..Len(q) : q[i] = f
      /\ \A f : f \in Range(rest) <=> \E i \in 1..Len(rest) : rest[i] = f
  BY <1>1, Indexed
<1>3. \A i \in 1..Len(rest) : i + 1 \in 1..Len(q) /\ i + 1 # 1
  BY <1>1
<1>4. 1 \in 1..Len(q)
  BY <1>1
<1>5. Range(rest) \subseteq Range(q) /\ Head(q) \in Range(q)
  BY <1>1, <1>2, <1>3, <1>4
<1>6. ASSUME Once(q) PROVE Once(rest)
  <2>. SUFFICES ASSUME NEW i \in 1..Len(rest), NEW j \in 1..Len(rest), rest[i] = rest[j]
                PROVE  i = j
    BY DEF Once
  <2>1. q[i + 1] = q[j + 1] /\ i + 1 \in 1..Len(q) /\ j + 1 \in 1..Len(q)
    BY <1>1, <1>3
  <2>2. i + 1 = j + 1
    BY <1>6, <2>1 DEF Once
  <2>. QED
    BY <1>1, <2>2
<1>7. ASSUME Once(q), Head(q) \in Range(rest) PROVE FALSE
  <2>1. PICK i \in 1..Len(rest) : rest[i] = q[1]
    BY <1>1, <1>2, <1>7
  <2>2. i + 1 = 1
    BY <1>1, <1>3, <1>4, <1>7, <2>1 DEF Once
  <2>. QED
    BY <1>3, <2>2
<1>. QED
  BY <1>1, <1>5, <1>6, <1>7 DEF rest

LEMMA Joined ==
    ASSUME NEW p \in Seq(Files), NEW q \in Seq(Files), Once(p), Once(q),
           Range(p) \cap Range(q) = {}
    PROVE  /\ p \o q \in Seq(Files) /\ Once(p \o q)
           /\ Range(p \o q) = Range(p) \cup Range(q)
<1>. DEFINE s == p \o q
<1>1. /\ s \in Seq(Files) /\ Len(s) = Len(p) + Len(q) /\ Len(p) \in Nat /\ Len(q) \in Nat
      /\ \A i \in 1..Len(s) : s[i] = IF i <= Len(p) THEN p[i] ELSE q[i - Len(p)]
  BY ConcatProperties, LenProperties
<1>2. Range(s) = Range(p) \cup Range(q)
  BY RangeConcatenation
<1>. HIDE DEF s
<1>3. /\ \A i \in 1..Len(p) : p[i] \in Range(p)
      /\ \A i \in 1..Len(q) : q[i] \in Range(q)
  BY Indexed
<1>4. ASSUME NEW i \in 1..Len(s), NEW j \in 1..Len(s), s[i] = s[j] PROVE i = j
  <2>1. CASE i <= Len(p) /\ j <= Len(p)
    <3>1. i \in 1..Len(p) /\ j \in 1..Len(p) /\ p[i] = p[j]
      BY <1>1, <1>4, <2>1
    <3>. QED
      BY <3>1 DEF Once
  <2>2. CASE i > Len(p) /\ j > Len(p)
    <3>1. i - Len(p) \in 1..Len(q) /\ j - Len(p) \in 1..Len(q) /\ q[i - Len(p)] = q[j - Len(p)]
      BY <1>1, <1>4, <2>2
    <3>2. i - Len(p) = j - Len(p)
      BY <3>1 DEF Once
    <3>. QED
      BY <1>1, <3>2
  <2>3. CASE i <= Len(p) /\ j > Len(p)
    <3>1. i \in 1..Len(p) /\ j - Len(p) \in 1..Len(q) /\ p[i] = q[j - Len(p)]
      BY <1>1, <1>4, <2>3
    <3>. QED
      BY <1>3, <3>1
  <2>4. CASE i > Len(p) /\ j <= Len(p)
    <3>1. j \in 1..Len(p) /\ i - Len(p) \in 1..Len(q) /\ p[j] = q[i - Len(p)]
      BY <1>1, <1>4, <2>4
    <3>. QED
      BY <1>3, <3>1
  <2>. QED
    BY <1>1, <2>1, <2>2, <2>3, <2>4
<1>. QED
  BY <1>1, <1>2, <1>4 DEF Once, s

LEMMA Alone ==
    ASSUME NEW f \in Files
    PROVE  <<f>> \in Seq(Files) /\ Once(<<f>>) /\ Range(<<f>>) = {f} /\ Head(<<f>>) = f
<1>1. <<f>> \in Seq(Files) /\ Len(<<f>>) = 1 /\ <<f>>[1] = f
  OBVIOUS
<1>2. \A g : g \in Range(<<f>>) <=> \E i \in 1..Len(<<f>>) : <<f>>[i] = g
  BY <1>1, Indexed
<1>3. Range(<<f>>) = {f}
  BY <1>1, <1>2
<1>. QED
  BY <1>1, <1>3 DEF Once

LEMMA OneFileLess ==
    ASSUME NEW q \in Seq(Files), Once(q), NEW i \in 0..Len(q), i # 0
    PROVE  LET rest == [j \in 1..(Len(q) - 1) |-> IF j < i THEN q[j] ELSE q[j + 1]]
           IN  rest \in Seq(Files) /\ Once(rest) /\ Range(rest) \subseteq Range(q)
<1>. DEFINE At(j) == IF j < i THEN j ELSE j + 1
            rest == [j \in 1..(Len(q) - 1) |-> IF j < i THEN q[j] ELSE q[j + 1]]
<1>1. Len(q) \in Nat \ {0} /\ \A j \in 1..Len(q) : q[j] \in Files
  BY LenProperties, ElementOfSeq
<1>2. \A j \in 1..(Len(q) - 1) : At(j) \in 1..Len(q) /\ rest[j] = q[At(j)]
  BY <1>1
<1>3. \A j, h \in 1..(Len(q) - 1) : At(j) = At(h) => j = h
  BY <1>1
<1>4. rest \in [1..(Len(q) - 1) -> Files] /\ Len(q) - 1 \in Nat
  BY <1>1, <1>2
<1>. HIDE DEF rest, At
<1>5. rest \in Seq(Files) /\ Len(rest) = Len(q) - 1
  BY <1>4, SeqDef, LenProperties
<1>6. Once(rest)
  BY <1>2, <1>3, <1>5 DEF Once
<1>7. Range(rest) \subseteq Range(q)
  <2>. SUFFICES ASSUME NEW f \in Range(rest) PROVE f \in Range(q)
    OBVIOUS
  <2>1. PICK j \in 1..Len(rest) : rest[j] = f
    BY <1>5, Indexed
  <2>. QED
    BY <1>2, <1>5, <2>1, Indexed
<1>. QED
  BY <1>5, <1>6, <1>7 DEF rest

-----------------------------------------------------------------------------
(* One window.                                                              *)

LEMMA Refitted ==
    ASSUME NEW w \in Window, NEW i \in Nat, NEW q \in Seq(Files), NEW x \in Int, NEW t \in Int,
           NEW e \in {"none", "busy", "error"}
    PROVE  /\ [w EXCEPT !.index = x, !.total = t] \in Window
           /\ [w EXCEPT !.inflight = i, !.queue = q, !.index = x, !.total = t, !.entry = e] \in Window
<1>1. [w EXCEPT !.index = x, !.total = t] \in Window
  BY DEF Window
<1>2. [w EXCEPT !.inflight = i, !.queue = q, !.index = x, !.total = t, !.entry = e] \in Window
  BY DEF Window
<1>. QED
  BY <1>1, <1>2

\* dispatchUpload takes up the file it is given and no other.
LEMMA DispatchTidy ==
    ASSUME NEW w \in Window, Once(w.queue), NEW c \in Nat \ {0},
           NEW f \in Files, f \notin Range(w.queue),
           w.inflight = 0 \/ kind[f] # "alien"
    PROVE  LET d == Dispatch(w, f, c)
           IN  /\ Tidy(d) /\ d.queue = w.queue
               /\ d.inflight \in {0, c} /\ Held(d) = {f}
<1>. DEFINE d == Dispatch(w, f, c)
<1>1. CASE kind[f] = "alien"
  <2>1. /\ d \in Window /\ d.queue = w.queue /\ d.last = f /\ d.inflight = w.inflight
        /\ d.entry = "error"
    BY <1>1 DEF Dispatch, Window
  <2>. HIDE DEF d
  <2>2. d.inflight = 0 /\ Held(d) = {f}
    BY <1>1, <2>1 DEF Held
  <2>. QED
    BY <2>1, <2>2 DEF Tidy, d
<1>2. CASE kind[f] = "huge"
  <2>1. /\ d \in Window /\ d.queue = w.queue /\ d.last = f /\ d.inflight = 0
        /\ d.entry = "error"
    BY <1>2 DEF Dispatch, Window
  <2>. HIDE DEF d
  <2>2. Held(d) = {f}
    BY <2>1 DEF Held
  <2>. QED
    BY <2>1, <2>2 DEF Tidy, d
<1>3. CASE kind[f] \notin {"alien", "huge"}
  <2>1. d \in Window /\ d.queue = w.queue /\ d.last = f /\ d.inflight = c
    BY <1>3 DEF Dispatch, Window
  <2>. HIDE DEF d
  <2>2. Held(d) = {f}
    BY <2>1 DEF Held
  <2>. QED
    BY <1>3, <2>1, <2>2 DEF Tidy, d
<1>. QED
  BY <1>1, <1>2, <1>3

\* pumpQueue takes up the head of the queue, if there is one.
LEMMA PumpTidy ==
    ASSUME NEW w \in Window, Once(w.queue), NEW c \in Nat \ {0}, Held(w) \subseteq Files,
           w.inflight = 0 \/ (w.queue # <<>> /\ kind[Head(w.queue)] # "alien")
    PROVE  LET p == Pump(w, c)
           IN  /\ Tidy(p) /\ p.inflight \in {0, c}
               /\ Mine(p) \subseteq Mine(w) /\ Range(p.queue) \subseteq Range(w.queue)
               /\ w.queue # <<>> => /\ Range(p.queue) \subseteq Range(Tail(w.queue))
                                    /\ Mine(p) \subseteq Range(w.queue)
<1>1. CASE w.queue = <<>>
  <2>. DEFINE p == [w EXCEPT !.index = 0, !.total = 0]
  <2>0. w.inflight = 0
    BY <1>1
  <2>1. /\ p \in Window /\ p.queue = <<>> /\ p.inflight = 0
        /\ p.entry = w.entry /\ p.last = w.last
    <3>2. 0 \in Nat /\ 0 \in Int /\ "none" \in {"none", "busy", "error"} /\ <<>> \in Seq(Files)
      BY NoFiles
    <3>1. p \in Window
      BY <3>2, Refitted, Zenon
    <3>. QED
      BY <1>1, <2>0, <3>1 DEF Window
  <2>2. Pump(w, c) = p
    BY <1>1 DEF Pump
  <2>. HIDE DEF p
  <2>3. Held(p) = Held(w) /\ Range(p.queue) = {}
    BY <1>1, <2>1, NoFiles DEF Held
  <2>4. Tidy(p)
    BY <2>1, <2>3, NoFiles DEF Tidy
  <2>. QED
    BY <1>1, <2>1, <2>2, <2>3, <2>4 DEF Mine
<1>2. CASE w.queue # <<>>
  <2>. DEFINE rest == Tail(w.queue)
              total == IF w.total # 0 THEN w.total ELSE Len(rest) + 1
              v == [w EXCEPT !.queue = rest, !.index = total - Len(rest), !.total = total]
              p == Dispatch(v, Head(w.queue), c)
  <2>1. w.queue \in Seq(Files) /\ w.total \in Int
    BY DEF Window
  <2>2. /\ rest \in Seq(Files) /\ Once(rest) /\ Head(w.queue) \in Files
        /\ Head(w.queue) \notin Range(rest) /\ Head(w.queue) \in Range(w.queue)
        /\ Range(rest) \subseteq Range(w.queue) /\ Len(rest) \in Nat
    BY <1>2, <2>1, Taken, LenProperties
  <2>3. total \in Int /\ total - Len(rest) \in Int
    BY <2>1, <2>2
  <2>4. Pump(w, c) = p
    BY <1>2 DEF Pump
  <2>. HIDE DEF total, rest
  <2>5. v \in Window /\ v.queue = rest /\ v.inflight = w.inflight
    BY <2>2, <2>3 DEF Window
  <2>. HIDE DEF v
  <2>6. /\ Tidy(p) /\ p.queue = rest /\ p.inflight \in {0, c}
        /\ Held(p) = {Head(w.queue)}
    BY <2>2, <2>5, DispatchTidy
  <2>. HIDE DEF p
  <2>. QED
    BY <1>2, <2>2, <2>4, <2>6 DEF Mine, rest
<1>. QED
  BY <1>1, <1>2

\* enqueueUploads before anything is started.
LEMMA EnqueuedTidy ==
    ASSUME NEW w, Tidy(w), NEW fs \in Seq(Files), Once(fs), Range(fs) \cap Mine(w) = {},
           NEW active
    PROVE  LET e == Enqueued(w, fs, active)
           IN  /\ Tidy(e) /\ e.inflight = w.inflight /\ e.last = w.last
               /\ Held(e) = Held(w) /\ Range(e.queue) = Range(w.queue) \cup Range(fs)
<1>. DEFINE q == w.queue \o fs
            e == Enqueued(w, fs, active)
<1>1. w \in Window /\ w.queue \in Seq(Files) /\ Len(fs) \in Nat /\ w.total \in Int
  BY LenProperties DEF Tidy, Window
<1>2. q \in Seq(Files) /\ Once(q) /\ Range(q) = Range(w.queue) \cup Range(fs)
  BY <1>1, Joined DEF Tidy, Mine
<1>3. w.queue = <<>> => Range(fs) = Range(w.queue) \cup Range(fs)
  BY NoFiles
<1>4. e = IF active \/ w.queue # <<>>
          THEN [w EXCEPT !.queue = q, !.total = @ + Len(fs)]
          ELSE [w EXCEPT !.queue = fs, !.index = 0, !.total = Len(fs)]
  BY DEF Enqueued
<1>. HIDE DEF q
<1>5. /\ e \in Window /\ e.inflight = w.inflight /\ e.last = w.last /\ e.entry = w.entry
      /\ e.queue = q \/ (e.queue = fs /\ w.queue = <<>>)
  <2>. DEFINE more == [w EXCEPT !.queue = q, !.total = @ + Len(fs)]
              anew == [w EXCEPT !.queue = fs, !.index = 0, !.total = Len(fs)]
  <2>3. w.total + Len(fs) \in Int /\ Len(fs) \in Int /\ 0 \in Int
    BY <1>1
  <2>4. more \in Window /\ anew \in Window
    BY <1>1, <1>2, <2>3 DEF Window
  <2>5. /\ more.inflight = w.inflight /\ more.last = w.last /\ more.entry = w.entry
        /\ more.queue = q
    BY <1>1 DEF Window
  <2>6. /\ anew.inflight = w.inflight /\ anew.last = w.last /\ anew.entry = w.entry
        /\ anew.queue = fs
    BY <1>1 DEF Window
  <2>7. e = IF active \/ w.queue # <<>> THEN more ELSE anew
    BY <1>4
  <2>. HIDE DEF more, anew, e
  <2>1. CASE active \/ w.queue # <<>>
    BY <2>1, <2>4, <2>5, <2>7
  <2>2. CASE ~(active \/ w.queue # <<>>)
    BY <2>2, <2>4, <2>6, <2>7
  <2>. QED
    BY <2>1, <2>2
<1>. HIDE DEF e
<1>6. Held(e) = Held(w)
  BY <1>5 DEF Held
<1>7. Range(e.queue) = Range(w.queue) \cup Range(fs) /\ Once(e.queue)
  BY <1>2, <1>3, <1>5
<1>8. Tidy(e)
  BY <1>5, <1>6, <1>7 DEF Tidy, Mine
<1>. QED
  BY <1>5, <1>6, <1>7, <1>8 DEF e

\* A window that lets go of what it holds.
LEMMA LetGo ==
    ASSUME NEW w, Tidy(w)
    PROVE  LET idle == [w EXCEPT !.inflight = 0, !.entry = "none"]
               cleared == [w EXCEPT !.inflight = 0, !.queue = <<>>, !.index = 0,
                                    !.total = 0, !.entry = "none"]
           IN  /\ Tidy(idle) /\ idle.inflight = 0 /\ Mine(idle) = Range(w.queue)
               /\ Tidy(cleared) /\ cleared.inflight = 0 /\ Mine(cleared) = {}
               /\ Range(idle.queue) = Range(w.queue)
<1>. DEFINE idle == [w EXCEPT !.inflight = 0, !.entry = "none"]
            cleared == [w EXCEPT !.inflight = 0, !.queue = <<>>, !.index = 0,
                                 !.total = 0, !.entry = "none"]
<1>1. idle \in Window /\ idle.inflight = 0 /\ idle.entry = "none" /\ idle.queue = w.queue
  BY DEF Tidy, Window
<1>2. cleared \in Window /\ cleared.inflight = 0 /\ cleared.entry = "none" /\ cleared.queue = <<>>
  <2>1. <<>> \in Seq(Files) /\ w \in Window
    BY EmptySeq DEF Tidy
  <2>3. 0 \in Nat /\ 0 \in Int /\ "none" \in {"none", "busy", "error"}
    OBVIOUS
  <2>2. cleared \in Window
    BY <2>1, <2>3, Refitted, Zenon
  <2>. QED
    BY <2>1, <2>2 DEF Window
<1>. HIDE DEF idle, cleared
<1>3. Held(idle) = {} /\ Held(cleared) = {}
  BY <1>1, <1>2 DEF Held
<1>. QED
  BY <1>1, <1>2, <1>3, NoFiles DEF Tidy, Mine, idle, cleared

\* A failed file is shown; a file on its way keeps its place.
LEMMA Shown ==
    ASSUME NEW w, Tidy(w), w.inflight # 0
    PROVE  LET failed == [w EXCEPT !.inflight = 0, !.entry = "error"]
               busy == [w EXCEPT !.entry = "busy"]
           IN  /\ Tidy(failed) /\ failed.inflight = 0 /\ failed.queue = w.queue
               /\ Tidy(busy) /\ busy.inflight = w.inflight /\ busy.queue = w.queue
               /\ busy.last = w.last /\ Held(failed) = Held(w) /\ Held(busy) = Held(w)
<1>. DEFINE failed == [w EXCEPT !.inflight = 0, !.entry = "error"]
            busy == [w EXCEPT !.entry = "busy"]
<1>1. /\ failed \in Window /\ failed.inflight = 0 /\ failed.entry = "error"
      /\ failed.queue = w.queue /\ failed.last = w.last
  BY DEF Tidy, Window
<1>2. /\ busy \in Window /\ busy.inflight = w.inflight /\ busy.entry = "busy"
      /\ busy.queue = w.queue /\ busy.last = w.last
  BY DEF Tidy, Window
<1>. HIDE DEF failed, busy
<1>3. Held(failed) = Held(w) /\ Held(busy) = Held(w)
  BY <1>1, <1>2 DEF Held
<1>. QED
  BY <1>1, <1>2, <1>3 DEF Tidy, failed, busy

\* The file that is tried again goes first and is taken up at once.
LEMMA RetriedTidy ==
    ASSUME NEW w, Tidy(w), w.entry = "error", NEW c \in Nat \ {0}
    PROVE  LET p == Pump([w EXCEPT !.entry = "none", !.queue = <<w.last>> \o @], c)
           IN  /\ Tidy(p) /\ p.inflight \in {0, c}
               /\ Mine(p) \subseteq Mine(w) /\ Range(p.queue) \subseteq Range(w.queue)
<1>. DEFINE q == <<w.last>> \o w.queue
            v == [w EXCEPT !.entry = "none", !.queue = <<w.last>> \o @]
<1>1. w \in Window /\ w.last \in Files /\ Held(w) = {w.last} /\ w.queue \in Seq(Files)
  BY DEF Tidy, Held, Window
<1>2. q \in Seq(Files) /\ Once(q) /\ Range(q) = {w.last} \cup Range(w.queue)
  <2>1. <<w.last>> \in Seq(Files) /\ Once(<<w.last>>) /\ Range(<<w.last>>) = {w.last}
    BY <1>1, Alone
  <2>2. Once(w.queue) /\ {w.last} \cap Range(w.queue) = {}
    BY <1>1 DEF Tidy
  <2>. DEFINE one == <<w.last>>
  <2>. HIDE DEF one
  <2>3. one \in Seq(Files) /\ Once(one) /\ Range(one) \cap Range(w.queue) = {}
    BY <2>1, <2>2 DEF one
  <2>4. one \o w.queue \in Seq(Files) /\ Once(one \o w.queue)
        /\ Range(one \o w.queue) = Range(one) \cup Range(w.queue)
    BY <1>1, <2>2, <2>3, Joined
  <2>. QED
    BY <2>1, <2>4 DEF one
<1>3. Len(<<w.last>>) = 1 /\ <<w.last>> \in Seq(Files) /\ <<w.last>>[1] = w.last
  BY <1>1
<1>4. Len(q) = 1 + Len(w.queue) /\ Len(w.queue) \in Nat /\ \A i \in 1..Len(q) : q[i] = IF i <= 1 THEN <<w.last>>[i] ELSE w.queue[i - 1]
  BY <1>1, <1>3, ConcatProperties, LenProperties
<1>5. Len(q) # 0 /\ 1 \in 1..Len(q)
  BY <1>4
<1>6. q # <<>> /\ q[1] = w.last
  BY <1>2, <1>3, <1>4, <1>5, EmptySeq
<1>7. Head(q) = w.last
  BY <1>2, <1>6, HeadTailProperties
<1>8. Range(Tail(q)) \subseteq Range(w.queue)
  <2>. HIDE DEF q
  <2>1. Range(Tail(q)) \subseteq Range(q) /\ Head(q) \notin Range(Tail(q))
    BY <1>2, <1>6, Taken
  <2>. QED
    BY <1>2, <1>7, <2>1
<1>. HIDE DEF q
<1>9. v \in Window /\ v.queue = q /\ v.inflight = w.inflight /\ v.last = w.last
  BY <1>1, <1>2 DEF Window, q
<1>. HIDE DEF v
<1>10. Held(v) \subseteq Files
  BY <1>1, <1>9 DEF Held
<1>11. v.inflight = 0 \/ (v.queue # <<>> /\ kind[Head(v.queue)] # "alien")
  BY <1>6, <1>7, <1>9 DEF Tidy
<1>12. LET p == Pump(v, c)
       IN  /\ Tidy(p) /\ p.inflight \in {0, c}
           /\ Range(p.queue) \subseteq Range(Tail(q)) /\ Mine(p) \subseteq Range(q)
  BY <1>2, <1>6, <1>9, <1>10, <1>11, PumpTidy
<1>. QED
  BY <1>1, <1>2, <1>8, <1>12 DEF Mine, v

-----------------------------------------------------------------------------
(* Runs.                                                                    *)

LEMMA FreshIsNew ==
    ASSUME IsFiniteSet(runs)
    PROVE  Fresh \in Nat \ {0} /\ \A r \in runs : r.ctl # Fresh
<1>. DEFINE n == Cardinality(runs)
            ctls == {r.ctl : r \in runs}
            ctl == [r \in runs |-> r.ctl]
<1>1. n \in Nat
  BY FS_CardinalityType
<1>2. IsFiniteSet(ctls) /\ Cardinality(ctls) <= n
  <2>1. ctl \in Surjection(runs, ctls)
    BY DEF Surjection
  <2>. QED
    BY <2>1, FS_Surjection
<1>3. IsFiniteSet(1..(n + 1)) /\ Cardinality(1..(n + 1)) = n + 1
  BY <1>1, FS_Interval
<1>. HIDE DEF n, ctls
<1>4. ~(1..(n + 1) \subseteq ctls)
  <2>. SUFFICES ASSUME 1..(n + 1) \subseteq ctls PROVE FALSE
    OBVIOUS
  <2>1. Cardinality(1..(n + 1)) <= Cardinality(ctls) /\ Cardinality(ctls) \in Nat
    BY <1>2, FS_Subset, FS_CardinalityType
  <2>. QED
    BY <1>1, <1>2, <1>3, <2>1
<1>5. \E c \in 1..(n + 1) : \A r \in runs : r.ctl # c
  BY <1>4 DEF ctls
<1>6. Fresh \in 1..(n + 1) /\ \A r \in runs : r.ctl # Fresh
  BY <1>5 DEF Fresh, n
<1>. QED
  BY <1>1, <1>6

\* A dispatch that goes on is the one run its window waits for.
LEMMA BecomeOwned ==
    ASSUME Typed, Owned, NEW k \in Windows, NEW w, Tidy(w), NEW ended, Become(k, w, ended),
           \A r \in ended : r.key = k,
           \/ w.inflight \in {0, Fresh}
           \/ ended = {} /\ w.inflight = win[k].inflight /\ w.last = win[k].last
    PROVE  Owned' /\ runs' \subseteq Run
<1>1. Fresh \in Nat \ {0} /\ \A r \in runs : r.ctl # Fresh
  BY FreshIsNew DEF Owned
<1>2. /\ win' = [win EXCEPT ![k] = w] /\ runs' = (runs \ ended) \cup Begun(k, w, Fresh)
      /\ win'[k] = w /\ \A h \in Windows : h # k => win'[h] = win[h]
  BY DEF Become, Typed
<1>3. \A r \in runs : r \in Run /\ r.key \in Windows /\ r.ctl # 0
  BY DEF Typed, Run
<1>4. CASE w.inflight # Fresh
  <2>1. Begun(k, w, Fresh) = {} /\ runs' = runs \ ended
    BY <1>2, <1>4 DEF Begun
  <2>2. IsFiniteSet(runs') /\ runs' \subseteq runs
    BY <2>1, FS_Subset DEF Owned
  <2>3. ASSUME NEW h \in Windows, win'[h].inflight # 0
        PROVE  \E r \in runs' : r.key = h /\ r.ctl = win'[h].inflight
    <3>1. CASE h # k
      <4>1. PICK r \in runs : r.key = h /\ r.ctl = win[h].inflight
        BY <1>2, <2>3, <3>1 DEF Owned
      <4>. QED
        BY <1>2, <2>1, <3>1, <4>1
    <3>2. CASE h = k
      <4>1. ended = {} /\ w.inflight = win[k].inflight
        BY <1>2, <1>4, <2>3, <3>2
      <4>. QED
        BY <1>2, <2>1, <2>3, <3>2, <4>1 DEF Owned
    <3>. QED
      BY <3>1, <3>2
  <2>4. ASSUME NEW r \in runs', win'[r.key].inflight = r.ctl PROVE r.file = win'[r.key].last
    <3>1. r \in runs
      BY <2>2
    <3>2. CASE r.key # k
      BY <1>2, <1>3, <2>4, <3>1, <3>2 DEF Owned, Holds
    <3>3. CASE r.key = k
      <4>1. win[k].inflight = r.ctl /\ w.last = win[k].last
        BY <1>1, <1>2, <1>3, <2>4, <3>1, <3>3
      <4>. QED
        BY <1>2, <3>1, <3>3, <4>1 DEF Owned, Holds
    <3>. QED
      BY <3>2, <3>3
  <2>. QED
    BY <1>3, <2>2, <2>3, <2>4 DEF Owned, Holds
<1>5. CASE w.inflight = Fresh
  <2>. DEFINE leg == CASE kind[w.last] = "video" -> "transcode"
                       [] kind[w.last] = "clip" -> "probe"
                       [] OTHER -> "upload"
              new == [ctl |-> Fresh, key |-> k, file |-> w.last, leg |-> leg]
  <2>1. runs' = (runs \ ended) \cup {new}
    BY <1>2, <1>5 DEF Begun
  <2>2. w.last \in Files
    BY <1>1, <1>5 DEF Tidy, Held
  <2>3. leg \in {"transcode", "probe", "upload"}
    OBVIOUS
  <2>. HIDE DEF leg
  <2>4. new \in Run /\ new.key = k /\ new.ctl = Fresh /\ new.file = w.last
    BY <1>1, <2>2, <2>3 DEF Run
  <2>. HIDE DEF new
  <2>5. IsFiniteSet(runs')
    <3>1. IsFiniteSet(runs \ ended)
      BY FS_Subset DEF Owned
    <3>. QED
      BY <2>1, <3>1, FS_AddElement
  <2>6. \A r, s \in runs' : r.ctl = s.ctl => r = s
    BY <1>1, <2>1, <2>4 DEF Owned
  <2>7. ASSUME NEW h \in Windows, win'[h].inflight # 0
        PROVE  \E r \in runs' : r.key = h /\ r.ctl = win'[h].inflight
    <3>1. CASE h # k
      <4>1. PICK r \in runs : r.key = h /\ r.ctl = win[h].inflight
        BY <1>2, <2>7, <3>1 DEF Owned
      <4>. QED
        BY <1>2, <2>1, <3>1, <4>1
    <3>2. CASE h = k
      BY <1>2, <1>5, <2>1, <2>4, <3>2
    <3>. QED
      BY <3>1, <3>2
  <2>8. ASSUME NEW r \in runs', win'[r.key].inflight = r.ctl PROVE r.file = win'[r.key].last
    <3>1. CASE r = new
      BY <1>2, <2>4, <3>1
    <3>2. CASE r \in runs
      <4>1. r.key # k
        BY <1>1, <1>2, <1>5, <2>8, <3>2
      <4>. QED
        BY <1>2, <1>3, <2>8, <3>2, <4>1 DEF Owned, Holds
    <3>. QED
      BY <2>1, <3>1, <3>2
  <2>9. runs' \subseteq Run
    BY <1>3, <2>1, <2>4
  <2>. QED
    BY <2>5, <2>6, <2>7, <2>8, <2>9 DEF Owned, Holds
<1>. QED
  BY <1>4, <1>5

\* A window that is given back, or shown, without a run beginning. Runs may end.
LEMMA GivenBackOwned ==
    ASSUME Typed, Owned, NEW k \in Windows, NEW w, win' = [win EXCEPT ![k] = w],
           runs' \subseteq runs, w.inflight = 0, \A r \in runs \ runs' : r.key = k
    PROVE  Owned' /\ runs' \subseteq Run
<1>1. /\ win'[k] = w /\ \A h \in Windows : h # k => win'[h] = win[h]
      /\ \A r \in runs : r \in Run /\ r.key \in Windows /\ r.ctl # 0
  BY DEF Typed, Run
<1>2. IsFiniteSet(runs')
  BY FS_Subset DEF Owned
<1>3. ASSUME NEW h \in Windows, win'[h].inflight # 0
      PROVE  \E r \in runs' : r.key = h /\ r.ctl = win'[h].inflight
  <2>1. h # k /\ win'[h] = win[h]
    BY <1>1, <1>3
  <2>2. PICK r \in runs : r.key = h /\ r.ctl = win[h].inflight
    BY <1>3, <2>1 DEF Owned
  <2>. QED
    BY <2>1, <2>2
<1>4. ASSUME NEW r \in runs', win'[r.key].inflight = r.ctl PROVE r.file = win'[r.key].last
  <2>1. r \in runs /\ r.key # k
    BY <1>1, <1>4
  <2>. QED
    BY <1>1, <1>4, <2>1 DEF Owned, Holds
<1>. QED
  BY <1>1, <1>2, <1>3, <1>4 DEF Owned, Holds

-----------------------------------------------------------------------------
(* The steps: one window at most changes, X moves into it, G out of it to   *)
(* the posted links.                                                        *)

LEMMA HomesStep ==
    ASSUME Apart, Known, NEW k \in Windows, NEW X, NEW G,
           Picked \subseteq Picked',
           \A h \in Windows : h # k => win'[h] = win[h],
           Range(win'[k].queue) \subseteq Range(win[k].queue) \cup X,
           Mine(win'[k]) \subseteq Mine(win[k]) \cup X,
           X \subseteq Asked \cup (Picked' \ Picked),
           Asked' \subseteq Asked \cup (Picked' \ Picked),
           Range(pending') \cap Range(asking'.files) = {},
           X \cap Asked' = {},
           Posted' = Posted \cup G, G \subseteq Mine(win[k]), G \cap Mine(win'[k]) = {}
    PROVE  Apart' /\ Known' /\ Kept
<1>1. /\ \A f \in X : f \notin Asked => f \notin Picked /\ f \in Picked'
      /\ \A f \in Asked' : f \notin Asked => f \notin Picked /\ f \in Picked'
      /\ \A f \in Asked \cup Posted : f \in Picked
      /\ \A h \in Windows : \A f \in Mine(win[h]) : f \in Picked
  BY DEF Known
<1>2. \A f \in Mine(win'[k]) : f \in Mine(win[k]) \/ f \in X
  OBVIOUS
<1>3. ASSUME NEW h \in Windows, NEW g \in Windows, h # g PROVE Mine(win'[h]) \cap Mine(win'[g]) = {}
  <2>1. \A f : ~(f \in Mine(win[h]) /\ f \in Mine(win[g]))
    BY <1>3 DEF Apart
  <2>2. \A f \in Asked : f \notin Mine(win[h]) /\ f \notin Mine(win[g])
    BY DEF Apart
  <2>. QED
    BY <1>1, <1>2, <1>3, <2>1, <2>2
<1>4. ASSUME NEW h \in Windows PROVE Mine(win'[h]) \cap (Asked' \cup Posted') = {}
  <2>1. \A f \in Asked \cup Posted : f \notin Mine(win[h])
    BY DEF Apart
  <2>2. \A f \in Asked : f \notin Posted
    BY DEF Apart
  <2>3. CASE h # k
    <3>1. \A f \in G : f \notin Mine(win[h])
      BY <2>3 DEF Apart
    <3>. QED
      BY <1>1, <2>1, <2>3, <3>1
  <2>4. CASE h = k
    BY <1>1, <1>2, <2>1, <2>2, <2>4
  <2>. QED
    BY <2>3, <2>4
<1>5. Asked' \cap Posted' = {}
  <2>1. \A f \in G : f \notin Asked
    BY DEF Apart
  <2>2. \A f \in Asked : f \notin Posted
    BY DEF Apart
  <2>. QED
    BY <1>1, <2>1, <2>2
<1>6. Apart'
  BY <1>3, <1>4, <1>5 DEF Apart
<1>7. /\ \A h \in Windows : Mine(win'[h]) \subseteq Picked'
      /\ Asked' \subseteq Picked' /\ Posted' \subseteq Picked'
  BY <1>1, <1>2
<1>8. ASSUME NEW h \in Windows, NEW f \in Picked
      PROVE  /\ f \in Range(win'[h].queue) => f \in Asked \cup Range(win[h].queue)
             /\ f \in Mine(win'[h]) => f \in Asked \cup Mine(win[h])
  BY <1>1, <1>2
<1>9. Posted \subseteq Posted' /\ Asked' \cap Picked \subseteq Asked
  BY <1>1
<1>. QED
  BY <1>6, <1>7, <1>8, <1>9 DEF Known, Kept

LEMMA WindowStep ==
    ASSUME PipeInv, NEW k \in Windows, NEW w, Tidy(w), win' = [win EXCEPT ![k] = w],
           kind' = kind, NEW X, NEW G,
           Range(w.queue) \subseteq Range(win[k].queue) \cup X,
           Mine(w) \subseteq Mine(win[k]) \cup X,
           X \subseteq Asked \cup (Picked' \ Picked),
           Asked' \subseteq Asked \cup (Picked' \ Picked),
           Range(pending') \cap Range(asking'.files) = {},
           X \cap Asked' = {},
           Posted' = Posted \cup G, G \subseteq Mine(win[k]), G \cap Mine(w) = {},
           Picked \subseteq Picked', Numbered', Owned', runs' \subseteq Run,
           modal' \in Windows \cup {NoWindow}, pending' \in Seq(Files), Once(pending'),
           asking' \in [key : Windows \cup {NoWindow}, files : Seq(Files)], Once(asking'.files),
           asking' # NoAsk => asking'.key \in Windows,
           picker' \in [Files -> 0..2], tok' \in 0..2,
           posted' \subseteq [file : Files, tok : 1..2]
    PROVE  PipeInv' /\ Kept
<1>1. win'[k] = w /\ (\A h \in Windows : h # k => win'[h] = win[h]) /\ win \in [Windows -> Window]
  BY DEF PipeInv, Typed
<1>2. Apart' /\ Known' /\ Kept
  BY <1>1, HomesStep DEF PipeInv
<1>3. w \in Window
  BY DEF Tidy
<1>4. win' \in [Windows -> Window]
  BY <1>1, <1>3
<1>5. Typed'
  BY <1>4 DEF Typed, NoAsk
<1>6. ASSUME NEW h \in Windows PROVE Tidy(win[h])'
  <2>1. Tidy(win'[h])
    BY <1>1 DEF PipeInv
  <2>. QED
    BY <2>1 DEF Tidy
<1>. QED
  BY <1>2, <1>5, <1>6 DEF PipeInv

\* enqueueUploads: the files go into the window's queue, and one of the queue
\* may be taken up.
LEMMA EnqueueStep ==
    ASSUME PipeInv, NEW k \in Windows, NEW fs \in Seq(Files), Once(fs),
           Range(fs) \cap Mine(win[k]) = {}, NEW m, Enqueue(k, fs, m)
    PROVE  /\ Owned' /\ runs' \subseteq Run
           /\ \E w : /\ Tidy(w) /\ win' = [win EXCEPT ![k] = w]
                     /\ Range(w.queue) \subseteq Range(win[k].queue) \cup Range(fs)
                     /\ Mine(w) \subseteq Mine(win[k]) \cup Range(fs)
<1>1. Tidy(win[k]) /\ Typed /\ Owned
  BY DEF PipeInv
<1>2. CASE fs = <<>>
  <2>1. win' = win /\ runs' = runs
    BY <1>2 DEF Enqueue
  <2>2. win' = [win EXCEPT ![k] = win[k]]
    BY <1>1, <2>1 DEF Typed
  <2>. QED
    BY <1>1, <2>1, <2>2 DEF Owned, Holds, Typed
<1>3. CASE fs # <<>>
  <2>. DEFINE e == Enqueued(win[k], fs, Active(k, m))
              p == Pump(e, Fresh)
              w == IF Active(k, m) THEN e ELSE p
  <2>1. /\ Tidy(e) /\ e.inflight = win[k].inflight /\ e.last = win[k].last
        /\ Held(e) = Held(win[k]) /\ Range(e.queue) = Range(win[k].queue) \cup Range(fs)
    BY <1>1, EnqueuedTidy
  <2>2. Become(k, w, {})
    BY <1>3 DEF Enqueue
  <2>3. Mine(e) = Mine(win[k]) \cup Range(fs)
    BY <2>1 DEF Mine
  <2>. HIDE DEF e
  <2>4. CASE Active(k, m)
    <3>1. Become(k, e, {})
      BY <2>2, <2>4
    <3>2. Owned' /\ runs' \subseteq Run
      BY <1>1, <2>1, <3>1, BecomeOwned
    <3>. QED
      BY <2>1, <2>3, <3>1, <3>2 DEF Become
  <2>5. CASE ~Active(k, m)
    <3>1. Become(k, p, {})
      BY <2>2, <2>5
    <3>2. Fresh \in Nat \ {0}
      BY <1>1, FreshIsNew DEF Owned
    <3>3. e.inflight = 0 /\ e \in Window /\ Once(e.queue) /\ Held(e) \subseteq Files
      BY <2>1, <2>5 DEF Active, Tidy
    <3>4. /\ Tidy(p) /\ p.inflight \in {0, Fresh}
          /\ Mine(p) \subseteq Mine(e) /\ Range(p.queue) \subseteq Range(e.queue)
      BY <3>2, <3>3, PumpTidy
    <3>. HIDE DEF p
    <3>5. Owned' /\ runs' \subseteq Run
      BY <1>1, <3>1, <3>4, BecomeOwned
    <3>. QED
      BY <2>1, <2>3, <3>1, <3>4, <3>5 DEF Become
  <2>. QED
    BY <2>4, <2>5
<1>. QED
  BY <1>2, <1>3

\* What follows the notice: the files wait in the confirm, or in the queue.
LEMMA ProceedStep ==
    ASSUME PipeInv, NEW k \in Windows, NEW fs \in Seq(Files), Once(fs),
           Range(fs) \cap Mine(win[k]) = {}, NEW m, Proceed(k, fs, m),
           kind' = kind, posted' = posted, modal' \in Windows \cup {NoWindow},
           pending' \in Seq(Files), Once(pending'), Range(pending') \subseteq Range(pending),
           Range(fs) \subseteq Range(pending) \cup (Picked' \ Picked),
           Range(fs) \cap (Range(pending') \cup Range(asking.files)) = {},
           Picked \subseteq Picked', Numbered', picker' \in [Files -> 0..2], tok' \in 0..2
    PROVE  PipeInv' /\ Kept /\ Sent
<1>1. /\ Tidy(win[k]) /\ Typed /\ Owned
      /\ Range(pending) \cap Range(asking.files) = {}
  BY DEF PipeInv, Apart
<1>2. Posted' = Posted /\ posted' \subseteq [file : Files, tok : 1..2]
  BY <1>1 DEF Posted, Typed
<1>3. CASE confirmOn
  <2>1. asking' = [key |-> k, files |-> fs] /\ win' = win /\ runs' = runs
    BY <1>3 DEF Proceed
  <2>2. asking'.files = fs /\ asking'.key = k
    BY <2>1
  <2>3. win' = [win EXCEPT ![k] = win[k]] /\ runs' \subseteq Run
    BY <1>1, <2>1 DEF Typed
  <2>4. Owned'
    BY <1>1, <2>1 DEF Owned, Holds
  <2>5. asking' \in [key : Windows \cup {NoWindow}, files : Seq(Files)]
    BY <2>1
  <2>6. /\ Asked' \subseteq Asked \cup (Picked' \ Picked)
        /\ Range(pending') \cap Range(asking'.files) = {}
    BY <2>2 DEF Asked
  <2>7. PipeInv' /\ Kept
    <3>. DEFINE X == {}
    <3>1. /\ Range(win[k].queue) \subseteq Range(win[k].queue) \cup X
          /\ Mine(win[k]) \subseteq Mine(win[k]) \cup X
          /\ X \subseteq Asked \cup (Picked' \ Picked) /\ X \cap Asked' = {}
          /\ Posted' = Posted \cup X /\ X \subseteq Mine(win[k]) /\ X \cap Mine(win[k]) = {}
          /\ Once(asking'.files) /\ asking'.key \in Windows
      BY <1>2, <2>2
    <3>. HIDE DEF X
    <3>. QED
      BY <1>1, <1>2, <2>3, <2>4, <2>5, <2>6, <3>1, WindowStep
  <2>. QED
    BY <1>2, <2>7 DEF Sent
<1>4. CASE ~confirmOn
  <2>1. Enqueue(k, fs, m) /\ asking' = asking
    BY <1>4 DEF Proceed
  <2>2. PICK w : /\ Tidy(w) /\ win' = [win EXCEPT ![k] = w]
                 /\ Range(w.queue) \subseteq Range(win[k].queue) \cup Range(fs)
                 /\ Mine(w) \subseteq Mine(win[k]) \cup Range(fs)
    BY <2>1, EnqueueStep
  <2>3. Owned' /\ runs' \subseteq Run
    BY <2>1, EnqueueStep
  <2>4. /\ Asked' \subseteq Asked \cup (Picked' \ Picked)
        /\ Range(pending') \cap Range(asking'.files) = {}
        /\ Range(fs) \cap Asked' = {}
        /\ Range(fs) \subseteq Asked \cup (Picked' \ Picked)
    BY <1>1, <2>1 DEF Asked
  <2>5. PipeInv' /\ Kept
    <3>. DEFINE G == {}
    <3>1. Posted' = Posted \cup G /\ G \subseteq Mine(win[k]) /\ G \cap Mine(w) = {}
      BY <1>2
    <3>2. /\ asking' \in [key : Windows \cup {NoWindow}, files : Seq(Files)]
          /\ Once(asking'.files)
          /\ asking' # NoAsk => asking'.key \in Windows
      BY <1>1, <2>1 DEF Typed
    <3>. HIDE DEF G
    <3>. QED
      BY <1>2, <2>2, <2>3, <2>4, <3>1, <3>2, WindowStep
  <2>. QED
    BY <1>2, <2>5 DEF Sent
<1>. QED
  BY <1>3, <1>4

\* A step that only takes up or lets go of what one window has.
LEMMA WithinStep ==
    ASSUME PipeInv, NEW k \in Windows, NEW w, Tidy(w), win' = [win EXCEPT ![k] = w],
           Range(w.queue) \subseteq Range(win[k].queue), Mine(w) \subseteq Mine(win[k]),
           Owned', runs' \subseteq Run,
           kind' = kind, picker' = picker, posted' = posted, tok' \in 0..2,
           modal' \in {modal, NoWindow}, pending' \in {pending, <<>>},
           asking' \in [key : Windows \cup {NoWindow}, files : Seq(Files)],
           asking' # NoAsk => asking'.key \in Windows,
           Once(asking'.files), Range(asking'.files) \subseteq Range(asking.files)
    PROVE  PipeInv' /\ Kept /\ Sent
<1>1. /\ Typed /\ Numbered /\ Range(pending) \cap Range(asking.files) = {}
  BY DEF PipeInv, Apart
<1>2. Posted' = Posted /\ Picked' = Picked
  BY DEF Posted, Picked
<1>3. /\ pending' \in Seq(Files) /\ Once(pending') /\ Range(pending') \subseteq Range(pending)
      /\ modal' \in Windows \cup {NoWindow}
      /\ picker' \in [Files -> 0..2] /\ posted' \subseteq [file : Files, tok : 1..2]
  BY <1>1, NoFiles DEF Typed
<1>4. /\ Asked' \subseteq Asked \cup (Picked' \ Picked)
      /\ Range(pending') \cap Range(asking'.files) = {}
      /\ Picked \subseteq Picked'
  BY <1>1, <1>2, <1>3 DEF Asked
<1>5. Numbered'
  BY <1>1, <1>2 DEF Numbered
<1>. DEFINE X == {}
<1>6. /\ Range(w.queue) \subseteq Range(win[k].queue) \cup X
      /\ Mine(w) \subseteq Mine(win[k]) \cup X
      /\ X \subseteq Asked \cup (Picked' \ Picked) /\ X \cap Asked' = {}
      /\ Posted' = Posted \cup X /\ X \subseteq Mine(win[k]) /\ X \cap Mine(w) = {}
  BY <1>2
<1>. HIDE DEF X
<1>7. PipeInv' /\ Kept
  BY <1>1, <1>3, <1>4, <1>5, <1>6, WindowStep
<1>. QED
  BY <1>2, <1>7 DEF Sent

LEMMA AskingStays ==
    ASSUME PipeInv, asking' = asking \/ asking' = NoAsk
    PROVE  /\ asking' \in [key : Windows \cup {NoWindow}, files : Seq(Files)]
           /\ asking' # NoAsk => asking'.key \in Windows
           /\ Once(asking'.files) /\ Range(asking'.files) \subseteq Range(asking.files)
<1>1. CASE asking' = asking
  BY <1>1 DEF PipeInv, Typed
<1>2. CASE asking' = NoAsk
  BY <1>2, NoFiles DEF NoAsk
<1>. QED
  BY <1>1, <1>2

\* The files picked next are numbered on.
LEMMA PickedNext ==
    ASSUME PipeInv, tok # 0, NEW fs \in Batches, Cardinality(Picked) + Len(fs) <= MaxFiles,
           picker' = [f \in Files |-> IF \E i \in 1..Len(fs) : fs[i] = f THEN tok ELSE picker[f]]
    PROVE  /\ fs \in Seq(Files) /\ Once(fs) /\ Range(fs) \cap Picked = {}
           /\ Picked' = Picked \cup Range(fs) /\ Numbered' /\ picker' \in [Files -> 0..2]
<1>. DEFINE n == Cardinality(Picked)
<1>1. n \in Nat
  <2>1. IsFiniteSet(Files)
    BY FS_Interval, UploadAssumption DEF Files
  <2>2. Picked \in SUBSET Files
    BY DEF Picked
  <2>. QED
    BY <2>1, <2>2, FS_Subset, FS_CardinalityType
<1>2. Picked = 1..n
  BY DEF PipeInv, Numbered
<1>3. \E m \in 0..2 : fs = [i \in 1..m |-> n + i]
  <2>1. CASE fs = <<>>
    <3>1. fs = [i \in 1..0 |-> n + i]
      BY <2>1
    <3>. QED
      BY <3>1
  <2>2. CASE fs # <<>>
    BY <2>2 DEF Batches
  <2>. QED
    BY <2>1, <2>2
<1>4. PICK m \in 0..2 : fs = [i \in 1..m |-> n + i]
  BY <1>3
<1>. HIDE DEF n
<1>5. fs \in [1..m -> Nat] /\ m \in Nat
  BY <1>1, <1>4
<1>6. fs \in Seq(Nat) /\ Len(fs) = m /\ \A i \in 1..m : fs[i] = n + i
  BY <1>4, <1>5, SeqDef, LenProperties
<1>7. n + m <= MaxFiles /\ MaxFiles \in Nat
  BY <1>6, UploadAssumption DEF n
<1>8. \A i \in 1..m : fs[i] \in Files
  BY <1>1, <1>6, <1>7 DEF Files
<1>9. fs \in Seq(Files)
  <2>1. fs \in [1..m -> Files]
    BY <1>5, <1>8
  <2>. QED
    BY <1>5, <2>1, SeqDef
<1>10. Once(fs)
  BY <1>1, <1>6 DEF Once
<1>11. Range(fs) = (n + 1)..(n + m)
  <2>1. \A f : f \in Range(fs) <=> \E i \in 1..m : n + i = f
    BY <1>6, <1>9, Indexed
  <2>2. ASSUME NEW f \in (n + 1)..(n + m) PROVE f \in Range(fs)
    <3>1. f - n \in 1..m /\ n + (f - n) = f
      BY <1>1, <1>5
    <3>. QED
      BY <2>1, <3>1
  <2>3. ASSUME NEW f \in Range(fs) PROVE f \in (n + 1)..(n + m)
    BY <1>1, <1>5, <2>1
  <2>. QED
    BY <2>2, <2>3
<1>12. Range(fs) \cap Picked = {}
  BY <1>1, <1>2, <1>11
<1>13. picker \in [Files -> 0..2] /\ tok \in 0..2
  BY DEF PipeInv, Typed
<1>14. \A f \in Files : picker'[f] = IF f \in Range(fs) THEN tok ELSE picker[f]
  BY <1>9, Indexed
<1>15. picker' \in [Files -> 0..2]
  BY <1>13
<1>16. Picked' = Picked \cup Range(fs)
  <2>1. Range(fs) \subseteq Files
    BY <1>9, RangeOfSeq
  <2>. QED
    BY <1>14, <2>1 DEF Picked
<1>17. Picked' = 1..(n + m)
  BY <1>1, <1>2, <1>5, <1>11, <1>16
<1>18. Cardinality(1..(n + m)) = n + m
  BY <1>1, <1>5, FS_Interval
<1>19. Numbered'
  BY <1>17, <1>18 DEF Numbered
<1>. QED
  BY <1>9, <1>10, <1>12, <1>15, <1>16, <1>19

LEMMA TriggerStep ==
    ASSUME PipeInv, NEW k \in Windows, tok # 0, NEW fs \in Batches, Trigger(k, fs)
    PROVE  PipeInv' /\ Kept /\ Sent
<1>1. /\ fs \in Seq(Files) /\ Once(fs) /\ Range(fs) \cap Picked = {}
      /\ Picked' = Picked \cup Range(fs) /\ Numbered' /\ picker' \in [Files -> 0..2]
  BY PickedNext DEF Trigger
<1>2. /\ kind' = kind /\ tok' = tok /\ posted' = posted
      /\ Typed /\ Owned /\ Tidy(win[k])
      /\ Mine(win[k]) \subseteq Picked /\ Asked \subseteq Picked
  BY DEF Trigger, PipeInv, Known
<1>3. /\ Picked \subseteq Picked' /\ Range(fs) = Picked' \ Picked
      /\ Range(fs) \cap Mine(win[k]) = {} /\ Range(fs) \cap Asked = {}
  BY <1>1, <1>2
<1>4. /\ tok' \in 0..2 /\ modal \in Windows \cup {NoWindow}
      /\ pending \in Seq(Files) /\ Once(pending)
  BY <1>2 DEF Typed
<1>5. CASE acked
  <2>1. Proceed(k, fs, modal) /\ modal' = modal /\ pending' = pending
    BY <1>5 DEF Trigger
  <2>2. /\ Range(fs) \subseteq Range(pending) \cup (Picked' \ Picked)
        /\ Range(fs) \cap (Range(pending') \cup Range(asking.files)) = {}
        /\ Range(pending') \subseteq Range(pending)
    BY <1>3, <2>1 DEF Asked
  <2>. QED
    BY <1>1, <1>2, <1>3, <1>4, <2>1, <2>2, ProceedStep
<1>6. CASE ~acked
  <2>1. /\ modal' = k /\ pending' = fs /\ win' = win /\ runs' = runs /\ asking' = asking
    BY <1>6 DEF Trigger
  <2>2. win' = [win EXCEPT ![k] = win[k]] /\ runs' \subseteq Run
    BY <1>2, <2>1 DEF Typed
  <2>3. Owned'
    BY <1>2, <2>1 DEF Owned, Holds
  <2>4. Posted' = Posted /\ posted' \subseteq [file : Files, tok : 1..2]
    BY <1>2 DEF Posted, Typed
  <2>5. /\ asking' \in [key : Windows \cup {NoWindow}, files : Seq(Files)]
        /\ asking' # NoAsk => asking'.key \in Windows
        /\ Once(asking'.files)
    BY <2>1, AskingStays
  <2>6. /\ Asked' \subseteq Asked \cup (Picked' \ Picked)
        /\ Range(pending') \cap Range(asking'.files) = {}
    BY <1>3, <2>1 DEF Asked
  <2>. DEFINE X == {}
  <2>7. /\ Range(win[k].queue) \subseteq Range(win[k].queue) \cup X
        /\ Mine(win[k]) \subseteq Mine(win[k]) \cup X
        /\ X \subseteq Asked \cup (Picked' \ Picked) /\ X \cap Asked' = {}
        /\ Posted' = Posted \cup X /\ X \subseteq Mine(win[k]) /\ X \cap Mine(win[k]) = {}
        /\ modal' \in Windows \cup {NoWindow} /\ pending' \in Seq(Files) /\ Once(pending')
    BY <1>1, <2>1, <2>4
  <2>. HIDE DEF X
  <2>8. PipeInv' /\ Kept
    BY <1>1, <1>2, <1>3, <1>4, <2>2, <2>3, <2>4, <2>5, <2>6, <2>7, WindowStep
  <2>. QED
    BY <2>4, <2>8 DEF Sent
<1>. QED
  BY <1>5, <1>6

LEMMA AcknowledgeStep ==
    ASSUME PipeInv, NEW remember, Acknowledge(remember)
    PROVE  PipeInv' /\ Kept /\ Sent
<1>1. /\ modal \in Windows /\ modal' = NoWindow /\ pending' = <<>>
      /\ Proceed(modal, pending, NoWindow)
      /\ kind' = kind /\ posted' = posted /\ picker' = picker /\ tok' = tok
  BY DEF Acknowledge, PipeInv, Typed
<1>2. /\ pending \in Seq(Files) /\ Once(pending) /\ picker' \in [Files -> 0..2] /\ tok' \in 0..2
      /\ modal' \in Windows \cup {NoWindow}
  BY <1>1 DEF PipeInv, Typed
<1>3. pending' \in Seq(Files) /\ Once(pending') /\ Range(pending') = {}
  BY <1>1, NoFiles
<1>4. Picked' = Picked
  BY <1>1 DEF Picked
<1>5. Numbered' /\ Picked \subseteq Picked'
  BY <1>4 DEF PipeInv, Numbered
<1>6. /\ Range(pending) \cap Mine(win[modal]) = {}
      /\ Range(pending) \cap Range(asking.files) = {}
  BY <1>1 DEF PipeInv, Apart, Asked
<1>7. /\ Range(pending) \subseteq Range(pending) \cup (Picked' \ Picked)
      /\ Range(pending) \cap (Range(pending') \cup Range(asking.files)) = {}
      /\ Range(pending') \subseteq Range(pending)
  BY <1>3, <1>6
<1>. QED
  BY <1>1, <1>2, <1>3, <1>5, <1>6, <1>7, ProceedStep

LEMMA AcceptStep == ASSUME PipeInv, Accept PROVE PipeInv' /\ Kept /\ Sent
<1>. DEFINE k == asking.key
            fs == asking.files
<1>1. /\ k \in Windows /\ fs \in Seq(Files) /\ Once(fs) /\ Enqueue(k, fs, modal)
      /\ asking' = NoAsk /\ kind' = kind /\ picker' = picker /\ posted' = posted
      /\ tok' = tok /\ modal' = modal /\ pending' = pending
  BY DEF Accept, PipeInv, Typed
<1>2. Range(fs) \cap Mine(win[k]) = {} /\ Range(pending) \cap Range(fs) = {}
  BY <1>1 DEF PipeInv, Apart, Asked
<1>. HIDE DEF k
<1>3. PICK w : /\ Tidy(w) /\ win' = [win EXCEPT ![k] = w]
               /\ Range(w.queue) \subseteq Range(win[k].queue) \cup Range(fs)
               /\ Mine(w) \subseteq Mine(win[k]) \cup Range(fs)
  BY <1>1, <1>2, EnqueueStep
<1>4. Owned' /\ runs' \subseteq Run
  BY <1>1, <1>2, EnqueueStep
<1>5. Posted' = Posted /\ Picked' = Picked
  BY <1>1 DEF Posted, Picked
<1>6. /\ asking' \in [key : Windows \cup {NoWindow}, files : Seq(Files)]
      /\ asking' # NoAsk => asking'.key \in Windows
      /\ Once(asking'.files) /\ Range(asking'.files) = {}
  BY <1>1, AskingStays, NoFiles DEF NoAsk
<1>7. /\ Asked' \subseteq Asked \cup (Picked' \ Picked)
      /\ Range(pending') \cap Range(asking'.files) = {}
      /\ Range(fs) \cap Asked' = {} /\ Range(fs) \subseteq Asked \cup (Picked' \ Picked)
      /\ Picked \subseteq Picked'
  BY <1>1, <1>2, <1>5, <1>6 DEF Asked
<1>8. Numbered'
  BY <1>5 DEF PipeInv, Numbered
<1>9. /\ pending' \in Seq(Files) /\ Once(pending') /\ modal' \in Windows \cup {NoWindow}
      /\ picker' \in [Files -> 0..2] /\ tok' \in 0..2
      /\ posted' \subseteq [file : Files, tok : 1..2]
  BY <1>1 DEF PipeInv, Typed
<1>. DEFINE G == {}
<1>10. Posted' = Posted \cup G /\ G \subseteq Mine(win[k]) /\ G \cap Mine(w) = {}
  BY <1>5
<1>. HIDE DEF G, fs
<1>11. PipeInv' /\ Kept
  BY <1>1, <1>3, <1>4, <1>6, <1>7, <1>8, <1>9, <1>10, WindowStep
<1>. QED
  BY <1>5, <1>11 DEF Sent

LEMMA RemoveStep ==
    ASSUME PipeInv, NEW i \in 0..Len(asking.files), Remove(i)
    PROVE  PipeInv' /\ Kept /\ Sent
<1>. DEFINE k == asking.key
            fs == asking.files
            rest == [j \in 1..(Len(fs) - 1) |-> IF j < i THEN fs[j] ELSE fs[j + 1]]
<1>1. /\ k \in Windows /\ fs \in Seq(Files) /\ Once(fs)
      /\ asking' = IF i = 0 \/ rest = <<>> THEN NoAsk ELSE [asking EXCEPT !.files = rest]
      /\ asking \in [key : Windows \cup {NoWindow}, files : Seq(Files)]
  BY DEF Remove, PipeInv, Typed
<1>2. /\ win' = win /\ runs' = runs /\ modal' = modal /\ pending' = pending
      /\ kind' = kind /\ picker' = picker /\ posted' = posted /\ tok' = tok
  BY DEF Remove
<1>3. Tidy(win[k]) /\ Typed /\ Owned
  BY <1>1 DEF PipeInv
<1>4. /\ asking' \in [key : Windows \cup {NoWindow}, files : Seq(Files)]
      /\ asking' # NoAsk => asking'.key \in Windows
      /\ Once(asking'.files) /\ Range(asking'.files) \subseteq Range(asking.files)
  <2>1. CASE asking' = NoAsk
    BY <2>1, AskingStays
  <2>2. CASE asking' # NoAsk
    <3>1. i # 0 /\ asking' = [asking EXCEPT !.files = rest]
      BY <1>1, <2>2
    <3>2. rest \in Seq(Files) /\ Once(rest) /\ Range(rest) \subseteq Range(fs)
      BY <1>1, <3>1, OneFileLess
    <3>. HIDE DEF rest
    <3>3. asking'.files = rest /\ asking'.key = k
      BY <1>1, <3>1
    <3>4. asking' \in [key : Windows \cup {NoWindow}, files : Seq(Files)]
      BY <1>1, <3>1, <3>2
    <3>. QED
      BY <1>1, <3>2, <3>3, <3>4
  <2>. QED
    BY <2>1, <2>2
<1>5. win' = [win EXCEPT ![k] = win[k]] /\ runs' \subseteq Run
  BY <1>2, <1>3 DEF Typed
<1>6. Owned'
  BY <1>2, <1>3 DEF Owned, Holds
<1>7. tok' \in 0..2
  BY <1>2, <1>3 DEF Typed
<1>. HIDE DEF k
<1>. QED
  BY <1>1, <1>2, <1>3, <1>4, <1>5, <1>6, <1>7, WithinStep

\* cancelUpload, and the notice declined.
LEMMA ClearedStep ==
    ASSUME PipeInv, NEW k \in Windows, runs' = runs,
           win' = [win EXCEPT ![k] = [@ EXCEPT !.inflight = 0, !.queue = <<>>, !.index = 0,
                                               !.total = 0, !.entry = "none"]],
           modal' \in {modal, NoWindow}, pending' \in {pending, <<>>}, asking' = asking,
           kind' = kind, picker' = picker, posted' = posted, tok' = tok
    PROVE  PipeInv' /\ Kept /\ Sent
<1>. DEFINE w == [win[k] EXCEPT !.inflight = 0, !.queue = <<>>, !.index = 0,
                                !.total = 0, !.entry = "none"]
<1>1. Tidy(win[k]) /\ Typed /\ Owned
  BY DEF PipeInv
<1>2. Tidy(w) /\ w.inflight = 0 /\ Mine(w) = {}
  BY <1>1, LetGo
<1>3. win' = [win EXCEPT ![k] = w]
  OBVIOUS
<1>. HIDE DEF w
<1>4. Owned' /\ runs' \subseteq Run
  BY <1>1, <1>2, <1>3, GivenBackOwned
<1>5. Range(w.queue) \subseteq Range(win[k].queue) /\ Mine(w) \subseteq Mine(win[k])
  BY <1>2 DEF Mine
<1>6. tok' \in 0..2
  BY <1>1 DEF Typed
<1>. QED
  BY <1>2, <1>3, <1>4, <1>5, <1>6, AskingStays, WithinStep

LEMMA DismissStep ==
    ASSUME PipeInv, NEW k \in Windows, DismissUpload(k) PROVE PipeInv' /\ Kept /\ Sent
<1>. DEFINE idle == [win[k] EXCEPT !.inflight = 0, !.entry = "none"]
            w == Pump(idle, Fresh)
<1>1. Tidy(win[k]) /\ Typed /\ Owned
  BY DEF PipeInv
<1>2. /\ Tidy(idle) /\ idle.inflight = 0 /\ Mine(idle) = Range(win[k].queue)
      /\ Range(idle.queue) = Range(win[k].queue)
  BY <1>1, LetGo
<1>3. Fresh \in Nat \ {0}
  BY <1>1, FreshIsNew DEF Owned
<1>4. Become(k, w, {})
  BY DEF DismissUpload, Dismissed
<1>. HIDE DEF idle
<1>5. idle \in Window /\ Once(idle.queue) /\ Held(idle) \subseteq Files
  BY <1>2 DEF Tidy
<1>6. /\ Tidy(w) /\ w.inflight \in {0, Fresh}
      /\ Mine(w) \subseteq Mine(idle) /\ Range(w.queue) \subseteq Range(idle.queue)
  BY <1>2, <1>3, <1>5, PumpTidy
<1>. HIDE DEF w
<1>7. Owned' /\ runs' \subseteq Run
  BY <1>1, <1>4, <1>6, BecomeOwned
<1>8. /\ Range(w.queue) \subseteq Range(win[k].queue) /\ Mine(w) \subseteq Mine(win[k])
      /\ win' = [win EXCEPT ![k] = w]
  BY <1>2, <1>4, <1>6 DEF Mine, Become
<1>9. /\ kind' = kind /\ picker' = picker /\ posted' = posted /\ tok' \in 0..2
      /\ modal' \in {modal, NoWindow} /\ pending' \in {pending, <<>>} /\ asking' = asking
  BY <1>1 DEF DismissUpload, Typed
<1>. QED
  BY <1>6, <1>7, <1>8, <1>9, AskingStays, WithinStep

LEMMA RetryStep ==
    ASSUME PipeInv, NEW k \in Windows, RetryUpload(k) PROVE PipeInv' /\ Kept /\ Sent
<1>. DEFINE w == Pump([win[k] EXCEPT !.entry = "none", !.queue = <<win[k].last>> \o @], Fresh)
<1>1. Tidy(win[k]) /\ Typed /\ Owned
  BY DEF PipeInv
<1>2. Fresh \in Nat \ {0}
  BY <1>1, FreshIsNew DEF Owned
<1>3. Become(k, w, {}) /\ win[k].entry = "error"
  BY DEF RetryUpload
<1>4. /\ Tidy(w) /\ w.inflight \in {0, Fresh}
      /\ Mine(w) \subseteq Mine(win[k]) /\ Range(w.queue) \subseteq Range(win[k].queue)
  BY <1>1, <1>2, <1>3, RetriedTidy
<1>. HIDE DEF w
<1>5. Owned' /\ runs' \subseteq Run
  BY <1>1, <1>3, <1>4, BecomeOwned
<1>6. win' = [win EXCEPT ![k] = w]
  BY <1>3 DEF Become
<1>7. /\ kind' = kind /\ picker' = picker /\ posted' = posted /\ tok' \in 0..2
      /\ modal' \in {modal, NoWindow} /\ pending' \in {pending, <<>>} /\ asking' = asking
  BY <1>1 DEF RetryUpload, Typed
<1>. QED
  BY <1>4, <1>5, <1>6, <1>7, AskingStays, WithinStep

\* What is known of a run that is looked at after an await.
LEMMA LiveRun ==
    ASSUME PipeInv, NEW r \in runs
    PROVE  /\ r \in Run /\ r.key \in Windows /\ r.ctl \in Nat \ {0}
           /\ Tidy(win[r.key]) /\ Typed /\ Owned
           /\ Live(r) => /\ win[r.key].inflight # 0 /\ r.file = win[r.key].last
                         /\ Held(win[r.key]) = {r.file}
<1>1. r \in Run
  BY DEF PipeInv, Typed
<1>2. r.key \in Windows /\ r.ctl \in Nat \ {0}
  BY <1>1 DEF Run
<1>3. Tidy(win[r.key]) /\ Typed /\ Owned
  BY <1>2 DEF PipeInv
<1>4. ASSUME Live(r) PROVE win[r.key].inflight # 0 /\ r.file = win[r.key].last
  BY <1>2, <1>3, <1>4 DEF Live, Owned, Holds
<1>. QED
  BY <1>1, <1>2, <1>3, <1>4 DEF Held

LEMMA RefuseStep ==
    ASSUME PipeInv, NEW r \in runs, Live(r), Refuse(r),
           kind' = kind, picker' = picker, posted' = posted, tok' = tok,
           modal' = modal, pending' = pending, asking' = asking
    PROVE  PipeInv' /\ Kept /\ Sent
<1>. DEFINE k == r.key
            w == [win[k] EXCEPT !.inflight = 0, !.entry = "error"]
<1>1. /\ k \in Windows /\ Tidy(win[k]) /\ Typed /\ Owned /\ win[k].inflight # 0
  BY LiveRun
<1>2. /\ Tidy(w) /\ w.inflight = 0 /\ w.queue = win[k].queue /\ Held(w) = Held(win[k])
  BY <1>1, Shown
<1>3. win' = [win EXCEPT ![k] = w] /\ runs' = runs \ {r}
  BY DEF Refuse
<1>. HIDE DEF w
<1>4. runs' \subseteq runs /\ \A s \in runs \ runs' : s.key = k
  BY <1>3
<1>. HIDE DEF k
<1>5. Owned' /\ runs' \subseteq Run
  BY <1>1, <1>2, <1>3, <1>4, GivenBackOwned
<1>6. /\ Range(w.queue) \subseteq Range(win[k].queue) /\ Mine(w) \subseteq Mine(win[k])
      /\ tok' \in 0..2
  BY <1>1, <1>2 DEF Mine, Typed
<1>. QED
  BY <1>1, <1>2, <1>3, <1>5, <1>6, AskingStays, WithinStep

\* The next leg of the same run, which goes on holding its window.
LEMMA LegStep ==
    ASSUME PipeInv, NEW r \in runs, Live(r), NEW next \in {"upload", "probe", "rejected"},
           runs' = (runs \ {r}) \cup {[r EXCEPT !.leg = next]},
           NEW w, win' = [win EXCEPT ![r.key] = w], Tidy(w),
           w.inflight = win[r.key].inflight, w.last = win[r.key].last,
           w.queue = win[r.key].queue, Held(w) = Held(win[r.key]),
           kind' = kind, picker' = picker, posted' = posted, tok' = tok,
           modal' = modal, pending' = pending, asking' = asking
    PROVE  PipeInv' /\ Kept /\ Sent
<1>. DEFINE k == r.key
            s == [r EXCEPT !.leg = next]
<1>1. /\ k \in Windows /\ Tidy(win[k]) /\ Typed /\ Owned /\ win[k].inflight # 0
      /\ r \in Run /\ r.file = win[k].last
  BY LiveRun
<1>2. /\ Tidy(w) /\ w.inflight = win[k].inflight /\ w.last = win[k].last
      /\ w.queue = win[k].queue /\ Held(w) = Held(win[k])
  OBVIOUS
<1>3. s \in Run /\ s.key = k /\ s.ctl = r.ctl /\ s.file = r.file
  BY <1>1 DEF Run
<1>4. win' = [win EXCEPT ![k] = w] /\ runs' = (runs \ {r}) \cup {s}
  OBVIOUS
<1>. HIDE DEF s
<1>5. win'[k] = w /\ \A h \in Windows : h # k => win'[h] = win[h]
  BY <1>1, <1>4 DEF Typed
<1>. HIDE DEF k
<1>6. Owned' /\ runs' \subseteq Run
  <2>1. runs' \subseteq Run
    BY <1>1, <1>3, <1>4 DEF Typed
  <2>2. IsFiniteSet(runs')
    <3>1. IsFiniteSet(runs \ {r})
      BY <1>1, FS_Subset DEF Owned
    <3>. QED
      BY <1>4, <3>1, FS_AddElement
  <2>3. \A a, b \in runs' : a.ctl = b.ctl => a = b
    BY <1>1, <1>3, <1>4 DEF Owned
  <2>4. ASSUME NEW h \in Windows, win'[h].inflight # 0
        PROVE  \E a \in runs' : a.key = h /\ a.ctl = win'[h].inflight
    <3>1. win'[h].inflight = win[h].inflight
      BY <1>2, <1>5
    <3>2. PICK a \in runs : a.key = h /\ a.ctl = win[h].inflight
      BY <1>1, <2>4, <3>1 DEF Owned
    <3>3. a = r => s.key = h /\ s.ctl = win[h].inflight
      BY <1>3, <3>2 DEF k
    <3>. QED
      BY <1>4, <3>1, <3>2, <3>3
  <2>5. ASSUME NEW a \in runs', win'[a.key].inflight = a.ctl PROVE a.file = win'[a.key].last
    <3>1. a.key \in Windows
      BY <2>1, <2>5 DEF Run
    <3>2. win'[a.key].inflight = win[a.key].inflight /\ win'[a.key].last = win[a.key].last
      BY <1>2, <1>5, <3>1
    <3>3. CASE a = s
      BY <1>1, <1>3, <3>2, <3>3
    <3>4. CASE a \in runs
      BY <1>1, <2>5, <3>2, <3>4 DEF Owned, Holds
    <3>. QED
      BY <1>4, <3>3, <3>4
  <2>. QED
    BY <2>1, <2>2, <2>3, <2>4, <2>5 DEF Owned, Holds
<1>7. /\ Range(w.queue) \subseteq Range(win[k].queue) /\ Mine(w) \subseteq Mine(win[k])
      /\ tok' \in 0..2
  BY <1>1, <1>2 DEF Mine, Typed
<1>. QED
  BY <1>1, <1>2, <1>4, <1>6, <1>7, AskingStays, WithinStep

\* The upload is shown with it.
LEMMA NextLegStep ==
    ASSUME PipeInv, NEW r \in runs, Live(r), NEW next \in {"upload", "probe"},
           runs' = (runs \ {r}) \cup {[r EXCEPT !.leg = next]},
           win' = [win EXCEPT ![r.key].entry = "busy"],
           kind' = kind, picker' = picker, posted' = posted, tok' = tok,
           modal' = modal, pending' = pending, asking' = asking
    PROVE  PipeInv' /\ Kept /\ Sent
<1>. DEFINE w == [win[r.key] EXCEPT !.entry = "busy"]
<1>1. Tidy(win[r.key]) /\ win[r.key].inflight # 0
  BY LiveRun
<1>2. /\ Tidy(w) /\ w.inflight = win[r.key].inflight /\ w.last = win[r.key].last
      /\ w.queue = win[r.key].queue /\ Held(w) = Held(win[r.key])
  BY <1>1, Shown
<1>3. win' = [win EXCEPT ![r.key] = w]
  OBVIOUS
<1>. HIDE DEF w
<1>. QED
  BY <1>2, <1>3, LegStep

\* The chunk of the transcoder did not load.
LEMMA ImportFailsStep ==
    ASSUME PipeInv, NEW r \in runs, ImportFails(r) PROVE PipeInv' /\ Kept /\ Sent
<1>1. /\ Live(r) /\ runs' = (runs \ {r}) \cup {[r EXCEPT !.leg = "rejected"]}
      /\ kind' = kind /\ picker' = picker /\ posted' = posted /\ tok' = tok
      /\ modal' = modal /\ pending' = pending /\ asking' = asking
  BY DEF ImportFails
<1>2. Tidy(win[r.key]) /\ win' = [win EXCEPT ![r.key] = win[r.key]]
  BY LiveRun DEF ImportFails, Typed
<1>. QED
  BY <1>1, <1>2, LegStep

\* The link of a live run is posted and its window takes up the next file.
LEMMA UploadedStep ==
    ASSUME PipeInv, NEW r \in runs, Uploaded(r) PROVE PipeInv' /\ Kept /\ Sent
<1>. DEFINE k == r.key
            idle == [win[k] EXCEPT !.inflight = 0, !.entry = "none"]
            w == Pump(idle, Fresh)
            G == IF tok # 0 THEN {r.file} ELSE {}
<1>1. /\ k \in Windows /\ Tidy(win[k]) /\ Typed /\ Owned /\ Live(r) /\ r \in Run
      /\ Held(win[k]) = {r.file}
  BY LiveRun DEF Uploaded
<1>2. /\ Tidy(idle) /\ idle.inflight = 0 /\ Mine(idle) = Range(win[k].queue)
      /\ Range(idle.queue) = Range(win[k].queue)
  BY <1>1, LetGo
<1>3. Fresh \in Nat \ {0}
  BY <1>1, FreshIsNew DEF Owned
<1>4. Become(k, w, {r}) /\ \A s \in {r} : s.key = k
  BY DEF Uploaded
<1>5. /\ kind' = kind /\ picker' = picker /\ tok' = tok
      /\ modal' = modal /\ pending' = pending /\ asking' = asking
      /\ posted' = posted \cup IF tok # 0 THEN {[file |-> r.file, tok |-> tok]} ELSE {}
  BY DEF Uploaded
<1>. HIDE DEF idle
<1>6. idle \in Window /\ Once(idle.queue) /\ Held(idle) \subseteq Files
  BY <1>2 DEF Tidy
<1>7. /\ Tidy(w) /\ w.inflight \in {0, Fresh}
      /\ Mine(w) \subseteq Mine(idle) /\ Range(w.queue) \subseteq Range(idle.queue)
  BY <1>2, <1>3, <1>6, PumpTidy
<1>. HIDE DEF w, k
<1>8. Owned' /\ runs' \subseteq Run
  BY <1>1, <1>4, <1>7, BecomeOwned
<1>9. /\ Range(w.queue) \subseteq Range(win[k].queue) /\ Mine(w) \subseteq Range(win[k].queue)
      /\ win' = [win EXCEPT ![k] = w]
  BY <1>2, <1>4, <1>7 DEF Become
<1>10. r.file \notin Range(win[k].queue)
  BY <1>1 DEF Tidy
<1>11. r.file \in Files /\ tok \in 0..2
  BY <1>1 DEF Run, Typed
<1>12. posted' \subseteq [file : Files, tok : 1..2]
  <2>1. tok # 0 => [file |-> r.file, tok |-> tok] \in [file : Files, tok : 1..2]
    BY <1>11
  <2>. QED
    BY <1>1, <1>5, <2>1 DEF Typed
<1>13. Posted' = Posted \cup G
  <2>1. CASE tok = 0
    BY <1>5, <2>1 DEF Posted
  <2>2. CASE tok # 0
    <3>. DEFINE p == [file |-> r.file, tok |-> tok]
    <3>1. posted' = posted \cup {p} /\ p.file = r.file
      BY <1>5, <2>2
    <3>. HIDE DEF p
    <3>. QED
      BY <2>2, <3>1 DEF Posted
  <2>. QED
    BY <2>1, <2>2
<1>14. Picked' = Picked
  BY <1>5 DEF Picked
<1>15. Numbered'
  BY <1>14 DEF PipeInv, Numbered
<1>. DEFINE X == {}
<1>16. Asked' = Asked
  BY <1>5 DEF Asked
<1>17. /\ Range(w.queue) \subseteq Range(win[k].queue) \cup X
       /\ Mine(w) \subseteq Mine(win[k]) \cup X
       /\ X \subseteq Asked \cup (Picked' \ Picked) /\ X \cap Asked' = {}
       /\ G \subseteq Mine(win[k]) /\ G \cap Mine(w) = {}
       /\ Picked \subseteq Picked' /\ Asked' \subseteq Asked \cup (Picked' \ Picked)
  BY <1>1, <1>9, <1>10, <1>14, <1>16 DEF Mine
<1>18. /\ modal' \in Windows \cup {NoWindow} /\ pending' \in Seq(Files) /\ Once(pending')
       /\ picker' \in [Files -> 0..2] /\ tok' \in 0..2
       /\ Range(pending') \cap Range(asking'.files) = {}
  BY <1>1, <1>5 DEF Typed, PipeInv, Apart
<1>19. /\ asking' \in [key : Windows \cup {NoWindow}, files : Seq(Files)]
       /\ asking' # NoAsk => asking'.key \in Windows
       /\ Once(asking'.files)
  BY <1>5, AskingStays
<1>20. Sent
  <2>1. Holds(r)
    BY <1>1 DEF Live, Holds
  <2>. QED
    BY <1>13, <2>1 DEF Sent
<1>. HIDE DEF X, G
<1>. QED
  BY <1>1, <1>5, <1>7, <1>8, <1>9, <1>12, <1>13, <1>15, <1>17, <1>18, <1>19, <1>20, WindowStep

LEMMA RunEndsStep ==
    ASSUME PipeInv, NEW r \in runs, RunEnds(r) PROVE PipeInv' /\ Kept /\ Sent
<1>. DEFINE k == r.key
<1>1. /\ k \in Windows /\ Tidy(win[k]) /\ Typed /\ Owned
  BY LiveRun
<1>2. /\ ~Live(r) /\ runs' = runs \ {r} /\ win' = win
      /\ kind' = kind /\ picker' = picker /\ posted' = posted /\ tok' = tok
      /\ modal' = modal /\ pending' = pending /\ asking' = asking
  BY DEF RunEnds
<1>3. Owned' /\ runs' \subseteq Run
  <2>1. IsFiniteSet(runs')
    BY <1>1, <1>2, FS_Subset DEF Owned
  <2>2. ASSUME NEW h \in Windows, win[h].inflight # 0
        PROVE  \E s \in runs' : s.key = h /\ s.ctl = win[h].inflight
    <3>1. PICK s \in runs : s.key = h /\ s.ctl = win[h].inflight
      BY <1>1, <2>2 DEF Owned
    <3>2. s # r
      BY <1>2, <3>1 DEF Live
    <3>. QED
      BY <1>2, <3>1, <3>2
  <2>. QED
    BY <1>1, <1>2, <2>1, <2>2 DEF Owned, Holds, Typed
<1>4. win' = [win EXCEPT ![k] = win[k]] /\ tok' \in 0..2
  BY <1>1, <1>2 DEF Typed
<1>. HIDE DEF k
<1>. QED
  BY <1>1, <1>2, <1>3, <1>4, AskingStays, WithinStep

LEMMA SettlesStep ==
    ASSUME PipeInv, NEW r \in runs, Settles(r) PROVE PipeInv' /\ Kept /\ Sent
<1>1. CASE RunEnds(r)
  BY <1>1, RunEndsStep
<1>2. CASE Uploaded(r)
  BY <1>2, UploadedStep
<1>3. CASE UploadFails(r)
  BY <1>3, RefuseStep DEF UploadFails
<1>4. CASE Transcoded(r)
  <2>1. CASE Refuse(r)
    BY <1>4, <2>1, RefuseStep DEF Transcoded
  <2>2. CASE ~Refuse(r)
    <3>1. PICK next \in {"upload", "probe"} :
            /\ runs' = (runs \ {r}) \cup {[r EXCEPT !.leg = next]}
            /\ win' = [win EXCEPT ![r.key].entry = "busy"]
      BY <1>4, <2>2 DEF Transcoded
    <3>. QED
      BY <1>4, <3>1, NextLegStep DEF Transcoded
  <2>. QED
    BY <2>1, <2>2
<1>5. CASE Probed(r)
  <2>1. CASE Refuse(r)
    BY <1>5, <2>1, RefuseStep DEF Probed
  <2>2. CASE ~Refuse(r)
    <3>1. /\ runs' = (runs \ {r}) \cup {[r EXCEPT !.leg = "upload"]}
          /\ win' = [win EXCEPT ![r.key].entry = "busy"]
      BY <1>5, <2>2 DEF Probed
    <3>. QED
      BY <1>5, <3>1, NextLegStep DEF Probed
  <2>. QED
    BY <2>1, <2>2
<1>. QED
  BY <1>1, <1>2, <1>3, <1>4, <1>5 DEF Settles

\* Only the bearer, or nothing at all.
LEMMA StillStep ==
    ASSUME PipeInv, UNCHANGED <<kind, picker, store, posted>>, tok' \in 0..2
    PROVE  PipeInv' /\ Kept /\ Sent
<1>1. /\ win' = win /\ runs' = runs /\ modal' = modal /\ pending' = pending
      /\ asking' = asking /\ kind' = kind /\ picker' = picker /\ posted' = posted
  BY DEF store
<1>2. Posted' = Posted /\ Picked' = Picked /\ Asked' = Asked
  BY <1>1 DEF Posted, Picked, Asked
<1>3. Typed' /\ Owned'
  BY <1>1 DEF PipeInv, Typed, NoAsk, Owned, Holds
<1>4. Apart' /\ Known' /\ Numbered'
  BY <1>1, <1>2 DEF PipeInv, Apart, Known, Numbered
<1>5. \A k \in Windows : Tidy(win[k])'
  BY <1>1 DEF PipeInv, Tidy
<1>. QED
  BY <1>1, <1>2, <1>3, <1>4, <1>5 DEF PipeInv, Kept, Sent

LEMMA PipeInvStep == ASSUME PipeInv, [Next]_upVars PROVE PipeInv' /\ Kept /\ Sent
<1>1. CASE UNCHANGED upVars
  <2>1. tok' \in 0..2
    BY <1>1 DEF upVars, PipeInv, Typed
  <2>. QED
    BY <1>1, <2>1, StillStep DEF upVars
<1>2. ASSUME NEW k \in Windows, Pick(k) \/ Share(k) PROVE PipeInv' /\ Kept /\ Sent
  BY <1>2, TriggerStep DEF Pick, Share, Free
<1>3. ASSUME NEW k \in Windows, CancelUpload(k) PROVE PipeInv' /\ Kept /\ Sent
  BY <1>3, ClearedStep DEF CancelUpload
<1>4. ASSUME NEW k \in Windows, DismissUpload(k) PROVE PipeInv' /\ Kept /\ Sent
  BY <1>4, DismissStep
<1>5. ASSUME NEW k \in Windows, RetryUpload(k) PROVE PipeInv' /\ Kept /\ Sent
  BY <1>5, RetryStep
<1>6. ASSUME NEW remember \in BOOLEAN, Acknowledge(remember) PROVE PipeInv' /\ Kept /\ Sent
  BY <1>6, AcknowledgeStep
<1>7. CASE Decline
  <2>1. modal \in Windows
    BY <1>7 DEF Decline, PipeInv, Typed
  <2>. QED
    BY <1>7, <2>1, ClearedStep DEF Decline
<1>8. CASE Accept
  BY <1>8, AcceptStep
<1>9. CASE SignOut \/ SignIn
  <2>1. tok' \in 0..2
    BY <1>9 DEF SignOut, SignIn
  <2>. QED
    BY <1>9, <2>1, StillStep DEF SignOut, SignIn
<1>10. ASSUME NEW i \in 0..Len(asking.files), Remove(i) PROVE PipeInv' /\ Kept /\ Sent
  BY <1>10, RemoveStep
<1>11. ASSUME NEW r \in runs, Settles(r) PROVE PipeInv' /\ Kept /\ Sent
  BY <1>11, SettlesStep
<1>12. ASSUME NEW r \in runs, ImportFails(r) PROVE PipeInv' /\ Kept /\ Sent
  BY <1>12, ImportFailsStep
<1>. QED
  BY <1>1, <1>2, <1>3, <1>4, <1>5, <1>6, <1>7, <1>8, <1>9, <1>10, <1>11, <1>12 DEF Next

LEMMA PipeInvInit == Init => PipeInv
<1>. SUFFICES ASSUME Init PROVE PipeInv
  OBVIOUS
<1>1. /\ tok = 1 /\ picker = [f \in Files |-> 0] /\ win = [k \in Windows |-> Idle]
      /\ runs = {} /\ modal = NoWindow /\ pending = <<>> /\ asking = NoAsk /\ posted = {}
  BY DEF Init
<1>2. /\ <<>> \in Seq(Files) /\ Once(<<>>) /\ Range(<<>>) = {}
      /\ asking.files = <<>> /\ asking.key = NoWindow
  BY <1>1, NoFiles DEF NoAsk
<1>3. Idle \in Window /\ Idle.inflight = 0 /\ Idle.entry = "none" /\ Idle.queue = <<>>
  BY <1>2 DEF Idle, Window
<1>4. Held(Idle) = {} /\ Mine(Idle) = {} /\ Tidy(Idle)
  BY <1>2, <1>3 DEF Held, Mine, Tidy
<1>5. \A k \in Windows : win[k] = Idle
  BY <1>1
<1>6. Asked = {} /\ Posted = {} /\ Picked = {}
  BY <1>1, <1>2 DEF Asked, Posted, Picked
<1>7. Typed
  <2>1. asking \in [key : Windows \cup {NoWindow}, files : Seq(Files)]
    BY <1>1, <1>2 DEF NoAsk
  <2>2. win \in [Windows -> Window] /\ picker \in [Files -> 0..2]
    BY <1>1, <1>3
  <2>. QED
    BY <1>1, <1>2, <2>1, <2>2 DEF Typed
<1>8. Apart /\ Known
  BY <1>1, <1>2, <1>4, <1>5, <1>6 DEF Apart, Known
<1>9. Numbered
  <2>1. Cardinality(Picked) = 0
    BY <1>6, FS_EmptySet
  <2>. QED
    BY <1>6, <2>1 DEF Numbered
<1>10. Owned
  BY <1>1, <1>3, <1>5, FS_EmptySet DEF Owned, Holds
<1>. QED
  BY <1>4, <1>5, <1>7, <1>8, <1>9, <1>10 DEF PipeInv

LEMMA PipeInvariant == Spec => []PipeInv
<1>1. PipeInv /\ [Next]_upVars => PipeInv'
  BY PipeInvStep
<1>. QED
  BY <1>1, PipeInvInit, PTL DEF Spec

\* The state of the pipeline has its type.
THEOREM UploadTypes == Spec => []UpTypeOK
<1>. DEFINE Left == behind \subseteq Windows
<1>1. PipeInv /\ BatchInv /\ Left => UpTypeOK
  <2>. SUFFICES ASSUME PipeInv, BatchInv, behind \subseteq Windows PROVE UpTypeOK
    OBVIOUS
  <2>1. ASSUME NEW k \in Windows
        PROVE  win[k] \in [inflight : Nat, queue : Seq(Files),
                           entry : {"none", "busy", "error"}, last : {0} \cup Files,
                           index : Nat, total : Nat]
    BY DEF PipeInv, Typed, Window, BatchInv, InStep
  <2>2. win \in [Windows -> [inflight : Nat, queue : Seq(Files),
                             entry : {"none", "busy", "error"}, last : {0} \cup Files,
                             index : Nat, total : Nat]]
    BY <2>1 DEF PipeInv, Typed
  <2>. QED
    BY <2>2 DEF UpTypeOK, PipeInv, Typed, Run
<1>2. Init => Left
  BY DEF Init
<1>3. Left /\ [Next]_upVars => Left'
  BY DEF Next, upVars, Pick, Share, Trigger, CancelUpload, DismissUpload, RetryUpload,
     Acknowledge, Decline, Accept, SignOut, SignIn, Remove, Settles, RunEnds, Transcoded,
     Probed, Uploaded, UploadFails, ImportFails
<1>. HIDE DEF Left
<1>. QED
  BY <1>1, <1>2, <1>3, PipeInvariant, BatchInvariant, PTL DEF Spec

\* A call that is transcoding, or was rejected there, is shown as under way.
Shows == \A r \in runs : Holds(r) /\ r.leg \in {"transcode", "rejected"} => win[r.key].entry = "busy"

\* What pumpQueue makes of the window's controller.
LEMMA PumpShows ==
    ASSUME NEW w, DOMAIN w = Fields, NEW c
    PROVE  LET v == Pump(w, c)
           IN  \/ v.inflight \in {0, w.inflight}
               \/ v.inflight = c /\ (kind[v.last] = "video" => v.entry = "busy")
<1>1. CASE w.queue = <<>>
  BY <1>1 DEF Pump, Fields
<1>2. CASE w.queue # <<>>
  <2>. DEFINE rest == Tail(w.queue)
              total == IF w.total # 0 THEN w.total ELSE Len(rest) + 1
              u == [w EXCEPT !.queue = rest, !.index = total - Len(rest), !.total = total]
              f == Head(w.queue)
  <2>1. Pump(w, c) = Dispatch(u, f, c)
    BY <1>2 DEF Pump
  <2>2. u.inflight = w.inflight /\ DOMAIN u = Fields
    BY DEF Fields
  <2>. HIDE DEF u, f
  <2>3. LET v == Dispatch(u, f, c)
        IN  \/ v.inflight \in {0, u.inflight}
            \/ v.inflight = c /\ (kind[v.last] = "video" => v.entry = "busy")
    BY <2>2 DEF Dispatch, Fields
  <2>. QED
    BY <1>2, <2>1, <2>2, <2>3
<1>. QED
  BY <1>1, <1>2

\* A window whose controller goes, stays with what it shows, or is a new one.
LEMMA BecomeShows ==
    ASSUME PipeInv, Shows, NEW k \in Windows, NEW v, NEW ended, Become(k, v, ended),
           \/ v.inflight = 0
           \/ v.inflight = win[k].inflight /\ (win[k].entry = "busy" => v.entry = "busy")
           \/ v.inflight = Fresh /\ (kind[v.last] = "video" => v.entry = "busy")
    PROVE  Shows'
<1>1. Fresh \in Nat \ {0} /\ \A r \in runs : r.ctl # Fresh
  BY FreshIsNew DEF PipeInv, Owned
<1>2. /\ runs' = (runs \ ended) \cup Begun(k, v, Fresh)
      /\ win'[k] = v /\ \A h \in Windows : h # k => win'[h] = win[h]
  BY DEF Become, PipeInv, Typed
<1>3. SUFFICES ASSUME NEW r \in runs', win'[r.key].inflight = r.ctl,
                      r.leg \in {"transcode", "rejected"}
               PROVE  win'[r.key].entry = "busy"
  BY DEF Shows, Holds
<1>4. CASE r \in runs
  <2>1. r.key \in Windows /\ r.ctl # 0
    BY <1>4 DEF PipeInv, Typed, Run
  <2>2. CASE r.key # k
    BY <1>2, <1>3, <1>4, <2>1, <2>2 DEF Shows, Holds
  <2>3. CASE r.key = k
    BY <1>1, <1>2, <1>3, <1>4, <2>1, <2>3 DEF Shows, Holds
  <2>. QED
    BY <2>2, <2>3
<1>5. CASE r \in Begun(k, v, Fresh)
  <2>1. /\ v.inflight = Fresh /\ r.key = k
        /\ kind[v.last] = "video"
    BY <1>3, <1>5 DEF Begun
  <2>2. win[k].inflight # Fresh
    BY <1>1 DEF PipeInv, Owned
  <2>. QED
    BY <1>1, <1>2, <2>1, <2>2
<1>. QED
  BY <1>2, <1>4, <1>5

\* A window without a controller, and no new call.
LEMMA LetGoShows ==
    ASSUME PipeInv, Shows, NEW k \in Windows, NEW v, win' = [win EXCEPT ![k] = v],
           v.inflight = 0, runs' \subseteq runs
    PROVE  Shows'
<1>1. win'[k] = v /\ \A h \in Windows : h # k => win'[h] = win[h]
  BY DEF PipeInv, Typed
<1>2. SUFFICES ASSUME NEW r \in runs', win'[r.key].inflight = r.ctl,
                      r.leg \in {"transcode", "rejected"}
               PROVE  win'[r.key].entry = "busy"
  BY DEF Shows, Holds
<1>3. r \in runs /\ r.key \in Windows /\ r.ctl # 0
  BY DEF PipeInv, Typed, Run
<1>. QED
  BY <1>1, <1>2, <1>3 DEF Shows, Holds

\* enqueueUploads leaves the controller of a busy window alone.
LEMMA EnqueueShows ==
    ASSUME PipeInv, Shows, NEW k \in Windows, NEW fs, NEW m, Enqueue(k, fs, m)
    PROVE  Shows'
<1>. DEFINE w == Enqueued(win[k], fs, Active(k, m))
<1>1. CASE fs = <<>>
  BY <1>1 DEF Enqueue, Shows, Holds
<1>2. CASE fs # <<>> /\ Active(k, m)
  <2>1. Become(k, w, {})
    BY <1>2 DEF Enqueue
  <2>2. win[k] \in Window
    BY DEF PipeInv, Typed
  <2>3. w.inflight = win[k].inflight /\ w.entry = win[k].entry
    BY <2>2 DEF Enqueued, Window
  <2>. HIDE DEF w
  <2>. QED
    BY <2>1, <2>3, BecomeShows
<1>3. CASE fs # <<>> /\ ~Active(k, m)
  <2>. DEFINE v == Pump(w, Fresh)
  <2>1. Become(k, v, {}) /\ win[k].inflight = 0
    BY <1>3 DEF Enqueue, Active
  <2>2. win[k] \in Window
    BY DEF PipeInv, Typed
  <2>3. w.inflight = 0 /\ DOMAIN w = Fields
    BY <2>1, <2>2 DEF Enqueued, Window, Fields
  <2>. HIDE DEF w
  <2>4. \/ v.inflight \in {0, w.inflight}
        \/ v.inflight = Fresh /\ (kind[v.last] = "video" => v.entry = "busy")
    BY <2>3, PumpShows
  <2>. HIDE DEF v
  <2>. QED
    BY <2>1, <2>3, <2>4, BecomeShows
<1>. QED
  BY <1>1, <1>2, <1>3

LEMMA ProceedShows ==
    ASSUME PipeInv, Shows, NEW k \in Windows, NEW fs, NEW m, Proceed(k, fs, m)
    PROVE  Shows'
BY EnqueueShows DEF Proceed, Shows, Holds

\* What a run does to what its window shows.
LEMMA RunShows ==
    ASSUME PipeInv, Shows, NEW r \in runs, Settles(r) \/ ImportFails(r)
    PROVE  Shows'
<1>1. r.key \in Windows /\ win[r.key] \in Window /\ r \in Run
  BY LiveRun DEF Tidy
<1>2. CASE RunEnds(r)
  BY <1>2 DEF RunEnds, Shows, Holds
<1>3. CASE Refuse(r)
  <2>. DEFINE v == [win[r.key] EXCEPT !.inflight = 0, !.entry = "error"]
  <2>1. v.inflight = 0 /\ win' = [win EXCEPT ![r.key] = v] /\ runs' \subseteq runs
    BY <1>1, <1>3 DEF Refuse, Window
  <2>. HIDE DEF v
  <2>. QED
    BY <1>1, <2>1, LetGoShows
<1>4. ASSUME NEW next \in {"upload", "probe"},
             runs' = (runs \ {r}) \cup {[r EXCEPT !.leg = next]},
             win' = [win EXCEPT ![r.key].entry = "busy"]
      PROVE  Shows'
  <2>1. [r EXCEPT !.leg = next].leg = next
    BY <1>1 DEF Run
  <2>2. \A h \in Windows : /\ win'[h].inflight = win[h].inflight
                           /\ win[h].entry = "busy" => win'[h].entry = "busy"
    BY <1>1, <1>4 DEF PipeInv, Typed, Window
  <2>3. ASSUME NEW a \in runs', win'[a.key].inflight = a.ctl, a.leg \in {"transcode", "rejected"}
        PROVE  win'[a.key].entry = "busy"
    <3>1. a \in runs /\ a.key \in Windows
      BY <1>4, <2>1, <2>3 DEF PipeInv, Typed, Run
    <3>. QED
      BY <2>2, <2>3, <3>1 DEF Shows, Holds
  <2>. QED
    BY <2>3 DEF Shows, Holds
<1>5. CASE ImportFails(r)
  <2>1. Live(r) /\ r.leg = "transcode" /\ win' = win
        /\ runs' = (runs \ {r}) \cup {[r EXCEPT !.leg = "rejected"]}
    BY <1>5 DEF ImportFails
  <2>2. win[r.key].entry = "busy" /\ [r EXCEPT !.leg = "rejected"].key = r.key
    BY <1>1, <2>1 DEF Live, Shows, Holds, Run
  <2>. QED
    BY <2>1, <2>2 DEF Shows, Holds
<1>6. CASE Uploaded(r)
  <2>. DEFINE w == [win[r.key] EXCEPT !.inflight = 0, !.entry = "none"]
              v == Pump(w, Fresh)
  <2>1. Become(r.key, v, {r})
    BY <1>6 DEF Uploaded
  <2>2. w.inflight = 0 /\ DOMAIN w = Fields
    BY <1>1 DEF Window, Fields
  <2>. HIDE DEF w
  <2>3. \/ v.inflight \in {0, w.inflight}
        \/ v.inflight = Fresh /\ (kind[v.last] = "video" => v.entry = "busy")
    BY <2>2, PumpShows
  <2>. HIDE DEF v
  <2>. QED
    BY <1>1, <2>1, <2>2, <2>3, BecomeShows
<1>. QED
  BY <1>2, <1>3, <1>4, <1>5, <1>6 DEF Settles, Transcoded, Probed, UploadFails

LEMMA ShowsStep == ASSUME PipeInv, Shows, [Next]_upVars PROVE Shows'
<1>1. CASE UNCHANGED <<win, runs>>
  BY <1>1 DEF Shows, Holds
<1>2. ASSUME NEW k \in Windows, Pick(k) \/ Share(k) PROVE Shows'
  BY <1>1, <1>2, ProceedShows DEF Pick, Share, Trigger
<1>3. ASSUME NEW k \in Windows, CancelUpload(k) \/ (Decline /\ k = modal) PROVE Shows'
  <2>. DEFINE v == [win[k] EXCEPT !.inflight = 0, !.queue = <<>>, !.index = 0, !.total = 0,
                                  !.entry = "none"]
  <2>1. v.inflight = 0 /\ win' = [win EXCEPT ![k] = v] /\ runs' \subseteq runs
    BY <1>3 DEF CancelUpload, Decline, PipeInv, Typed, Window
  <2>. HIDE DEF v
  <2>. QED
    BY <2>1, LetGoShows
<1>4. ASSUME NEW k \in Windows, DismissUpload(k) PROVE Shows'
  <2>. DEFINE w == [win[k] EXCEPT !.inflight = 0, !.entry = "none"]
              v == Pump(w, Fresh)
  <2>1. Become(k, v, {})
    BY <1>4 DEF DismissUpload, Dismissed
  <2>2. w.inflight = 0 /\ DOMAIN w = Fields
    BY DEF PipeInv, Typed, Window, Fields
  <2>. HIDE DEF w
  <2>3. \/ v.inflight \in {0, w.inflight}
        \/ v.inflight = Fresh /\ (kind[v.last] = "video" => v.entry = "busy")
    BY <2>2, PumpShows
  <2>. HIDE DEF v
  <2>. QED
    BY <2>1, <2>2, <2>3, BecomeShows
<1>5. ASSUME NEW k \in Windows, RetryUpload(k) PROVE Shows'
  <2>. DEFINE w == [win[k] EXCEPT !.entry = "none", !.queue = <<win[k].last>> \o @]
              v == Pump(w, Fresh)
  <2>1. Become(k, v, {}) /\ win[k].entry = "error"
    BY <1>5 DEF RetryUpload
  <2>2. w.inflight = win[k].inflight /\ DOMAIN w = Fields
    BY DEF PipeInv, Typed, Window, Fields
  <2>. HIDE DEF w
  <2>3. \/ v.inflight \in {0, win[k].inflight}
        \/ v.inflight = Fresh /\ (kind[v.last] = "video" => v.entry = "busy")
    BY <2>2, PumpShows
  <2>. HIDE DEF v
  <2>. QED
    BY <2>1, <2>3, BecomeShows
<1>6. ASSUME NEW remember \in BOOLEAN, Acknowledge(remember) PROVE Shows'
  BY <1>6, ProceedShows DEF Acknowledge, PipeInv, Typed
<1>7. CASE Decline
  BY <1>3, <1>7 DEF Decline, PipeInv, Typed
<1>8. CASE Accept
  BY <1>8, EnqueueShows DEF Accept, PipeInv, Typed
<1>9. ASSUME NEW r \in runs, Settles(r) \/ ImportFails(r) PROVE Shows'
  BY <1>9, RunShows
<1>10. ASSUME NEW i \in 0..Len(asking.files), Remove(i) PROVE Shows'
  BY <1>1, <1>10 DEF Remove
<1>11. CASE SignOut \/ SignIn \/ UNCHANGED upVars
  BY <1>1, <1>11 DEF SignOut, SignIn, upVars, store
<1>. QED
  BY <1>2, <1>3, <1>4, <1>5, <1>6, <1>7, <1>8, <1>9, <1>10, <1>11 DEF Next

\* A window that is busy has exactly one call that will end it, whatever was
\* cancelled, replaced, tried again or settled late; but for the one a rejected
\* import of the transcoder left busy, which shows an upload that can be cancelled.
THEOREM OneRunPerWindow == Spec => []BusyHasARun
<1>1. PipeInv /\ Shows => BusyHasARun
  <2>. SUFFICES ASSUME PipeInv, Shows, NEW k \in Windows, win[k].inflight # 0
                PROVE  IF Abandoned(k) THEN Makers(k) = {} /\ win[k].entry = "busy"
                       ELSE Cardinality(Makers(k)) = 1
    BY DEF BusyHasARun
  <2>1. PICK s \in runs : s.key = k /\ s.ctl = win[k].inflight
    BY DEF PipeInv, Owned
  <2>2. \A r \in runs : r.ctl = s.ctl => r = s
    BY DEF PipeInv, Owned
  <2>3. CASE s.leg = "rejected"
    <3>1. Makers(k) = {}
      BY <2>1, <2>2, <2>3 DEF Makers, Holds
    <3>2. Abandoned(k) /\ win[k].entry = "busy"
      BY <2>1, <2>3 DEF Abandoned, Shows, Holds
    <3>. QED
      BY <3>1, <3>2
  <2>4. CASE s.leg # "rejected"
    <3>1. Makers(k) = {s} /\ ~Abandoned(k)
      BY <2>1, <2>2, <2>4 DEF Makers, Abandoned, Holds
    <3>. QED
      BY <3>1, FS_Singleton
  <2>. QED
    BY <2>3, <2>4
<1>2. Init => Shows
  BY DEF Init, Shows
<1>3. PipeInv /\ Shows /\ [Next]_upVars => Shows'
  BY ShowsStep
<1>. QED
  BY <1>1, <1>2, <1>3, PipeInvariant, PTL DEF Spec

\* No file's link is posted a second time, by whatever run and under whatever
\* bearer: a run that posts is of a file that has not been posted.
THEOREM PostedOnce ==
    Spec => [][\A r \in runs : Uploaded(r) => ~\E p \in posted : p.file = r.file]_upVars
<1>1. PipeInv => \A r \in runs : Uploaded(r) => ~\E p \in posted : p.file = r.file
  <2>. SUFFICES ASSUME PipeInv, NEW r \in runs, Uploaded(r) PROVE r.file \notin Posted
    BY DEF Posted
  <2>1. r.file \in Mine(win[r.key]) /\ r.key \in Windows
    BY LiveRun DEF Uploaded, Mine
  <2>. QED
    BY <2>1 DEF PipeInv, Apart
<1>. QED
  BY <1>1, PipeInvariant, PTL

-----------------------------------------------------------------------------
(* UploadFate.                                                              *)

Sending(f) == \E r \in runs : r.file = f /\ Holds(r)
Failed(f) == \E k \in Windows : win[k].entry = "error" /\ win[k].last = f
Waiting(f) == \E k \in Windows : f \in Range(win[k].queue)

\* The fate of a file, by its place; what a window holds is on its way or failed.
Placed ==
    /\ \A f \in Files :
         FateOf(f) = IF f \notin Picked THEN "new"
                     ELSE IF f \in Posted THEN "posted"
                     ELSE IF f \in Asked THEN "asked"
                     ELSE IF Waiting(f) THEN "waiting"
                     ELSE IF Sending(f) THEN "sending"
                     ELSE IF Failed(f) THEN "failed"
                     ELSE "gone"
    /\ \A f \in Files : Sending(f) \/ Failed(f) <=> \E k \in Windows : f \in Held(win[k])

LEMMA FatePlaced == PipeInv => Placed
<1>. SUFFICES ASSUME PipeInv, NEW f \in Files
     PROVE  /\ FateOf(f) = IF f \notin Picked THEN "new"
                           ELSE IF f \in Posted THEN "posted"
                           ELSE IF f \in Asked THEN "asked"
                           ELSE IF Waiting(f) THEN "waiting"
                           ELSE IF Sending(f) THEN "sending"
                           ELSE IF Failed(f) THEN "failed"
                           ELSE "gone"
            /\ Sending(f) \/ Failed(f) <=> \E k \in Windows : f \in Held(win[k])
  BY DEF Placed
<1>1. (picker[f] = 0) <=> f \notin Picked
  BY DEF Picked
<1>2. (\E p \in posted : p.file = f) <=> f \in Posted
  BY DEF Posted
<1>3. (InSeq(f, pending) \/ InSeq(f, asking.files)) <=> f \in Asked
  <2>1. pending \in Seq(Files) /\ asking.files \in Seq(Files)
    BY DEF PipeInv, Typed
  <2>. QED
    BY <2>1, Indexed DEF InSeq, Asked
<1>4. (\E k \in Windows : InSeq(f, win[k].queue)) <=> Waiting(f)
  <2>1. \A k \in Windows : win[k].queue \in Seq(Files)
    BY DEF PipeInv, Typed, Window
  <2>2. \A k \in Windows : InSeq(f, win[k].queue) <=> f \in Range(win[k].queue)
    BY <2>1, Indexed DEF InSeq
  <2>. QED
    BY <2>2 DEF Waiting
<1>5. ASSUME Sending(f) PROVE \E k \in Windows : f \in Held(win[k])
  <2>1. PICK r \in runs : r.file = f /\ Holds(r)
    BY <1>5 DEF Sending
  <2>2. Held(win[r.key]) = {f} /\ r.key \in Windows
    BY <2>1, LiveRun DEF Live, Holds
  <2>. QED
    BY <2>2
<1>6. ASSUME Failed(f) PROVE \E k \in Windows : f \in Held(win[k])
  BY <1>6 DEF Failed, Held
<1>7. ASSUME NEW k \in Windows, f \in Held(win[k]) PROVE Sending(f) \/ Failed(f)
  <2>1. f = win[k].last
    BY <1>7 DEF Held
  <2>2. CASE win[k].inflight = 0
    BY <1>7, <2>1, <2>2 DEF Held, Failed
  <2>3. CASE win[k].inflight # 0
    <3>1. PICK r \in runs : r.key = k /\ r.ctl = win[k].inflight
      BY <2>3 DEF PipeInv, Owned
    <3>2. Holds(r)
      BY <3>1 DEF Holds
    <3>3. r.file = win[k].last
      BY <3>1, <3>2 DEF PipeInv, Owned
    <3>. QED
      BY <2>1, <3>2, <3>3 DEF Sending
  <2>. QED
    BY <2>2, <2>3
<1>. QED
  BY <1>1, <1>2, <1>3, <1>4, <1>5, <1>6, <1>7 DEF FateOf, Sending, Failed

\* A file that was picked before a step: where it may come to be.
LEMMA PlaceStep ==
    ASSUME PipeInv, PipeInv', Kept, Sent, Placed, Placed', NEW f \in Files, f \in Picked
    PROVE  /\ f \in Picked'
           /\ f \in Posted => f \in Posted'
           /\ f \in Posted' /\ f \notin Posted => Sending(f) /\ f \notin Asked /\ ~Waiting(f)
           /\ f \in Asked' => f \in Asked
           /\ Waiting(f)' => f \in Asked \/ Waiting(f)
           /\ Sending(f)' \/ Failed(f)' => f \in Asked \/ Waiting(f) \/ Sending(f) \/ Failed(f)
<1>1. f \in Picked' /\ (f \in Posted => f \in Posted') /\ (f \in Asked' => f \in Asked)
  BY DEF Kept
<1>2. ASSUME f \in Posted', f \notin Posted PROVE Sending(f) /\ f \notin Asked /\ ~Waiting(f)
  <2>1. PICK r \in runs : Holds(r) /\ r.file = f
    BY <1>2 DEF Sent
  <2>2. /\ f \in Mine(win[r.key]) /\ r.key \in Windows
        /\ f \notin Range(win[r.key].queue)
    BY <2>1, LiveRun DEF Live, Holds, Mine, Tidy
  <2>3. f \notin Asked
    BY <2>2 DEF PipeInv, Apart
  <2>4. ~Waiting(f)
    <3>. SUFFICES ASSUME NEW k \in Windows, f \in Range(win[k].queue) PROVE FALSE
      BY DEF Waiting
    <3>1. k # r.key /\ f \in Mine(win[k])
      BY <2>2 DEF Mine
    <3>. QED
      BY <2>2, <3>1 DEF PipeInv, Apart
  <2>. QED
    BY <2>1, <2>3, <2>4 DEF Sending
<1>3. Waiting(f)' => f \in Asked \/ Waiting(f)
  BY DEF Kept, Waiting
<1>4. ASSUME Sending(f)' \/ Failed(f)'
      PROVE  f \in Asked \/ Waiting(f) \/ Sending(f) \/ Failed(f)
  <2>1. PICK k \in Windows : f \in Held(win[k])'
    BY <1>4 DEF Placed
  <2>2. f \in Mine(win'[k])
    BY <2>1 DEF Mine, Held
  <2>3. f \in Asked \/ f \in Mine(win[k])
    BY <2>2 DEF Kept
  <2>4. f \in Asked \/ Waiting(f) \/ f \in Held(win[k])
    BY <2>3 DEF Mine, Waiting
  <2>. QED
    BY <2>4 DEF Placed
<1>. QED
  BY <1>1, <1>2, <1>3, <1>4

LEMMA FateStep ==
    ASSUME PipeInv, PipeInv', Kept, Sent, Placed, Placed', NEW f \in Files
    PROVE  /\ FateOf(f)' \in Abstract!Becomes(FateOf(f))
           /\ FateOf(f)' \in Abstract!Fates
           /\ FateOf(f)' = "posted" => f \in Posted'
           /\ f \in Posted => FateOf(f) = "posted"
<1>. DEFINE a == f \in Asked
            w == Waiting(f)
            s == Sending(f)
            x == Failed(f)
            p == f \in Posted
            n == f \notin Picked
            a1 == f \in Asked'
            w1 == Waiting(f)'
            s1 == Sending(f)'
            x1 == Failed(f)'
            p1 == f \in Posted'
            n1 == f \notin Picked'
            y == FateOf(f)
            y1 == FateOf(f)'
<1>1. /\ n => y = "new"
      /\ ~n /\ p => y = "posted"
      /\ ~n /\ ~p /\ a => y = "asked"
      /\ ~n /\ ~p /\ ~a /\ w => y = "waiting"
      /\ ~n /\ ~p /\ ~a /\ ~w /\ s => y = "sending"
      /\ ~n /\ ~p /\ ~a /\ ~w /\ ~s /\ x => y = "failed"
      /\ ~n /\ ~p /\ ~a /\ ~w /\ ~s /\ ~x => y = "gone"
  BY DEF Placed
<1>2. /\ n1 => y1 = "new"
      /\ ~n1 /\ p1 => y1 = "posted"
      /\ ~n1 /\ ~p1 /\ a1 => y1 = "asked"
      /\ ~n1 /\ ~p1 /\ ~a1 /\ w1 => y1 = "waiting"
      /\ ~n1 /\ ~p1 /\ ~a1 /\ ~w1 /\ s1 => y1 = "sending"
      /\ ~n1 /\ ~p1 /\ ~a1 /\ ~w1 /\ ~s1 /\ x1 => y1 = "failed"
      /\ ~n1 /\ ~p1 /\ ~a1 /\ ~w1 /\ ~s1 /\ ~x1 => y1 = "gone"
  BY DEF Placed
<1>3. n => ~p /\ ~p1
  <2>1. Posted \subseteq Picked /\ \A k \in Windows : Mine(win[k]) \subseteq Picked
    BY DEF PipeInv, Known
  <2>2. \A r \in runs : Holds(r) => r.file \in Picked
    BY <2>1, LiveRun DEF Live, Holds, Mine
  <2>. QED
    BY <2>1, <2>2 DEF Sent
<1>4. ~n => /\ ~n1 /\ (p => p1) /\ (p1 /\ ~p => s /\ ~a /\ ~w) /\ (a1 => a)
            /\ (w1 => a \/ w) /\ (s1 \/ x1 => a \/ w \/ s \/ x)
  BY PlaceStep
<1>. HIDE DEF a, w, s, x, p, n, a1, w1, s1, x1, p1, n1, y, y1
<1>5. p => y = "posted"
  BY <1>1, <1>3
<1>6. y1 = "posted" => p1
  BY <1>2
<1>7. y1 \in Abstract!Fates
  BY <1>2 DEF Abstract!Fates
<1>8. y1 \in Abstract!Becomes(y)
  <2>1. CASE n
    BY <1>1, <1>2, <1>3, <2>1 DEF Abstract!Becomes, Abstract!Fates
  <2>2. CASE ~n /\ p
    BY <1>1, <1>2, <1>4, <2>2 DEF Abstract!Becomes, Abstract!Fates
  <2>3. CASE ~n /\ ~p /\ a
    BY <1>1, <1>2, <1>4, <2>3 DEF Abstract!Becomes, Abstract!Fates
  <2>4. CASE ~n /\ ~p /\ ~a /\ w
    BY <1>1, <1>2, <1>4, <2>4 DEF Abstract!Becomes, Abstract!Fates
  <2>5. CASE ~n /\ ~p /\ ~a /\ ~w /\ s
    BY <1>1, <1>2, <1>4, <2>5 DEF Abstract!Becomes, Abstract!Fates
  <2>6. CASE ~n /\ ~p /\ ~a /\ ~w /\ ~s /\ x
    BY <1>1, <1>2, <1>4, <2>6 DEF Abstract!Becomes, Abstract!Fates
  <2>7. CASE ~n /\ ~p /\ ~a /\ ~w /\ ~s /\ ~x
    BY <1>1, <1>2, <1>4, <2>7 DEF Abstract!Becomes, Abstract!Fates
  <2>. QED
    BY <2>1, <2>2, <2>3, <2>4, <2>5, <2>6, <2>7
<1>. QED
  BY <1>5, <1>6, <1>7, <1>8 DEF p, p1, y, y1

\* The pipeline implements UploadFate: every step of it, of whatever window, is
\* for each file a step of its fate or none at all; a file cancelled, skipped or
\* replaced is never posted however late its run settles, and no step posts two.
THEOREM FatesImplemented == Spec => FatesAreKept
<1>. DEFINE fates == [f \in Files |-> FateOf(f)]
<1>1. Init => Abstract!Init
  <2>. SUFFICES ASSUME Init PROVE fates = [f \in Files |-> "new"]
    BY DEF Abstract!Init
  <2>1. \A f \in Files : picker[f] = 0
    BY DEF Init
  <2>2. Placed /\ \A f \in Files : f \notin Picked
    BY <2>1, PipeInvInit, FatePlaced DEF Picked
  <2>. QED
    BY <2>2 DEF Placed
<1>2. PipeInv /\ PipeInv' /\ Placed /\ Placed' /\ [Next]_upVars => [Abstract!Next]_fates
  <2>. SUFFICES ASSUME PipeInv, PipeInv', Placed, Placed', [Next]_upVars
                PROVE  Abstract!Next
    OBVIOUS
  <2>1. Kept /\ Sent
    BY PipeInvStep
  <2>2. \A f \in Files : /\ FateOf(f)' \in Abstract!Becomes(FateOf(f))
                         /\ FateOf(f)' \in Abstract!Fates
                         /\ FateOf(f)' = "posted" => f \in Posted'
                         /\ f \in Posted => FateOf(f) = "posted"
    BY <2>1, FateStep
  <2>3. fates' \in [Files -> Abstract!Fates]
    BY <2>2
  <2>4. \A f \in Files : fates'[f] = FateOf(f)' /\ fates[f] = FateOf(f)
    OBVIOUS
  <2>. HIDE DEF fates
  <2>5. \A f \in Files : fates'[f] \in Abstract!Becomes(fates[f])
    BY <2>2, <2>4
  <2>6. ASSUME NEW f \in Files, NEW g \in Files, fates'[f] = "posted", fates'[g] = "posted"
        PROVE  f = g \/ "posted" \in {fates[f], fates[g]}
    <3>1. f \in Posted' /\ g \in Posted'
      BY <2>2, <2>4, <2>6
    <3>2. f \in Posted \/ g \in Posted \/ f = g
      BY <2>1, <3>1 DEF Sent
    <3>. QED
      BY <2>2, <2>4, <3>2
  <2>. QED
    BY <2>3, <2>5, <2>6 DEF Abstract!Next, fates
<1>3. Spec => [](PipeInv /\ Placed)
  BY PipeInvariant, FatePlaced, PTL
<1>. QED
  BY <1>1, <1>2, <1>3, PTL DEF Spec, FatesAreKept, Abstract!Spec

=============================================================================
