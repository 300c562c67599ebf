------------------------ MODULE Registration_proofs ------------------------
(***************************************************************************)
(* The handshake over the wire, for every capability set, ladder, nick     *)
(* length, set of credentials and profile of the ircd: the closed loop is  *)
(* an instance of the open handshake, and SASL is used when it is offered. *)
(*                                                                         *)
(* The argument for SASL is that the negotiation is one exchange.  Of the  *)
(* frames the ircd answers and the lines that advance the FSM, exactly one *)
(* is in flight (two while a split LS reply is), it fits the phase the FSM *)
(* is in, and it carries sasl as long as nobody has refused it.  Whatever  *)
(* the nick ladder sends and hears in between changes neither.             *)
(***************************************************************************)
EXTENDS Registration, AuthFSM_proofs, FiniteSetTheorems, SequenceTheorems

-----------------------------------------------------------------------------
(* Queues.                                                                 *)

\* q holds no element of V.
None(q, V) == \A i \in 1..Len(q) : q[i] \notin V

\* x is the only element of V in q.
Only(q, V, x) ==
    /\ x \in V
    /\ \E i \in 1..Len(q) : q[i] = x /\ \A k \in 1..Len(q) : q[k] \in V => k = i

\* x and then y are the only elements of V in q.
Pair(q, V, x, y) ==
    /\ x \in V /\ y \in V
    /\ \E i, k \in 1..Len(q) :
          /\ i < k /\ q[i] = x /\ q[k] = y
          /\ \A h \in 1..Len(q) : q[h] \in V => h \in {i, k}

\* What the tail of a queue is.
LEMMA TailAt ==
    ASSUME NEW S, NEW q \in Seq(S), q # <<>>
    PROVE  /\ Head(q) = q[1] /\ Head(q) \in S /\ 1 \in 1..Len(q)
           /\ Tail(q) \in Seq(S) /\ Len(Tail(q)) = Len(q) - 1 /\ Len(q) \in Nat
           /\ \A i \in 1..Len(Tail(q)) : Tail(q)[i] = q[i + 1] /\ i + 1 \in 1..Len(q)
OBVIOUS

\* What the concatenation of two queues is.
LEMMA ConcatAt ==
    ASSUME NEW S, NEW q \in Seq(S), NEW r \in Seq(S)
    PROVE  /\ q \o r \in Seq(S) /\ Len(q \o r) = Len(q) + Len(r)
           /\ Len(q) \in Nat /\ Len(r) \in Nat
           /\ \A i \in 1..Len(q) : (q \o r)[i] = q[i] /\ i \in 1..Len(q \o r)
           /\ \A i \in 1..Len(r) : (q \o r)[Len(q) + i] = r[i] /\ Len(q) + i \in 1..Len(q \o r)
           /\ \A i \in 1..Len(q \o r) :
                 i \in 1..Len(q) \/ \E k \in 1..Len(r) : i = Len(q) + k
<1>1. \A i \in 1..Len(q \o r) : i \in 1..Len(q) \/ i - Len(q) \in 1..Len(r)
  OBVIOUS
<1>2. \A i \in 1..Len(q \o r) :
         i \in 1..Len(q) \/ \E k \in 1..Len(r) : i = Len(q) + k
  <2> SUFFICES ASSUME NEW i \in 1..Len(q \o r), i \notin 1..Len(q)
               PROVE  \E k \in 1..Len(r) : i = Len(q) + k
    OBVIOUS
  <2>1. i - Len(q) \in 1..Len(r) /\ i = Len(q) + (i - Len(q))
    BY <1>1
  <2>. QED
    BY <2>1
<1>. QED
  BY <1>2

\* Taking the head of a queue without elements of V.
LEMMA NoneTail ==
    ASSUME NEW S, NEW q \in Seq(S), q # <<>>, NEW V, None(q, V)
    PROVE  None(Tail(q), V) /\ Head(q) \notin V
BY TailAt DEF None

\* Joining two of them.
LEMMA NoneConcat ==
    ASSUME NEW S, NEW q \in Seq(S), NEW r \in Seq(S), NEW V, None(q, V), None(r, V)
    PROVE  None(q \o r, V)
<1>. SUFFICES ASSUME NEW i \in 1..Len(q \o r) PROVE (q \o r)[i] \notin V
  BY DEF None
<1>1. CASE i \in 1..Len(q)
  BY <1>1, ConcatAt DEF None
<1>2. CASE i \notin 1..Len(q)
  <2>1. PICK k \in 1..Len(r) : i = Len(q) + k
    BY <1>2, ConcatAt
  <2>. QED
    BY <2>1, ConcatAt DEF None
<1>. QED
  BY <1>1, <1>2

\* The only element of V in a queue may be its head.
LEMMA OnlyHead ==
    ASSUME NEW S, NEW q \in Seq(S), q # <<>>, NEW V, NEW x, Only(q, V, x), Head(q) \in V
    PROVE  Head(q) = x /\ None(Tail(q), V)
<1>1. PICK i \in 1..Len(q) : q[i] = x /\ \A k \in 1..Len(q) : q[k] \in V => k = i
  BY DEF Only
<1>2. i = 1 /\ Head(q) = x
  BY <1>1, TailAt
<1>3. ASSUME NEW k \in 1..Len(Tail(q)) PROVE Tail(q)[k] \notin V
  <2>1. Tail(q)[k] = q[k + 1] /\ k + 1 \in 1..Len(q) /\ k + 1 # 1
    BY TailAt
  <2>. QED
    BY <1>1, <1>2, <2>1
<1>. QED
  BY <1>2, <1>3 DEF None

\* Or it is in the tail.
LEMMA OnlyTail ==
    ASSUME NEW S, NEW q \in Seq(S), q # <<>>, NEW V, NEW x, Only(q, V, x), Head(q) \notin V
    PROVE  Only(Tail(q), V, x)
<1>1. PICK i \in 1..Len(q) : q[i] = x /\ \A k \in 1..Len(q) : q[k] \in V => k = i
  BY DEF Only
<1>2. i # 1 /\ i - 1 \in 1..Len(Tail(q)) /\ (i - 1) + 1 = i
  BY <1>1, TailAt DEF Only
<1>3. Tail(q)[i - 1] = x
  BY <1>1, <1>2, TailAt
<1>4. ASSUME NEW k \in 1..Len(Tail(q)), Tail(q)[k] \in V PROVE k = i - 1
  <2>1. Tail(q)[k] = q[k + 1] /\ k + 1 \in 1..Len(q)
    BY TailAt
  <2>2. k + 1 = i
    BY <1>1, <1>4, <2>1
  <2>. QED
    BY <2>2
<1>. QED
  BY <1>2, <1>3, <1>4 DEF Only

\* Something else may be put behind it.
LEMMA OnlyConcat ==
    ASSUME NEW S, NEW q \in Seq(S), NEW r \in Seq(S), NEW V, NEW x, Only(q, V, x), None(r, V)
    PROVE  Only(q \o r, V, x)
<1>1. PICK i \in 1..Len(q) : q[i] = x /\ \A k \in 1..Len(q) : q[k] \in V => k = i
  BY DEF Only
<1>2. i \in 1..Len(q \o r) /\ (q \o r)[i] = x
  BY <1>1, ConcatAt
<1>3. ASSUME NEW h \in 1..Len(q \o r), (q \o r)[h] \in V PROVE h = i
  <2>1. CASE h \in 1..Len(q)
    BY <1>1, <1>3, <2>1, ConcatAt
  <2>2. CASE h \notin 1..Len(q)
    <3>1. PICK k \in 1..Len(r) : h = Len(q) + k
      BY <2>2, ConcatAt
    <3>. QED
      BY <1>3, <3>1, ConcatAt DEF None
  <2>. QED
    BY <2>1, <2>2
<1>. QED
  BY <1>2, <1>3 DEF Only

\* A queue without elements of V gets its only one.
LEMMA OnlyNew ==
    ASSUME NEW S, NEW q \in Seq(S), NEW x \in S, NEW V, x \in V, None(q, V)
    PROVE  Only(q \o <<x>>, V, x)
<1>. DEFINE n == Len(q) + 1
<1>1. <<x>> \in Seq(S) /\ Len(<<x>>) = 1 /\ <<x>>[1] = x
  OBVIOUS
<1>2. n \in 1..Len(q \o <<x>>) /\ (q \o <<x>>)[n] = x
  BY <1>1, ConcatAt
<1>3. ASSUME NEW h \in 1..Len(q \o <<x>>), (q \o <<x>>)[h] \in V PROVE h = n
  <2>1. h \notin 1..Len(q)
    BY <1>1, <1>3, ConcatAt DEF None
  <2>2. PICK k \in 1..Len(<<x>>) : h = Len(q) + k
    BY <1>1, <2>1, ConcatAt
  <2>. QED
    BY <1>1, <2>2
<1>. QED
  BY <1>2, <1>3 DEF Only

\* Of a pair the head is the first.
LEMMA PairHead ==
    ASSUME NEW S, NEW q \in Seq(S), q # <<>>, NEW V, NEW x, NEW y, Pair(q, V, x, y),
           Head(q) \in V
    PROVE  Head(q) = x /\ Only(Tail(q), V, y)
<1>1. PICK i, k \in 1..Len(q) :
          /\ i < k /\ q[i] = x /\ q[k] = y
          /\ \A h \in 1..Len(q) : q[h] \in V => h \in {i, k}
  BY DEF Pair
<1>2. i = 1 /\ Head(q) = x
  BY <1>1, TailAt
<1>3. k - 1 \in 1..Len(Tail(q)) /\ (k - 1) + 1 = k
  BY <1>1, <1>2, TailAt
<1>4. Tail(q)[k - 1] = y
  BY <1>1, <1>3, TailAt
<1>5. ASSUME NEW h \in 1..Len(Tail(q)), Tail(q)[h] \in V PROVE h = k - 1
  <2>1. Tail(q)[h] = q[h + 1] /\ h + 1 \in 1..Len(q) /\ h + 1 # 1
    BY TailAt
  <2>2. h + 1 = k
    BY <1>1, <1>2, <1>5, <2>1
  <2>. QED
    BY <2>2
<1>. QED
  BY <1>2, <1>3, <1>4, <1>5 DEF Only, Pair

\* Or both are in the tail.
LEMMA PairTail ==
    ASSUME NEW S, NEW q \in Seq(S), q # <<>>, NEW V, NEW x, NEW y, Pair(q, V, x, y),
           Head(q) \notin V
    PROVE  Pair(Tail(q), V, x, y)
<1>1. PICK i, k \in 1..Len(q) :
          /\ i < k /\ q[i] = x /\ q[k] = y
          /\ \A h \in 1..Len(q) : q[h] \in V => h \in {i, k}
  BY DEF Pair
<1>2. /\ i # 1 /\ i - 1 \in 1..Len(Tail(q)) /\ (i - 1) + 1 = i
      /\ k # 1 /\ k - 1 \in 1..Len(Tail(q)) /\ (k - 1) + 1 = k
  BY <1>1, TailAt DEF Pair
<1>3. Tail(q)[i - 1] = x /\ Tail(q)[k - 1] = y
  BY <1>1, <1>2, TailAt
<1>4. ASSUME NEW h \in 1..Len(Tail(q)), Tail(q)[h] \in V PROVE h \in {i - 1, k - 1}
  <2>1. Tail(q)[h] = q[h + 1] /\ h + 1 \in 1..Len(q)
    BY TailAt
  <2>2. h + 1 \in {i, k}
    BY <1>1, <1>4, <2>1
  <2>. QED
    BY <2>2
<1>5. i - 1 < k - 1
  BY <1>1
<1>. QED
  BY <1>2, <1>3, <1>4, <1>5 DEF Pair

\* Something else may be put behind them.
LEMMA PairConcat ==
    ASSUME NEW S, NEW q \in Seq(S), NEW r \in Seq(S), NEW V, NEW x, NEW y,
           Pair(q, V, x, y), None(r, V)
    PROVE  Pair(q \o r, V, x, y)
<1>1. PICK i, k \in 1..Len(q) :
          /\ i < k /\ q[i] = x /\ q[k] = y
          /\ \A h \in 1..Len(q) : q[h] \in V => h \in {i, k}
  BY DEF Pair
<1>2. /\ i \in 1..Len(q \o r) /\ (q \o r)[i] = x
      /\ k \in 1..Len(q \o r) /\ (q \o r)[k] = y
  BY <1>1, ConcatAt
<1>3. ASSUME NEW h \in 1..Len(q \o r), (q \o r)[h] \in V PROVE h \in {i, k}
  <2>1. CASE h \in 1..Len(q)
    BY <1>1, <1>3, <2>1, ConcatAt
  <2>2. CASE h \notin 1..Len(q)
    <3>1. PICK j \in 1..Len(r) : h = Len(q) + j
      BY <2>2, ConcatAt
    <3>. QED
      BY <1>3, <3>1, ConcatAt DEF None
  <2>. QED
    BY <2>1, <2>2
<1>. QED
  BY <1>1, <1>2, <1>3 DEF Pair

-----------------------------------------------------------------------------
(* The types of the wire.                                                  *)

Verbs == {"PASS", "CAP_LS", "NICK", "USER", "CAP_REQ", "CAP_END",
          "AUTHENTICATE_PLAIN", "AUTHENTICATE_PAYLOAD"}
Frames == [verb : Verbs, secret : Secrets, caps : SUBSET Caps]

\* Both directions carry frames and lines of the protocol.
Wire ==
    /\ toServer \in Seq(Frames)
    /\ toClient \in Seq(Messages)
    /\ ircd \in Profiles

\* A frame is built of a verb, a secret of the credential and known capabilities.
LEMMA FrameTypes ==
    ASSUME NEW v \in Verbs, NEW s \in Secrets, NEW c \in SUBSET Caps
    PROVE  /\ Frame(v) \in Frames /\ Frame(v).verb = v
           /\ SecretFrame(v, s) \in Frames /\ SecretFrame(v, s).verb = v
           /\ CapReq(c) \in Frames /\ CapReq(c).verb = "CAP_REQ" /\ CapReq(c).caps = c
BY DEF Frame, SecretFrame, CapReq, Frames, Verbs, Secrets

\* The lines of the ircd are messages the FSM knows.
LEMMA LineTypes ==
    /\ \A c \in {"LS_MORE", "LS", "ACK"} : \A s \in SUBSET Caps :
          /\ WithCaps(c, s) \in Messages
          /\ WithCaps(c, s).cmd = c /\ WithCaps(c, s).caps = s
    /\ \A e \in 0..MaxNickLen :
          /\ [Message("433") EXCEPT !.echo = e] \in Messages
          /\ [Message("433") EXCEPT !.echo = e].cmd = "433"
    /\ \A c \in {"NAK", "AUTHENTICATE_PLUS", "001", "903", "904", "OTHER"} :
          Message(c) \in Messages /\ Message(c).cmd = c
<1>1. ASSUME NEW c \in {"LS_MORE", "LS", "ACK"}, NEW s \in SUBSET Caps
      PROVE  /\ WithCaps(c, s) \in CapMessages
             /\ WithCaps(c, s).cmd = c /\ WithCaps(c, s).caps = s
  <2>1. WithCaps(c, s) = [Message(c) EXCEPT !.caps = s]
    BY DEF WithCaps
  <2>2. WithCaps(c, s) \in CapMessages
    <3>. DEFINE M(d, t) == [Message(d) EXCEPT !.caps = t]
    <3>1. CapMessages = {M(d, t) : d \in {"LS_MORE", "LS", "ACK"}, t \in SUBSET Caps}
      BY DEF CapMessages
    <3>2. WithCaps(c, s) = M(c, s)
      BY <2>1
    <3>. HIDE DEF M
    <3>. QED
      BY <3>1, <3>2
  <2>. QED
    BY <2>1, <2>2 DEF Message
<1>2. ASSUME NEW e \in 0..MaxNickLen
      PROVE  /\ [Message("433") EXCEPT !.echo = e] \in NickMessages
             /\ [Message("433") EXCEPT !.echo = e].cmd = "433"
  BY DEF Message, NickMessages
<1>3. ASSUME NEW c \in {"NAK", "AUTHENTICATE_PLUS", "001", "903", "904", "OTHER"}
      PROVE  Message(c) \in PlainMessages /\ Message(c).cmd = c
  BY DEF Message, PlainMessages
<1>. QED
  BY <1>1, <1>2, <1>3 DEF Messages

\* What a message holds.
LEMMA MessageParts ==
    ASSUME NEW m \in Messages
    PROVE  /\ m.caps \subseteq Caps /\ m.echo \in 0..MaxNickLen
           /\ m.cmd \in {"LS_MORE", "LS", "ACK", "NAK", "AUTHENTICATE_PLUS",
                         "AUTHENTICATE_OTHER", "001", "432", "433", "903", "904", "OTHER"}
BY NickLenAssumption DEF Messages, CapMessages, NickMessages, PlainMessages, Message, Caps

\* Every step of the FSM hands the Client frames of the protocol.
LEMMA StepFrames ==
    ASSUME FsmInv, NEW m \in Messages, Step(m)
    PROVE  out' = <<>> \/ \E f \in Frames : out' = <<f>>
<1>1. Extras \subseteq Caps /\ {"sasl"} \in SUBSET Caps
  BY DEF Caps
<1>2. \A x \in SUBSET Caps : /\ CapReq({"sasl"} \cup (x \cap Extras)) \in Frames
                             /\ CapReq(x \cap Extras) \in Frames
                             /\ CapReq({"sasl"}) \in Frames
  BY <1>1, FrameTypes DEF Verbs, Secrets
<1>3. /\ Frame("CAP_END") \in Frames /\ Frame("NICK") \in Frames
      /\ Frame("AUTHENTICATE_PLAIN") \in Frames
  BY FrameTypes DEF Verbs, Secrets
<1>4. opts.password \in Secrets /\ SecretFrame("AUTHENTICATE_PAYLOAD", opts.password) \in Frames
  BY FrameTypes DEF FsmInv, FsmTypeOK, Opts, Verbs
<1>5. m.caps \cup caps_buffer \in SUBSET Caps
  BY MessageParts DEF FsmInv, FsmTypeOK
<1>. QED
  BY <1>2, <1>3, <1>4, <1>5
  DEF Step, CapLsMore, CapLs, FinalizeCapLs, CapUnavailable, CapAck, CapNak,
      AuthenticatePlus, SaslSuccess, SaslFail, NickInUse, NickRejected, Welcome, Absorb, Emit

\* A queue of frames and at most one more.
LEMMA Appended ==
    ASSUME NEW S, NEW q \in Seq(S), NEW r, r = <<>> \/ \E f \in S : r = <<f>>
    PROVE  q \o r \in Seq(S) /\ r \in Seq(S)
<1>1. r \in Seq(S)
  <2>1. CASE r = <<>>
    BY <2>1
  <2>2. ASSUME NEW f \in S, r = <<f>> PROVE r \in Seq(S)
    BY <2>2
  <2>. QED
    BY <2>1, <2>2
<1>. QED
  BY <1>1

-----------------------------------------------------------------------------
(* The closed loop implements the open handshake.                          *)

\* The session leaves everything but its own books and the queue of frames
\* alone, and puts a NICK in that while it holds a password.
LEMMA SessionStep ==
    ASSUME Session
    PROVE  /\ UNCHANGED <<fsmVars, ircd, srvVars, toClient>>
           /\ pending_password' => pending_password
           /\ \/ toServer' = toServer
              \/ pending_password /\ toServer' = toServer \o <<Frame("NICK")>>
BY DEF Session, ArmGhost, IgnoreCollision, GhostTimeout, HearWelcome, Flush

\* A step of the loop is a step of the handshake or leaves it alone.
LEMMA LoopStep == Wire /\ [RegNext]_regVars => [FsmNext]_fsmVars
<1> SUFFICES ASSUME Wire, [RegNext]_regVars PROVE [FsmNext]_fsmVars
  OBVIOUS
<1>1. CASE Connect
  BY <1>1 DEF Connect, FsmNext
<1>2. CASE ReceiveLine
  <2>1. Head(toClient) \in Messages
    BY <1>2, TailAt DEF Wire, ReceiveLine
  <2>. QED
    BY <1>2, <2>1 DEF ReceiveLine, FsmNext
<1>3. CASE IrcdReceive
  BY <1>3 DEF IrcdReceive
<1>4. CASE IrcdWelcome
  BY <1>4 DEF IrcdWelcome
<1>5. CASE Session
  BY <1>5, SessionStep
<1>6. CASE UNCHANGED regVars
  BY <1>6 DEF regVars
<1>. QED
  BY <1>1, <1>2, <1>3, <1>4, <1>5, <1>6 DEF RegNext

\* The opening frames: a PASS or none, then CAP LS or not, then NICK and USER.
Opened(p, c) == p \o c \o <<Frame("NICK"), Frame("USER")>>
Passes == {<<>>} \cup {<<SecretFrame("PASS", s)>> : s \in Secrets}

\* They are frames of the protocol.
LEMMA OpenedTypes ==
    ASSUME NEW p \in Passes, NEW c \in {<<>>, <<Frame("CAP_LS")>>}
    PROVE  Opened(p, c) \in Seq(Frames)
<1>0. {} \in SUBSET Caps /\ "nil" \in Secrets
  BY DEF Secrets
<1>1. p \in Seq(Frames)
  <2>1. CASE p = <<>>
    BY <2>1
  <2>2. ASSUME NEW s \in Secrets, p = <<SecretFrame("PASS", s)>> PROVE p \in Seq(Frames)
    <3>1. SecretFrame("PASS", s) \in Frames
      BY <1>0, FrameTypes DEF Verbs
    <3>. QED
      BY <2>2, <3>1
  <2>. QED
    BY <2>1, <2>2 DEF Passes
<1>2. c \in Seq(Frames) /\ <<Frame("NICK"), Frame("USER")>> \in Seq(Frames)
  <2>1. Frame("NICK") \in Frames /\ Frame("USER") \in Frames /\ Frame("CAP_LS") \in Frames
    BY <1>0, FrameTypes DEF Verbs
  <2>2. <<Frame("NICK"), Frame("USER")>> \in Seq(Frames) /\ <<Frame("CAP_LS")>> \in Seq(Frames)
    BY <2>1
  <2>3. CASE c = <<>>
    BY <2>2, <2>3
  <2>4. CASE c = <<Frame("CAP_LS")>>
    BY <2>2, <2>4
  <2>. QED
    BY <2>2, <2>3, <2>4
<1>. QED
  BY <1>1, <1>2 DEF Opened

\* What the Client flushes when the socket is up.
LEMMA HandshakeFrames ==
    ASSUME FsmInv, InitialHandshake
    PROVE  \E p \in Passes : out' = Opened(p, IF SpeaksCap THEN <<Frame("CAP_LS")>> ELSE <<>>)
<1>1. opts.server_pass \in Secrets /\ opts.password \in Secrets
  BY DEF FsmInv, FsmTypeOK, Opts
<1>2. MaybePass \in Passes
  BY <1>1 DEF MaybePass, Passes
<1>. QED
  BY <1>2 DEF InitialHandshake, Emit, Opened

-----------------------------------------------------------------------------
(* The inductive invariant.                                                *)

\* The frames that move the negotiation, and the lines that answer them.
Asking == {f \in Frames : f.verb \notin {"PASS", "NICK", "USER"}}
Answering == {m \in Messages : m.cmd \in {"LS_MORE", "LS", "ACK", "NAK", "AUTHENTICATE_PLUS",
                                          "001", "903", "904"}}

\* f is what the FSM waits to have answered, and it is about sasl.
Asks(f) ==
    \/ /\ phase \in AckPhases
       /\ f.verb = "CAP_REQ" /\ "sasl" \in f.caps
       /\ phase # "awaiting_cap_ack_combined" => f.caps = {"sasl"}
    \/ /\ phase = "sasl_pending"
       /\ f.verb \in {"AUTHENTICATE_PLAIN", "AUTHENTICATE_PAYLOAD"}

\* m answers what the FSM waits for, and does not end the talk of sasl.
Answers(m) ==
    \/ phase = "awaiting_cap_ls" /\ m.cmd = "LS" /\ "sasl" \in m.caps \cup caps_buffer
    \/ phase \in AckPhases /\ m.cmd = "ACK" /\ "sasl" \in m.caps
    \/ phase = "awaiting_cap_ack_combined" /\ m.cmd = "NAK"
    \/ phase = "sasl_pending" /\ m.cmd \in {"AUTHENTICATE_PLUS", "903", "904"}

\* The one thing in flight: a frame, a line, or the two lines of a split list.
FrameInFlight ==
    /\ None(toClient, Answering)
    /\ \E f \in Asking : Only(toServer, Asking, f) /\ Asks(f)
LineInFlight ==
    /\ None(toServer, Asking)
    /\ \E m \in Answering : Only(toClient, Answering, m) /\ Answers(m)
ListInFlight ==
    /\ None(toServer, Asking)
    /\ phase = "awaiting_cap_ls"
    /\ \E m, l \in Answering : /\ Pair(toClient, Answering, m, l)
                               /\ m.cmd = "LS_MORE" /\ l.cmd = "LS"
                               /\ "sasl" \in m.caps \cup l.caps \cup caps_buffer
Exchange == FrameInFlight \/ LineInFlight \/ ListInFlight

\* Before the socket is up, while the opening frames are on their way, and
\* from the CAP LS the ircd has seen on.
Before == /\ phase \in {"unbuilt", "pre_register"} /\ said = {}
          /\ toServer = <<>> /\ toClient = <<>> /\ ~nickOk
Opening == /\ phase = "awaiting_cap_ls" /\ said # {}
           /\ toClient = <<>> /\ ~nickOk
           /\ \E p \in Passes : toServer = Opened(p, <<Frame("CAP_LS")>>)
Negotiating == said # {} /\ capOpen /\ Exchange

\* SASL is wanted, offered, and not achieved yet.
Due == SpeaksCap /\ ircd.speaksCap /\ "sasl" \in ircd.offers /\ "903" \notin heard

\* As long as SASL is due the client is not welcomed, and unless it gave up
\* with a reason the exchange is under way.
SaslOnItsWay ==
    Due => /\ phase # "registered"
           /\ stop = "none" => ~welcomed /\ (Before \/ Opening \/ Negotiating)

\* The session holds no NickServ password where the negotiation is about SASL.
Spoken == SpeaksCap => ~pending_password

RegInv == FsmInv /\ Wire /\ Spoken /\ SaslOnItsWay

-----------------------------------------------------------------------------
(* What a line does to the exchange.                                       *)

\* A line that is no answer leaves the phase and the buffer alone, and makes
\* the client send a NICK at most.
LEMMA OtherLine ==
    ASSUME NEW m \in Messages, m \notin Answering, Step(m)
    PROVE  /\ UNCHANGED <<phase, caps_buffer>>
           /\ out' = <<>> \/ out' = <<Frame("NICK")>>
<1>1. m.cmd \in {"AUTHENTICATE_OTHER", "432", "433", "OTHER"}
  BY MessageParts DEF Answering
<1>2. NickInUse(m.echo) \/ NickRejected(m.cmd) \/ Absorb(m)
  BY <1>1 DEF Step
<1>. QED
  BY <1>2 DEF NickInUse, NickRejected, Absorb, Emit

\* Asking frames are the ones the FSM waits on.
LEMMA AskingFrames ==
    /\ \A c \in SUBSET Caps : CapReq(c) \in Asking
    /\ Frame("AUTHENTICATE_PLAIN") \in Asking
    /\ \A s \in Secrets : SecretFrame("AUTHENTICATE_PAYLOAD", s) \in Asking
    /\ Frame("NICK") \in Frames /\ Frame("NICK") \notin Asking
<1>1. {} \in SUBSET Caps /\ "nil" \in Secrets
  BY DEF Secrets
<1>. QED
  BY <1>1, FrameTypes DEF Verbs, Asking

\* The answer the FSM waits for makes it ask the next question, until the
\* upstream grants or refuses SASL.
LEMMA NextQuestion ==
    ASSUME FsmInv, SpeaksCap, NEW m \in Messages, Step(m), Answers(m),
           stop' = "none", "903" \notin heard'
    PROVE  /\ \E f \in Asking : out' = <<f>> /\ Asks(f)'
           /\ phase' # "registered"
<1>. USE DEF AckPhases
<1>0. /\ opts.method \in {"auto", "sasl"}
      /\ opts.password \in Secrets
      /\ m.caps \cup caps_buffer \in SUBSET Caps
      /\ Extras \subseteq Caps /\ {"sasl"} \in SUBSET Caps
  BY MessageParts DEF SpeaksCap, FsmInv, FsmTypeOK, Opts, Caps
<1>1. CASE phase = "awaiting_cap_ls" /\ m.cmd = "LS" /\ "sasl" \in m.caps \cup caps_buffer
  <2>1. CapLs(m.caps)
    BY <1>1 DEF Step, NickRejected, Absorb, Handles
  <2>. DEFINE extras == (m.caps \cup caps_buffer) \cap Extras
  <2>2. /\ out' = <<CapReq({"sasl"} \cup extras)>>
        /\ phase' = IF extras = {} THEN "awaiting_cap_ack" ELSE "awaiting_cap_ack_combined"
    BY <1>0, <1>1, <2>1 DEF CapLs, FinalizeCapLs, LeaveCapNegotiation, Emit
  <2>3. PICK r \in SUBSET Caps :
            /\ out' = <<CapReq(r)>> /\ "sasl" \in r
            /\ phase' \in {"awaiting_cap_ack", "awaiting_cap_ack_combined"}
            /\ phase' # "awaiting_cap_ack_combined" => r = {"sasl"}
    BY <1>0, <2>2
  <2>4. CapReq(r) \in Asking /\ CapReq(r).verb = "CAP_REQ" /\ CapReq(r).caps = r
    BY AskingFrames DEF CapReq, Frame
  <2>. QED
    BY <2>3, <2>4 DEF Asks
<1>2. CASE phase \in AckPhases /\ m.cmd = "ACK" /\ "sasl" \in m.caps
  <2>1. CapAck(m.caps)
    BY <1>2 DEF Step, NickRejected, Absorb, Handles
  <2>2. phase' = "sasl_pending" /\ out' = <<Frame("AUTHENTICATE_PLAIN")>>
    BY <1>2, <2>1 DEF CapAck, Emit
  <2>3. Frame("AUTHENTICATE_PLAIN") \in Asking /\ Frame("AUTHENTICATE_PLAIN").verb = "AUTHENTICATE_PLAIN"
    BY AskingFrames DEF Frame
  <2>. QED
    BY <2>2, <2>3 DEF Asks
<1>3. CASE phase = "awaiting_cap_ack_combined" /\ m.cmd = "NAK"
  <2>1. CapNak
    BY <1>3 DEF Step, NickRejected, Absorb, Handles
  <2>2. phase' = "awaiting_cap_ack_sasl_only" /\ out' = <<CapReq({"sasl"})>>
    BY <1>3, <2>1 DEF CapNak, Emit
  <2>3. CapReq({"sasl"}) \in Asking /\ CapReq({"sasl"}).verb = "CAP_REQ"
        /\ CapReq({"sasl"}).caps = {"sasl"}
    BY <1>0, AskingFrames DEF CapReq, Frame
  <2>. QED
    BY <2>2, <2>3 DEF Asks
<1>4. CASE phase = "sasl_pending" /\ m.cmd \in {"AUTHENTICATE_PLUS", "903", "904"}
  <2>1. AuthenticatePlus
    BY <1>4 DEF Step, NickRejected, Absorb, Handles, SaslSuccess, SaslFail
  <2>2. phase' = phase /\ out' = <<SecretFrame("AUTHENTICATE_PAYLOAD", opts.password)>>
    BY <2>1 DEF AuthenticatePlus, Emit
  <2>3. PICK s \in Secrets : out' = <<SecretFrame("AUTHENTICATE_PAYLOAD", s)>>
    BY <1>0, <2>2
  <2>4. /\ SecretFrame("AUTHENTICATE_PAYLOAD", s) \in Asking
        /\ SecretFrame("AUTHENTICATE_PAYLOAD", s).verb = "AUTHENTICATE_PAYLOAD"
    BY AskingFrames DEF SecretFrame, Frame
  <2>. QED
    BY <1>4, <2>2, <2>3, <2>4 DEF Asks
<1>. QED
  BY <1>1, <1>2, <1>3, <1>4 DEF Answers

\* The first line of a split list is only remembered.
LEMMA HalfList ==
    ASSUME NEW m \in Messages, Step(m), phase = "awaiting_cap_ls", m.cmd = "LS_MORE"
    PROVE  phase' = phase /\ caps_buffer' = m.caps \cup caps_buffer /\ out' = <<>>
BY DEF Step, NickRejected, Absorb, Handles, CapLsMore, Emit

\* Receiving a line keeps the exchange going.
LEMMA ReceiveKeepsExchange ==
    ASSUME FsmInv, Wire, SpeaksCap, Exchange, ReceiveLine,
           stop' = "none", "903" \notin heard'
    PROVE  Exchange' /\ phase' # "registered"
<1>. DEFINE m == Head(toClient)
<1>1. /\ m \in Messages /\ Step(m)
      /\ toClient # <<>> /\ toClient' = Tail(toClient) /\ toServer' = toServer \o out'
      /\ toClient \in Seq(Messages) /\ toServer \in Seq(Frames) /\ toServer' \in Seq(Frames)
  <2>2. toClient # <<>> /\ toClient' = Tail(toClient) /\ Step(m) /\ toServer' = toServer \o out'
    BY DEF ReceiveLine, Flush
  <2>3. toClient \in Seq(Messages) /\ toServer \in Seq(Frames)
    BY DEF Wire
  <2>4. m \in Messages
    BY <2>2, <2>3, TailAt
  <2>. HIDE DEF m
  <2>5. toServer \o out' \in Seq(Frames)
    BY <2>2, <2>3, <2>4, StepFrames, Appended
  <2>. QED
    BY <2>2, <2>3, <2>4, <2>5
<1>. HIDE DEF m
<1>2. Head(toClient) = m
  BY DEF m
<1>3. phase # "registered"
  BY DEF Exchange, FrameInFlight, LineInFlight, ListInFlight, Asks, Answers, AckPhases
<1>4. CASE m \notin Answering
  <2>1. UNCHANGED <<phase, caps_buffer>> /\ (out' = <<>> \/ out' = <<Frame("NICK")>>)
    BY <1>1, <1>4, OtherLine
  <2>2. out' \in Seq(Frames) /\ None(out', Asking)
    <3>1. CASE out' = <<>>
      BY <3>1 DEF None
    <3>2. CASE out' = <<Frame("NICK")>>
      BY <3>2, AskingFrames DEF None
    <3>. QED
      BY <2>1, <3>1, <3>2
  <2>3. CASE FrameInFlight
    <3>1. None(toClient', Answering)
      BY <1>1, <2>3, NoneTail DEF FrameInFlight
    <3>2. PICK f \in Asking : Only(toServer, Asking, f) /\ Asks(f)
      BY <2>3 DEF FrameInFlight
    <3>3. Only(toServer', Asking, f)
      BY <1>1, <2>2, <3>2, OnlyConcat
    <3>4. Asks(f)'
      BY <2>1, <3>2 DEF Asks
    <3>. QED
      BY <1>3, <2>1, <3>1, <3>3, <3>4 DEF Exchange, FrameInFlight
  <2>4. ASSUME None(toServer, Asking) PROVE None(toServer', Asking)
    BY <1>1, <2>2, <2>4, NoneConcat
  <2>5. CASE LineInFlight
    <3>1. PICK l \in Answering : Only(toClient, Answering, l) /\ Answers(l)
      BY <2>5 DEF LineInFlight
    <3>2. Only(toClient', Answering, l)
      BY <1>1, <1>2, <1>4, <3>1, OnlyTail
    <3>3. Answers(l)'
      BY <2>1, <3>1 DEF Answers
    <3>. QED
      BY <1>3, <2>1, <2>4, <2>5, <3>2, <3>3 DEF Exchange, LineInFlight
  <2>6. CASE ListInFlight
    <3>1. PICK h, l \in Answering : /\ Pair(toClient, Answering, h, l)
                                    /\ h.cmd = "LS_MORE" /\ l.cmd = "LS"
                                    /\ "sasl" \in h.caps \cup l.caps \cup caps_buffer
      BY <2>6 DEF ListInFlight
    <3>2. Pair(toClient', Answering, h, l)
      BY <1>1, <1>2, <1>4, <3>1, PairTail
    <3>. QED
      BY <1>3, <2>1, <2>4, <2>6, <3>1, <3>2 DEF Exchange, ListInFlight
  <2>. QED
    BY <2>3, <2>5, <2>6 DEF Exchange
<1>5. CASE m \in Answering
  <2>1. ~FrameInFlight
    BY <1>1, <1>2, <1>5, NoneTail DEF FrameInFlight
  <2>2. CASE LineInFlight
    <3>1. PICK l \in Answering : Only(toClient, Answering, l) /\ Answers(l)
      BY <2>2 DEF LineInFlight
    <3>2. m = l /\ None(toClient', Answering)
      BY <1>1, <1>2, <1>5, <3>1, OnlyHead
    <3>3. PICK f \in Asking : out' = <<f>> /\ Asks(f)'
      BY <1>1, <3>1, <3>2, NextQuestion
    <3>4. phase' # "registered"
      BY <1>1, <3>1, <3>2, NextQuestion
    <3>5. f \in Frames /\ None(toServer, Asking)
      BY <2>2 DEF Asking, LineInFlight
    <3>6. Only(toServer', Asking, f)
      BY <1>1, <3>3, <3>5, OnlyNew
    <3>. QED
      BY <3>2, <3>3, <3>4, <3>6 DEF Exchange, FrameInFlight
  <2>3. CASE ListInFlight
    <3>1. PICK h, l \in Answering : /\ Pair(toClient, Answering, h, l)
                                    /\ h.cmd = "LS_MORE" /\ l.cmd = "LS"
                                    /\ "sasl" \in h.caps \cup l.caps \cup caps_buffer
      BY <2>3 DEF ListInFlight
    <3>2. m = h /\ Only(toClient', Answering, l)
      BY <1>1, <1>2, <1>5, <3>1, PairHead
    <3>3. phase' = phase /\ caps_buffer' = m.caps \cup caps_buffer /\ out' = <<>>
      BY <1>1, <2>3, <3>1, <3>2, HalfList DEF ListInFlight
    <3>4. toServer' = toServer
      BY <1>1, <3>3
    <3>5. Answers(l)' /\ None(toServer', Asking)
      BY <2>3, <3>1, <3>2, <3>3, <3>4 DEF Answers, ListInFlight
    <3>. QED
      BY <1>3, <3>2, <3>3, <3>5 DEF Exchange, LineInFlight
  <2>. QED
    BY <2>1, <2>2, <2>3 DEF Exchange
<1>. QED
  BY <1>4, <1>5

-----------------------------------------------------------------------------
(* What a frame does to the exchange.                                      *)

\* A frame the ircd does not answer leaves the line's side alone, but for a 433.
LEMMA OtherFrame ==
    ASSUME Wire, IrcdReceive, Head(toServer) \notin Asking
    PROVE  /\ capOpen' = capOpen
           /\ \E r : /\ toClient' = toClient \o r
                     /\ r = <<>> \/ \E l \in Messages : r = <<l>> /\ l \notin Answering
<1>. DEFINE f == Head(toServer)
<1>1. f \in Frames /\ toServer # <<>>
  BY TailAt DEF Wire, IrcdReceive
<1>2. f.verb \in {"PASS", "NICK", "USER"}
  BY <1>1 DEF Asking
<1>3. toClient \o <<>> = toClient
  BY DEF Wire
<1>4. CASE f.verb = "NICK" /\ AnswerNick
  <2>1. CASE toClient' # toClient
    <3>1. PICK e \in 0..MaxNickLen : toClient' = toClient \o <<[Message("433") EXCEPT !.echo = e]>>
      BY <1>4, <2>1 DEF AnswerNick, Reply
    <3>2. /\ [Message("433") EXCEPT !.echo = e] \in Messages
          /\ [Message("433") EXCEPT !.echo = e] \notin Answering
      BY LineTypes DEF Answering
    <3>. QED
      BY <1>4, <3>1, <3>2 DEF AnswerNick
  <2>2. CASE toClient' = toClient
    BY <1>3, <1>4, <2>2 DEF AnswerNick
  <2>. QED
    BY <2>1, <2>2
<1>5. CASE f.verb \in {"PASS", "USER"} /\ UNCHANGED <<toClient, capOpen>>
  BY <1>3, <1>5
<1>. QED
  BY <1>2, <1>4, <1>5 DEF IrcdReceive

\* A list that holds sasl offers it, in one line or in two.
LEMMA ListOffers ==
    ASSUME Wire, AnswerCapLs, ircd.speaksCap, "sasl" \in ircd.offers,
           toClient = <<>>, phase = "awaiting_cap_ls",
           UNCHANGED fsmVars, None(toServer', Asking)
    PROVE  capOpen' /\ toClient' \in Seq(Messages) /\ Exchange'
<1>0. PICK offers \in SUBSET Caps : offers = ircd.offers
  BY DEF Wire, Profiles
<1>1. capOpen' = TRUE /\ phase' = phase /\ caps_buffer' = caps_buffer
  BY DEF AnswerCapLs, fsmVars
<1>2. PICK part \in SUBSET offers :
          \/ part = {} /\ Reply(<<WithCaps("LS", offers)>>)
          \/ part # {} /\ Reply(<<WithCaps("LS_MORE", part), WithCaps("LS", offers \ part)>>)
  BY <1>0 DEF AnswerCapLs
<1>. DEFINE m == WithCaps("LS_MORE", part)
            l == WithCaps("LS", offers \ part)
            a == WithCaps("LS", offers)
<1>3. /\ m \in Messages /\ m.cmd = "LS_MORE" /\ m.caps = part
      /\ l \in Messages /\ l.cmd = "LS" /\ l.caps = offers \ part
      /\ a \in Messages /\ a.cmd = "LS" /\ a.caps = offers
  BY <1>0, LineTypes
<1>4. m \in Answering /\ l \in Answering /\ a \in Answering
  BY <1>3 DEF Answering
<1>5. toClient' = <<a>> \/ toClient' = <<m, l>>
  BY <1>2 DEF Reply
<1>. HIDE DEF m, l, a
<1>6. CASE toClient' = <<a>>
  <2>1. Only(toClient', Answering, a)
    BY <1>4, <1>6 DEF Only
  <2>2. Answers(a)'
    BY <1>0, <1>1, <1>3 DEF Answers
  <2>. QED
    BY <1>1, <1>3, <1>4, <1>6, <2>1, <2>2 DEF Exchange, LineInFlight
<1>7. CASE toClient' = <<m, l>>
  <2>1. Pair(toClient', Answering, m, l)
    BY <1>4, <1>7 DEF Pair
  <2>2. "sasl" \in m.caps \cup l.caps \cup caps_buffer'
    BY <1>0, <1>3
  <2>. QED
    BY <1>1, <1>3, <1>4, <1>7, <2>1, <2>2 DEF Exchange, ListInFlight
<1>. QED
  BY <1>5, <1>6, <1>7

\* The answer to what the FSM asks about sasl is one it goes on with.
LEMMA Answered ==
    ASSUME Wire, IrcdReceive, ircd.speaksCap, "sasl" \in ircd.offers,
           Head(toServer) \in Asking, Asks(Head(toServer))
    PROVE  /\ capOpen' = capOpen
           /\ \E l \in Answering : toClient' = toClient \o <<l>> /\ Answers(l)
<1>. DEFINE f == Head(toServer)
<1>1. f \in Frames /\ toServer # <<>>
  BY TailAt DEF Wire, IrcdReceive
<1>2. f.caps \in SUBSET Caps
  BY <1>1 DEF Frames
<1>3. CASE f.verb = "CAP_REQ"
  <2>1. AnswerCapReq(f.caps) /\ phase \in AckPhases /\ "sasl" \in f.caps
    BY <1>3 DEF IrcdReceive, Asks
  <2>2. capOpen' = capOpen
    BY <2>1 DEF AnswerCapReq
  <2>3. CASE toClient' = toClient \o <<WithCaps("ACK", f.caps)>>
    <3>1. WithCaps("ACK", f.caps) \in Answering /\ Answers(WithCaps("ACK", f.caps))
      BY <1>2, <2>1, LineTypes DEF Answering, Answers
    <3>. QED
      BY <2>2, <2>3, <3>1
  <2>4. CASE toClient' # toClient \o <<WithCaps("ACK", f.caps)>>
    <3>1. toClient' = toClient \o <<Message("NAK")>>
      BY <2>1, <2>4 DEF AnswerCapReq, Reply
    <3>2. f.caps # {"sasl"}
      <4>. SUFFICES ASSUME f.caps = {"sasl"} PROVE FALSE
        OBVIOUS
      <4>1. Cardinality(f.caps) = 1
        BY FS_Singleton
      <4>. QED
        BY <2>1, <2>4, <4>1 DEF AnswerCapReq, Reply
    <3>3. phase = "awaiting_cap_ack_combined"
      BY <2>1, <3>2 DEF Asks, AckPhases
    <3>4. Message("NAK") \in Answering /\ Answers(Message("NAK"))
      BY <3>3, LineTypes DEF Answering, Answers
    <3>. QED
      BY <2>2, <3>1, <3>4
  <2>. QED
    BY <2>3, <2>4
<1>4. CASE f.verb = "AUTHENTICATE_PLAIN"
  <2>1. /\ toClient' = toClient \o <<Message("AUTHENTICATE_PLUS")>>
        /\ capOpen' = capOpen /\ phase = "sasl_pending"
    BY <1>4 DEF IrcdReceive, Asks, Reply
  <2>2. Message("AUTHENTICATE_PLUS") \in Answering /\ Answers(Message("AUTHENTICATE_PLUS"))
    BY <2>1, LineTypes DEF Answering, Answers
  <2>. QED
    BY <2>1, <2>2
<1>5. CASE f.verb = "AUTHENTICATE_PAYLOAD"
  <2>1. AnswerPayload /\ phase = "sasl_pending"
    BY <1>5 DEF IrcdReceive, Asks, AckPhases
  <2>2. PICK c \in {"903", "904"} : toClient' = toClient \o <<Message(c)>>
    BY <2>1 DEF AnswerPayload, Reply
  <2>3. Message(c) \in Answering /\ Answers(Message(c))
    BY <2>1, LineTypes DEF Answering, Answers
  <2>. QED
    BY <2>1, <2>2, <2>3 DEF AnswerPayload
<1>. QED
  BY <1>3, <1>4, <1>5 DEF Asks

\* The ircd's reading of a frame keeps the exchange going.
LEMMA IrcdKeepsExchange ==
    ASSUME Wire, ircd.speaksCap, "sasl" \in ircd.offers, Exchange, IrcdReceive
    PROVE  Exchange' /\ capOpen' = capOpen
<1>. DEFINE f == Head(toServer)
<1>1. /\ toServer # <<>> /\ toServer' = Tail(toServer) /\ UNCHANGED fsmVars
      /\ toServer \in Seq(Frames) /\ toClient \in Seq(Messages)
  BY DEF Wire, IrcdReceive
<1>2. UNCHANGED <<phase, caps_buffer>>
  BY <1>1 DEF fsmVars
<1>. HIDE DEF f
<1>3. Head(toServer) = f
  BY DEF f
<1>4. CASE f \notin Asking
  <2>1. capOpen' = capOpen
    BY <1>3, <1>4, OtherFrame
  <2>2. PICK r : /\ toClient' = toClient \o r
                 /\ r = <<>> \/ \E l \in Messages : r = <<l>> /\ l \notin Answering
    BY <1>3, <1>4, OtherFrame
  <2>3. r \in Seq(Messages) /\ None(r, Answering)
    <3>1. CASE r = <<>>
      BY <3>1 DEF None
    <3>2. ASSUME NEW l \in Messages, r = <<l>>, l \notin Answering
          PROVE  r \in Seq(Messages) /\ None(r, Answering)
      BY <3>2 DEF None
    <3>. QED
      BY <2>2, <3>1, <3>2
  <2>4. CASE FrameInFlight
    <3>1. None(toClient', Answering)
      BY <1>1, <2>2, <2>3, <2>4, NoneConcat DEF FrameInFlight
    <3>2. PICK g \in Asking : Only(toServer, Asking, g) /\ Asks(g)
      BY <2>4 DEF FrameInFlight
    <3>3. Only(toServer', Asking, g)
      BY <1>1, <1>3, <1>4, <3>2, OnlyTail
    <3>4. Asks(g)'
      BY <1>2, <3>2 DEF Asks
    <3>. QED
      BY <2>1, <3>1, <3>3, <3>4 DEF Exchange, FrameInFlight
  <2>5. ASSUME None(toServer, Asking) PROVE None(toServer', Asking)
    BY <1>1, <2>5, NoneTail
  <2>6. CASE LineInFlight
    <3>1. PICK l \in Answering : Only(toClient, Answering, l) /\ Answers(l)
      BY <2>6 DEF LineInFlight
    <3>2. Only(toClient', Answering, l)
      BY <1>1, <2>2, <2>3, <3>1, OnlyConcat
    <3>3. Answers(l)'
      BY <1>2, <3>1 DEF Answers
    <3>. QED
      BY <2>1, <2>5, <2>6, <3>2, <3>3 DEF Exchange, LineInFlight
  <2>7. CASE ListInFlight
    <3>1. PICK h, l \in Answering : /\ Pair(toClient, Answering, h, l)
                                    /\ h.cmd = "LS_MORE" /\ l.cmd = "LS"
                                    /\ "sasl" \in h.caps \cup l.caps \cup caps_buffer
      BY <2>7 DEF ListInFlight
    <3>2. Pair(toClient', Answering, h, l)
      BY <1>1, <2>2, <2>3, <3>1, PairConcat
    <3>. QED
      BY <1>2, <2>1, <2>5, <2>7, <3>1, <3>2 DEF Exchange, ListInFlight
  <2>. QED
    BY <2>4, <2>6, <2>7 DEF Exchange
<1>5. CASE f \in Asking
  <2>1. ~None(toServer, Asking)
    BY <1>1, <1>3, <1>5, NoneTail
  <2>2. FrameInFlight
    BY <2>1 DEF Exchange, LineInFlight, ListInFlight
  <2>3. PICK g \in Asking : Only(toServer, Asking, g) /\ Asks(g)
    BY <2>2 DEF FrameInFlight
  <2>4. f = g /\ None(toServer', Asking)
    BY <1>1, <1>3, <1>5, <2>3, OnlyHead
  <2>5. PICK l \in Answering : toClient' = toClient \o <<l>> /\ Answers(l)
    BY <1>3, <1>5, <2>3, <2>4, Answered
  <2>6. capOpen' = capOpen
    BY <1>3, <1>5, <2>3, <2>4, Answered
  <2>7. l \in Messages /\ None(toClient, Answering)
    BY <2>2 DEF Answering, FrameInFlight
  <2>8. Only(toClient', Answering, l)
    BY <1>1, <2>5, <2>7, OnlyNew
  <2>9. Answers(l)'
    BY <1>2, <2>5 DEF Answers
  <2>. QED
    BY <2>4, <2>6, <2>8, <2>9 DEF Exchange, LineInFlight
<1>. QED
  BY <1>4, <1>5

-----------------------------------------------------------------------------
(* The invariant's steps.                                                  *)

\* What the ircd says is typed.
LEMMA IrcdLines ==
    ASSUME Wire, IrcdReceive
    PROVE  toClient' \in Seq(Messages)
<1>. DEFINE f == Head(toServer)
<1>1. f \in Frames /\ toServer # <<>> /\ toClient \in Seq(Messages) /\ ircd \in Profiles
  BY TailAt DEF Wire, IrcdReceive
<1>2. f.caps \in SUBSET Caps /\ f.verb \in Verbs /\ ircd.offers \in SUBSET Caps
  BY <1>1 DEF Frames, Profiles
<1>. HIDE DEF f
<1>3. ASSUME NEW l \in Messages, Reply(<<l>>) PROVE toClient' \in Seq(Messages)
  BY <1>1, <1>3 DEF Reply
<1>4. ASSUME AnswerCapLs PROVE toClient' \in Seq(Messages)
  <2>1. CASE ~ircd.speaksCap
    BY <1>3, <1>4, <2>1, LineTypes DEF AnswerCapLs
  <2>2. CASE ircd.speaksCap
    <3>1. PICK part \in SUBSET ircd.offers :
              \/ part = {} /\ Reply(<<WithCaps("LS", ircd.offers)>>)
              \/ part # {} /\ Reply(<<WithCaps("LS_MORE", part), WithCaps("LS", ircd.offers \ part)>>)
      BY <1>4, <2>2 DEF AnswerCapLs
    <3>2. /\ WithCaps("LS", ircd.offers) \in Messages
          /\ WithCaps("LS_MORE", part) \in Messages
          /\ WithCaps("LS", ircd.offers \ part) \in Messages
      BY <1>2, LineTypes
    <3>3. <<WithCaps("LS_MORE", part), WithCaps("LS", ircd.offers \ part)>> \in Seq(Messages)
      BY <3>2
    <3>. QED
      <4>1. CASE Reply(<<WithCaps("LS", ircd.offers)>>)
        BY <1>3, <3>2, <4>1
      <4>2. CASE Reply(<<WithCaps("LS_MORE", part), WithCaps("LS", ircd.offers \ part)>>)
        BY <1>1, <3>3, <4>2, ConcatAt DEF Reply
      <4>. QED
        BY <3>1, <4>1, <4>2
  <2>. QED
    BY <2>1, <2>2
<1>5. ASSUME AnswerCapReq(f.caps) PROVE toClient' \in Seq(Messages)
  BY <1>2, <1>3, <1>5, LineTypes DEF AnswerCapReq
<1>6. ASSUME AnswerNick PROVE toClient' \in Seq(Messages)
  BY <1>1, <1>3, <1>6, LineTypes DEF AnswerNick
<1>7. ASSUME AnswerPayload PROVE toClient' \in Seq(Messages)
  BY <1>3, <1>7, LineTypes DEF AnswerPayload
<1>8. ASSUME Reply(<<Message("AUTHENTICATE_PLUS")>>) PROVE toClient' \in Seq(Messages)
  BY <1>3, <1>8, LineTypes
<1>. QED
  BY <1>1, <1>4, <1>5, <1>6, <1>7, <1>8 DEF IrcdReceive, f

\* The wire stays typed.
LEMMA WireStep == FsmInv /\ Wire /\ [RegNext]_regVars => Wire'
<1> SUFFICES ASSUME FsmInv, Wire, [RegNext]_regVars PROVE Wire'
  OBVIOUS
<1>1. CASE Connect
  <2>1. toServer' = toServer \o out' /\ UNCHANGED <<toClient, ircd>>
    BY <1>1 DEF Connect, Flush
  <2>2. out' \in Seq(Frames)
    <3>1. CASE New
      BY <3>1 DEF New, Emit
    <3>2. CASE InitialHandshake
      <4>1. PICK p \in Passes : out' = Opened(p, IF SpeaksCap THEN <<Frame("CAP_LS")>> ELSE <<>>)
        BY <3>2, HandshakeFrames
      <4>2. CASE SpeaksCap
        BY <4>1, <4>2, OpenedTypes
      <4>3. CASE ~SpeaksCap
        BY <4>1, <4>3, OpenedTypes
      <4>. QED
        BY <4>2, <4>3
    <3>. QED
      BY <1>1, <3>1, <3>2 DEF Connect
  <2>. QED
    BY <2>1, <2>2 DEF Wire
<1>2. CASE ReceiveLine
  <2>. DEFINE m == Head(toClient)
  <2>1. m \in Messages /\ Step(m) /\ Tail(toClient) \in Seq(Messages)
    BY <1>2, TailAt DEF Wire, ReceiveLine
  <2>. HIDE DEF m
  <2>2. out' \in Seq(Frames)
    BY <2>1, StepFrames, Appended DEF Wire
  <2>5. toServer' \in Seq(Frames)
    BY <1>2, <2>2, ConcatAt DEF Wire, ReceiveLine, Flush
  <2>. QED
    BY <1>2, <2>1, <2>5 DEF Wire, ReceiveLine, m
<1>3. CASE IrcdReceive
  <2>1. toServer' \in Seq(Frames) /\ ircd' = ircd
    BY <1>3 DEF Wire, IrcdReceive
  <2>. QED
    BY <1>3, <2>1, IrcdLines DEF Wire
<1>4. CASE IrcdWelcome
  <2>1. Message("001") \in Messages
    BY LineTypes
  <2>. QED
    BY <1>4, <2>1 DEF IrcdWelcome, Wire, Reply
<1>5. CASE Session
  <2>1. <<Frame("NICK")>> \in Seq(Frames)
    BY AskingFrames
  <2>. QED
    BY <1>5, <2>1, SessionStep, ConcatAt DEF Wire
<1>6. CASE UNCHANGED regVars
  BY <1>6 DEF regVars, srvVars, Wire
<1>. QED
  BY <1>1, <1>2, <1>3, <1>4, <1>5, <1>6 DEF RegNext

\* A handshake that stopped stays stopped, in its phase.
LEMMA StoppedStays ==
    ASSUME stop # "none", [FsmNext]_fsmVars
    PROVE  stop' = stop /\ phase' = phase
<1>1. CASE UNCHANGED fsmVars
  BY <1>1 DEF fsmVars
<1>2. ASSUME NEW m \in Messages, Step(m) PROVE stop' = stop /\ phase' = phase
  BY <1>2 DEF Step, CapLsMore, CapLs, CapAck, CapNak, AuthenticatePlus, SaslSuccess, SaslFail,
     NickInUse, NickRejected, Welcome, Absorb, Running
<1>. QED
  BY <1>1, <1>2 DEF FsmNext, New, InitialHandshake

\* Whether SASL is wanted and offered never changes, and what was granted stays.
LEMMA DueLasts ==
    ASSUME Wire, [RegNext]_regVars, Due'
    PROVE  Due
<1>1. [FsmNext]_fsmVars
  BY LoopStep
<1>2. opts' = opts /\ heard \subseteq heard'
  <2>1. CASE UNCHANGED fsmVars
    BY <2>1 DEF fsmVars
  <2>2. ASSUME NEW m \in Messages, Step(m) PROVE opts' = opts /\ heard \subseteq heard'
    BY <2>2 DEF Step, CapLsMore, CapLs, CapAck, CapNak, AuthenticatePlus, SaslSuccess, SaslFail,
       NickInUse, NickRejected, Welcome, Absorb
  <2>. QED
    BY <1>1, <2>1, <2>2 DEF FsmNext, New, InitialHandshake
<1>3. ircd' = ircd
  BY SessionStep DEF RegNext, Connect, ReceiveLine, IrcdReceive, IrcdWelcome, regVars
<1>. QED
  BY <1>2, <1>3 DEF Due, SpeaksCap

\* Concatenating tuples.
LEMMA OneAndOne ==
    ASSUME NEW a, NEW b
    PROVE  <<a>> \o <<b>> = <<a, b>>
<1>. DEFINE S == {a, b}
<1>1. <<a>> \in Seq(S) /\ <<b>> \in Seq(S)
  OBVIOUS
<1>2. /\ <<a>> \o <<b>> \in Seq(S) /\ Len(<<a>> \o <<b>>) = 2
      /\ <<a, b>> \in Seq(S) /\ Len(<<a, b>>) = 2
  BY <1>1
<1>3. (<<a>> \o <<b>>)[1] = a /\ (<<a>> \o <<b>>)[2] = b
  BY <1>1
<1>4. <<a, b>>[1] = a /\ <<a, b>>[2] = b
  OBVIOUS
<1>5. \A i \in 1..2 : (<<a>> \o <<b>>)[i] = <<a, b>>[i]
  BY <1>3, <1>4
<1>. QED
  BY <1>2, <1>5, SeqEqual

LEMMA OneAndTwo ==
    ASSUME NEW b, NEW c, NEW d
    PROVE  <<b>> \o <<c, d>> = <<b, c, d>>
<1>. DEFINE S == {b, c, d}
<1>1. <<b>> \in Seq(S) /\ <<c, d>> \in Seq(S)
  OBVIOUS
<1>2. /\ <<b>> \o <<c, d>> \in Seq(S) /\ Len(<<b>> \o <<c, d>>) = 3
      /\ <<b, c, d>> \in Seq(S) /\ Len(<<b, c, d>>) = 3
  BY <1>1
<1>3. (<<b>> \o <<c, d>>)[1] = b /\ (<<b>> \o <<c, d>>)[2] = c /\ (<<b>> \o <<c, d>>)[3] = d
  BY <1>1
<1>4. <<b, c, d>>[1] = b /\ <<b, c, d>>[2] = c /\ <<b, c, d>>[3] = d
  OBVIOUS
<1>5. \A i \in 1..3 : (<<b>> \o <<c, d>>)[i] = <<b, c, d>>[i]
  BY <1>3, <1>4
<1>. QED
  BY <1>2, <1>5, SeqEqual

LEMMA TwoAndTwo ==
    ASSUME NEW a, NEW b, NEW c, NEW d
    PROVE  <<a, b>> \o <<c, d>> = <<a, b, c, d>>
<1>. DEFINE S == {a, b, c, d}
<1>1. <<a, b>> \in Seq(S) /\ <<c, d>> \in Seq(S)
  OBVIOUS
<1>2. /\ <<a, b>> \o <<c, d>> \in Seq(S) /\ Len(<<a, b>> \o <<c, d>>) = 4
      /\ <<a, b, c, d>> \in Seq(S) /\ Len(<<a, b, c, d>>) = 4
  BY <1>1
<1>3. (<<a, b>> \o <<c, d>>)[1] = a /\ (<<a, b>> \o <<c, d>>)[2] = b /\ (<<a, b>> \o <<c, d>>)[3] = c /\ (<<a, b>> \o <<c, d>>)[4] = d
  BY <1>1
<1>4. <<a, b, c, d>>[1] = a /\ <<a, b, c, d>>[2] = b /\ <<a, b, c, d>>[3] = c /\ <<a, b, c, d>>[4] = d
  OBVIOUS
<1>5. \A i \in 1..4 : (<<a, b>> \o <<c, d>>)[i] = <<a, b, c, d>>[i]
  BY <1>3, <1>4
<1>. QED
  BY <1>2, <1>5, SeqEqual

\* The opening of a client that speaks CAP, without and with a PASS.
LEMMA OpenedIs ==
    /\ Opened(<<>>, <<Frame("CAP_LS")>>) = <<Frame("CAP_LS"), Frame("NICK"), Frame("USER")>>
    /\ \A s \in Secrets : Opened(<<SecretFrame("PASS", s)>>, <<Frame("CAP_LS")>>)
                         = <<SecretFrame("PASS", s), Frame("CAP_LS"), Frame("NICK"), Frame("USER")>>
<1>1. Opened(<<>>, <<Frame("CAP_LS")>>) = <<Frame("CAP_LS"), Frame("NICK"), Frame("USER")>>
  <2>1. <<>> \o <<Frame("CAP_LS")>> = <<Frame("CAP_LS")>>
    BY ConcatEmptySeq
  <2>2. <<Frame("CAP_LS")>> \o <<Frame("NICK"), Frame("USER")>>
        = <<Frame("CAP_LS"), Frame("NICK"), Frame("USER")>>
    BY OneAndTwo, Zenon
  <2>. QED
    BY <2>1, <2>2, Zenon DEF Opened
<1>2. ASSUME NEW s \in Secrets
      PROVE  Opened(<<SecretFrame("PASS", s)>>, <<Frame("CAP_LS")>>)
             = <<SecretFrame("PASS", s), Frame("CAP_LS"), Frame("NICK"), Frame("USER")>>
  <2>1. <<SecretFrame("PASS", s)>> \o <<Frame("CAP_LS")>> = <<SecretFrame("PASS", s), Frame("CAP_LS")>>
    BY OneAndOne, Zenon
  <2>2. <<SecretFrame("PASS", s), Frame("CAP_LS")>> \o <<Frame("NICK"), Frame("USER")>>
        = <<SecretFrame("PASS", s), Frame("CAP_LS"), Frame("NICK"), Frame("USER")>>
    BY TwoAndTwo, Zenon
  <2>. QED
    BY <2>1, <2>2, Zenon DEF Opened
<1>. QED
  BY <1>1, <1>2, Zenon

\* Reading the opening frames: a PASS first, then the CAP LS, which opens the
\* negotiation before the NICK behind it is read.
LEMMA OpeningStep ==
    ASSUME Wire, Due, Opening, IrcdReceive
    PROVE  Opening' \/ Negotiating'
<1>1. PICK p \in Passes : toServer = Opened(p, <<Frame("CAP_LS")>>)
  BY DEF Opening
<1>2. UNCHANGED fsmVars /\ toServer' = Tail(toServer)
  BY DEF IrcdReceive
<1>3. phase' = phase /\ said' = said
  BY <1>2 DEF fsmVars
<1>4. CASE p = <<>>
  <2>1. /\ toServer = <<Frame("CAP_LS"), Frame("NICK"), Frame("USER")>>
        /\ toServer' = <<Frame("NICK"), Frame("USER")>>
    <3>1. toServer = <<Frame("CAP_LS"), Frame("NICK"), Frame("USER")>>
      BY <1>1, <1>4, OpenedIs, Zenon
    <3>2. Tail(<<Frame("CAP_LS"), Frame("NICK"), Frame("USER")>>) = <<Frame("NICK"), Frame("USER")>>
      OBVIOUS
    <3>. QED
      BY <1>2, <3>1, <3>2, Zenon
  <2>2. AnswerCapLs
    BY <2>1 DEF IrcdReceive, Frame
  <2>3. None(toServer', Asking)
    BY <2>1 DEF None, Asking, Frame
  <2>4. capOpen' /\ Exchange'
    BY <1>2, <2>2, <2>3, ListOffers DEF Due, Opening
  <2>. QED
    BY <1>3, <2>4 DEF Opening, Negotiating
<1>5. ASSUME NEW s \in Secrets, p = <<SecretFrame("PASS", s)>> PROVE Opening'
  <2>1. /\ Head(toServer) = SecretFrame("PASS", s)
        /\ toServer' = <<Frame("CAP_LS"), Frame("NICK"), Frame("USER")>>
    <3>1. toServer = <<SecretFrame("PASS", s), Frame("CAP_LS"), Frame("NICK"), Frame("USER")>>
      BY <1>1, <1>5, OpenedIs
    <3>2. Head(<<SecretFrame("PASS", s), Frame("CAP_LS"), Frame("NICK"), Frame("USER")>>)
          = SecretFrame("PASS", s)
      OBVIOUS
    <3>3. Tail(<<SecretFrame("PASS", s), Frame("CAP_LS"), Frame("NICK"), Frame("USER")>>)
          = <<Frame("CAP_LS"), Frame("NICK"), Frame("USER")>>
      OBVIOUS
    <3>. QED
      BY <1>2, <3>1, <3>2, <3>3, Zenon
  <2>2. UNCHANGED <<toClient, nickOk>>
    BY <2>1 DEF IrcdReceive, SecretFrame, Frame
  <2>3. toServer' = Opened(<<>>, <<Frame("CAP_LS")>>) /\ <<>> \in Passes
    BY <2>1 DEF Opened, Passes
  <2>. QED
    BY <1>3, <2>2, <2>3 DEF Opening
<1>. QED
  BY <1>4, <1>5 DEF Passes

\* Every step of the loop keeps SASL on its way.
LEMMA SaslStep == RegInv /\ [RegNext]_regVars => SaslOnItsWay'
<1> SUFFICES ASSUME RegInv, [RegNext]_regVars, Due'
             PROVE  /\ phase' # "registered"
                    /\ stop' = "none" => ~welcomed' /\ (Before' \/ Opening' \/ Negotiating')
  BY DEF SaslOnItsWay
<1>1. FsmInv /\ Wire /\ Spoken /\ Due /\ phase # "registered"
  BY DueLasts DEF RegInv, SaslOnItsWay
<1>2. [FsmNext]_fsmVars
  BY <1>1, LoopStep
<1>3. CASE stop # "none"
  BY <1>1, <1>2, <1>3, StoppedStays
<1>4. CASE stop = "none"
  <2>1. ~welcomed /\ (Before \/ Opening \/ Negotiating)
    BY <1>1, <1>4 DEF RegInv, SaslOnItsWay
  <2>2. SpeaksCap /\ ircd.speaksCap /\ "sasl" \in ircd.offers /\ "903" \notin heard'
    BY <1>1 DEF Due
  <2>3. CASE Connect
    <3>1. /\ toServer' = toServer \o out'
          /\ UNCHANGED <<ircd, capOpen, nickOk, userOk, welcomed, refused, toClient>>
      BY <2>3 DEF Connect, Flush, srvVars
    <3>2. said = {} /\ phase \in {"unbuilt", "pre_register"} /\ Before
      <4>1. phase \in {"unbuilt", "pre_register"}
        BY <2>3 DEF Connect, New, InitialHandshake
      <4>. QED
        BY <2>1, <4>1 DEF Opening, Negotiating, Exchange, FrameInFlight, LineInFlight,
           ListInFlight, Asks, Answers, AckPhases, Before
    <3>3. CASE New
      <4>1. said' = said /\ out' = <<>> /\ phase' \in {"unbuilt", "pre_register"}
        BY <3>3, EmitNone DEF New, Emit
      <4>. QED
        BY <2>1, <3>1, <3>2, <4>1 DEF Before
    <3>4. CASE InitialHandshake
      <4>1. PICK p \in Passes : out' = Opened(p, <<Frame("CAP_LS")>>)
        BY <1>1, <2>2, <3>4, HandshakeFrames
      <4>2. toServer' = out'
        BY <1>1, <3>1, <3>2, <4>1, OpenedTypes DEF Before
      <4>3. said' # {}
        <5>1. ASSUME p = <<>> PROVE 1 \in DOMAIN out'
          <6>1. out' = <<Frame("CAP_LS"), Frame("NICK"), Frame("USER")>>
            BY <4>1, <5>1, OpenedIs
          <6>. QED
            BY <6>1
        <5>2. ASSUME NEW s \in Secrets, p = <<SecretFrame("PASS", s)>> PROVE 1 \in DOMAIN out'
          <6>1. out' = <<SecretFrame("PASS", s), Frame("CAP_LS"), Frame("NICK"), Frame("USER")>>
            BY <4>1, <5>2, OpenedIs
          <6>. QED
            BY <6>1
        <5>3. 1 \in DOMAIN out'
          BY <5>1, <5>2 DEF Passes
        <5>. QED
          BY <3>4, <5>3 DEF InitialHandshake, Emit
      <4>4. phase' = "awaiting_cap_ls"
        BY <2>2, <3>4 DEF InitialHandshake
      <4>. QED
        BY <2>1, <3>1, <3>2, <4>1, <4>2, <4>3, <4>4 DEF Before, Opening
    <3>. QED
      BY <2>3, <3>3, <3>4 DEF Connect
  <2>4. CASE ReceiveLine
    <3>1. toClient # <<>> /\ UNCHANGED srvVars
      BY <2>4 DEF ReceiveLine
    <3>2. Negotiating
      BY <2>1, <3>1 DEF Before, Opening
    <3>3. CASE stop' = "none"
      <4>1. Exchange' /\ phase' # "registered"
        BY <1>1, <2>2, <2>4, <3>2, <3>3, ReceiveKeepsExchange DEF Negotiating
      <4>2. said' # {}
        <5>1. said \subseteq said'
          BY <1>2 DEF FsmNext, New, InitialHandshake, Step, CapLsMore, CapLs, FinalizeCapLs, CapUnavailable, CapAck,
             CapNak, AuthenticatePlus, SaslSuccess, SaslFail, NickInUse, NickRejected,
             Welcome, Absorb, Emit, fsmVars
        <5>. QED
          BY <3>2, <5>1 DEF Negotiating
      <4>. QED
        BY <2>1, <3>1, <3>2, <4>1, <4>2 DEF Negotiating, srvVars
    <3>4. CASE stop' # "none"
      <4>1. phase' # "registered"
        BY <1>1, <1>2, <1>4, <3>4 DEF FsmNext, New, InitialHandshake, Step, CapLsMore, CapLs,
           FinalizeCapLs, CapUnavailable, LeaveCapNegotiation, CapAck, CapNak,
           AuthenticatePlus, SaslSuccess, SaslFail, NickInUse, NickRejected,
           Welcome, Absorb, fsmVars
      <4>. QED
        BY <3>4, <4>1
    <3>. QED
      BY <3>3, <3>4
  <2>5. CASE IrcdReceive
    <3>1. UNCHANGED fsmVars /\ welcomed' = welcomed
      BY <2>5 DEF IrcdReceive
    <3>2. phase' = phase /\ said' = said
      BY <3>1 DEF fsmVars
    <3>3. ~Before
      BY <2>5 DEF Before, IrcdReceive
    <3>4. CASE Opening
      BY <1>1, <2>1, <2>5, <3>1, <3>2, <3>4, OpeningStep
    <3>5. CASE Negotiating
      <4>1. Exchange' /\ capOpen' = capOpen
        BY <1>1, <2>2, <2>5, <3>5, IrcdKeepsExchange DEF Negotiating
      <4>. QED
        BY <1>1, <2>1, <3>1, <3>2, <3>5, <4>1 DEF Negotiating
    <3>. QED
      BY <2>1, <3>3, <3>4, <3>5
  <2>6. CASE IrcdWelcome
    BY <2>1, <2>6 DEF IrcdWelcome, Before, Opening, Negotiating
  <2>7. CASE Session \/ UNCHANGED regVars
    <3>1. UNCHANGED <<fsmVars, srvVars, toServer, toClient>>
      <4>1. CASE Session
        BY <1>1, <2>2, <4>1, SessionStep DEF Spoken
      <4>. QED
        BY <2>7, <4>1 DEF regVars
    <3>. QED
      BY <1>1, <2>1, <3>1 DEF srvVars, fsmVars, Before, Opening, Negotiating, Exchange,
         FrameInFlight, LineInFlight, ListInFlight, Asks, Answers
  <2>. QED
    BY <2>3, <2>4, <2>5, <2>6, <2>7 DEF RegNext
<1>. QED
  BY <1>3, <1>4

\* The method of the credential is fixed, and no step gives the session a password.
LEMMA SpokenStep == Wire /\ Spoken /\ [RegNext]_regVars => Spoken'
<1> SUFFICES ASSUME Wire, Spoken, [RegNext]_regVars PROVE Spoken'
  OBVIOUS
<1>1. [FsmNext]_fsmVars
  BY LoopStep
<1>2. opts' = opts
  <2>1. ASSUME NEW m \in Messages, Step(m) PROVE opts' = opts
    BY <2>1 DEF Step, CapLsMore, CapLs, CapAck, CapNak, AuthenticatePlus, SaslSuccess, SaslFail,
       NickInUse, NickRejected, Welcome, Absorb
  <2>. QED
    BY <1>1, <2>1 DEF FsmNext, New, InitialHandshake, fsmVars
<1>3. pending_password' => pending_password
  BY SessionStep DEF RegNext, Connect, ReceiveLine, IrcdReceive, IrcdWelcome, regVars, sessVars
<1>. QED
  BY <1>2, <1>3 DEF Spoken, SpeaksCap

-----------------------------------------------------------------------------
(* The theorems.                                                           *)

\* A loop in which nothing was sent satisfies the invariant.
LEMMA RegInitInv == RegInit => RegInv
<1> SUFFICES ASSUME RegInit PROVE RegInv
  OBVIOUS
<1>1. FsmInv
  BY FsmInitInv DEF RegInit
<1>2. Wire
  BY DEF RegInit, Wire
<1>3. SaslOnItsWay
  BY DEF RegInit, FsmInit, SaslOnItsWay, Before
<1>4. Spoken
  BY DEF RegInit, Spoken, SpeaksCap, PendingPassword
<1>. QED
  BY <1>1, <1>2, <1>3, <1>4 DEF RegInv

\* Every step of the loop keeps it.
LEMMA RegNextInv == RegInv /\ [RegNext]_regVars => RegInv'
<1> SUFFICES ASSUME RegInv, [RegNext]_regVars PROVE RegInv'
  OBVIOUS
<1>1. FsmInv /\ Wire
  BY DEF RegInv
<1>2. FsmInv'
  BY <1>1, LoopStep, FsmNextInv
<1>. QED
  BY <1>1, <1>2, WireStep, SpokenStep, SaslStep DEF RegInv

\* The invariant holds of every state of the loop.
LEMMA RegInvariant == RegSpec => []RegInv
BY RegInitInv, RegNextInv, PTL DEF RegSpec

\* The Client talking to an ircd over a connection is one of the handshakes
\* AuthFSM describes: nothing a connection adds (frames and lines in flight, the
\* NICK the session sends itself) makes the FSM do what a lone step/2 may not.
THEOREM ClosedLoop == RegSpec => FsmSpec
<1>1. RegInit => FsmInit
  BY DEF RegInit
<1>2. RegInv /\ [RegNext]_regVars => [FsmNext]_fsmVars
  BY LoopStep DEF RegInv
<1>. QED
  BY <1>1, <1>2, RegInvariant, PTL DEF RegSpec, FsmSpec

\* A welcomed client that was told of sasl, wanted it and was not refused is
\* authenticated, for every set of capabilities, ladder and profile of the ircd:
\* no interleaving of a split LS reply, the fallback request after a NAK and the
\* nick ladder makes the Client end the negotiation early.
THEOREM SaslIsUsed == RegSpec => []OfferedSaslIsUsed
<1>1. RegInv => OfferedSaslIsUsed
  BY DEF RegInv, SaslOnItsWay, Due, OfferedSaslIsUsed
<1>. QED
  BY <1>1, RegInvariant, PTL

\* What the handshake promises against any upstream it promises on the wire: the
\* credential leaves this host only for a sasl the upstream acknowledged, the
\* Client never crashes, and the nick in flight fits the cap the upstream proved.
THEOREM WireIsSafe == RegSpec => [](PayloadOnlyAfterAck /\ NeverCrashes /\ NickFitsCap)
BY ClosedLoop, HandshakeSafe, PTL

=============================================================================
