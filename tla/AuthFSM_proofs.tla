--------------------------- MODULE AuthFSM_proofs ---------------------------
(***************************************************************************)
(* Safety of the registration handshake for every capability set, ladder,  *)
(* nick length and floor that AuthFSM's assumptions admit, against an      *)
(* upstream that sends any message in any phase.                           *)
(***************************************************************************)
EXTENDS AuthFSM, TLAPS

\* What new/1 established about the credential stays true of it.
Validated == phase # "unbuilt" => NewError(opts) = "none"

\* The capability phases are entered only by methods that sent CAP LS.
CapPhasesSpeakCap ==
    phase \in AckPhases \cup {"awaiting_cap_ls", "sasl_pending"} => SpeaksCap

\* :sasl_pending remembers how it was entered.
PendingWasAcked ==
    phase = "sasl_pending" =>
        "ack_sasl" \in heard /\ <<"AUTHENTICATE_PLAIN", "nil">> \in said

\* The inductive invariant of the handshake.
FsmInv ==
    /\ FsmTypeOK
    /\ Validated
    /\ CapPhasesSpeakCap
    /\ PendingWasAcked
    /\ BufferOnlyDuringLs
    /\ PayloadOnlyAfterAck
    /\ PassIsOneToken
    /\ NickFitsCap
    /\ NeverCrashes

-----------------------------------------------------------------------------
(* What one step adds to the history of frames.                            *)

\* A step without frames leaves the history alone.
LEMMA EmitNone == ASSUME Emit(<<>>) PROVE said' = said
BY DEF Emit

\* A step with one frame adds that frame's verb and secret.
LEMMA EmitOne == ASSUME NEW f, Emit(<<f>>) PROVE said' = said \cup {<<f.verb, f.secret>>}
BY DEF Emit

-----------------------------------------------------------------------------
(* The 433 ladder.                                                         *)

\* The cap learned from an echo stays within the floor and the cap in force,
\* because the nick in flight fits that cap.
LEMMA LearnedCapBounds ==
    ASSUME FsmTypeOK, NickFitsCap, NEW echo \in 0..MaxNickLen
    PROVE  LearnedNickCap(echo) \in MinCap..nick_cap
<1>1. NickLen(nick) \in Nat
  BY LadderAssumption DEF FsmTypeOK, Nicks, Rungs, NickLen, SuffixLen
<1>2. nick_cap \in MinCap..MaxNickLen /\ NickLen(nick) <= nick_cap
  BY DEF FsmTypeOK, NickFitsCap
<1>. QED
  BY <1>1, <1>2, NickLenAssumption DEF LearnedNickCap

\* A candidate built under a cap above the floor is a nick that fits the cap.
LEMMA FallbackFits ==
    ASSUME FsmTypeOK, NEW rung \in 1..Len(Ladder), NEW cap \in MinCap..MaxNickLen
    PROVE  /\ cap > SuffixLen(rung)
           /\ CollisionFallback(rung, cap) \in Nicks
           /\ NickLen(CollisionFallback(rung, cap)) <= cap
<1>1. SuffixLen(rung) \in Nat /\ SuffixLen(rung) < MinCap
  BY LadderAssumption, FloorAssumption DEF SuffixLen
<1>2. opts.nick_len \in 1..MaxNickLen
  BY DEF FsmTypeOK, Opts
<1>. DEFINE b == Least(opts.nick_len, cap - SuffixLen(rung))
<1>3. b \in 0..MaxNickLen /\ b + SuffixLen(rung) <= cap /\ cap > SuffixLen(rung)
  BY <1>1, <1>2, NickLenAssumption DEF Least
<1>4. CollisionFallback(rung, cap) = [base |-> b, rung |-> rung]
  BY DEF CollisionFallback
<1>5. rung \in Rungs
  BY LadderAssumption DEF Rungs
<1>. QED
  BY <1>3, <1>4, <1>5 DEF Nicks, NickLen
-----------------------------------------------------------------------------
(* The inductive invariant.                                                *)

\* A handshake that has sent nothing yet satisfies the invariant.
LEMMA FsmInitInv == FsmInit => FsmInv
<1> SUFFICES ASSUME FsmInit PROVE FsmInv
  OBVIOUS
<1>1. FsmTypeOK
  <2>1. nick \in Nicks
    BY LadderAssumption, NickLenAssumption DEF FsmInit, Nicks, Rungs, Opts
  <2>2. nick_suffixes \in Seq(1..Len(Ladder))
    BY LadderAssumption DEF FsmInit
  <2>. QED
    BY <2>1, <2>2, NickLenAssumption DEF FsmInit, FsmTypeOK, Phases
<1>2. NickFitsCap
  BY NickLenAssumption DEF FsmInit, NickFitsCap, NickLen, SuffixLen, Opts
<1>. QED
  BY <1>1, <1>2 DEF FsmInit, FsmInv, Validated, CapPhasesSpeakCap, PendingWasAcked,
     BufferOnlyDuringLs, PayloadOnlyAfterAck, PassIsOneToken, NeverCrashes, AckPhases

\* The opening frames carry no SASL frame, and a PASS only of a validated token.
LEMMA OpeningFrames ==
    ASSUME FsmInv, InitialHandshake
    PROVE  /\ \A s \in Secrets : <<"PASS", s>> \in said' => s = "token"
           /\ \A s \in Secrets : <<"AUTHENTICATE_PAYLOAD", s>> \notin said'
<1> DEFINE cap == IF SpeaksCap THEN <<Frame("CAP_LS")>> ELSE <<>>
           fs == MaybePass \o cap \o <<Frame("NICK"), Frame("USER")>>
<1>1. said' = {<<fs[i].verb, fs[i].secret>> : i \in DOMAIN fs}
  BY DEF InitialHandshake, Emit
<1>2. ASSUME NEW i \in DOMAIN fs
      PROVE  \/ fs[i] = SecretFrame("PASS", "token")
             \/ fs[i] \in {Frame("CAP_LS"), Frame("NICK"), Frame("USER")}
  <2>1. NewError(opts) = "none"
    BY DEF FsmInv, Validated, InitialHandshake
  <2>2. MaybePass \in {<<>>, <<SecretFrame("PASS", "token")>>}
    BY <2>1 DEF MaybePass, NewError, ValidateLineSafe, PassToken
  <2>3. cap \in {<<>>, <<Frame("CAP_LS")>>}
    OBVIOUS
  <2>. HIDE DEF cap
  <2>. QED
    BY <2>2, <2>3
<1>3. ASSUME NEW i \in DOMAIN fs
      PROVE  \/ fs[i].verb = "PASS" /\ fs[i].secret = "token"
             \/ fs[i].verb \in {"CAP_LS", "NICK", "USER"}
  BY <1>2 DEF Frame, SecretFrame
<1>. HIDE DEF fs
<1>. QED
  BY <1>1, <1>3
\* Steps that leave the nick, the credential and the SASL history's premises
\* alone preserve the parts of the invariant about them.
LEMMA NickUntouched ==
    ASSUME FsmInv, UNCHANGED <<opts, nickVars>>
    PROVE  /\ opts' \in Opts /\ nick' \in Nicks
           /\ nick_suffixes' \in Seq(1..Len(Ladder)) /\ nick_cap' \in MinCap..MaxNickLen
           /\ NickFitsCap'
BY DEF FsmInv, FsmTypeOK, nickVars, NickFitsCap, NickLen

\* A step that sends nothing keeps both secrecy parts.
LEMMA QuietStep ==
    ASSUME FsmInv, heard' = heard, said' = said
    PROVE  PayloadOnlyAfterAck' /\ PassIsOneToken'
BY DEF FsmInv, PayloadOnlyAfterAck, PassIsOneToken

\* So does a frame that is neither a PASS nor a SASL payload.
LEMMA HarmlessFrame ==
    ASSUME FsmInv, heard \subseteq heard',
           NEW v \in {"CAP_END", "CAP_REQ", "AUTHENTICATE_PLAIN", "NICK"},
           said' = said \cup {<<v, "nil">>}
    PROVE  PayloadOnlyAfterAck' /\ PassIsOneToken'
BY DEF FsmInv, PayloadOnlyAfterAck, PassIsOneToken

\* Every step of the handshake, whatever the upstream sends, keeps the invariant.
LEMMA FsmNextInv == FsmInv /\ [FsmNext]_fsmVars => FsmInv'
<1> SUFFICES ASSUME FsmInv, [FsmNext]_fsmVars PROVE FsmInv'
  OBVIOUS
<1> USE DEF FsmInv
<1>1. CASE New
  <2>1. said' = said /\ UNCHANGED <<opts, nickVars, heard>>
    BY <1>1, EmitNone DEF New, nickVars
  <2>2. PayloadOnlyAfterAck' /\ PassIsOneToken'
    BY <2>1, QuietStep
  <2>3. FsmTypeOK' /\ NickFitsCap'
    BY <1>1, <2>1, NickUntouched DEF New, FsmTypeOK, Phases, NewError
  <2>4. Validated' /\ NeverCrashes'
    BY <1>1, <2>1 DEF New, Validated, NewError, ValidatePasswordPresent, ValidateLineSafe, Present, PassToken, LineToken, NeverCrashes
  <2>. QED
    BY <1>1, <2>2, <2>3, <2>4
    DEF New, CapPhasesSpeakCap, PendingWasAcked, BufferOnlyDuringLs, AckPhases, SpeaksCap
<1>2. CASE InitialHandshake
  <2>1. UNCHANGED <<opts, nickVars, heard, stop, caps_buffer, sasl_fields>>
    BY <1>2 DEF InitialHandshake, nickVars
  <2>2. PayloadOnlyAfterAck' /\ PassIsOneToken'
    BY <1>2, OpeningFrames DEF PayloadOnlyAfterAck, PassIsOneToken
  <2>3. FsmTypeOK' /\ NickFitsCap'
    BY <1>2, <2>1, NickUntouched DEF InitialHandshake, FsmTypeOK, Phases
  <2>. QED
    BY <1>2, <2>1, <2>2, <2>3 DEF InitialHandshake, Validated, CapPhasesSpeakCap,
       PendingWasAcked, BufferOnlyDuringLs, AckPhases, SpeaksCap, NeverCrashes
<1>3. ASSUME NEW m \in Messages, Step(m) PROVE FsmInv'
  <2> USE DEF Validated, CapPhasesSpeakCap, BufferOnlyDuringLs, AckPhases, SpeaksCap, NeverCrashes
  <2>0. m.caps \subseteq Caps /\ m.echo \in 0..MaxNickLen
    BY NickLenAssumption DEF Messages, CapMessages, NickMessages, PlainMessages, Message, Caps
  <2>1. CASE CapLsMore(m.caps)
    <3>1. said' = said /\ UNCHANGED <<opts, nickVars, heard>>
      BY <2>1, EmitNone DEF CapLsMore
    <3>2. PayloadOnlyAfterAck' /\ PassIsOneToken'
      BY <3>1, QuietStep
    <3>. QED
      BY <2>0, <2>1, <3>1, <3>2, NickUntouched DEF CapLsMore, FsmTypeOK, PendingWasAcked
  <2>2. CASE CapLs(m.caps)
    <3>0. said' = said \cup {<<"CAP_END", "nil">>} \/ said' = said \cup {<<"CAP_REQ", "nil">>}
      BY <2>2, EmitOne DEF CapLs, FinalizeCapLs, CapUnavailable, CapReq, Frame
    <3>1. UNCHANGED <<opts, nickVars, heard>>
      BY <2>2 DEF CapLs
    <3>2. PayloadOnlyAfterAck' /\ PassIsOneToken'
      BY <3>0, <3>1, HarmlessFrame
    <3>. QED
      BY <2>2, <3>1, <3>2, NickUntouched
      DEF CapLs, FinalizeCapLs, CapUnavailable, LeaveCapNegotiation, Running, FsmTypeOK, Phases, PendingWasAcked
  <2>3. CASE CapAck(m.caps)
    <3>0. \/ said' = said \cup {<<"CAP_END", "nil">>} /\ phase' = "pre_register"
          \/ said' = said \cup {<<"AUTHENTICATE_PLAIN", "nil">>} /\ "ack_sasl" \in heard'
      BY <2>3, EmitOne DEF CapAck, CapUnavailable, LeaveCapNegotiation, Frame
    <3>1. UNCHANGED <<opts, nickVars>> /\ heard \subseteq heard'
      BY <2>3 DEF CapAck
    <3>2. PayloadOnlyAfterAck' /\ PassIsOneToken'
      BY <3>0, <3>1, HarmlessFrame
    <3>3. PendingWasAcked'
      BY <3>0 DEF PendingWasAcked
    <3>. QED
      BY <2>3, <3>1, <3>2, <3>3, NickUntouched
      DEF CapAck, CapUnavailable, LeaveCapNegotiation, Running, FsmTypeOK, Phases
  <2>4. CASE CapNak
    <3>0. said' = said \cup {<<"CAP_END", "nil">>} \/ said' = said \cup {<<"CAP_REQ", "nil">>}
      BY <2>4, EmitOne DEF CapNak, CapUnavailable, CapReq, Frame
    <3>1. UNCHANGED <<opts, nickVars, heard>>
      BY <2>4 DEF CapNak
    <3>2. PayloadOnlyAfterAck' /\ PassIsOneToken'
      BY <3>0, <3>1, HarmlessFrame
    <3>. QED
      BY <2>4, <3>1, <3>2, NickUntouched
      DEF CapNak, CapUnavailable, LeaveCapNegotiation, Running, FsmTypeOK, Phases, PendingWasAcked
  <2>5. CASE AuthenticatePlus
    <3>1. NewError(opts) = "none" /\ SpeaksCap
      BY <2>5 DEF AuthenticatePlus
    <3>2. PayloadDefined
      BY <3>1 DEF PayloadDefined, NewError, ValidateLineSafe, ValidatePasswordPresent, Present, PassToken, LineToken
    <3>3. said' = said \cup {<<"AUTHENTICATE_PAYLOAD", opts.password>>}
      BY <2>5, <3>2, EmitOne DEF AuthenticatePlus, SecretFrame, Frame
    <3>4. PayloadOnlyAfterAck' /\ PassIsOneToken' /\ PendingWasAcked'
      BY <2>5, <3>3 DEF AuthenticatePlus, PendingWasAcked, PayloadOnlyAfterAck, PassIsOneToken
    <3>5. UNCHANGED <<opts, nickVars>>
      BY <2>5 DEF AuthenticatePlus
    <3>. QED
      BY <2>5, <3>2, <3>4, <3>5, NickUntouched DEF AuthenticatePlus, FsmTypeOK
  <2>6. CASE SaslSuccess
    <3>0. said' = said \cup {<<"CAP_END", "nil">>} /\ UNCHANGED <<opts, nickVars>>
      BY <2>6, EmitOne DEF SaslSuccess, Frame
    <3>1. PayloadOnlyAfterAck' /\ PassIsOneToken'
      BY <2>6, <3>0, HarmlessFrame DEF SaslSuccess
    <3>. QED
      BY <2>6, <3>0, <3>1, NickUntouched
      DEF SaslSuccess, LeaveCapNegotiation, Running, FsmTypeOK, Phases, PendingWasAcked
  <2>7. CASE SaslFail
    <3>0. said' = said /\ UNCHANGED <<opts, nickVars, heard>>
      BY <2>7, EmitNone DEF SaslFail
    <3>1. PayloadOnlyAfterAck' /\ PassIsOneToken'
      BY <3>0, QuietStep
    <3>. QED
      BY <2>7, <3>0, <3>1, NickUntouched DEF SaslFail, FsmTypeOK, PendingWasAcked
  <2>8. CASE NickInUse(m.echo)
    <3> DEFINE cap == LearnedNickCap(m.echo)
               rung == Head(nick_suffixes)
    <3>1. cap \in MinCap..nick_cap
      BY <2>0, LearnedCapBounds
    <3>2. cap \in MinCap..MaxNickLen
      BY <3>1, NickLenAssumption DEF FsmTypeOK
    <3>3. rung \in 1..Len(Ladder) /\ Tail(nick_suffixes) \in Seq(1..Len(Ladder))
      BY <2>8 DEF NickInUse, FsmTypeOK
    <3> HIDE DEF cap, rung
    <3>4. /\ cap > SuffixLen(rung)
          /\ CollisionFallback(rung, cap) \in Nicks
          /\ NickLen(CollisionFallback(rung, cap)) <= cap
      BY <3>2, <3>3, FallbackFits
    <3>5. /\ nick' = CollisionFallback(rung, cap)
          /\ nick_suffixes' = Tail(nick_suffixes)
          /\ nick_cap' = cap /\ stop' = stop
          /\ Emit(<<Frame("NICK")>>)
      BY <2>8, <3>4 DEF NickInUse, cap, rung
    <3>6. UNCHANGED <<opts, phase, caps_buffer, sasl_fields, heard>>
      BY <2>8 DEF NickInUse
    <3>7. said' = said \cup {<<"NICK", "nil">>}
      BY <3>5, EmitOne DEF Frame
    <3>8. PayloadOnlyAfterAck' /\ PassIsOneToken'
      BY <3>6, <3>7, HarmlessFrame
    <3>9. NickFitsCap'
      BY <3>4, <3>5 DEF NickFitsCap, NickLen
    <3>10. FsmTypeOK'
      BY <3>2, <3>3, <3>4, <3>5, <3>6 DEF FsmTypeOK
    <3>. QED
      BY <3>5, <3>6, <3>7, <3>8, <3>9, <3>10 DEF PendingWasAcked
  <2>9. CASE NickRejected(m.cmd)
    <3>0. said' = said /\ UNCHANGED <<opts, nickVars, heard>>
      BY <2>9, EmitNone DEF NickRejected
    <3>1. PayloadOnlyAfterAck' /\ PassIsOneToken'
      BY <3>0, QuietStep
    <3>. QED
      BY <2>9, <3>0, <3>1, NickUntouched DEF NickRejected, FsmTypeOK, PendingWasAcked
  <2>10. CASE Welcome
    <3>0. said' = said /\ UNCHANGED <<opts, nickVars, heard>>
      BY <2>10, EmitNone DEF Welcome
    <3>1. PayloadOnlyAfterAck' /\ PassIsOneToken'
      BY <3>0, QuietStep
    <3>. QED
      BY <2>10, <3>0, <3>1, NickUntouched
      DEF Welcome, LeaveCapNegotiation, Running, FsmTypeOK, Phases, PendingWasAcked
  <2>11. CASE Absorb(m)
    <3>0. said' = said /\ UNCHANGED <<opts, nickVars, heard>>
      BY <2>11, EmitNone DEF Absorb
    <3>1. PayloadOnlyAfterAck' /\ PassIsOneToken'
      BY <3>0, QuietStep
    <3>. QED
      BY <2>11, <3>0, <3>1, NickUntouched DEF Absorb, FsmTypeOK, PendingWasAcked
  <2>. QED
    BY <1>3, <2>1, <2>2, <2>3, <2>4, <2>5, <2>6, <2>7, <2>8, <2>9, <2>10, <2>11 DEF Step
<1>4. CASE UNCHANGED fsmVars
  <2>1. UNCHANGED <<opts, nickVars>> /\ said' = said /\ heard' = heard
    BY <1>4 DEF fsmVars, nickVars
  <2>2. PayloadOnlyAfterAck' /\ PassIsOneToken'
    BY <2>1, QuietStep
  <2>. QED
    BY <1>4, <2>1, <2>2, NickUntouched DEF fsmVars, FsmTypeOK, Validated, CapPhasesSpeakCap,
       PendingWasAcked, BufferOnlyDuringLs, NeverCrashes, SpeaksCap
<1>. QED
  BY <1>1, <1>2, <1>3, <1>4 DEF FsmNext

-----------------------------------------------------------------------------
(* The theorems.                                                           *)

\* The invariant holds of every state of the handshake.
LEMMA FsmInvariant == FsmSpec => []FsmInv
BY FsmInitInv, FsmNextInv, PTL DEF FsmSpec

\* Every part of the handshake state keeps its type, whatever the upstream
\* sends: the capability buffer holds capabilities this client knows, the nick
\* is a rung of the ladder on a prefix of the configured nick, and the learned
\* cap stays between the floor and the longest nick.
THEOREM HandshakeTypes == FsmSpec => []FsmTypeOK
<1>1. FsmInv => FsmTypeOK
  BY DEF FsmInv
<1>. QED
  BY <1>1, FsmInvariant, PTL

\* Whatever lines the upstream sends, in whatever order, the handshake never
\* sends its SASL credential unacknowledged, never leaks a capability buffer
\* out of the LS phase, never crashes its Client, never puts a blank in a PASS,
\* and never has a nick in flight that the proved cap would truncate.
THEOREM HandshakeSafe ==
    FsmSpec => [](/\ FsmTypeOK /\ PayloadOnlyAfterAck /\ BufferOnlyDuringLs
                  /\ NeverCrashes /\ PassIsOneToken /\ NickFitsCap)
<1>1. FsmInv => /\ FsmTypeOK /\ PayloadOnlyAfterAck /\ BufferOnlyDuringLs
                /\ NeverCrashes /\ PassIsOneToken /\ NickFitsCap
  BY DEF FsmInv
<1>. QED
  BY <1>1, FsmInvariant, PTL

\* A nick length cap the upstream has proved is never forgotten: no step of the
\* ladder raises it.
THEOREM CapSticks == FsmSpec => NickCapNeverRises
<1>1. FsmInv /\ [FsmNext]_fsmVars => [nick_cap' <= nick_cap]_fsmVars
  <2> SUFFICES ASSUME FsmInv, FsmNext PROVE nick_cap' <= nick_cap
    BY DEF FsmInv
  <2>1. nick_cap \in Nat
    BY NickLenAssumption DEF FsmInv, FsmTypeOK
  <2>2. ASSUME NEW m \in Messages, NickInUse(m.echo) PROVE nick_cap' <= nick_cap
    <3>1. m.echo \in 0..MaxNickLen
      BY NickLenAssumption DEF Messages, CapMessages, NickMessages, PlainMessages, Message
    <3>2. LearnedNickCap(m.echo) \in MinCap..nick_cap
      BY <3>1, LearnedCapBounds DEF FsmInv
    <3>3. nick_cap' = LearnedNickCap(m.echo) \/ nick_cap' = nick_cap
      BY <2>2 DEF NickInUse, nickVars
    <3>. QED
      BY <2>1, <3>2, <3>3, NickLenAssumption
  <2>3. ASSUME NEW m \in Messages, Step(m) PROVE nick_cap' <= nick_cap
    BY <2>1, <2>2, <2>3 DEF Step, CapLsMore, CapLs, CapAck, CapNak, AuthenticatePlus, SaslSuccess,
       SaslFail, NickRejected, Welcome, Absorb, nickVars
  <2>. QED
    BY <2>1, <2>3 DEF FsmNext, New, InitialHandshake
<1>. QED
  BY <1>1, FsmInvariant, PTL DEF FsmSpec, NickCapNeverRises
=============================================================================
