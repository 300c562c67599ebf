------------------------------ MODULE AuthFSM ------------------------------
(***************************************************************************)
(* The upstream registration handshake of one IRC connection               *)
(* (lib/grappa/irc/auth_fsm.ex), as driven by Grappa.IRC.Client: build the *)
(* state from the credential (New), flush the opening frames once the      *)
(* socket is up (InitialHandshake), then one Step per inbound line.        *)
(*                                                                         *)
(* The upstream is unconstrained here: any message may arrive in any       *)
(* phase. Registration.tla closes the loop with a conforming ircd.         *)
(*                                                                         *)
(* Abstractions. A secret is its class: "nil" (absent or empty), "token"   *)
(* (no CR/LF/NUL and no blank), "spaced" (holds a blank), "unsafe" (holds  *)
(* CR, LF or NUL). A nick is the number of leading characters it keeps of  *)
(* the configured nick plus the ladder rung whose suffix it carries. The   *)
(* echo of a 433 is the length of the prefix of our nick it repeats.       *)
(***************************************************************************)
EXTENDS Naturals, Sequences

CONSTANTS
    Extras,      \* the opportunistic capabilities (@opportunistic_caps)
    Ladder,      \* lengths of the 433 fallback suffixes, in the order tried
    MaxNickLen,  \* Identifier.max_nick_length/0
    MinCap       \* @min_learnable_nick_cap

ASSUME LadderAssumption == Ladder \in Seq(Nat \ {0})
ASSUME NickLenAssumption == MaxNickLen \in Nat /\ MinCap \in Nat /\ MinCap <= MaxNickLen
\* The floor under a learned cap leaves room for every suffix of the ladder.
ASSUME FloorAssumption == \A i \in DOMAIN Ladder : Ladder[i] < MinCap
ASSUME SaslAssumption == "sasl" \notin Extras

VARIABLES
    opts,           \* the credential handed to new/1
    phase,          \* :phase, and "unbuilt" before new/1 returns
    caps_buffer,    \* capability names of the CAP LS lines seen so far
    nick,           \* the nick in flight
    nick_suffixes,  \* rungs of the ladder not tried yet
    nick_cap,       \* the length every candidate is clamped to
    sasl_fields,    \* fields counted off the emitted payload, 0 when none
    stop,           \* why the FSM stopped its Client, "none" while it runs
    out,            \* frames the last step handed to the Client
    said,           \* history: every frame verb sent on this connection
    heard           \* history: what the upstream has granted so far

fsmVars == <<opts, phase, caps_buffer, nick, nick_suffixes, nick_cap,
             sasl_fields, stop, out, said, heard>>

Methods == {"auto", "sasl", "server_pass", "nickserv_identify", "none"}
Secrets == {"nil", "token", "spaced", "unsafe"}
AckPhases == {"awaiting_cap_ack", "awaiting_cap_ack_combined",
              "awaiting_cap_ack_sasl_only"}
Phases == AckPhases \cup {"unbuilt", "pre_register", "awaiting_cap_ls",
                          "sasl_pending", "registered"}
Caps == Extras \cup {"sasl"}

Opts == [method : Methods, password : Secrets, server_pass : Secrets,
         lines_safe : BOOLEAN, nick_len : 1..MaxNickLen]

Rungs == 0..Len(Ladder)
Nicks == [base : 0..MaxNickLen, rung : Rungs]

SuffixLen(rung) == IF rung = 0 THEN 0 ELSE Ladder[rung]
NickLen(n) == n.base + SuffixLen(n.rung)

\* A frame on the wire: its verb and the secret or capabilities it carries.
Frame(verb) == [verb |-> verb, secret |-> "nil", caps |-> {}]
SecretFrame(verb, secret) == [Frame(verb) EXCEPT !.secret = secret]
CapReq(caps) == [Frame("CAP_REQ") EXCEPT !.caps = caps]

\* The frames of one step; the histories record verbs, and the secret a PASS
\* or an AUTHENTICATE payload put on the wire.
Emit(frames) ==
    /\ out' = frames
    /\ said' = said \cup {<<frames[i].verb, frames[i].secret>> : i \in DOMAIN frames}

-----------------------------------------------------------------------------
(* new/1: the credential's secrets are validated before anything is built. *)

Present(secret) == secret # "nil"
PassToken(secret) == secret = "token"                  \* safe_oper_token?/1
LineToken(secret) == secret \in {"nil", "token", "spaced"}  \* safe_line_token?/1

ValidatePasswordPresent(o) ==
    CASE o.method = "none" -> TRUE
      [] o.method = "server_pass" -> Present(o.server_pass)
      [] OTHER -> Present(o.password)

ValidateLineSafe(o) ==
    /\ o.lines_safe
    /\ CASE o.method = "none" -> TRUE
         [] o.method = "server_pass" -> /\ PassToken(o.server_pass)
                                        /\ Present(o.password) => LineToken(o.password)
         [] o.method = "auto" -> PassToken(o.password)
         [] OTHER -> LineToken(o.password)

\* The error new/1 returns for o, "none" when it builds the state.
NewError(o) ==
    IF ~ValidatePasswordPresent(o) THEN "missing_secret"
    ELSE IF ~ValidateLineSafe(o) THEN "invalid_line_token"
    ELSE "none"

New ==
    /\ phase = "unbuilt" /\ stop = "none"
    /\ stop' = NewError(opts)
    /\ phase' = IF NewError(opts) = "none" THEN "pre_register" ELSE phase
    /\ Emit(<<>>)
    /\ UNCHANGED <<opts, caps_buffer, nick, nick_suffixes, nick_cap, sasl_fields, heard>>

-----------------------------------------------------------------------------
(* initial_handshake/1: PASS, CAP LS, NICK, USER, in that order.           *)

MaybePass ==
    CASE opts.method = "server_pass" /\ Present(opts.server_pass) ->
            <<SecretFrame("PASS", opts.server_pass)>>
      [] opts.method = "auto" /\ Present(opts.password) ->
            <<SecretFrame("PASS", opts.password)>>
      [] OTHER -> <<>>

SpeaksCap == opts.method \in {"auto", "sasl"}

InitialHandshake ==
    /\ phase = "pre_register" /\ stop = "none" /\ said = {}
    /\ phase' = IF SpeaksCap THEN "awaiting_cap_ls" ELSE phase
    /\ Emit(MaybePass \o (IF SpeaksCap THEN <<Frame("CAP_LS")>> ELSE <<>>)
                      \o <<Frame("NICK"), Frame("USER")>>)
    /\ UNCHANGED <<opts, caps_buffer, nick, nick_suffixes, nick_cap, sasl_fields,
                   stop, heard>>

-----------------------------------------------------------------------------
(* step/2. Every action below is one clause; Running is the guard they     *)
(* share: the connection is up, not stopped, and not yet :registered.      *)

Running == /\ stop = "none" /\ said # {}
           /\ phase \notin {"unbuilt", "registered"}

nickVars == <<nick, nick_suffixes, nick_cap>>

\* leave_cap_negotiation/2
LeaveCapNegotiation(newPhase) == phase' = newPhase /\ caps_buffer' = {}

\* Seeded defect: giving up on sasl without ending the negotiation.
CapUnavailable_NoEnd ==
    /\ LeaveCapNegotiation("pre_register")
    /\ stop' = IF opts.method = "sasl" THEN "sasl_unavailable" ELSE stop
    /\ Emit(<<>>)

\* cap_unavailable/1 with maybe_send_cap_end/1: every phase it is called in
\* still has the negotiation open, so it always closes it with CAP END.
CapUnavailable ==
    /\ LeaveCapNegotiation("pre_register")
    /\ stop' = IF opts.method = "sasl" THEN "sasl_unavailable" ELSE stop
    /\ Emit(<<Frame("CAP_END")>>)

CapLsMore(caps) ==
    /\ Running /\ phase = "awaiting_cap_ls"
    /\ caps_buffer' = caps \cup caps_buffer
    /\ Emit(<<>>)
    /\ UNCHANGED <<opts, phase, nickVars, sasl_fields, stop, heard>>

\* finalize_cap_ls/2: what to request of the whole list.
FinalizeCapLs(caps) ==
    LET sasl_wanted == "sasl" \in caps /\ opts.method \in {"auto", "sasl"}
        extras == caps \cap Extras
    IN  \/ /\ sasl_wanted
           /\ LeaveCapNegotiation(IF extras = {} THEN "awaiting_cap_ack"
                                                 ELSE "awaiting_cap_ack_combined")
           /\ Emit(<<CapReq({"sasl"} \cup extras)>>)
           /\ stop' = stop
        \/ /\ ~sasl_wanted /\ extras # {}
           /\ LeaveCapNegotiation("awaiting_cap_ack")
           /\ Emit(<<CapReq(extras)>>)
           /\ stop' = stop
        \/ /\ ~sasl_wanted /\ extras = {}
           /\ CapUnavailable

\* Seeded defect: only the last line of a split LS reply is looked at.
CapLs_LastLineOnly(caps) ==
    /\ Running /\ phase = "awaiting_cap_ls"
    /\ FinalizeCapLs(caps)
    /\ UNCHANGED <<opts, nickVars, sasl_fields, heard>>

\* The final LS line: the list is complete.
CapLs(caps) ==
    /\ Running /\ phase = "awaiting_cap_ls"
    /\ FinalizeCapLs(caps \cup caps_buffer)
    /\ UNCHANGED <<opts, nickVars, sasl_fields, heard>>

CapAck(caps) ==
    /\ Running /\ phase \in AckPhases
    /\ \/ /\ "sasl" \in caps
          /\ phase' = "sasl_pending"
          /\ Emit(<<Frame("AUTHENTICATE_PLAIN")>>)
          /\ heard' = heard \cup {"ack_sasl"}
          /\ UNCHANGED <<caps_buffer, stop>>
       \/ /\ "sasl" \notin caps
          /\ CapUnavailable
          /\ UNCHANGED heard
    /\ UNCHANGED <<opts, nickVars, sasl_fields>>

\* A NAK of the combined request retries sasl alone before giving up on it.
CapNak ==
    /\ Running /\ phase \in AckPhases
    /\ \/ /\ phase = "awaiting_cap_ack_combined"
          /\ phase' = "awaiting_cap_ack_sasl_only"
          /\ Emit(<<CapReq({"sasl"})>>)
          /\ UNCHANGED <<caps_buffer, stop>>
       \/ /\ phase # "awaiting_cap_ack_combined"
          /\ CapUnavailable
    /\ UNCHANGED <<opts, nickVars, sasl_fields, heard>>

\* sasl_plain_payload/1 raises on a password it cannot encode.
PayloadDefined == opts.password \in {"token", "spaced"}

\* Seeded defect: the AUTHENTICATE + clause without its phase pin.
AuthenticatePlus_AnyPhase ==
    /\ Running /\ PayloadDefined
    /\ Emit(<<SecretFrame("AUTHENTICATE_PAYLOAD", opts.password)>>)
    /\ sasl_fields' = 3
    /\ UNCHANGED <<opts, phase, caps_buffer, nickVars, heard, stop>>

AuthenticatePlus ==
    /\ Running /\ phase = "sasl_pending"
    /\ IF PayloadDefined
       THEN /\ Emit(<<SecretFrame("AUTHENTICATE_PAYLOAD", opts.password)>>)
            /\ sasl_fields' = 3
            /\ stop' = stop
       ELSE /\ Emit(<<>>)
            /\ stop' = "crash"
            /\ sasl_fields' = sasl_fields
    /\ UNCHANGED <<opts, phase, caps_buffer, nickVars, heard>>

\* 903 RPL_SASLSUCCESS, whatever the phase below :registered.
SaslSuccess ==
    /\ Running
    /\ LeaveCapNegotiation("pre_register")
    /\ Emit(<<Frame("CAP_END")>>)
    /\ heard' = heard \cup {"903"}
    /\ UNCHANGED <<opts, nickVars, sasl_fields, stop>>

\* 904 ERR_SASLFAIL and 905 ERR_SASLTOOLONG.
SaslFail ==
    /\ Running
    /\ stop' = "sasl_failed"
    /\ Emit(<<>>)
    /\ UNCHANGED <<opts, phase, caps_buffer, nickVars, sasl_fields, heard>>

\* Seeded defects: an echo believed without a floor; a proved cap that does not stick.
LearnedNickCap_NoFloor(echo) == IF echo < NickLen(nick) THEN echo ELSE nick_cap
LearnedNickCap_Forgets(echo) == IF echo < NickLen(nick) /\ echo > MinCap THEN echo ELSE MaxNickLen

\* learned_nick_cap/2: an echo shorter than the nick we sent is its cap.
LearnedNickCap(echo) ==
    IF echo < NickLen(nick)
    THEN IF echo > MinCap THEN echo ELSE MinCap
    ELSE nick_cap

Least(a, b) == IF a < b THEN a ELSE b

\* Identifier.collision_fallback/3: the base is trimmed, never the suffix.
CollisionFallback(rung, cap) ==
    [base |-> Least(opts.nick_len, cap - SuffixLen(rung)), rung |-> rung]

\* 433 with rungs left: the next candidate. collision_fallback/3 has no
\* clause for a cap that leaves no base character, and the Client crashes.
NickInUse(echo) ==
    /\ Running /\ opts.method # "nickserv_identify" /\ nick_suffixes # <<>>
    /\ LET cap == LearnedNickCap(echo)
           rung == Head(nick_suffixes)
       IN IF cap > SuffixLen(rung)
          THEN /\ nick' = CollisionFallback(rung, cap)
               /\ nick_suffixes' = Tail(nick_suffixes)
               /\ nick_cap' = cap
               /\ stop' = stop
               /\ Emit(<<Frame("NICK")>>)
          ELSE /\ stop' = "crash"
               /\ Emit(<<>>)
               /\ UNCHANGED nickVars
    /\ UNCHANGED <<opts, phase, caps_buffer, sasl_fields, heard>>

\* 432, or 433 with the ladder spent: the operator must fix the nick.
NickRejected(code) ==
    /\ Running /\ opts.method # "nickserv_identify"
    /\ code = "433" => nick_suffixes = <<>>
    /\ stop' = "nick_rejected"
    /\ Emit(<<>>)
    /\ UNCHANGED <<opts, phase, caps_buffer, nickVars, sasl_fields, heard>>

\* 001 RPL_WELCOME promotes from any phase.
Welcome ==
    /\ Running
    /\ LeaveCapNegotiation("registered")
    /\ Emit(<<>>)
    /\ UNCHANGED <<opts, nickVars, sasl_fields, stop, heard>>

\* Does some clause above handle m in this state? Everything else is absorbed:
\* all traffic once :registered, CAP lines outside their phase, AUTHENTICATE
\* outside :sasl_pending, 432/433 left to the host on :nickserv_identify.
Handles(m) ==
    CASE m.cmd \in {"LS_MORE", "LS"} -> phase = "awaiting_cap_ls"
      [] m.cmd \in {"ACK", "NAK"} -> phase \in AckPhases
      [] m.cmd = "AUTHENTICATE_PLUS" -> phase = "sasl_pending"
      [] m.cmd \in {"432", "433"} -> opts.method # "nickserv_identify"
      [] m.cmd \in {"001", "903", "904"} -> TRUE
      [] OTHER -> FALSE

Absorb(m) ==
    /\ stop = "none" /\ said # {}
    /\ phase = "registered" \/ ~Handles(m)
    /\ Emit(<<>>)
    /\ UNCHANGED <<opts, phase, caps_buffer, nickVars, sasl_fields, stop, heard>>

Step(m) ==
    \/ m.cmd = "LS_MORE" /\ CapLsMore(m.caps)
    \/ m.cmd = "LS" /\ CapLs(m.caps)
    \/ m.cmd = "ACK" /\ CapAck(m.caps)
    \/ m.cmd = "NAK" /\ CapNak
    \/ m.cmd = "AUTHENTICATE_PLUS" /\ AuthenticatePlus
    \/ m.cmd = "903" /\ SaslSuccess
    \/ m.cmd = "904" /\ SaslFail
    \/ m.cmd = "433" /\ NickInUse(m.echo)
    \/ m.cmd \in {"432", "433"} /\ NickRejected(m.cmd)
    \/ m.cmd = "001" /\ Welcome
    \/ Absorb(m)

Message(cmd) == [cmd |-> cmd, caps |-> {}, echo |-> MaxNickLen]
CapMessages == {[Message(c) EXCEPT !.caps = s] : c \in {"LS_MORE", "LS", "ACK"}, s \in SUBSET Caps}
NickMessages == {[Message("433") EXCEPT !.echo = e] : e \in 0..MaxNickLen}
PlainMessages == {Message(c) : c \in {"NAK", "AUTHENTICATE_PLUS", "AUTHENTICATE_OTHER",
                                      "001", "432", "903", "904", "OTHER"}}
Messages == CapMessages \cup NickMessages \cup PlainMessages

FsmInit ==
    /\ opts \in Opts
    /\ phase = "unbuilt"
    /\ caps_buffer = {}
    /\ nick = [base |-> opts.nick_len, rung |-> 0]
    /\ nick_suffixes = [i \in 1..Len(Ladder) |-> i]
    /\ nick_cap = MaxNickLen
    /\ sasl_fields = 0
    /\ stop = "none"
    /\ out = <<>>
    /\ said = {}
    /\ heard = {}

FsmNext == New \/ InitialHandshake \/ \E m \in Messages : Step(m)

FsmSpec == FsmInit /\ [][FsmNext]_fsmVars
-----------------------------------------------------------------------------
(* Properties.                                                             *)

\* Type invariant of the handshake state.
FsmTypeOK ==
    /\ opts \in Opts
    /\ phase \in Phases
    /\ caps_buffer \subseteq Caps
    /\ nick \in Nicks
    /\ nick_suffixes \in Seq(1..Len(Ladder))
    /\ nick_cap \in MinCap..MaxNickLen
    /\ sasl_fields \in {0, 3}
    /\ stop \in {"none", "missing_secret", "invalid_line_token", "sasl_unavailable",
                "sasl_failed", "nick_rejected", "crash"}
    /\ heard \subseteq {"ack_sasl", "903"}

\* The SASL credential leaves this host only after the upstream acknowledged
\* the sasl capability and we named the mechanism, whatever lines the upstream
\* sends and in whatever order (the phase pin of the AUTHENTICATE clause).
PayloadOnlyAfterAck ==
    \A secret \in Secrets :
        <<"AUTHENTICATE_PAYLOAD", secret>> \in said =>
            /\ "ack_sasl" \in heard
            /\ <<"AUTHENTICATE_PLAIN", "nil">> \in said

\* caps_buffer accumulates only while the LS reply is being collected: every
\* way out of that phase, a 903 or a 001 in mid-list included, empties it.
BufferOnlyDuringLs == caps_buffer # {} => phase = "awaiting_cap_ls"

\* No sequence of upstream lines crashes the Client: collision_fallback/3 is
\* never called with a cap its guard refuses (a stale 433 echoing an earlier,
\* shorter nick included) and sasl_plain_payload/1 never meets a password that
\* new/1 should have refused.
NeverCrashes == stop # "crash"

\* A secret reaches the wire only in the shape its frame can carry: one blank
\* in a PASS token would silently truncate the password upstream.
PassIsOneToken ==
    \A secret \in Secrets : <<"PASS", secret>> \in said => secret = "token"

\* The nick in flight always fits the cap proved so far, so a retry is never
\* truncated back into the collision it is meant to escape.
NickFitsCap == NickLen(nick) <= nick_cap

\* A cap the upstream has proved sticks: a later 433 may lower it and never
\* raises it, although each 433 recomputes it from its own echo.
NickCapNeverRises == [][nick_cap' <= nick_cap]_fsmVars
=============================================================================
