---------------------------- MODULE Registration ----------------------------
(***************************************************************************)
(* AuthFSM talking to a conforming ircd over a FIFO connection, the way    *)
(* Grappa.IRC.Client drives it: every inbound line is stepped through the  *)
(* FSM and the frames it returns are flushed to the socket in order.       *)
(*                                                                         *)
(* The ircd is external; its profile is what the comments of auth_fsm.ex   *)
(* and identifier.ex say of the deployed ones: it may not speak CAP at all *)
(* (Bahamut), may split its LS reply, may NAK a combined REQ while it      *)
(* would ACK sasl alone, may fail SASL, and may find the nick in use. It   *)
(* holds the welcome back while a negotiation it opened is not ended.      *)
(*                                                                         *)
(* The session hears a copy of every line in its own mailbox.  While it    *)
(* holds a NickServ password it answers a 433 by an underscored NICK of    *)
(* its own: on :nickserv_identify in place of the FSM's ladder, on         *)
(* :server_pass besides it.                                                *)
(***************************************************************************)
EXTENDS AuthFSM, FiniteSets

CONSTANTS
    Credentials,    \* the credentials registration is attempted with
    MaxCollisions   \* how many nicks in a row the ircd may refuse

VARIABLES
    ircd,       \* the profile of the upstream, fixed for a connection
    capOpen,    \* the ircd holds registration for a CAP END
    nickOk,     \* a NICK was accepted
    userOk,     \* USER was received
    welcomed,   \* 001 was sent
    refused,    \* how many NICKs were answered with 433
    toServer,   \* frames in flight
    toClient,   \* lines in flight
    mail,       \* the 433s and the 001 the session has not handled yet
    ghost,      \* ghost_recovery: armed
    pending_password,   \* the session holds a NickServ password, until 001
    unanswered  \* history: a 433 that neither the FSM nor the session took up

srvVars == <<capOpen, nickOk, userOk, welcomed, refused>>
sessVars == <<mail, ghost, pending_password, unanswered>>
regVars == <<fsmVars, ircd, srvVars, toServer, toClient, sessVars>>

Profiles == [speaksCap : BOOLEAN, offers : SUBSET Caps, naksCombined : BOOLEAN,
             saslOk : BOOLEAN]

-----------------------------------------------------------------------------
(* Grappa.IRC.Client                                                       *)

\* send_frames/2: the batch goes out in order.
Flush(frames) == toServer' = toServer \o frames

\* init/1 and handle_continue({:connect, _}): build, connect, open.
Connect ==
    /\ New \/ InitialHandshake
    /\ Flush(out')
    /\ UNCHANGED <<ircd, srvVars, toClient, sessVars>>

\* process_line/2 and run_fsm_step/2: the session gets its copy of the line,
\* the FSM steps, and its frames are flushed.
ReceiveLine ==
    /\ toClient # <<>>
    /\ LET m == Head(toClient) IN
        /\ Step(m)
        /\ mail' = IF m.cmd \in {"433", "001"} THEN Append(mail, m.cmd) ELSE mail
    /\ Flush(out')
    /\ toClient' = Tail(toClient)
    /\ UNCHANGED <<ircd, srvVars, ghost, pending_password, unanswered>>

-----------------------------------------------------------------------------
(* The session. It goes down with its Client.                              *)

\* pending_password_from_opts/1
PendingPassword(o) ==
    o.method \in {"nickserv_identify", "server_pass"} /\ Present(o.password)

Hears(line) == stop = "none" /\ mail # <<>> /\ Head(mail) = line /\ mail' = Tail(mail)

\* The 433 clause: GhostRecovery is armed and the underscored NICK goes out
\* (its GHOST is refused before registration).
ArmGhost ==
    /\ Hears("433")
    /\ pending_password /\ ~ghost
    /\ ghost' = TRUE
    /\ Flush(<<Frame("NICK")>>)
    /\ UNCHANGED <<fsmVars, ircd, srvVars, toClient, pending_password, unanswered>>

\* Any other 433 is the FSM's, which takes none on :nickserv_identify.
IgnoreCollision ==
    /\ Hears("433")
    /\ ghost \/ ~pending_password
    /\ unanswered' = (unanswered \/ opts.method = "nickserv_identify")
    /\ UNCHANGED <<fsmVars, ircd, srvVars, toServer, toClient, ghost, pending_password>>

\* :ghost_timeout, which may be armed again.
GhostTimeout ==
    /\ stop = "none" /\ ghost
    /\ ghost' = FALSE
    /\ UNCHANGED <<fsmVars, ircd, srvVars, toServer, toClient, mail, pending_password, unanswered>>

\* 001: the password is spent.
HearWelcome ==
    /\ Hears("001")
    /\ pending_password' = FALSE
    /\ UNCHANGED <<fsmVars, ircd, srvVars, toServer, toClient, ghost, unanswered>>

-----------------------------------------------------------------------------
(* The ircd (external).                                                    *)

Reply(lines) == toClient' = toClient \o lines
WithCaps(cmd, caps) == [Message(cmd) EXCEPT !.caps = caps]

AnswerCapLs ==
    /\ IF ircd.speaksCap
       THEN /\ capOpen' = TRUE
            /\ \E part \in SUBSET ircd.offers :
                \/ part = {} /\ Reply(<<WithCaps("LS", ircd.offers)>>)
                \/ part # {} /\ Reply(<<WithCaps("LS_MORE", part),
                                        WithCaps("LS", ircd.offers \ part)>>)
       ELSE /\ capOpen' = capOpen
            /\ Reply(<<Message("OTHER")>>)
    /\ UNCHANGED <<nickOk, userOk, refused>>

AnswerCapReq(caps) ==
    /\ IF caps \subseteq ircd.offers /\ ~(ircd.naksCombined /\ Cardinality(caps) > 1)
       THEN Reply(<<WithCaps("ACK", caps)>>)
       ELSE Reply(<<Message("NAK")>>)
    /\ UNCHANGED <<capOpen, nickOk, userOk, refused>>

\* A nick may be taken or free, whatever was said of the one before.
AnswerNick ==
    /\ \/ /\ refused < MaxCollisions
          /\ \E e \in 0..MaxNickLen : Reply(<<[Message("433") EXCEPT !.echo = e]>>)
          /\ refused' = refused + 1
          /\ nickOk' = nickOk
       \/ /\ nickOk' = TRUE
          /\ UNCHANGED <<toClient, refused>>
    /\ UNCHANGED <<capOpen, userOk>>

AnswerPayload ==
    /\ Reply(<<Message(IF ircd.saslOk THEN "903" ELSE "904")>>)
    /\ UNCHANGED <<capOpen, nickOk, userOk, refused>>

IrcdReceive ==
    /\ toServer # <<>>
    /\ toServer' = Tail(toServer)
    /\ LET f == Head(toServer) IN
        \/ f.verb = "CAP_LS" /\ AnswerCapLs
        \/ f.verb = "CAP_REQ" /\ AnswerCapReq(f.caps)
        \/ f.verb = "NICK" /\ AnswerNick
        \/ f.verb = "AUTHENTICATE_PAYLOAD" /\ AnswerPayload
        \/ /\ f.verb = "AUTHENTICATE_PLAIN"
           /\ Reply(<<Message("AUTHENTICATE_PLUS")>>)
           /\ UNCHANGED <<capOpen, nickOk, userOk, refused>>
        \/ /\ f.verb = "CAP_END"
           /\ capOpen' = FALSE
           /\ UNCHANGED <<toClient, nickOk, userOk, refused>>
        \/ /\ f.verb = "USER"
           /\ userOk' = TRUE
           /\ UNCHANGED <<toClient, capOpen, nickOk, refused>>
        \/ /\ f.verb = "PASS"
           /\ UNCHANGED <<toClient, capOpen, nickOk, userOk, refused>>
    /\ UNCHANGED <<fsmVars, ircd, welcomed, sessVars>>

IrcdWelcome ==
    /\ nickOk /\ userOk /\ ~capOpen /\ ~welcomed
    /\ welcomed' = TRUE
    /\ Reply(<<Message("001")>>)
    /\ UNCHANGED <<fsmVars, ircd, capOpen, nickOk, userOk, refused, toServer, sessVars>>

-----------------------------------------------------------------------------

RegInit ==
    /\ FsmInit /\ opts \in Credentials
    /\ ircd \in Profiles
    /\ capOpen = FALSE /\ nickOk = FALSE /\ userOk = FALSE /\ welcomed = FALSE
    /\ refused = 0
    /\ toServer = <<>> /\ toClient = <<>>
    /\ mail = <<>> /\ ghost = FALSE /\ unanswered = FALSE
    /\ pending_password = PendingPassword(opts)

Session == ArmGhost \/ IgnoreCollision \/ GhostTimeout \/ HearWelcome

RegNext == Connect \/ ReceiveLine \/ Session \/ IrcdReceive \/ IrcdWelcome

\* The socket delivers, the ircd answers, and the two processes are scheduled.
RegFairness == /\ WF_regVars(Connect) /\ WF_regVars(ReceiveLine) /\ WF_regVars(Session)
               /\ WF_regVars(IrcdReceive) /\ WF_regVars(IrcdWelcome)

RegSpec == RegInit /\ [][RegNext]_regVars /\ RegFairness

-----------------------------------------------------------------------------
(* Properties.                                                             *)

Resolved == phase = "registered" \/ stop # "none"

\* On :nickserv_identify a second 433 found GhostRecovery armed: the FSM leaves
\* it to the session and the session to the FSM, and only the ircd's own
\* registration timeout ends the connection.
Stranded == unanswered

\* Registration never wedges, but for a 433 nobody answers: whatever the ircd
\* offers, splits, refuses or NAKs, in whatever order the ladder's NICKs and the
\* session's reach it, the client ends up welcomed or stopped with a reason
\* (every way out of the negotiation sends the CAP END the ircd waits for).
HandshakeResolves == <>(Resolved \/ Stranded)

\* A welcomed client that was told of sasl, wanted it and was not refused is
\* authenticated: no interleaving of the LS lines, the fallback request and
\* the nick ladder loses the SASL exchange.
OfferedSaslIsUsed ==
    phase = "registered" /\ SpeaksCap /\ ircd.speaksCap /\ "sasl" \in ircd.offers
        => "903" \in heard

=============================================================================
