---------------------------- MODULE AwaySession ----------------------------
(***************************************************************************)
(* The away side of Grappa.Session.Server: one session of one user on one  *)
(* network, fed by PresenceFeed, by the user's own /away, /back and /nick, *)
(* and by the settings bridge.                                             *)
(*                                                                         *)
(* The session is a process with a mailbox. Its debounce timer delivers    *)
(* into the same mailbox, so a fire may already be queued behind the       *)
(* message that cancels it. What it says goes to the ircd over a FIFO      *)
(* wire, and a NICK is answered later, by an echo or a refusal. The        *)
(* process may die at any point and is restarted; only the credential's    *)
(* away columns and the stored preferences survive.                        *)
(***************************************************************************)
EXTENDS PresenceFeed, Naturals, Sequences

CONSTANTS
    Self,           \* the user whose session this is
    Profiles,       \* bound: what may be turned, said and queued in one behaviour
    TooLong,        \* suffixes that fill the network's NICKLEN
    Stamps          \* clock values; the clock is cyclic

ASSUME SelfAssumption == Self \in Users
ASSUME StampsAssumption == Stamps \in Nat \ {0, 1}
\* The site default is a window, not a reference to itself, and what /nick asks
\* for is a name with the suffixes it carries.
ASSUME ProfilesAssumption ==
    \A p \in Profiles : /\ "site" \notin p.siteWindows
                       /\ \A n \in p.userNicks : n = <<n[1], n[2]>> /\ n[2] \in 0..2

VARIABLES
    knobs,      \* the profile of this behaviour
    link,       \* down, starting (settings read, not subscribed), connecting, online
    mailbox,
    away,       \* AwayState
    timer,      \* auto_away_timer: nil, armed, fired (its message is queued)
    mine,       \* the session's copy of the settings
    nick, restore,          \* state.nick, away_nick_restore
    reclaim,                \* the one-shot :nick_reclaim tick is pending
    prefs, site, posting,   \* stored settings; writes not announced yet
    row, dirty,             \* the credential's away columns; the last write failed
    wire, peer, refused,    \* lines in flight; the ircd's view of us; it refused a NICK
    clock

procVars == <<mailbox, away, timer, mine, nick, restore>>
storeVars == <<prefs, site, posting, row, dirty>>
ircdVars == <<wire, peer, refused>>
awayVars == <<knobs, feedVars, link, procVars, reclaim, storeVars, ircdVars, clock>>

\* Debounce preferences (windows, "disabled", "site"), values of the site
\* default, auto-away texts, texts of /away, away nick suffixes ("none" switches
\* the rename off) and targets of /nick. Nobody else queues a message beyond
\* MaxCalls, and the session waits while more than MaxWire lines are in flight.
Windows == knobs.windows
SiteWindows == knobs.siteWindows
AutoReasons == knobs.autoReasons
UserReasons == knobs.userReasons
Suffixes == knobs.suffixes
UserNicks == knobs.userNicks
MaxCalls == knobs.maxCalls
MaxWire == knobs.maxWire

None == "none"
Own == <<"own", 0>>
NoNick == <<None, 0>>
Present == [state |-> "present", since |-> Stamps, reason |-> None]
NoRow == [since |-> Stamps, reason |-> None]
Msg(kind, arg) == [kind |-> kind, arg |-> arg]
Line(verb, arg) == [verb |-> verb, arg |-> arg]

Alive == link # "down"
Subscribed == link \in {"connecting", "online"}
Is(kind) == /\ Subscribed /\ mailbox # <<>> /\ Head(mailbox).kind = kind
            /\ Len(wire) <= MaxWire
Queued(kind) == \E i \in 1..Len(mailbox) : mailbox[i].kind = kind
Tick == clock' = (clock + 1) % Stamps

\* resolve_auto_away_debounce/1: no preference of one's own means the site's.
Window(pref) == IF pref = "site" THEN site ELSE pref

-----------------------------------------------------------------------------
(* Timers and sends.                                                       *)

\* Seeded defect: a fire that is already queued survives the cancel.
Drained_NoDrain == Tail(mailbox)

\* A sequence without its i-th element.
Without(s, i) == [j \in 1..(Len(s) - 1) |-> IF j < i THEN s[j] ELSE s[j + 1]]

\* cancel_and_drain/2: the message of a timer that had fired is taken out of
\* the mailbox. A timer delivers once, so drain_all's loop finds one.
Drained ==
    LET rest == Tail(mailbox)
    IN  IF timer = "fired"
        THEN Without(rest, CHOOSE i \in 1..Len(rest) : rest[i].kind = "fire")
        ELSE rest

\* arm_auto_away_debounce/1.
ArmAutoAwayDebounce(window) ==
    timer' = IF window = "disabled" THEN "nil" ELSE "armed"

Send(lines) == wire' = wire \o lines

-----------------------------------------------------------------------------
(* The away helpers.                                                       *)

\* away_nick_target/1: the suffix is appended to whatever nick we wear (a long
\* nick is trimmed to make room: beyond the second suffix nothing changes).
AwayNickTarget ==
    IF mine.suffix = None \/ mine.suffix \in TooLong THEN NoNick
    ELSE <<nick[1], IF nick[2] < 2 THEN nick[2] + 1 ELSE 2>>

\* set_auto_away_internal/1 with rename_for_away/1.
SetAutoAwayInternal ==
    /\ away' = [state |-> "away_auto", since |-> clock, reason |-> mine.reason]
    /\ Tick
    /\ IF AwayNickTarget = NoNick
       THEN Send(<<Line("AWAY", mine.reason)>>) /\ restore' = restore
       ELSE /\ Send(<<Line("AWAY", mine.reason), Line("NICK", AwayNickTarget)>>)
            /\ restore' = nick

\* Seeded defect: the outstanding restore is not cleared.
UnsetAwayInternal_KeepRestore ==
    /\ away' = Present
    /\ Send(<<Line("AWAY", None)>> \o
            (IF restore \in {NoNick, nick} THEN <<>> ELSE <<Line("NICK", restore)>>))
    /\ restore' = restore

\* unset_away_internal/2 with restore_away_nick/1: the nick is asked back once,
\* and not at all when we already wear it.
UnsetAwayInternal ==
    /\ away' = Present
    /\ Send(<<Line("AWAY", None)>> \o
            (IF restore \in {NoNick, nick} THEN <<>> ELSE <<Line("NICK", restore)>>))
    /\ restore' = NoNick

\* persist_away_explicit/1 and persist_away_clear/1: a failed write is logged,
\* never retried.
Persist(r) ==
    \/ row' = r /\ dirty' = FALSE
    \/ row' = row /\ dirty' = TRUE

-----------------------------------------------------------------------------
(* The handlers, one message each.                                         *)

\* Seeded defect: a return cancels the timer but never the away.
WsVisible_OnlyCancels ==
    /\ Is("ws_visible")
    /\ mailbox' = Drained
    /\ timer' = "nil"
    /\ UNCHANGED <<knobs, feedVars, reclaim, link, away, mine, nick, restore, storeVars, ircdVars, clock>>

\* handle_info({:ws_visible, _}).
WsVisible ==
    /\ Is("ws_visible")
    /\ mailbox' = Drained
    /\ timer' = "nil"
    /\ IF away.state = "away_auto" THEN UnsetAwayInternal
       ELSE UNCHANGED <<away, restore, wire>>
    /\ UNCHANGED <<knobs, feedVars, reclaim, link, mine, nick, storeVars, peer, refused, clock>>

\* handle_info({:ws_all_hidden, _}), both clauses.
WsAllHidden ==
    /\ Is("ws_all_hidden")
    /\ \/ /\ away.state = "away_explicit"
          /\ mailbox' = Tail(mailbox)
          /\ timer' = timer
       \/ /\ away.state # "away_explicit"
          /\ mailbox' = Drained
          /\ ArmAutoAwayDebounce(mine.debounce)
    /\ UNCHANGED <<knobs, feedVars, reclaim, link, away, mine, nick, restore, storeVars, ircdVars, clock>>

\* Seeded defect: the fire overrules an explicit away.
DebounceFire_Overrules ==
    /\ Is("fire")
    /\ mailbox' = Tail(mailbox)
    /\ timer' = "nil"
    /\ SetAutoAwayInternal
    /\ UNCHANGED <<knobs, feedVars, reclaim, link, mine, nick, storeVars, peer, refused>>

\* handle_info(:auto_away_debounce_fire), both clauses.
DebounceFire ==
    /\ Is("fire")
    /\ mailbox' = Tail(mailbox)
    /\ timer' = "nil"
    /\ \/ away.state = "away_explicit" /\ UNCHANGED <<away, restore, wire, clock>>
       \/ away.state # "away_explicit" /\ SetAutoAwayInternal
    /\ UNCHANGED <<knobs, feedVars, reclaim, link, mine, nick, storeVars, peer, refused>>

\* handle_call({:set_explicit_away, _}).
SetExplicitAway ==
    /\ Is("away")
    /\ mailbox' = Tail(mailbox)
    /\ away' = [state |-> "away_explicit", since |-> clock, reason |-> Head(mailbox).arg]
    /\ Tick
    /\ Send(<<Line("AWAY", Head(mailbox).arg)>>)
    /\ Persist([since |-> clock, reason |-> Head(mailbox).arg])
    /\ UNCHANGED <<knobs, feedVars, reclaim, link, timer, mine, nick, restore, prefs, site, posting, peer, refused>>

\* handle_call({:unset_explicit_away}), both clauses.
UnsetExplicitAway ==
    /\ Is("back")
    /\ mailbox' = Tail(mailbox)
    /\ \/ away.state = "away_explicit" /\ UnsetAwayInternal /\ Persist(NoRow)
       \/ away.state # "away_explicit" /\ UNCHANGED <<away, restore, wire, row, dirty>>
    /\ UNCHANGED <<knobs, feedVars, reclaim, link, timer, mine, nick, prefs, site, posting, peer, refused, clock>>

\* apply_auto_away_debounce/2: off cancels, a retune re-arms what is in flight.
ApplyAutoAwayDebounce(window) ==
    /\ mine' = [mine EXCEPT !.debounce = window]
    /\ mailbox' = Drained
    /\ IF timer = "nil" THEN timer' = "nil" ELSE ArmAutoAwayDebounce(window)

\* handle_info({:auto_away_debounce_changed, _}).
DebounceChanged ==
    /\ Is("debounce")
    /\ ApplyAutoAwayDebounce(Window(Head(mailbox).arg))
    /\ UNCHANGED <<knobs, feedVars, reclaim, link, away, nick, restore, storeVars, ircdVars, clock>>

\* handle_info(:auto_away_site_default_changed): re-reads the preference and
\* leaves a running timer alone when the window did not move.
SiteDefaultChanged ==
    /\ Is("site")
    /\ IF Window(prefs.debounce) = mine.debounce
       THEN mailbox' = Tail(mailbox) /\ UNCHANGED <<timer, mine>>
       ELSE ApplyAutoAwayDebounce(Window(prefs.debounce))
    /\ UNCHANGED <<knobs, feedVars, reclaim, link, away, nick, restore, storeVars, ircdVars, clock>>

\* handle_info({:auto_away_reason_changed, _}) with apply_auto_away_reason/2.
ReasonChanged ==
    /\ Is("reason")
    /\ mailbox' = Tail(mailbox)
    /\ mine' = [mine EXCEPT !.reason = Head(mailbox).arg]
    /\ IF away.state = "away_auto"
       THEN /\ away' = [away EXCEPT !.reason = Head(mailbox).arg]
            /\ Send(<<Line("AWAY", Head(mailbox).arg)>>)
       ELSE UNCHANGED <<away, wire>>
    /\ UNCHANGED <<knobs, feedVars, reclaim, link, timer, nick, restore, storeVars, peer, refused, clock>>

\* handle_info({:away_nick_suffix_changed, _}).
SuffixChanged ==
    /\ Is("suffix")
    /\ mailbox' = Tail(mailbox)
    /\ mine' = [mine EXCEPT !.suffix = Head(mailbox).arg]
    /\ UNCHANGED <<knobs, feedVars, reclaim, link, away, timer, nick, restore, storeVars, ircdVars, clock>>

\* handle_call({:send_nick, _}): the user's choice drops our restore.
SendNick ==
    /\ Is("nick")
    /\ mailbox' = Tail(mailbox)
    /\ restore' = NoNick
    /\ Send(<<Line("NICK", Head(mailbox).arg)>>)
    /\ UNCHANGED <<knobs, feedVars, reclaim, link, away, timer, mine, nick, storeVars, peer, refused, clock>>

\* EventRouter's NICK clause: ours when the old nick is the one we wear.
NickEcho ==
    /\ Is("echo")
    /\ mailbox' = Tail(mailbox)
    /\ nick' = IF Head(mailbox).arg[1] = nick THEN Head(mailbox).arg[2] ELSE nick
    /\ UNCHANGED <<knobs, feedVars, reclaim, link, away, timer, mine, restore, storeVars, ircdVars, clock>>

\* A 433 after registration is routed to the user; no state changes.
NickRefused ==
    /\ Is("433")
    /\ mailbox' = Tail(mailbox)
    /\ UNCHANGED <<knobs, feedVars, reclaim, link, away, timer, mine, nick, restore, storeVars, ircdVars, clock>>

\* Seeded defect: nothing is re-asserted on the fresh connection.
Welcome_NoResend ==
    /\ Is("welcome")
    /\ mailbox' = Tail(mailbox)
    /\ nick' = Head(mailbox).arg
    /\ UNCHANGED <<knobs, feedVars, reclaim, link, away, timer, mine, restore, storeVars, ircdVars, clock>>

\* The 001 clause: maybe_resend_away/1, EventRouter adopts the nick, and
\* maybe_arm_nick_reclaim/2 arms its tick when it is not the configured one.
Welcome ==
    /\ Is("welcome")
    /\ mailbox' = Tail(mailbox)
    /\ nick' = Head(mailbox).arg
    /\ Send(IF away.state = "present" THEN <<>> ELSE <<Line("AWAY", away.reason)>>)
    /\ reclaim' = (reclaim \/ Head(mailbox).arg # Own)
    /\ UNCHANGED <<knobs, feedVars, link, away, timer, mine, restore, storeVars, peer, refused, clock>>

\* handle_info(:nick_reclaim): one attempt at the configured nick.
NickReclaim ==
    /\ Is("reclaim")
    /\ mailbox' = Tail(mailbox)
    /\ Send(IF nick = Own THEN <<>> ELSE <<Line("NICK", Own)>>)
    /\ UNCHANGED <<knobs, feedVars, reclaim, link, away, timer, mine, nick, restore, storeVars, peer, refused, clock>>

-----------------------------------------------------------------------------
(* The life of the process.                                                *)

ReclaimTick ==
    /\ reclaim
    /\ reclaim' = FALSE
    /\ mailbox' = Append(mailbox, Msg("reclaim", None))
    /\ UNCHANGED <<knobs, feedVars, link, away, timer, mine, nick, restore, storeVars, ircdVars, clock>>

TimerFires ==
    /\ timer = "armed"
    /\ timer' = "fired"
    /\ mailbox' = Append(mailbox, Msg("fire", None))
    /\ UNCHANGED <<knobs, feedVars, reclaim, link, away, mine, nick, restore, storeVars, ircdVars, clock>>

\* The Client's death, or any other: mailbox, timer and process state are gone.
Crash ==
    /\ Alive
    /\ link' = "down"
    /\ mailbox' = <<>> /\ timer' = "nil" /\ away' = Present
    /\ nick' = Own /\ restore' = NoNick /\ reclaim' = FALSE
    /\ wire' = <<>> /\ peer' = [away |-> None, nick |-> Own] /\ refused' = FALSE
    /\ UNCHANGED <<knobs, feedVars, mine, storeVars, clock>>

\* Seeded defect: a restart does not read the away columns back.
Boot_Amnesia ==
    /\ link = "down"
    /\ link' = "starting"
    /\ away' = Present
    /\ mine' = [prefs EXCEPT !.debounce = Window(@)]
    /\ UNCHANGED <<knobs, feedVars, reclaim, mailbox, timer, nick, restore, storeVars, ircdVars, clock>>

\* do_init/1 up to the subscriptions: restore_away_state/1 and the settings.
Boot ==
    /\ link = "down"
    /\ link' = "starting"
    /\ away' = IF row = NoRow THEN Present
               ELSE [state |-> "away_explicit", since |-> row.since, reason |-> row.reason]
    /\ mine' = [prefs EXCEPT !.debounce = Window(@)]
    /\ UNCHANGED <<knobs, feedVars, reclaim, mailbox, timer, nick, restore, storeVars, ircdVars, clock>>

\* do_init/1 subscribes and the Client starts to connect.
Subscribe ==
    /\ link = "starting"
    /\ link' = "connecting"
    /\ UNCHANGED <<knobs, feedVars, reclaim, procVars, storeVars, ircdVars, clock>>

-----------------------------------------------------------------------------
(* Everybody else: devices, the user, other writers, the ircd.             *)

Room == Len(mailbox) < MaxCalls
Deliver(m) == mailbox' = IF Subscribed THEN Append(mailbox, m) ELSE mailbox

Announce ==
    /\ Room
    /\ \/ Show(Self) /\ Deliver(Msg("ws_visible", None))
       \/ Hide({Self}) /\ Deliver(Msg("ws_all_hidden", None))
    /\ UNCHANGED <<knobs, link, reclaim, away, timer, mine, nick, restore, storeVars, ircdVars, clock>>

\* /away, /back and /nick, through the session facade.
UserCalls ==
    /\ Alive /\ Room
    /\ \/ \E r \in UserReasons : mailbox' = Append(mailbox, Msg("away", r))
       \/ UserReasons # {} /\ mailbox' = Append(mailbox, Msg("back", None))
       \/ \E n \in UserNicks : mailbox' = Append(mailbox, Msg("nick", n))
    /\ UNCHANGED <<knobs, feedVars, reclaim, link, away, timer, mine, nick, restore, storeVars, ircdVars, clock>>

\* UserSettings.put_*: the write commits, then it is announced.
PutSetting ==
    /\ posting = <<>>
    /\ \/ \E w \in Windows \ {prefs.debounce} :
            prefs' = [prefs EXCEPT !.debounce = w] /\ posting' = <<Msg("debounce", w)>>
       \/ \E r \in AutoReasons \ {prefs.reason} :
            prefs' = [prefs EXCEPT !.reason = r] /\ posting' = <<Msg("reason", r)>>
       \/ \E s \in Suffixes \ {prefs.suffix} :
            prefs' = [prefs EXCEPT !.suffix = s] /\ posting' = <<Msg("suffix", s)>>
    /\ UNCHANGED <<knobs, feedVars, reclaim, link, procVars, site, row, dirty, ircdVars, clock>>

PutSiteDefault ==
    /\ posting = <<>>
    /\ \E w \in SiteWindows \ {site} : site' = w
    /\ posting' = <<Msg("site", None)>>
    /\ UNCHANGED <<knobs, feedVars, reclaim, link, procVars, prefs, row, dirty, ircdVars, clock>>

\* A preference goes out on the settings topic; a site default is sent to every
\* registered session, whether or not it has subscribed yet.
PostSetting ==
    /\ posting # <<>> /\ Room
    /\ posting' = <<>>
    /\ IF Head(posting).kind = "site" /\ Alive
       THEN mailbox' = Append(mailbox, Head(posting))
       ELSE Deliver(Head(posting))
    /\ UNCHANGED <<knobs, feedVars, reclaim, link, away, timer, mine, nick, restore,
                   prefs, site, row, dirty, ircdVars, clock>>

\* The ircd registers us and sends 001.
IrcdWelcome ==
    /\ link = "connecting"
    /\ link' = "online"
    /\ mailbox' = Append(mailbox, Msg("welcome", peer.nick))
    /\ UNCHANGED <<knobs, feedVars, reclaim, away, timer, mine, nick, restore, storeVars, ircdVars, clock>>

\* Before registration AWAY is dropped, and a NICK is dropped or taken silently.
\* After it, a NICK is echoed or refused; one that asks for nothing is ignored.
IrcdTakes ==
    /\ wire # <<>>
    /\ wire' = Tail(wire)
    /\ LET l == Head(wire) IN
        \/ /\ l.verb = "AWAY"
           /\ peer' = IF link = "online" THEN [peer EXCEPT !.away = l.arg] ELSE peer
           /\ UNCHANGED <<mailbox, refused>>
        \/ /\ l.verb = "NICK" /\ (link # "online" \/ l.arg = peer.nick)
           /\ UNCHANGED <<mailbox, peer, refused>>
        \/ /\ l.verb = "NICK" /\ l.arg # peer.nick
           /\ peer' = [peer EXCEPT !.nick = l.arg]
           /\ mailbox' = IF link = "online"
                         THEN Append(mailbox, Msg("echo", <<peer.nick, l.arg>>)) ELSE mailbox
           /\ refused' = refused
        \/ /\ l.verb = "NICK" /\ l.arg # peer.nick /\ link = "online"
           /\ mailbox' = Append(mailbox, Msg("433", None))
           /\ refused' = TRUE
           /\ peer' = peer
    /\ UNCHANGED <<knobs, feedVars, reclaim, link, away, timer, mine, nick, restore, storeVars, clock>>

-----------------------------------------------------------------------------

AwayInit ==
    /\ FeedInit /\ knobs \in Profiles
    /\ link = "down" /\ mailbox = <<>> /\ timer = "nil" /\ away = Present
    /\ nick = Own /\ restore = NoNick /\ reclaim = FALSE
    /\ \E w \in Windows, s \in SiteWindows, r \in AutoReasons, x \in Suffixes :
        /\ prefs = [debounce |-> w, reason |-> r, suffix |-> x]
        /\ site = s
        /\ mine = [debounce |-> IF w = "site" THEN s ELSE w, reason |-> r, suffix |-> x]
    /\ posting = <<>>
    /\ row = NoRow /\ dirty = FALSE
    /\ wire = <<>> /\ peer = [away |-> None, nick |-> Own] /\ refused = FALSE
    /\ clock = 0

Handle ==
    \/ WsVisible \/ WsAllHidden \/ DebounceFire
    \/ SetExplicitAway \/ UnsetExplicitAway
    \/ DebounceChanged \/ SiteDefaultChanged \/ ReasonChanged \/ SuffixChanged
    \/ SendNick \/ NickEcho \/ NickRefused \/ Welcome \/ NickReclaim

AwayNext ==
    \/ Handle \/ TimerFires \/ ReclaimTick \/ Crash \/ Boot \/ Subscribe
    \/ Announce \/ UserCalls \/ PutSetting \/ PutSiteDefault \/ PostSetting
    \/ IrcdWelcome \/ IrcdTakes

\* The process is scheduled, timers fire, the supervisor restarts, a write that
\* committed is announced, and the ircd answers. Devices, users and crashes owe
\* nothing.
AwayFairness ==
    /\ WF_awayVars(Handle) /\ WF_awayVars(TimerFires) /\ WF_awayVars(ReclaimTick)
    /\ WF_awayVars(Boot) /\ WF_awayVars(Subscribe)
    /\ WF_awayVars(PostSetting)
    /\ WF_awayVars(IrcdWelcome) /\ WF_awayVars(IrcdTakes)

AwaySpec == AwayInit /\ [][AwayNext]_awayVars /\ AwayFairness

-----------------------------------------------------------------------------
(* Properties.                                                             *)

Fires == {i \in 1..Len(mailbox) : mailbox[i].kind = "fire"}
WsQueued == Queued("ws_visible") \/ Queued("ws_all_hidden")
Nicks == {<<n, i>> : n \in {"own"} \cup {x[1] : x \in UserNicks}, i \in 0..2}
Kinds == {"ws_visible", "ws_all_hidden", "fire", "away", "back", "debounce", "site",
          "reason", "suffix", "nick", "echo", "433", "welcome", "reclaim"}

\* The process and its stores hold what the code can put there: one fire is
\* queued when the timer has fired and none otherwise, a nick to take back is
\* outstanding only while away, and a window only then.
AwayTypeOK ==
    /\ link \in {"down", "starting", "connecting", "online"}
    /\ \A i \in 1..Len(mailbox) : mailbox[i].kind \in Kinds
    /\ away.state \in {"present", "away_explicit", "away_auto"}
    /\ (away.state = "present") <=> (away.since = Stamps)
    /\ timer \in {"nil", "armed", "fired"}
    /\ \A i, j \in Fires : i = j
    /\ timer = "fired" <=> Fires # {}
    /\ mine.debounce \in (Windows \cup SiteWindows) \ {"site"}
    /\ nick \in Nicks /\ restore \in Nicks \cup {NoNick}
    /\ restore # NoNick => away.state # "present"
    /\ row.since \in 0..Stamps /\ dirty \in BOOLEAN /\ reclaim \in BOOLEAN

\* Once the session has handled what presence sent it, a user with a visible
\* device is neither auto-away nor about to be.
NoAutoAwayWhileWatched ==
    Subscribed /\ told[Self] = "ws_visible" /\ ~WsQueued
        => away.state # "away_auto" /\ timer = "nil"

\* While the session stays auto-away its window does not move: the mentions
\* bundle of the return aggregates over it.
AutoWindowFixed ==
    [][away.state = "away_auto" /\ away'.state = "away_auto" => away'.since = away.since]_awayVars

\* An explicit away is left by /back, or for the time of a restart, and never by
\* presence, by a timer or by a setting; its text changes only with /away.
ExplicitSticks ==
    [][away.state = "away_explicit" /\ away' # away
        => link' = "down" \/ Is("back") \/ Is("away")]_awayVars

\* The away columns are what a restart would need: they hold the explicit away,
\* window included, and nothing else, unless the last write failed.
RowIsExplicitAway ==
    Alive /\ ~dirty =>
        row = IF away.state = "away_explicit" THEN [since |-> away.since, reason |-> away.reason]
              ELSE NoRow

\* With 001 handled and no AWAY in flight, the network shows what the session
\* believes, text included.
UpstreamAgrees ==
    /\ link = "online" /\ ~Queued("welcome")
    /\ \A i \in 1..Len(wire) : wire[i].verb # "AWAY"
    => peer.away = away.reason

\* A user who comes back and stays is eventually shown present again.
ReturnIsNoticed ==
    [](told[Self] = "ws_visible" => <>(told[Self] = "ws_all_hidden" \/ away.state # "away_auto"))

-----------------------------------------------------------------------------
(* What the comments promise and the code does not keep.                   *)

\* "still lands back on their own nick": once everything is answered and no NICK
\* was refused, a present user does not wear the suffix.
NotStrandedOnAwayNick ==
    /\ link = "online" /\ mailbox = <<>> /\ wire = <<>>
    /\ ~refused /\ ~reclaim /\ away.state = "present"
    => nick[2] = 0

=============================================================================
