# Verification of grappa-irc

TLA+ models, TLC runs and TLAPS proofs for grappa, an always-on IRC bouncer. The
server (Elixir, `src/lib/grappa`) keeps one supervised process per (user,
network): it holds an upstream IRC connection, records what happens on it, and
serves it over REST and Phoenix channels. The web client, cicchetto (TypeScript,
`src/cicchetto`), keeps several copies of that state and repairs them across drops,
sleeping documents and changes of identity.

The project models the parts where several processes, timers, requests and
restarts meet: on the server, how a connection registers, how a device's presence
becomes an IRC away, and how a network's stored state, its live process and the
reconnect ladder are kept in agreement; in the client, the store of scrollback
rows, the upload pipeline, and the subscriptions of a network. Every definition is
translated from the source; `PROJECT.json` ("map") names the lines each one stands
for.

## 1. The system

### 1.1 Components modelled

| Component | State it keeps | Operations | Talks to | Module |
|---|---|---|---|---|
| Registration handshake, `irc/auth_fsm.ex` | phase, CAP LS buffer, the nick in flight, the rungs left of its 433 ladder, the nick length the network has proved | `new/1`, `initial_handshake/1`, one `step/2` per inbound line | driven by `IRC.Client`, pure | `AuthFSM` |
| `IRC.Client` during registration, `irc/client.ex` | the FSM, the socket | connect, flush frames, one line at a time | socket, FSM, session (copy of each line) | `Registration` |
| Device presence, `ws_presence.ex` | user → transport pid → visibility report; monitors | register, set_visibility, client_closing, DOWN, sweep | user sockets and channels call it; it broadcasts `ws_visible` / `ws_all_hidden` on the user's topic | `PresenceFeed` (promise), `WSPresence` |
| Away state of a session, `session/server.ex`, `session/away_state.ex` | present / away_explicit / away_auto with its start and text, a debounce timer, its copy of the settings, the nick, the nick to restore | presence messages, /away, /back, /nick, timer fires, settings changes, 001, NICK echo or 433 | presence topic, settings topic, the credential's away columns, the ircd | `AwaySession` |
| Reconnect ladder, `session/backoff.ex` | failure count of a key (ETS), the casts in its mailbox | record_failure (call), record_success, reset (casts), compute_wait | session, SpawnOrchestrator | `Backoff` |
| Connection lifecycle, `networks.ex`, `spawn_orchestrator.ex`, `bootstrap.ex`, `session.ex`, `session/server.ex` | `connection_state` of the credential, the registered session and its supervisor's restart | connect, disconnect, identity bounce, terminal failure, Bootstrap, the session's own progress | HTTP controllers, DynamicSupervisor, Registry, Backoff, Admission | `Connection` |
| Scrollback store of the client, `lib/scrollback.ts`, `reconnectBackfill.ts`, `identityScopedStore.ts`, `identityMoved.ts` | per window: rows, far-behind record, latches of the two ends, resume cursor, refresh in flight and queued | cold load, reconnect refresh, older and newer pages, two jumps, send, live rows, cap, purge | REST, channel topics, the read cursor, the pane | `Scrollback` |
| Upload orchestrator of the client, `lib/uploadOrchestrator.ts` and its doors | per window: queue, controller of the upload in flight, the entry shown, the batch counter; the privacy notice and the send confirm | trigger, acknowledge, confirm, cancel, dismiss, retry; the awaits of each upload | picker, drop, OS share, transcoder, host, message send | `UploadFate` (promise), `Uploads` |
| Socket and subscriptions of the client, `lib/socket.ts`, `subscribe.ts`, `userTopic.ts`, `networks.ts` | the socket, copies of the network row, the channel list and the query windows, the joined topics, the memoised joins | three effect loops, refetches, the user topic's announcements, offline, hide, resume, sign-out | Phoenix, REST | `Subscriptions` |

What is hard in each, and what makes it correct:

* **Handshake.** The upstream may send any line in any phase; several clauses
  match in every phase. The credential must leave only after the upstream
  acknowledged SASL; the negotiation must be ended exactly once or the ircd
  holds the registration for ever; a nick that grows past the network's limit is
  truncated back into the collision it was meant to escape.
* **Presence.** Calls are queued behind DOWN messages of the very process that
  issued them, reports age between two sweeps, the registry may restart empty.
  Sessions hear only transitions, so one that is announced twice or not at all
  is never corrected.
* **Away.** A timer's message can already be queued when the message that
  cancels it is handled. Explicit away beats automatic away, survives restarts,
  and is written to a database that may fail. What the network believes follows
  over an asynchronous wire, and a NICK is answered much later.
* **Connection.** Requests read the credential once and act on that copy while
  the supervisor restarts what crashed. Spawn-then-write and stop-then-write
  are two steps each. The ladder's resets are casts, its failures calls.
* **Scrollback store.** Seven kinds of fetch write one list. Each has awaits, across
  which the pane may be replaced, capped, purged or handed to another identity.
  A row lost without a mark is never looked for again.
* **Uploads.** An upload is cancelled, skipped or replaced while its call is still
  awaiting; when it settles it must not post, free its successor's slot or start
  the next file. Whatever a queue waits for must start it when it ends.
* **Subscriptions.** Three effects run in any order after each change and contend
  for the topic of our own nick. Announcements reach whoever is subscribed at that
  moment; answers overtake announcements; a socket may be open and deaf.

### 1.2 Components not modelled

`PROJECT.json` ("components") has the reasons of each.

| Component | State and operations | Correct when | Status |
|---|---|---|---|
| Identity recovery: ghost recovery, recover-identity, nick reclaim, deferred IDENTIFY | phase machines inside one session sharing nick, pending password, NickServ's NOTICEs and 401/311/433 | at most one machine drives the nick; the password goes to NickServ only; a recovery ends | planned, next on the server |
| Read cursor and unread counts of the client | per-window cursor, counts, badge; echo of other devices | no echo rewinds; a count is of rows the operator has not seen | planned, next in the client |
| Read cursor and window state of the server | forward-only cursor per window, coalesced pushes | no device moves the cursor back; the last count is pushed | planned with the former |
| Admission and network circuit | live counts per network and client, a failure circuit | caps hold under simultaneous logins; an open circuit re-opens on a failed probe | planned; a choice in `Connection` |
| Upstream client transport | idle and liveness timers, connect throttle, fake lag | a silent peer is noticed once; a stale timer does nothing | planned |
| Source alias manager | reference counts of kernel addresses | an address exists while a session uses it | planned |
| Composer and slash commands of the client | one request per command; the paced multi-line send and its residue | the residue is what was not sent | candidate |
| NickServ interceptor | classifier of outgoing lines | arms a pending password only for what was sent | with identity recovery |
| Rate limits and throttles | token bucket, failure window, budgets | never exceed the bound over any window | planned as lemmas |
| Event router, numerics, ISUPPORT | channel members and modes | members follow JOIN/PART/NICK/QUIT | a large pure function; only its own-NICK clause is modelled |
| Scrollback and persistence (server) | SQLite rows | ordering and uniqueness | the database's |
| End-to-end encryption: transport, the client's encrypted chats | pacer queues, reassembly, pairing | bounded, expiring | candidate, both sides together |
| DCC offers; visitors, login, reaper | a bounded map with expiry; compositions of the lifecycle's verbs | | not on the plan |
| Accounts, settings, themes, uploads, push, web API, operations | CRUD, HTTP, host plumbing | | not modelled; the settings bridge to a session is in `AwaySession` |
| Wire boundary of the client | typed requests and the narrowing of payloads, shape by shape | | no state; requests are modelled by what their answers do |
| Views of the client | SolidJS components: layout, geometry, one request per button | | no protocol of their own; see section 6 |
| Media, themes, platform glue of the client; shottino (C client) | browser APIs, tables; a program of its own | | not modelled |

### 1.3 How the modelled parts fit

```
 cicchetto:  Scrollback ◄── rows ── topics ── Subscriptions        Uploads ══► UploadFate
                  │ REST                │ socket                      │ REST
 ─────────────────┼─────────────────────┼─────────────────────────────┼───────────────
 server:          ▼                     ▼                             ▼
   devices ──► WSPresence ══► PresenceFeed ══► AwaySession ──► ircd
                                              (Session.Server, away side)
   HTTP / Bootstrap / task ──► Connection ──► session ──► Registration (AuthFSM + Client) ──► ircd
                                   └── Backoff ◄──┘
```

`══►` is a promise: `WSPresence` implements `PresenceFeed`, and `AwaySession` extends
`PresenceFeed`, so the session is checked against everything the registry may
announce, not against one schedule of devices; `Uploads` implements `UploadFate`.
`Registration` extends `AuthFSM`, `Connection` extends `Backoff`. A connection's
"dialling / linked / registered" steps are an abstraction of what `Registration`
spells out. `Subscriptions` says which topics are live; `Scrollback` takes one
window whose topic is joined, dropped and rejoined and says what becomes of its
rows. Each of the client's modules has its own minimal server: a log of rows, a
host that answers or fails, a network row that changes and is announced.

## 2. The modules

Definitions keep the source's function names. A definition with a suffix
(`CapNak_NoFallback`) preceded by "Seeded defect" is the form a plausible bug
would give to the one that follows it; no specification uses it. Each property
has one that breaks it (`PROJECT.json`, "mutants"), so that no property holds
for want of anything to say.

### AuthFSM

`New`, `InitialHandshake` and one action per clause group of `step/2`; `Absorb`
is the catch-all. `FsmNext` feeds it every message in every phase. A secret is
its class (absent, one token, holds a blank, holds CR/LF/NUL), since the gates
of `new/1` tell nothing else apart; a nick is how many characters it keeps of
the configured one and which suffix it carries, since the ladder is about
lengths; a 433's echo is the length of the prefix it repeats. A raise
(`collision_fallback/3` without a clause for its arguments,
`sasl_plain_payload/1` on a bad password) is `stop = "crash"`. `said` and `heard`
are history.

### Registration

`AuthFSM` against a conforming ircd over two FIFO queues. The ircd is external;
its profile (does it speak CAP, what does it offer, does it NAK a combined REQ,
does SASL succeed) is fixed at the start, and covers the servers the comments of
`auth_fsm.ex` and `identifier.ex` name. Each NICK is found taken or free when it
comes. The ircd holds 001 while a negotiation it opened is not ended.

The session of the connection is a process of its own: it has a copy of each 433
and of the 001 in `mail` and may lag behind the FSM. While it holds a NickServ
password (`pending_password_from_opts/1`: on `:nickserv_identify` and on
`:server_pass`, until it handles 001) it answers a 433 by arming GhostRecovery and
sending the underscored nick (`ArmGhost`), and an armed one lapses
(`GhostTimeout`). On `:nickserv_identify` the FSM takes no 433; on `:server_pass` its
ladder answers the same line besides. `unanswered` is history: a 433 on
`:nickserv_identify` that found GhostRecovery armed, or no password, which neither
takes up (`Stranded`). The rest of GhostRecovery is left out: before registration no
service answers its GHOST. `ClosedLoop` proves that the composition is an instance of
`FsmNext`, so what is proved of the handshake against any upstream holds on the wire.

### PresenceFeed, WSPresence

`PresenceFeed` is the promise to sessions: `ws_visible` any time,
`ws_all_hidden` only to someone told `ws_visible` since. `WSPresence` has one
action per production handler. A report's age is abstracted to
hidden / visible / stale, which is all the two readers (`any_reported_visible_in?`
for transitions, `any_visible?` for push) distinguish. A transport is a process
of its own: its register call may outlive it (`gone`), its channel's calls may be
queued behind its DOWN (`SetVisibility` is enabled for dead transports), and
`Crash` restarts the registry empty while sockets live on. `Recycle` stands for
fresh pids. The test-only resets are left out.

### AwaySession

One session, its mailbox, its wire. Every message is one action that contains
the whole handler: draining the cancelled timer's message, arming, sends,
persisting. `TimerFires` puts a message in the same mailbox as everything else.
`Boot` and `Subscribe` are apart because `do_init/1` reads the settings before it
subscribes to their changes. A failed write is logged and not retried
(`dirty`). The away columns and the stored preferences survive a `Crash`, nothing
else does. The ircd takes lines in order and answers a NICK by an echo or a 433.
A `profile` fixes at the start which knobs a behaviour may turn; `ProfilesAssumption`
says that the site's default is a window of its own and that /nick asks for a name
with the suffixes it carries.

`set_auto_away` / `unset_auto_away` calls have no caller in the program and are
left out; so is the mentions bundle, for which only the away window's start
matters and is kept. Visitor sessions have no persister: their `/away` does not
survive a restart, so the model is that of a user's session.

### Backoff, Connection

`Backoff` is one key: the count, the casts not yet handled, and the wait. Both
casts delete the row, so the queue is the set of those pending. `record_failure`
is a call: what was queued before it is handled first and `terminate/2` goes on
only when the row is written. The wait is any value within the jitter around
the capped doubling.

`Connection` is one binding. A worker (request, terminal-failure task,
Bootstrap) reads the row into `cred` and acts on that copy, one step per call
(`stop_session`, `spawn/4`, row write); workers interleave with each other and
with the session. `dead` is a crashed session whose supervisor has not restarted
it yet: still covered by `stop_session/2`, which terminates by key. `flaps` is
history: the failures since the last proven connection or operator reset.
Left out: detach and reattach, deleted or held rows (spawn answers `:ignored`),
the admin and visitor doors (the same verbs), failing database writes, a second
001, `Backoff.forget/1` and a crash of the Backoff server. `report_link_state`'s
read and write are one step.

### Scrollback

One window. A row is its id, and the pane a set of ids, since the store keeps it
sorted and free of duplicates. A fetch is a record in `reqs`: which call (`op`),
which of its awaits (`leg`), the bearer it was issued under, and its arguments. It
is answered or fails at any later moment, from the log as it was at some moment
in between, and its handler is one action. `Say` appends a row; whether a device
hears it is decided by `conn` (down, open without the topic, joined) and `next`.
`Append`, `Merge`, `CapScrollbackRing`, `Retire` are the writers of the source with
the effect that retires the far-behind record folded into each, as it runs after
each. `Rotate` is `onIdentityChange`: it clears every identity-scoped store and
leaves the cold load's marker, which the source does not scope. A second device
moves the cursor (`Echo`).

Left out: the counts measured under the divider, the signal of our last own send,
geometry of the pane.

### UploadFate, Uploads

`UploadFate` is what the pipeline promises of one picked file: it is asked about,
waits, is sent, fails and is tried again; once its link is posted or it was let
go of, nothing happens to it, and a step posts one link at most.

In `Uploads` a window's record holds what the source spreads over maps
(`inflight`, `queue`, `lastAttempt`, the entry shown, the batch counter). A run is a
call of `dispatchUpload` past its first await; every await that settles is followed
in the source by a look at who holds the window (`Live`). The one whose rejection is
not handled, the import of the transcoder (`uploadOrchestrator.ts:770`, its promise
discarded at 1172), leaves a call on leg `rejected` that does nothing more
(`ImportFails`). The arm for an aborted POST that still holds its window (636-638) is
left out, as nothing reaches it: whoever aborts a controller takes the window from
it in the same turn (552, 1200, 1224). `behind` is history: the windows whose files
were sent under the notice that was open for them (3.4). Files differ by what the pipeline
tells apart: plain, to be transcoded, to be probed, too large, of a refused type.
`Free` says what the composer allows while something covers it; an OS share needs
no gesture and may come while a dialog is open. Progress, ttl, error texts, the
refusal in an encrypted window and the storage of a share before delivery are left
out.

### Subscriptions

One network of one account. `srv` is the bouncer's truth, `net`, `chans`, `windows`
are the client's copies, `req` the requests that refresh them with the
door of `refetchNetworks` (one flight, one more for all who asked meanwhile).
Announcements reach `inbox` only if the user topic is live at that moment;
`missed` is history: what changed unheard and was not read since. A change of a
copy makes effects `due`, and they run in any order before anything else happens
to the client. `subs` is the table of topics: which loop's handler is on it, how
many Channels are open on it, and the two memos (`dm`, `acks`) the loops keep.
The topics' deliveries are `Scrollback`'s matter, except our own PART, whose handler
leaves the topic.

Left out: failed answers of HTTP requests, the `$server` topic and the
pre-subscribe loop of a pending JOIN (both join earlier, or for good, what the
loops join), the pause for hidden documents, which a constant of the source
switches off. Of `userTopic.ts` the arms that move a copy or a subscription are in;
the others only fill stores.

## 3. The runs

| Run | Question | Distinct states |
|---|---|---|
| `handshake` | Can any sequence of upstream lines leak the credential, break the state's types or raise a proved nick cap? No. | 55,815 |
| `registration` | Whatever the ircd and whoever answers its 433s, does the connection end in registration or a reported stop, with SASL used when offered? Yes, but for a 433 that `:nickserv_identify` leaves to nobody. | 68,052 |
| `presence` | Under every order of connects, late reports, ageing, deaths, sweeps and a restart: is what sessions were told what the devices report, does `WSPresence` implement `PresenceFeed`, is quiet noticed? Yes. | 12,240 |
| `away` | Presence, /away, /back, /nick, timers, settings, the rename, failed writes, crashes: auto-away only of the unwatched, explicit away sticks and survives, the network agrees. Yes. | 492,796 |
| `connection` | One request at a time, against crashes, restarts and the ladder: do row and session agree whenever nobody is at work, is a drop dialled again? Yes. | 3,240 |
| `connection_race` | Two requests, a terminal failure and node restarts at once: does the ladder lose a failure, does a crashed session dial at once? No. | 1,625,009 |
| `scrollback` | Every order of fetches, live rows, pages, jumps, drops, purge, rotation: does the older end lie, does an older page leave a hole, does a stale answer write, does unread vanish unmarked, is a queued refresh forgotten? No. | 434,850 |
| `uploads` | Batches, refusals, transcoding, failures, retries, share, sign-out: does the counter add up, does a busy window have exactly one run, does the pipeline implement `UploadFate`, does every queue drain? Yes, but for a transcoder that does not load and files sent under their window's open notice (3.4). | 79,451 |
| `subscriptions` | Renames, windows, channels, connection changes, drops, offline, frozen documents, rotation: is the listener ours, are handlers unique, are acknowledgements true, is nothing announced lost, does the socket come back? Yes. | 145,480 |
| `away_nick_race` | violation, see 3.3 | 716 |
| `scrollback_reconnect` | violation, see 3.3 | 4,769 |
| `subscriptions_rename` | violation, see 3.3 | 42,935 |

Deadlock is checked in `presence`, `away`, `connection` and `connection_race`. It is not
where the system may really stop: a registered or stopped handshake is the end of
its protocol, and a client whose disturbances are spent, whose fetches are
answered and whose operator does nothing has nothing to do.

### 3.1 Bounds

* `MCAuthFSM`: the ladder's suffix lengths are the real ones (1, 3, 3); the
  ceiling of 30 becomes 6 and the floor of 9 becomes 4, which keeps the floor above every
  suffix and leaves room below the ceiling for each comparison to go either
  way. One opportunistic capability: the code treats them as a set. Every
  credential that `Opts` can express is an initial state.
* `MCRegistration`: up to 4 refused NICKs, the ladder's and the session's together:
  one more than the ladder has rungs, and two more than the session needs to be
  answered twice; ceiling and floor 4, so that trimming happens at once. Credentials are those
  `new/1` accepts.
* `MCWSPresence`: one user with two devices, one with one: two devices are
  needed for one to hide the other's departure, two users for a sweep that
  hides several.
* `MCAwaySession`: a mailbox of 2 or 3 beyond which nobody else posts (timer
  messages and ircd answers are not bounded by it); a fire, its cancel and one
  more is what the drain is about. The clock is cyclic with 2 values: properties
  only compare a window's start with its own copy. Five profiles each turn one
  group of knobs: the commands with the deeper mailbox, the windows and the site's
  default, the texts, the rename with /nick, the rename retuned.
* `MCConnection`: `BaseMs` 2 and `CapMs` 8 reach the cap at the third failure;
  `MaxCount` 5 goes two beyond it (`connection`), 2 suffices for the ladder's
  order of calls and casts (`connection_race`, where the requests are
  symmetric). Three workers are what the two-step windows need.
* `MCScrollback`: pages of 2, a ring of 3, at most 5 rows: enough for a pane with a
  page missing on either side, a cap that takes something, and an unread region
  larger than a page. `MaxReqs` 2 lets one fetch overtake another; the fetches an
  answer starts are not bounded. One kind of disturbance per session, since pairs
  of them multiply states and not questions. The program's pages are 200 and 50:
  the violated run has that proportion (5 and 2) and a ring that never bites.
* `MCUploads`: two windows share one notice and one confirm; three files make a
  batch with one in flight, one waiting and one added later; three calls may be
  pending, of which two are superseded. Sessions differ in the kinds of the files,
  the opt-in of the confirm and one disturbance each; the confirm comes with a share
  too, since only a share opens the notice again while a confirm is open.
* `MCSubscriptions`: two nicks, so that ours and a window's can be exchanged and
  exchanged back; one channel, since channels do not interact; sessions that pair
  each disturbance with the one it can race.

### 3.2 Fairness

* `RegFairness`: the socket delivers, the ircd answers, the Client and the session are
  scheduled, the session's timer fires.
  Without it nothing answers and nothing is promised.
* `WsFairness`: the GenServer drains its mailbox (register calls, DOWNs) and the
  sweep re-arms itself at the end of each run. Devices and ageing owe nothing.
* `AwayFairness`: the process handles its mailbox, its timers fire, the
  supervisor restarts it, a committed write is announced, the ircd answers.
  Users, devices and crashes owe nothing.
* `ConnFairness`: the `:transient` restart, the start continuation and the backoff
  timer. Not the network: nothing says a dial ever succeeds. `DropIsRetried`
  assumes crashes end, since a session killed over and over before its timer
  fires dials never.
* `Scrollback`: a refresh on the wire is answered or fails, as a `fetch` does one or the
  other. Nothing is owed by the operator, the network or the other fetches.
* `Uploads`: each await settles or rejects (the transcoder and the host answer or time
  out, the chunk loads or does not), and
  an operator who is shown a notice, a confirm or a failure answers it in the end:
  `QueueDrains` is about a queue that waits for them. A signed-out client is signed
  in again, or the dialogs are unreachable for ever.
* `Subscriptions`: effects run in their turn, requests are answered, messages are
  delivered, and phoenix retries connects and joins by itself, which is its
  contract as `socket.ts` uses it. Coming online, showing the document and signing in
  are the operator's: the liveness properties assume them.

### 3.3 What the code does otherwise than its text

* **`away_nick_race`** (`server.ex:9797`). The return comes before the echo of the
  away rename: the session still believes it wears its own nick, so nothing is
  restored, and the echo then leaves a present user on the decorated one.
* **`scrollback_reconnect`** (`scrollback.ts:1813`). A refresh that queues behind another
  takes its resume cursor when it runs, not when it was asked for. A live row
  delivered between the topic's join and the re-run moves that cursor past the
  rows written while nobody was subscribed: they are never fetched, and nothing
  marks their place. The comment says that the re-run closes the hole.
* **`subscriptions_rename`** (`subscribe.ts:1295`). A query window is open on a nick
  that becomes ours and is given up again. If the query effect runs before the
  listener's, it finds the topic held and joins nothing; the listener then leaves it.
  The window has no subscription until the network row or the windows change
  again. The comments say that the effect re-acquires it, and that the order of the
  effects is not fixed.

### 3.4 Windows the models have and no run pins

`connection` checks the row/session agreement with one request at a time and
without tasks, because with more of them the code does not keep it, and its
comments know of part of this (`mark_failing/2` describes its own hole):

* a connect on a row read as connected, between the stop and the write of a
  disconnect (`networks.ex:1098`), spawns a session that the disconnect then parks over;
* `mark_failed` (`networks.ex:1324`) checks the state it read, stops the session (which
  may take seconds) and writes: a park committed in between is overwritten by
  failed, and a session respawned in between is stopped;
* a ban that arrives between `connect`'s spawn and its write finds the row parked,
  is taken for a user's park and dropped (`networks.ex:1336`; the comment at
  `server.ex:4579` says the transition proceeds); the write then leaves a
  connected row with nothing behind it;
* a connect failure reported before the spawning request has written the row is
  declined as a park (`networks.ex:1463`);
* Bootstrap spawns from a list read earlier, a row parked since included
  (`bootstrap.ex:213`); a row write that raises after the spawn leaves the row
  as it was (`networks.ex:1599`).

In the away model:

* a session that was auto-away restarts while every device stays hidden and is
  present from then on: the comment at `server.ex:9539` says auto-away re-derives from
  the registry, which announces transitions only;
* settings written between a session's read and its subscription
  (`server.ex:1323`) reach it by neither;
* a restore refused because the nick was taken leaves the decorated nick, and a
  second away decorates it again (`AwayNickTarget` appends to whatever is worn);
* `/back` from a hidden device leaves the session present without a debounce
  (`server.ex:3511`).

In the handshake: a `:sasl` credential registers without SASL on an ircd that never
answers CAP, since 001 promotes every phase (`auth_fsm.ex:633`), while the moduledoc
(`auth_fsm.ex:73`) calls `:sasl` mandatory. `registration` shows that this is the only
way: whenever the ircd speaks CAP and offers sasl, it is used.

Who answers a 433 is not settled either, and `Registration` has both cases:

* on a `:server_pass` credential with a NickServ password the FSM's ladder and the
  session both send a NICK for one 433 (`server.ex:1509-1514`, `3942`), where
  `ghost_recovery.ex:26-30` says that a session is armed on `:nickserv_identify` only and
  `auth_fsm.ex:595-597` that a ladder NICK would race its sequence. A 433 on the second
  of them spends another rung of the ladder, and may stop the connection with
  `nick_rejected` although the first NICK was accepted;
* on a `:nickserv_identify` credential a second 433 while GhostRecovery is armed is
  answered by nobody: the FSM leaves it to the session, whose catch-all takes it.
  The connection waits for the ircd's own registration timeout. `HandshakeResolves`
  excludes this case by name.

In the client:

* an upload that settles after a sign-out and a sign-in posts its link under the
  second identity (`uploadOrchestrator.ts:626`); `identityMoved.ts:7` states the rule
  that a continuation which outlived its identity does nothing, but the
  orchestrator does not use it;
* when the chunk of the transcoder does not load, `await import` rejects
  (`uploadOrchestrator.ts:770`) and `startUpload` discards the promise (1172): the window
  keeps its controller and shows an upload under way that nobody makes, and its
  queue waits until the operator cancels. `BusyHasARun` and `QueueDrains` name the
  case; the first says that there is nothing else behind such a window and that it
  is shown as busy, so that it can be cancelled;
* files sent under the notice that is open for their own window may wait for nothing.
  With the confirm on, a first batch passes the notice without "remember" and is in the
  confirm; a share opens the notice again for that window; Send queues the files and
  starts none, for the window is active; acknowledging opens the share's confirm, and
  dismissing that starts nothing. The comments say that the acknowledgement drains the
  queue (1128) and that "the resolving path will pump it" (1144-1146). The next file sent
  to the window starts the queue again. `QueueDrains` excludes these windows (`behind`);
* `jumpToMessage` takes a before-page for full when it holds `PAGE_LIMIT` rows, which is 200
  (`scrollback.ts:1233`), but asks for it without a limit, to which the server answers
  with 50 at most: with the program's sizes it never finds a hole below its target.
  `MCScrollback` gives the two pages one size, so that this branch is reached;
  `OlderPageAbuts` speaks of a pane that was contiguous before the page;
* an answer of GET /networks read before a rename overwrites the nick patched in
  since (`userTopic.ts:1092`), and the listener moves back until the next change;
* a `channels_changed` lost between the resync's read and the user topic's rejoin
  (`subscribe.ts:1434`) is not fetched until the next edge: `HeardIsApplied` and
  `JoinedChannelIsHeard` speak of what was announced or read, and `missed` says what
  was neither;
* after our own PART the topic is left while the client's copy still lists the channel; a
  change of the network row before the new list arrives makes the channels loop
  join it again (`subscribe.ts:1106`), and no loop leaves it when the list has come.

Two comments are stale with respect to the code: `server.ex:9851-9855` says that a
restart wipes `AwayState` for want of persistence, which the away columns have
changed; `user_socket.ex:417-420` says that visitor sessions do not subscribe to
presence, and `server.ex:1429-1447` subscribes them.

## 4. The proofs

Every proof is checked to its leaves by TLAPS with the SMT, Zenon and PTL back
ends. The constants' assumptions are named in the module that declares them
and are as weak as the code allows; TLC evaluates them on the runs.

| Theorem | Module | Says | Assumes |
|---|---|---|---|
| `HandshakeSafe` | `AuthFSM_proofs` | for every ladder, limits, credential and any upstream: type, `PayloadOnlyAfterAck`, `BufferOnlyDuringLs`, `NeverCrashes`, `PassIsOneToken`, `NickFitsCap` | `LadderAssumption`, `NickLenAssumption`, `FloorAssumption` (the floor under a learned limit exceeds every suffix) |
| `HandshakeTypes` | | `FsmTypeOK`: the buffer holds capabilities the client knows, the nick is a rung on a prefix of the configured one, a learned limit stays between floor and ceiling | the same |
| `CapSticks` | | a proved nick length never rises | the same |
| `ClosedLoop` | `Registration_proofs` | `RegSpec` implements `FsmSpec`: a connection adds no step to the handshake | the same |
| `WireIsSafe` | | on the wire: `PayloadOnlyAfterAck`, `NeverCrashes`, `NickFitsCap` | the same |
| `SaslIsUsed` | | for any ircd profile, ladder and capabilities: `OfferedSaslIsUsed` | the same |
| `PresenceCurrent` | `WSPresence_proofs` | for any users and devices: type, `TrackedIsWatched`, `ToldIsCurrent` | `OwnerAssumption` |
| `AwayMeansPush` | | a user announced as away has no push suppressed | |
| `Refinement` | | `WSPresence` implements `PresenceFeed` | |
| `AwayTypes` | `AwaySession_proofs` | for any profiles, texts, nicks and mailbox lengths: `AwayTypeOK` | `SelfAssumption`, `StampsAssumption`, `ProfilesAssumption` |
| `WatchedIsNotAway` | | `NoAutoAwayWhileWatched` | `SelfAssumption` |
| `AutoWindowStays` | | `AutoWindowFixed` | |
| `ExplicitStays` | | `ExplicitSticks` | |
| `RowIsTrue` | | `RowIsExplicitAway` | |
| `NetworkIsTold` | | `UpstreamAgrees` | |
| `TypeCorrect` | `Connection_proofs` | types, the recursive ladder included | `LadderAssumption`, `WorkerAssumption` |
| `FailuresAreCounted` | | `LadderClimbs` | |
| `WaitsAreBounded` | | every wait is within 1 and the cap plus a quarter, for every base, cap and count | |
| `CrashesWait` | | a session restarted after a failure does not dial at once | |
| `ConnectsConverge` | | any number of concurrent connects end with row and session in agreement | `OnlyConnects` |
| `RequestsConverge` | | connects, disconnects and identity changes one after the other, the session crashing and registering between any of their calls: `DownIsStopped`, `WantedUpHasSession`, `RegisteredIsConnected` | `OneAtATime` |
| `TypeCorrect` | `Scrollback_proofs` | for any page, tail, ring, log and number of fetches: `SbTypeOK` | `SizesAssumption` |
| `OlderEndIsReal` | | `MoreOutIsTrue` | |
| `StaleAnswers` | | `StaleAnswersChangeNothing` | |
| `OlderPagesAbut` | | `OlderPageAbuts` | |
| `UnreadStays` | | `UnreadIsKept` | |
| `BatchCounts` | `Uploads_proofs` | for any windows, files and sessions: `BatchAddsUp` | `UploadAssumption` |
| `UploadTypes` | | `UpTypeOK` | |
| `OneRunPerWindow` | | `BusyHasARun`: one call for a busy window, or a rejected import that can be cancelled | |
| `PostedOnce` | | no link goes out twice, under whatever bearer | |
| `FatesImplemented` | | `Uploads` implements `UploadFate` | |
| `SubTypeCorrect` | `Subscriptions_proofs` | for any nicks, channels and disturbances: `SubTypeOK` | `SubscriptionsAssumption` |
| `ListenerFollowsUs` | | `ListenerIsOurs` | |
| `NoGhostChannel` | | `OneHandler` | |
| `AcksAreTrue` | | `AckMeansJoined` | |
| `NothingAnnouncedIsLost` | | `HeardIsApplied` | |

`BufferOnlyDuringLs`, `NeverCrashes`, `PassIsOneToken`, `NickFitsCap`, `TrackedIsWatched`,
`AwayUserGetsPush`, `WaitIsBounded` and `RegisteredIsConnected` are proved and no longer
run. Every other invariant and every action property of a passing run is stated by a
theorem above, so a run says that it holds on an instance and the theorem on all.

The library states induction with an operator parameter, which the installed provers
cannot use. The lemmas at the head of `Connection_proofs` state it over sets
(`SetInduction`: a set that holds zero and is closed under successor holds every
natural), from the well-foundedness of `<`; they carry the recursive `Doubled`.

### 4.1 The arguments

* **Handshake.** `FsmInv` strengthens the properties by what the phase says of
  history: in `sasl_pending` the upstream has acknowledged and the mechanism
  was named; before `new/1` returned nothing was said, and after it the secrets
  passed their gate, which is why the payload is defined and PASS is one token.
  The nick fits its limit because `LearnedCapBounds` keeps a learned limit
  between the floor and the limit before it, and `FallbackFits` trims to it.
  `CapSticks` is not a fact about one clause: `learned_nick_cap/2` recomputes the
  limit from an echo and never compares it with the old one. It is monotonic
  because the nick in flight fits the old limit (`NickFitsCap`) and only a
  shorter echo is believed.
* **Registration.** `FsmInv` knows nothing of what the ircd was asked, and on the wire that
  is what SASL depends on. `RegInv` adds that the negotiation is one exchange: of the
  frames the ircd answers and the lines that move the FSM, exactly one is in flight
  (two while a split LS reply is), and it fits the phase. `FrameInFlight`,
  `LineInFlight` and `ListInFlight` are its three places. On top of it `SaslOnItsWay` says that
  until somebody refuses sasl it is offered, asked for, acknowledged or spent, before the
  opening burst, during it and after. NICK frames, 433s and the session's own answer to
  one share the queues with the exchange; the lemmas about them (`None`, `Only`, `Pair`)
  say that they neither answer it nor ask anything. `Spoken` says that a session whose
  FSM speaks CAP holds no password, so the two never send for one 433 during SASL.
* **Presence.** `WsInv` is `WsTypeOK`, `TrackedIsWatched` and `ToldIsCurrent`
  together. None is inductive alone: a DOWN removes the right entry because a
  tracked pid belongs to its owner, and a transition is announced once because
  what was told already agrees with the raw reports. The same invariant gives
  the step simulation: a handler that hides a user finds it told `ws_visible`.
* **Away.** `AwayInv` is about the mailbox. `TimerTrue`: one fire is queued exactly when
  the timer has fired, which is why draining by the reference cannot miss one or take
  a later one. `HearsFirst`: queued presence events alternate and end with what was
  told, and whoever is auto-away or about to be has a `ws_visible` before any
  `ws_all_hidden` in the queue; so a stale fire meets a session that will be told of
  the return. `Unborn` says what a crash resets. The filter that drains is
  a selection of positions, and the lemmas about it (`RemovalKeeps`, `DrainRest`) say
  that it keeps the order of what stays. `NetworkInv`: the last AWAY in flight, or
  without one the peer, shows the session's away, or 001 is not handled yet. `TypesInv` is
  about what messages carry: the nick the session wears comes from an echo or from
  001, those from the wire or the peer, and what is on the wire from /nick, from the
  configured nick, or from a suffix put on what is worn, so being a nick is only
  inductive for all five places at once. `Settled` is the same for windows, from the
  row through the announcement to the session's copy. These invariants can be given
  to TLC on the `away` instance, but for `Boxes`, which says that a value is some sequence.
* **Ladder.** `LadderInv` adds `SuccessIsProven` to `LadderClimbs`: a success still in
  Backoff's mailbox implies that no failure has come since (and a reset
  pending is accounted for), because `record_failure` is a call behind it. Without
  it a late success could be assumed to erase a fresh failure. `ComputeWait`'s
  bounds need the recursive `Doubled` to exist (`DoublesExist`, `DoublesAgree`, by
  `SetInduction`) and the exponent's clamp (`MaxExponentType`).
* **Convergence.** With connects alone `ConnectsInv` says that the row never goes
  down once it is up, that whoever is about to write it has a session behind it,
  and that a session behind a row that is down has a request about to put the
  row up; with nobody at work the last is impossible. With disconnects or tasks
  this is false (3.4), which is why the theorem's hypothesis `OnlyConnects`
  names the kinds. `OneAtATime` is the other half: any kind of request, none at the same
  time as another, no ban and no restart of the node. `SoloInv` says that what the
  request read about the row is still true when it writes, since the session moves a
  row between connected and failing only, and that row and session disagree only
  between the call that touches the session and the write behind it. Outside the
  two hypotheses the code does not converge.
* **Scrollback.** The type invariant is inductive and carries what each leg of a fetch
  needs (a page's first row exists, a mark is within the log). For `MoreOutIsTrue` the
  writers are classified by what they do to the older end: `Append` unlatches when the
  cap took anything, the jumps unlatch when they replace the pane, and the latch is set
  only by a page shorter than asked for, below a head that is still the pane's head.
  That last look, at the head after the await, is also what makes an older page abut.
  `StaleAnswers` needs no strengthening and no less care: it goes through each leg of each
  of the seven calls, with the cold load's marker as the one thing not scoped. `UnreadStays`
  has two halves. The ring takes a row past the cursor only from under more than a page
  of unread rows, and then it takes all that reach back to the cursor (`CapTakes`, by
  the cardinality of subsets), so the mark set in the same call is not retired again.
  The anchoring at the tail leaves its `from` as the record, and `AllMarked` says that
  this is never empty: through a probe, a target and a tail, each asked for by the
  answer of the one before it, whatever the cursor did meanwhile.
* **Uploads.** `BatchInv` says of each window that an empty batch is at zero, not only
  that its queue is empty, or the first file of the next would not count from one; and
  of the files behind the notice and in the confirm that they are sequences, whatever
  rows were taken out. `PumpInStep` is stated for a queue one longer than the counter
  allows, which is a retry's: the file tried again is counted already. `PipeInv` gives the
  rest. `Apart` says that a file is in one place only (behind the notice, in the
  confirm, in one window's queue, in one window's hands, posted), `Owned` that a
  controller belongs to one run and that a window in flight waits for a run of the
  file it took up last. A superseded run keeps its controller, so `Live` can tell it
  from its successor: nothing it does when it settles touches a window. `Shows` says that
  a call that transcodes, or whose import was rejected, is shown as under way: without
  it the abandoned window could be one the operator has no way to cancel. The
  refinement mapping reads a file's fate off its place (`FatePlaced`), and every step
  moves one file along (`FateStep`).
* **Subscriptions.** One invariant, `SubInv`, gives the first four. `Consistent` describes the
  topic table between any two effects: a handler iff one Channel, `dm` on the topic
  the listener remembers and on no other, an acknowledgement only of a query
  handler. Every operator on the table preserves it whatever the order of the loops.
  `Listening` ties it to the row: if the listener's effect is not due, it is on our nick.
  For `HeardIsApplied`, `Known` adds that each fact is equal in the copy, missed, announced
  and on its way, or covered by a request that is not read yet or was read after it; the
  door's `pending` is what covers an announcement during a flight.

### 4.2 What stays with TLC

Liveness (`HandshakeResolves`, `DeadAreForgotten`, `QuietIsNoticed`, `ReturnIsNoticed`,
`DropIsRetried`, `RefreshIsAnswered`, `QueueDrains`, `SocketComesBack`,
`JoinedChannelIsHeard`): the prover does not reason about fairness. For the same reason the
refinements are proved of `[][Next]_vars`, and the abstract specifications state no
fairness. The three violated properties are TLC's counterexamples (3.3).

## 5. Plan

Done, in the order written: the handshake and its proofs; registration; presence
with its refinement; away and its proofs; the connection lifecycle with the ladder's
proofs; the client's scrollback store and its proofs; its upload pipeline with its
refinement and the counter's proof; its subscriptions and their proofs.

Next modules, the most important behaviour first:

1. `ReadCursor`, client and server together: the forward-only cursor under several
   devices. `readCursor.ts` applies an echo unconditionally (193-198) while its local
   half only advances (291), `applyMeEnvelope` (134-144) may rewind, and the server's
   `do_set` (`read_cursor.ex`, 720-757) reads and writes in two steps. With the counts
   that hang off it, in place of the free `Echo` of `Scrollback`.
2. `IdentityRecovery`: the phases of `ghost_recovery.ex` and `recover_identity.ex` and
   the one-shot reclaim in one session, over the `Registration` ircd extended by
   NickServ. Questions: at most one machine moves the nick (`server.ex:5801`, `5854`),
   every recovery ends, the pending password reaches nobody but NickServ, a late
   NOTICE or WHOIS changes nothing (`ghost_recovery.ex:82`).
3. `Admission` with the network circuit (`admission.ex:162`), composed with `Connection`
   in place of its free refusal.
4. `Subscriptions` over several networks, with the `$server` loop and failed answers;
   its composition with `Scrollback`, whose `conn` would become the topic's `live`.
5. `ClientLiveness`: idle and liveness timers of `client.ex` with a draining cancel, as
   an abstract timer that both it and `AwaySession`'s debounce implement.
6. `SourceAlias`; the composer's paced send; rate limits as functions.

Theorems worth proving next: convergence of `Connection` for any number of disconnects
at once, and for a ban against the session alone; an abstract binding (wanted up or
down, served or not) that `Connection` implements under either hypothesis.

## 6. Not modelled

The map covers a small share of the repository's lines, and always will: over half of
the client are views (`ScrollbackPane.tsx`, `SettingsDrawer.tsx`, the admin tabs), whose
logic is layout and one request per button, and most of the rest are request wrappers
and payload shapes (`api.ts`, `wireTypes.ts`, `wireSchema.ts`), without state of their
own. On the server the larger part is CRUD over a database, whose transactions are
taken as they are. What is left out inside a modelled component is listed with
its module in section 2.
