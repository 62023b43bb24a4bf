# CueCommX verification

TLA+ models of the CueCommX intercom: a Node server that owns all state, web and
mobile clients that talk to it over a websocket, and a mediasoup worker that
carries the audio. Paths below are relative to `src/`; `realtime/` stands for
`apps/server/src/realtime/`.

## 1. Inventory

| Component (source) | State | Operations | Correct when |
|---|---|---|---|
| **Operator-session coordination** (`realtime/operator-session-coordination.ts`, `all-page.ts`, `direct-call.ts`, `ifb.ts`) | one session per token (grant, talk, listen), retained selections, page holder and saved listen sets, calls, IFB feed, signals | attach/detach, `listen:*`, `talk:*`, `allpage:*`, `direct:*`, `ifb:*`, `signal:*`, force-mute, unlatch, refresh, timer expiries | talk and listen stay within the permissions; a page silences the others; one call per session; whatever rings ends; clients and media follow |
| **Accounts and channels** (`apps/server/src/app.ts`, `db/database.ts`) | users, permissions, channels, groups | REST handlers, several transactions each, followed by a queued refresh | names are unique, rows refer to rows, an admin stays; sessions see a change once the refresh ran |
| **Admin UI** (`apps/admin-ui/src/`) | token, lists, the form of a user, calls under way | sign in and out, edit, save, delete, dashboards | saves what it shows |
| **Realtime service** (`realtime/service.ts`, `connections.ts`) | sockets, their tokens, the outcome queue, kicked tokens, session directory, heartbeat | connect, authenticate (DNS await), message, close, terminate, logout, disconnect user, shutdown | no session without a socket and no authenticated socket without a session; outcomes applied in order |
| **Media routes and mix** (`media/routes.ts`, `realtime/media-routing.ts`, `web-media-controller.ts`) | derived | desired routes per pair of sessions; volume per consumer | private audio is private; permitted audio is heard |
| **Media service** (`media/service.ts`) | worker, router; transports, producer, consumers per session | `media:*` requests, upsert/remove session, reconcile, worker restart | consumers = desired routes once quiet; a dead worker closes all |
| **Media controllers** (`web-media-controller.ts`, `mobile-media-controller.ts`) | device, transports, producer, pending and remote consumers | start, reset, close, messages | shows audio as ready only if it is; routed talkers are heard |
| **Client library** (`packages/core/src/realtime-client.ts`) | socket, reconnect timer, pending media requests | connect, disconnect, close, retry | one live socket; every request settles |
| **Operator screens** (`apps/web-client/src/App.tsx`, `apps/mobile/App.tsx`) | operator state, page, call, ready, modes, held buttons, stored selection, VOX | buttons, keys, gestures, widget, messages, reconnect | shows what the server has; what was pressed to talk is released |
| **Session store, HTTP sessions, PINs** (`apps/server/src/auth/`) | token -> user; tokens never expire | create, read, delete (logout) | a deleted token authorises nothing |
| **Channel chat** (`realtime/channel-chat.ts`) | participants, bounded log per channel | send, history on attach | clients show the log, in order, once |
| **Recording** (`apps/server/src/recording/service.ts`) | stream per channel | start, stop, stream errors, prune | what is shown as a recording writes |
| **Tally, OSC, GPIO** (`apps/server/src/{tally,osc,gpio}/`) | sources of tally, timers | events of OBS and TSL, reconnect | mirrors the switcher |
| Projections; discovery, configuration, start-up; protocol schemas, design tokens | - | - | no state of their own |

**Interactions.** A socket message becomes a command; a REST handler writes the
database and asks the realtime service for a refresh or a disconnect; a timer
becomes a lifecycle operation. The service puts all of them on one promise queue
(`service.ts:330-350`); an operation runs synchronously on the coordination and
returns *steps* (send a message, start or stop a timer, re-route a session, close
a socket) which are applied before the next operation. Steps may await the media
worker. REST handlers are synchronous but not on the queue: the database is ahead
of the sessions until the queued refresh has run. Chat, tally, recordings and media
requests bypass the queue and use the same sockets.

**What is hard.** Connections drop in the middle of calls and pages and the token
comes back; a user may have several sessions; timers elapse while the answer is
queued; permissions, channels and users are edited while microphones are open and
while another admin edits them; all-page saves and restores other sessions'
selections; the database changes before the caches; a socket may close while its
attach waits for the media worker; the worker may die between two awaits; clients act
on what they show, which lags behind, and keep state the server never resends.
`PROJECT.json` lists these hazards with the lines they bite at.

## 2. Plan

Modelled and checked, the most important first:

1. `Coordination` with `IntercomFloor` (abstract) and `AudioPath`; proofs in
   `CoordinationProofs`.
2. `Realtime`; proofs in `RealtimeProofs`.
3. `MediaService` composed with `MediaClient`.
4. `RealtimeClient`, `OperatorSession`, `OperatorScreen`, each on top of the one before.
5. `Accounts` composed with `AdminConsole`.
6. `Mirrors`: chat, tally, recordings.

The proofs follow in the same order: `CoordinationProofs`, `LineProofs` and
`RoutingProofs`; `RealtimeProofs`; `MediaProofs`; `ConsoleProofs`; `AccountsProofs`;
`MirrorsProofs`. With that every invariant the passing runs check is a theorem, and so are
the two safety properties on steps (`FloorDiscipline`, `LateTimeoutsHarmless`); liveness stays
with TLC (section 5).

## 3. Modules

`Coordination.tla` has one action per operation of the coordination. It is
one module because the features share sessions, and because detaching
a session must end its page, call, feed and signals in one operation.

| Model | Code |
|---|---|
| `attached`, `older` | `sessions` map and its insertion order (`findSessionByUserId` takes the first) |
| `grant`, `rule` | role, permissions and talk rules cached in the session |
| `talk`, `listen`, `retained` | `talkChannelIds`, `listenChannelIds`, the selection kept for a dropped token |
| `page`, `previous` | all-page holder, `previousListenChannelIds` |
| `call`, `ifb`, `signal`, `timer` | direct calls, the one IFB feed, active signals, their 30 s timers |
| `accounts`, `source` | users with permissions and channels with program source in the database |
| `dueUsers`, `dueAll` | refresh operations on the outcome queue |
| `told`, `routed` | last operator state sent; last routing context handed to the media service |

Calls and signals are numbered by `CallIds`, `SignalIds` and used once; the number
of ids is the only bound on them. A timer goes `off -> armed -> fired -> off`:
`fired` is the window in which the expiry is queued and another operation may
still be ahead. Commands the code rejects change nothing and are stuttering steps.
`Detach` covers the four reasons; only `disconnect` retains the selection.
`UpdateUserFails` is an update of a user that stops between its separate database
transactions, so that no refresh is queued. Deleting a channel sets its rule to
`Gone` and strips it from the permissions (foreign keys cascade).
An all-page tells the listeners it mutes the selection they had, and widens it for routing
afterwards without a word (`TellSoFar`); only its end tells everybody again.

`IntercomFloor.tla` is what the coordination promises about microphones: desks
join and leave, one desk at a time opens microphones, taking the floor closes all
others. `Coordination!FloorDiscipline` states that the coordination implements
it under `online <- attached, mics <- talk, floor <- page`.

`AudioPath.tla` adds who is routed to whom (`Carried`, from
`buildDesiredMediaRoutes`) and what the listener's client plays (`Audible`, from
`getRemoteConsumerVolume`).

`Realtime.tla` is the service around the coordination, of which it keeps
only the tokens that have a session.

| Model | Code |
|---|---|
| `sock`, `dead` | `readyState` of a websocket; a peer that vanished without a close frame |
| `registered`, `alive`, `token` | `ConnectionRegistry`: records, `isAlive`, `sessionToken` |
| `auth`, `claim` | how far `session:authenticate` came, and with which token |
| `doomed` | connections that `disconnectConnection` has cleaned up and not closed yet |
| `store`, `accounts` | session store, users |
| `queue`, `todo`, `media`, `failed` | `outcomeQueue`; in `applyOutcomeSteps` the steps left, the media step awaited, `mediaFailure` |
| `attached`, `kept` | `sessions` and `retainedOperatorStates` of the coordination |
| `directory`, `kicked`, `closing` | `sessionDirectory` (and the chat's sessions), `kickedSessionTokens`, `closing` |

An operation on the queue runs in one action (`Attach`, `Detach`, `Refresh`,
`RunCommand`, ...). Its steps that do not wait are part of that action or of the step
before the next wait, because Node runs pending promise callbacks before the next
event: `Yielded` is the guard of every event (a frame, a close, a REST handler, a
timer), and holds when the queue waits for the media worker or is dry. So
events interleave with an operation exactly at its media steps, and with the rest of
the queue through them. The tokens of one operation take their steps in any
order; the code's order is one of them. Three places allow more than the code:
`CloseDoomed` may come before the detach it waits for, messages of a socket that was
terminated may still be read, and a client may authenticate with any token. A
socket is used once. Connections that arrive during a shutdown are not modelled:
they can never authenticate, and the registry is cleared.

The kicked mark is modelled as it is: it is used up by the first socket of
the token that closes, and a rejected attach after a late refresh step can leave it,
and the token's directory entry, behind for good. Both leaks are harmless to the
properties checked; no document says what should be kept of a kicked session.

`MediaService.tla` and `MediaClient.tla` are the two ends of a media connection, with
the queues of messages between them. `ctl.since` is history: the number of the
connection on which a controller made its transports.

| Model | Code |
|---|---|
| `link`, `up`, `down` | a client's socket with the server and what is under way on it |
| `session`, `talk`, `owed` | sessions and talk sets of the coordination; those the media service is not yet told of (`applyCoordinationStep`) |
| `peer`, `heard`, `made` | `MediaPeerSession` with its transports and producer; `consumersByProducerSession`; number of ids given |
| `worker` | the mediasoup worker, which dies with everything in it |
| `ctl`, `job` | fields of the controller and `audioArmed`/`audioReady` of the screen; where the `start` under way waits |
| `pend`, `opening`, `playing`, `dtls` | `pendingConsumers`, a `recvTransport.consume` under way, `remoteConsumers`, the receive transport |
| `err` | `audioError` |

The service's lock makes each request one action. A `start` of the client is a
sequence of requests, each of which may be answered, refused, lost with the link or
time out; an answer that comes too late is marked `live = FALSE` (no pending request has
its id) and ignored.

`RealtimeClient.tla` is the shared websocket client, with the two ends of every socket
(`wire`), since client and server notice a drop at times of their own.
`OperatorSession.tla` puts one operator's session in the server behind these sockets:
its talk and listen sets, the page, its direct call, and what other people do.
`OperatorScreen.tla` adds the screen (`scr`), the voice detector (`vox`) and the
operator. A React effect runs before the next event and is part of the action that
causes it. The web client and the mobile app differ in what buttons, keys, modes and
VOX send and when they are disabled; `device` says which is used, actions named `Web...`
and `Mobile...` are those that differ.

The selections of the screen follow the effects of `App.tsx` one by one. The stored
selection, latch and VOX channels are pruned to the channels with a permission, of which there
are none without a session (`Assigned(0)`): at load (`Blank`) and at sign-out (`SignedOut`).
Whether a selection was stored is decided at load, for good (`scr.stored`, a set of at most
one selection). If there was one, the first state of each login is answered by commands that
bring the session to what is preferred then (`Restores`); if there was none, each state
overwrites what is preferred (`Prefers`). Either way each state, and each reconnection, turns on
the confidence channels the session does not listen to (`Monitors`); they have no card and no
key (`Visible`), on the web as in the app.

`Accounts.tla` has the handlers of users, channels and groups as functions of the
database. A handler is a list of *images*: the database after each of its
transactions, so that a foreign key that fails, or a crash of the process, leaves
one of them. `AdminConsole.tla` adds the session store, the screens of several admins and
their HTTP calls, which are answered in any order; `calls` keeps what a screen
captured in the closure that waits for an answer. `CASCADE` of the foreign keys is part
of each removal.

`Mirrors.tla` holds chat, tally and recordings, which are alike: a state in the server,
a broadcast for each change, and a greeting for each client that attaches. The attach
is two steps (`Attach`, `Greet`), because the token of the connection is set before the
attach waits for the media service, and broadcasts go to every connection with a token.

Each module names what it assumes of its constants. Most of it types them. The rest:
`MediaServiceAssumption`, `AccountsAssumption` and `MirrorsAssumption` take users, default
channels and channels to be finite; `AdminConsoleAssumption` says that every initial state
is `Sound`, one the server itself can have left (rows have ids it gave out, names differ,
references hold, an admin is left), and that `None` is no id; `MirrorsAssumption` that
`Outside`, which stands for *not a member* and *no stream*, is nothing else.

The `MC...` modules hold the constants' values and symmetry sets of the runs.
Operators marked *Slip* are deliberate mistakes; no specification uses them, and each
property was seen to fail when the operator of the same idea is replaced by one.

## 4. Runs

Deadlock is not checked: when ids and bounds are used up and nothing is queued, the
system may rest.

| Run (module) | Instance | Checks |
|---|---|---|
| `Floor` (`MCCoordination`) | 2 admins, one token each, 2 channels, updates may fail | `PermissionsRespected`, `PageSilencesOthers`, `ClientsInSync`, `MediaInSync`, `ChannelAudioPermitted`, `FloorDiscipline` |
| `Sessions` (`MCCoordination`) | 2 users, 3 tokens, limit 2, editable permissions | `PermissionsRespected`, `CapacityRespected`, `CachesFresh` |
| `Lines` (`MCCoordination`) | 3 tokens of 2 users, 2 calls, IFB | `TypeOK`, `LinesAreSound`, `MediaInSync`, `PrivateLinesPrivate`, `LateTimeoutsHarmless` |
| `Timeouts` (`MCCoordination`) | 2 tokens, 1 call, 1 signal, fair | `TimeoutsUnderWay`, `SignalSendersOnline`, `RingingEnds` |
| `Revocation` (`MCCoordination`) | 1 token, 2 users, 2 channels, program feeds, fair | `RevokedTalkCloses` |
| `Connections` (`MCRealtime`) | 2 sockets, 1 token, fair | `TypeOK`, `NoGhostSession`, `ConnectionsAreRevocable`, `ShutdownDetachesAll`, `DeadPeersLeave`, `AbandonedSessionsEnd` |
| `Media` (`MCMedia`) | a web client that talks, a mobile one that reconnects and starts again, one worker death, late answers | `MediaTypeOK`, `SettledRoutes`, `ReadyIsReal`, `RoutedAreHeard` |
| `Console` (`MCConsole`) | web or mobile, 1 login, 2 sockets, 3 events, 1 confidence channel beside 1 other, a selection stored or none | `OneConnection`, `MicShown`, `LinesShown`, `SelectionRestored`, `MobileShut`, `ConfidenceHeard` |
| `Accounts` (`MCAccounts`) | 2 admins, from an installed, an established and a restarted server | `AccountsTypeOK`, `AdminRemains`, `RowsRefer`, `GrantsShown` |
| `Mirrors` (`MCMirrors`) | 2 clients, 1 channel, 1 scene, 1 lamp, 5 events, 1 restart | `ClientsAgree`, `RecordingsWrite` |
| `PrivateLines` (`MCCoordination`) | 2 admins, 1 call, IFB | `PrivateLinesHeard` **violated** |
| `LoggedOut` (`MCRealtime`) | 2 sockets, 1 token | `LoggedOutAreDisconnected` **violated** |

**Bounds.** Two channels are needed for an operation that touches one and must leave
the other alone; a third would behave as the second. Three tokens of two users are
needed for a user with two sessions next to a peer, and for a session limit that is
full while a token waits. Two calls let a session ring in one and dial another;
each call visits all its phases, and ids are never reused in the code either. One
call and one signal suffice for liveness, as timers do not interact.
Permissions in the editing runs are *everything* or *listen only*, so that every
edit takes talk away or gives it back. Symmetry is used in safety runs only, over
tokens, sockets, channels, call ids or whole desks that the constants treat alike.

`Connections` needs two sockets with one token: a reconnect beside the connection it
replaces is what cleanup, heartbeat and revocation can get wrong. `MaxQueue = 1`
lets a command or a refresh wait for the media worker (so that everything else queues
behind it) and not behind another one; attaches and detaches are not bounded. Sessions
of different tokens meet in the queue and in the session limit only; the theorems of
section 5 cover any number of sockets, tokens and users.

`Media` needs two listeners that are talkers, as routes are of pairs: the web client
changes its talk set, the mobile one is dropped, reconnects (its consumers are reset) and
starts twice (a restart creates its producer again), and the worker dies once.
`Slow = TRUE` lets each request of a start time out while its answer is under way, so that
a second start meets the late answer of the first; `FALSE`, for liveness, lets a request
time out only if the server lost it.
A client starts again on its old transports only if it is the web client; the four
invariants also hold with `MaxTalks <- MobileTalks`, `MaxStarts <- WebAgain`,
`MaxLinks <- WebAgain` (2.3 million states), where it does.
`Console` needs two sockets for a reconnection beside the connection it replaces; with
three events every pair of an action of the operator and one of another person or the
network meets a drop, and each button reaches its release. One channel has buttons and one is
a confidence channel, so that a page, a kept selection and a restore treat them differently;
a stored selection of the former is restored, or turned off, while the latter turns itself on.
`Accounts` has as many names
as it takes to collide and as many calls (two, from two screens) as it takes for an
answer to meet a change of the other; the initial states save the long way to an
established server, and a dashboard is pushed beside one change, for time. `Mirrors` has a window of two messages, so that five events overflow
it, and one restart that empties what clients still show.

**Fairness.** Weak fairness of an elapsed timer, of the handling of a fired timer and of queued
refreshes: `enqueueOutcome` chains every operation on the previous one and goes on
after a rejected one, and Node's timers fire. Weak fairness of the detach of a
deleted user's session: the DELETE handler calls `disconnectUser`, which queues
it. Nothing that depends on a person is fair. A media call that never
answers would block the queue; its steps are assumed to end.

In `Realtime` the queue is weakly fair, for the same reason. The heartbeat, the end of
a host look-up, the close of a socket that is closing (`ws` ends a handshake after
30 s) and of a doomed one are events: each waits whenever promise callbacks are
pending, so that it is enabled again and again rather than for good, but an event
loop forgets none of them, hence strong fairness. That a client connects, answers a
ping or closes is not fair.

`MediaClient` states fairness (`FairSpec`) for `AudioRestored` only: messages are
handled, lost requests time out, consumers open, and a closed socket is noticed.

**What the violated runs show.** `PrivateLines`: the client mix plays a consumer only on
a channel id it listens to, and the ids of direct calls and IFB feeds are never
listened to (`03-POST-MVP-FEATURES.md:114`, `:418`). `LoggedOut`: a logout closes the
connections that carry the token when it runs. A second connection whose attach is queued
at that moment carries none yet; its attach finds the session, which is still there, and
does not ask the session store again; the detach queued by the logout then removes the
session. What is left is an open, registered connection without a session, under a token
that was deleted (`regressions.test.ts:240`).

`CachesFresh` is checked with `RequestsMayFail = FALSE`: an update that fails after
its first transaction leaves sessions with stale permissions until the next
refresh. `Floor` shows that the other invariants survive such failures.

## 5. Proofs

`CoordinationProofs.tla`, checked by TLAPS for all constants that satisfy
`CoordinationAssumption`:

| Theorem | Says |
|---|---|
| `TypeCorrect` | `Spec => []TypeOK` |
| `PermissionsAlwaysRespected` | `Spec => []PermissionsRespected` |
| `PageAlwaysSilences` | `Spec => []PageSilencesOthers` |
| `FloorDisciplineHolds` | `Spec => FloorDiscipline` |

The type invariant is inductive; its proof has one lemma per action, preceded by
lemmas on the operators that `Tell`, `Route` and the end of a call share. The two safety
invariants are not inductive on their own: taking the floor silences *attached*
sessions, so that nobody else talks afterwards only if sessions that are not
attached do not talk either. The inductive invariant is `FloorInv ==
PermissionsRespected /\ PageSilencesOthers /\ OfflineSilent`, proved relative to
`TypeOK`. `FloorDisciplineHolds` uses both invariants and maps each action to one
action of `IntercomFloor` (attach to `Join`, detach to `Leave`, `talk:start` to
`Speak`, `allpage:start` and `stop` to `Take` and `Yield`; whatever only closes microphones to `Hush`; the rest to a stutter).

`LineProofs.tla` and `RoutingProofs.tla` go on from there, under the same assumption:

| Theorem | Says |
|---|---|
| `LinesAlwaysSound` | `Spec => []LinesAreSound` |
| `TimeoutsAlwaysUnderWay` | `Spec => []TimeoutsUnderWay` |
| `LateTimeoutsAreHarmless` | `Spec => LateTimeoutsHarmless` |
| `SendersAlwaysOnline` | `Spec => []SignalSendersOnline` |
| `ClientsAlwaysInSync` | `Spec => []ClientsInSync` |
| `MediaAlwaysInSync` | `Spec => []MediaInSync` |
| `PrivateLinesAlwaysPrivate` | `Spec => []PrivateLinesPrivate` |
| `ChannelAudioAlwaysPermitted` | `Spec => []ChannelAudioPermitted` |
| `CapacityAlwaysRespected` | `Spec => []CapacityRespected` |
| `CachesAlwaysFresh` | `Spec => []CachesFresh`, if `RequestsMayFail = FALSE` |

`LinesInv` says in words what `LinesAreSound` counts: two calls of one token are the same
call, parties are attached and differ, and a call that is unused or over names nobody
(`QuietCalls`), without which an old call would hold its parties. Timeouts, late
timeouts and routing rest on it: a routing context names the *one* call peer of a session,
so that `MediaInSync` is kept by an operation on one call only if no other call
is concerned. What audio is private or permitted follows from `MediaInSync` with
`LinesInv` or `FloorInv`. `CapacityInv` adds that the attached set is finite. That no
update fails half-way is a hypothesis of `CachesAlwaysFresh`, as it is one of the runs.

`RealtimeProofs.tla`, for all constants that satisfy `RealtimeAssumption`; `MaxQueue`
is any number, so that the queue is unbounded:

| Theorem | Says |
|---|---|
| `ServiceTypeCorrect` | `Spec => []TypeOK` |
| `NoSessionOutlivesItsConnections` | `Spec => []NoGhostSession` |
| `LiveConnectionsAreRevocable` | `Spec => []ConnectionsAreRevocable` |
| `ShutdownIsComplete` | `Spec => []ShutdownDetachesAll` |

`NoGhostSession` speaks of detaches *in the queue*, so that the proof starts with
lemmas on what appending and dequeuing leave queued, and `CleanupWorks` says that a
cleanup queues a detach for each token that loses its last registered socket. An attach
must not take a socket away from another token: `AttachInv` says that a socket waits
for one attach at most and has no token until it ran (the code's
`authenticationAttempted` flag). With it the inductive invariant is
`ConnectionInv == NoGhostSession /\ ConnectionsAreRevocable /\ ShutdownForgets /\
FreshSockets`: a shutdown leaves the registry empty, and an unused socket has no token.
`ShutdownIsComplete` follows, as an empty registry and an empty queue leave a session
nothing to live on.

`MediaProofs.tla`, for all constants that satisfy `MediaServiceAssumption` and
`MediaClientAssumption`: any finite number of users, any number of channels, requests, worker
deaths and reconnections, with late answers (`Slow`) or without:

| Theorem | Says |
|---|---|
| `MediaTypeCorrect` | `Spec => []MediaTypeOK` |
| `RoutesAlwaysSettle` | `Spec => []SettledRoutes` |
| `ReadyAlwaysReal` | `Spec => []ReadyIsReal` |
| `RoutedAlwaysHeard` | `Spec => []RoutedAreHeard` |

`Shapes` types both ends and the messages between them. `SettledRoutes` speaks of peers whose
media session is up to date, so `RoutesInv` must say of everybody else that consumers are at
most those of the routes, and that only a listener whose producer is up misses none. That in
turn needs an order of messages: a server that makes a receive transport again closes
the consumers on it, and if the listener had a producer then, it would lack them. `OrderInv`
says that this cannot happen: of the requests of a start at most one is awaited, its answer
comes after everything that was asked before it, and no receive transport is asked for
once a producer is. `ReadyIsReal` needs what the controller stores to be what the server
has, although the answer was sent long before: `TruthInv` says it of the answers under way,
of a start in its last stage and of audio that is ready; `StartInv` what a start has done at
each stage, and `LinkInv` that nothing arrives over a link that is not attached. A message queue is
handled by lemmas on `Head`, `Tail`, `Append` and on forgetting answers.

`RoutedAreHeard` joins the two ends, so it needs both sides' invariants and a third,
`HeardInv`, of what lies between them. `IdOf`: no consumer the listener holds or is being told of is
newer than the server's last, and no notice that a consumer closed names one that lives.
`DtlsOf`: a request to connect names the receive transport that the controller holds, and is
refused only if the server has made another since. `HearOf`: on the connection on which the
listener made its transports, each consumer of the server is announced by a notice under
way, being opened, or playing with its resume done or asked for, and no notice overtakes the
answer that brings the transport it needs. Every step is one of the server's (`ServerHear`)
or one of a client's (`ClientHear`).

`ConsoleProofs.tla` is about the screen's specification, in which the client library and the
session are parts, under `RealtimeClientAssumption`, `OperatorSessionAssumption` and
`OperatorScreenAssumption`: either device, any finite number of channels, any number of logins,
sockets and events:

| Theorem | Says |
|---|---|
| `ConnectionAlwaysSingle` | `Spec => []OneConnection` |
| `MicAlwaysShown` | `Spec => []MicShown` |
| `MobileAlwaysShuts` | `Spec => []MobileShut` |
| `LinesAlwaysShown` | `Spec => []LinesShown` |
| `ConfidenceAlwaysHeard` | `Spec => []ConfidenceHeard` |
| `SelectionAlwaysRestored` | `Spec => []SelectionRestored` |

For the first, `ConsoleInv == LinkShapes /\ SocketsOwned /\ OneConnection` is inductive: a
client's socket carries its mark and is not closed, and a client that never connected has neither
socket nor timer. `ScreenInv` adds the types of messages, sessions and screens, what a socket's
two ends have in common, and that the page and the call belong to attached sessions.

The others speak of a screen at rest, with nothing on its way in either direction, so each
invariant has to say what the messages under way will come to:

- `MicInv`: the *last* state on its way to the screen is that of the session; if none is on its
  way the screen shows it. This holds on every connection, because each socket that
  authenticates is told the state first.
- `LineInv`: the last page, ring and call messages on their way are true of the server, or the
  screen's own answer is on its way back (`Sends`): a rejected call rings on in the server, and
  one that was hung up goes on, until that answer is read. On a later connection this is false,
  as calls are not resent, hence `FirstSocket` in the property.
- `ShutInv`: behind whatever was sent last to open a channel that a mobile button or voice no
  longer holds, a stop is on its way (`Stopped`).
- `ListenInv`, for a browser that had a selection stored: the last command for a channel with a
  card asks for what is preferred, and a channel nobody asks about is as preferred (`Settles`);
  before the first state nothing was asked for. What the web client restores then
  (`RestoresSettle`) and each later change keep it so, and the commands for confidence channels
  are about no such channel (`MonitorsAside`).
- `ChosenInv`: with no state on its way to the screen and no change of the selection from it
  (`Settled`), the confidence channels are on, and a browser that had nothing stored prefers
  what it shows. A state that is received with a confidence channel off is answered, so that
  nothing is settled; whatever the server changes, it tells or (a page) only adds to. What is
  shown is what the server has by `MicInv`, which gives the other half of `SelectionRestored`.

`BlankInv` says that before its first socket authenticates the session is new and the screen
blank, and `PagedInv` that whoever pages from elsewhere has paged. `Newest`, `None` and their
lemmas on `Tail` and concatenation carry the argument from one message to the next. That
`Channels` is finite is used only to make a sequence of a set (`SetToSeq`): a selection is sent
channel by channel.

`AccountsProofs.tla`, under `AccountsAssumption` and `AdminConsoleAssumption`:

| Theorem | Says |
|---|---|
| `AccountsTypeCorrect` | `Spec => []AccountsTypeOK` |
| `AdminAlwaysRemains` | `Spec => []AdminRemains` |
| `RowsAlwaysRefer` | `Spec => []RowsRefer` |
| `GrantsAlwaysShown` | `Spec => []GrantsShown` |

A handler leaves one of its images, so each handler has a lemma that all its images are
`Fine` (typed tables, ids that were given out, names that differ, references that hold) and
`Manned` (an admin is left). An id that was never given out is what makes a new row collide
with none and inherit no grants, hence `issued` in the invariant. That an admin is left after a
demotion or a deletion follows from the guard of the same transaction, that one is left
after anything else from the caller, who is one (`NotBarred`). What screens show
depends on the rows that answers under way carry, so `AccountsInv` types these too:
`DbInv /\ StoreOK /\ ScreensOK /\ InboxOK /\ CallsOK /\ logins \in Nat`.

`MirrorsProofs.tla`, under `MirrorsAssumption`, for any number of clients, channels, messages
and restarts:

| Theorem | Says |
|---|---|
| `RecordingsAlwaysWrite` | `Spec => []RecordingsWrite` |
| `ClientsAlwaysAgree` | `Spec => []ClientsAgree` |

`RecordingInv` adds to `RecordingsWrite` what an operation that waits for the directory or for
a stream to end may assume when it goes on. `ClientsAgree` speaks of clients with nothing on
the wire; the invariant has to foretell what a client *will* show: `Foretold` says that there
is a sequence of logs, one after each message on the wire, that always rise and end, for a
client that is due them, with the server's log (`TallyFollows` and `RecordingFollows` say
the same of the last message of their kind). That a history and the broadcasts around it never
show a message twice or out of order is what rising means. The sequence is given message by
message, as a definition by recursion over the wire could not be reasoned about.

Only model-checked: the liveness properties (`RingingEnds`, `RevokedTalkCloses`,
`DeadPeersLeave`, `AbandonedSessionsEnd`), which are out of the prover's reach, as it has no rule
for fairness (`ENABLED`).

## 6. Promises of the documents the code does not keep

Each row names a property that stands in its module and is false of the model as it is of
the code. To see the counterexample, put it in place of the INVARIANTS and PROPERTIES of the
run's cfg (as a PROPERTY where the row says so), with the changes named.

| Property | Reproduce with | What happens | Promise |
|---|---|---|---|
| `ProgramTalkIsSourceOnly` | `Floor.cfg`, `Sources <- ProgramFeeds`, no symmetry | an all-page opens the holder's microphone on a program channel whose source is another user | `app.test.ts:3526` |
| `ListenSelectionRestored` (a property) | `Floor.cfg`, no symmetry | a listener that drops during a page has its *widened* selection retained, the saved one is discarded | `regressions.test.ts:367` |
| `PageHeardByAll` | `Floor.cfg` | a page widens the listen sets it routes by (`all-page.ts:97`) without an operator state; clients play a channel they had turned off at volume 0 | `03-POST-MVP-FEATURES.md:86`, `:96` |
| `MediaFailureCloses` (a property) | `LoggedOut.cfg`, `Tokens = {t1, t2}`, `Owner <- TwoLogins` | an operation remembers one media failure only; of two sessions one keeps its connection and stale routing | `regressions.test.ts:295` |
| `SilentOnlyWithError` | `Media.cfg`, `MaxDeaths = 0`, `MaxTalks <- MobileTalks`, `MaxStarts <- WebAgain`, `MaxLinks <- WebAgain` | a web client whose link drops during its first start keeps its transports; back before the server noticed, it makes none again, and what it was told meanwhile stays unheard without an error | `02-MVP-DESIGN.md:174` |
| `TalkersShown` | `Media.cfg`, `Channels = {c1, c2}`, `MaxDeaths = 0` | a talker's state or end that arrives before its consumer plays is not remembered | `02-MVP-DESIGN.md:127` |
| `AudioRestored` (a property) | `Media.cfg`, `MaxDeaths = 0`, `Slow = FALSE`, `FairSpec`, web client alone (`MaxTalks <- NoTalks`, `MaxStarts <- WebOnce`, `MaxLinks <- WebTwice`) | after a reconnect the first media request overtakes the attach, is refused without a request id, times out and is not repeated | `02-MVP-DESIGN.md:174` |
| `StoredSelectionRestored` | `Console.cfg`, `Devices <- WebOnly`, `Storages <- OneStored` | the effect that prunes the preferred selection to the permissions (`App.tsx:955`) runs at load, before there are any; the restore then compares the first state with an empty selection and turns off everything but the confidence channels. The test named here looks only for the command that turns off the channel outside the stored selection | `02-MVP-DESIGN.md:175`, `App.test.tsx:197` |
| `WebShut` | `Console.cfg`, `Devices <- WebOnly` | a talk button released before the server answered sends no stop | `01-PRODUCT-DESIGN.md:212` |
| `PageShown` | `Console.cfg` | an all-page that ended while the client was away is shown, and blocks talking, for good | `01-PRODUCT-DESIGN.md:280` |
| `AppSurvives` | `Console.cfg`, `Devices <- MobileOnly` | VOX asks a closed socket to stop talking, inside an effect | `02-MVP-DESIGN.md:204` |
| `ChannelLimitKept` | `Accounts.cfg`, `ChannelNames = {stage, foh}`, `Starts <- Working`, `MaxRestarts = 2` | each start inserts the deleted default channels again, beyond the limit | `DEPLOY.md:99` |
| `TallyLive` | `Mirrors.cfg` | an event names one of the two scenes and clears the other; TSL lamps are cleared too | `03-POST-MVP-FEATURES.md:789` |
| `RecordingShown` | `Mirrors.cfg` | a client that comes back after the last recording ended is sent nothing and shows it on | `03-POST-MVP-FEATURES.md:976` |
| `RecordedOnce` | `Mirrors.cfg` | two starts that wait for the directory open two streams; one is never closed | `recording/service.test.ts:40` |

Seen while modelling and outside these properties: deleting a group leaves its id in the
open form of a user, whose next save stops half-way with a foreign-key error; a refused
request for a call leaves "Calling..." on screen; hanging up before the call has an id ends
nothing; the mobile sign-out does not delete its token; a channel given to a user during a
session gets no chat history; an error of a consumer that did not open during a start is
cleared when the start ends.

## 7. Not modelled

Wording and payloads of messages, quality reports and preflight (they change no
coordination state), audit, recording-log and OSC notices, volumes, panning, device
switching and levels. In `Coordination` a token stays valid until its user is deleted;
logouts are in `Realtime`, whose users may all be deleted (the last-admin guard is in
`Coordination` and `Accounts`). `OperatorSession` has one operator with all
permissions, as permissions are the business of `Coordination`. A reload of the page is an
initial state (`Blank`); that a login overwrites the latch and VOX modes by those stored in the
server (`App.tsx:1393`) is left out, as the modes may change at any time anyway. `Disarm`
happens while no button is held, as its own is on another tab of the app. When a link of
`MediaClient` drops, the requests that wait for the service's lock go with it, as if they had
been lost before; the service would still run them and answer nobody. Requests to connect a transport
and to resume a consumer are answered or lost with the link; their time-out is not
modelled. IFB and signals on the
screens are left out: they are shown and cleared like direct calls. `AudioPath` takes
every session to have armed its audio, so it states what is *desired* of the media
service; `MediaService` shows how it gets there. PINs, preferences, event log and exports
keep state that nothing else reads. Projections are computed anew for every use;
discovery, configuration, schemas and tokens have no state. `PROJECT.json` has the
reason for each component.
