------------------------------- MODULE Realtime -------------------------------
(***************************************************************************)
(* The realtime service of the CueCommX server: websocket connections, how *)
(* they authenticate, the queue on which every coordination operation      *)
(* runs, and how closed, revoked and dead connections are cleaned up.      *)
(*                                                                         *)
(* An operation changes the coordination at once and then applies its      *)
(* steps; only media-routing steps wait, for the media worker.  While one  *)
(* waits, sockets open and close and REST handlers run.  Node runs pending *)
(* promise callbacks before the next event, so that nothing else happens   *)
(* between two steps that do not wait: events need Yielded.                *)
(*                                                                         *)
(* Of the coordination only which tokens have a session is kept here.      *)
(***************************************************************************)
EXTENDS Naturals, Sequences, FiniteSets

CONSTANTS
  Sockets,    \* websockets; each is used once, their number is the bound
  Users,
  Tokens,     \* session tokens handed out by logins
  Owner,      \* the user a token was issued to
  MaxUsers,   \* session limit of the server, 0 for none
  MaxQueue,   \* bound: no command or refresh is queued behind so many operations
  None

ASSUME RealtimeAssumption ==
  /\ Owner \in [Tokens -> Users]
  /\ MaxUsers \in Nat
  /\ MaxQueue \in Nat
  /\ None \notin Tokens \cup Sockets \cup Users
  /\ IsFiniteSet(Tokens)

VARIABLES
  \* connections
  sock,        \* "unused", "open", "closing" or "closed"
  dead,        \* sockets whose peer vanished without a word
  registered,  \* sockets in the connection registry
  alive,       \* registered sockets that answered since the last heartbeat
  auth,        \* "no", "resolving" the host, "queued" or "done"
  claim,       \* token the socket authenticates with
  token,       \* token of the authenticated connection, or None
  doomed,      \* deregistered sockets that a revocation is about to close
  \* what authorises a session
  store,       \* valid session tokens
  accounts,    \* users in the database
  \* the outcome queue and the operation whose steps are being applied
  queue,
  todo,        \* token -> steps of the operation still to be applied for it
  media,       \* token whose media-routing step is awaited, or None
  failed,      \* token of the last media-routing step that failed, or None
  \* sessions
  attached,    \* tokens with a coordination session
  kept,        \* tokens with a retained selection
  directory,   \* tokens in sessionDirectory and the chat's session list
  kicked,      \* kickedSessionTokens
  closing      \* whether the service shuts down

connections == <<sock, dead, registered, alive, auth, claim, token, doomed>>
authority   == <<store, accounts>>
applying    == <<todo, media, failed>>
sessions    == <<attached, kept>>
marks       == <<directory, kicked>>
vars == <<connections, authority, queue, applying, sessions, marks, closing>>

-----------------------------------------------------------------------------
AttachOp(s)         == [kind |-> "attach", socket |-> s]
DetachOp(t, reason) == [kind |-> "detach", token |-> t, reason |-> reason]
RefreshOp(us)       == [kind |-> "refresh", users |-> us]
CommandOp(t)        == [kind |-> "command", token |-> t]

NothingToDo == \A t \in Tokens : todo[t] = "nothing"
Idle == media = None /\ NothingToDo /\ failed = None

\* The event loop gets to the next event only when every promise callback waits
\* for the media worker or there is none.
Yielded == media # None \/ (Idle /\ queue = <<>>)

\* Slip: only a shutdown makes connections inactive.
ActiveUntilShutdown(s) == ~closing

\* isConnectionActive
Active(s) == ~closing /\ s \in registered /\ sock[s] = "open"

\* socketsForSession without the authentication context
SocketsOf(t) == {s \in registered : token[s] = t}

Revocable(t) == t \in store /\ Owner[t] \in accounts

Full == MaxUsers > 0 /\ Cardinality(attached) >= MaxUsers

\* Closing handshakes start on the open sockets of S.
Shut(S) == [s \in Sockets |-> IF s \in S /\ sock[s] = "open" THEN "closing" ELSE sock[s]]

Detaches(order, reason) == [i \in DOMAIN order |-> DetachOp(order[i], reason)]

\* The orders in which the detaches of several tokens may be queued.
Orders(T) == {q \in [1..Cardinality(T) -> T] : {q[i] : i \in DOMAIN q} = T}

Init ==
  /\ sock = [s \in Sockets |-> "unused"]
  /\ dead = {} /\ registered = {} /\ alive = {} /\ doomed = {}
  /\ auth = [s \in Sockets |-> "no"]
  /\ claim = [s \in Sockets |-> None]
  /\ token = [s \in Sockets |-> None]
  /\ store = Tokens /\ accounts = Users
  /\ queue = <<>>
  /\ todo = [t \in Tokens |-> "nothing"]
  /\ media = None /\ failed = None
  /\ attached = {} /\ kept = {} /\ directory = {} /\ kicked = {}
  /\ closing = FALSE

-----------------------------------------------------------------------------
(* Cleanup of connections *)

\* Slips: an unauthenticated connection is cleaned up like a session, other
\* connections of the token are not looked for, or they are looked for while the
\* closed connection is still registered.
LastOfAny(S) ==
  {t \in {token[s] : s \in S \cap registered} : SocketsOf(t) \subseteq S}
LastUnchecked(S) == {token[s] : s \in S \cap registered} \ {None}
LastBefore(S) ==
  {t \in {token[s] : s \in S \cap registered} \ {None} : SocketsOf(t) = {}}

\* The tokens whose last registered socket is in S.
LastOf(S) ==
  {t \in {token[s] : s \in S \cap registered} \ {None} : SocketsOf(t) \subseteq S}

\* finishConnectionCleanup of the sockets in S: a token whose last registered
\* socket goes leaves the directory at once and gets its detach queued.
Cleanup(S, reason) ==
  /\ registered' = registered \ S
  /\ alive' = alive \ S
  /\ directory' = directory \ LastOf(S)
  /\ \E order \in Orders(LastOf(S)) : queue' = queue \o Detaches(order, reason)

\* The close event of a socket: the peer closed it, a closing handshake ended or
\* it was terminated.  The mark that the token was kicked is used up.  Nobody
\* looks at the connection's record again.
SocketCloses(s) ==
  LET revoked == s \in registered /\ token[s] \in kicked
  IN  /\ Yielded
      /\ sock[s] = "closing" \/ (sock[s] = "open" /\ s \notin dead)
      /\ sock' = [sock EXCEPT ![s] = "closed"]
      /\ Cleanup({s}, IF revoked THEN "revoked" ELSE "disconnect")
      /\ kicked' = IF revoked THEN kicked \ {token[s]} ELSE kicked
      /\ doomed' = doomed \ {s}
      /\ dead' = dead \ {s}
      /\ token' = [token EXCEPT ![s] = None]
      /\ UNCHANGED <<auth, claim, authority, applying, sessions, closing>>

\* disconnectConnection for the connections in S: they are cleaned up now, and
\* their sockets closed once the cleanup is over.
Disconnect(S, reason) ==
  /\ Cleanup(S, reason)
  /\ doomed' = doomed \cup (S \cap registered)
  /\ UNCHANGED <<sock, dead, auth, claim, token, applying, sessions, kicked, closing>>

\* The code waits for the detach it queued; here the close may also come sooner.
CloseDoomed(s) ==
  /\ Yielded
  /\ s \in doomed
  /\ doomed' = doomed \ {s}
  /\ sock' = Shut({s})
  /\ UNCHANGED <<dead, registered, alive, auth, claim, token, authority, queue, applying,
                 sessions, marks, closing>>

\* DELETE /api/auth/session
Logout(t) ==
  /\ Yielded /\ ~closing
  /\ t \in store
  /\ store' = store \ {t}
  /\ Disconnect(SocketsOf(t), "logout")
  /\ UNCHANGED accounts

\* disconnectUser finds a user's connections by the directory.
ConnectionsOf(u) ==
  {s \in registered : token[s] \in directory /\ Owner[token[s]] = u}

\* DELETE /api/users/:id
DeleteUser(u) ==
  /\ Yielded /\ ~closing
  /\ u \in accounts
  /\ accounts' = accounts \ {u}
  /\ Disconnect(ConnectionsOf(u), "revoked")
  /\ UNCHANGED store

\* The StreamDeck's disconnect action.
KickUser(u) ==
  /\ Yielded /\ ~closing
  /\ u \in accounts
  /\ ConnectionsOf(u) # {}
  /\ Disconnect(ConnectionsOf(u), "revoked")
  /\ UNCHANGED authority

\* disconnectAllUsers after the media worker was restarted.
WorkerRestarts ==
  /\ Yielded /\ ~closing
  /\ \E s \in registered : token[s] # None
  /\ Disconnect({s \in registered : token[s] # None}, "disconnect")
  /\ UNCHANGED authority

\* close: what is connected is closed and cleaned up; the queue runs dry later.
Shutdown ==
  /\ Yielded /\ ~closing
  /\ closing' = TRUE
  /\ sock' = Shut(registered)
  /\ Cleanup(registered, "shutdown")
  /\ UNCHANGED <<dead, auth, claim, token, doomed, authority, applying, sessions, kicked>>

-----------------------------------------------------------------------------
(* Connections *)

\* handleConnection
Connect(s) ==
  /\ Yielded /\ ~closing
  /\ sock[s] = "unused"
  /\ sock' = [sock EXCEPT ![s] = "open"]
  /\ registered' = registered \cup {s}
  /\ alive' = alive \cup {s}
  /\ UNCHANGED <<dead, auth, claim, token, doomed, authority, queue, applying, sessions,
                 marks, closing>>

\* handleSessionAuthenticate: only the first attempt of a connection counts.
Authenticate(s, t) ==
  /\ Yielded
  /\ Active(s) /\ s \notin dead
  /\ auth[s] = "no"
  /\ auth' = [auth EXCEPT ![s] = "resolving"]
  /\ claim' = [claim EXCEPT ![s] = t]
  /\ UNCHANGED <<sock, dead, registered, alive, token, doomed, authority, queue, applying,
                 sessions, marks, closing>>

\* authenticateConnection after the host name was looked up.
Resolved(s) ==
  /\ Yielded
  /\ auth[s] = "resolving"
  /\ auth' = [auth EXCEPT ![s] = IF Active(s) THEN "queued" ELSE "done"]
  /\ queue' = IF Active(s) THEN Append(queue, AttachOp(s)) ELSE queue
  /\ UNCHANGED <<sock, dead, registered, alive, claim, token, doomed, authority, applying,
                 sessions, marks, closing>>

\* Operators' commands; a connection keeps its token after it was deregistered,
\* and messages are read until the closing handshake ends.
Command(s) ==
  /\ Yielded
  /\ sock[s] \in {"open", "closing"} /\ s \notin dead
  /\ token[s] # None
  /\ Len(queue) < MaxQueue
  /\ queue' = Append(queue, CommandOp(token[s]))
  /\ UNCHANGED <<connections, authority, applying, sessions, marks, closing>>

\* An admin edited a user or a channel.
RequestRefresh(us) ==
  /\ Yielded /\ ~closing
  /\ Len(queue) < MaxQueue
  /\ queue' = Append(queue, RefreshOp(us))
  /\ UNCHANGED <<connections, authority, applying, sessions, marks, closing>>

\* The network path of a client breaks and no close frame ever arrives.
PeerDies(s) ==
  /\ Yielded
  /\ sock[s] = "open" /\ s \notin dead
  /\ dead' = dead \cup {s}
  /\ UNCHANGED <<sock, registered, alive, auth, claim, token, doomed, authority, queue,
                 applying, sessions, marks, closing>>

Pong(s) ==
  /\ Yielded
  /\ s \in registered \ (alive \cup dead)
  /\ sock[s] = "open"
  /\ alive' = alive \cup {s}
  /\ UNCHANGED <<sock, dead, registered, auth, claim, token, doomed, authority, queue,
                 applying, sessions, marks, closing>>

\* Slip: the heartbeat does not ask for a new answer.
HeartbeatTrusting ==
  /\ Yielded /\ ~closing
  /\ registered # {}
  /\ sock' = Shut(registered \ alive)
  /\ UNCHANGED <<dead, registered, alive, auth, claim, token, doomed, authority, queue,
                 applying, sessions, marks, closing>>

\* startHeartbeat: terminate what did not answer the last ping, ping the others.
Heartbeat ==
  /\ Yielded /\ ~closing
  /\ registered # {}
  /\ sock' = Shut(registered \ alive)
  /\ alive' = {}
  /\ UNCHANGED <<dead, registered, auth, claim, token, doomed, authority, queue, applying,
                 sessions, marks, closing>>

-----------------------------------------------------------------------------
(* The outcome queue *)

\* The next operation is of this kind and may run.
Dequeue(kind) ==
  /\ Idle
  /\ queue # <<>>
  /\ Head(queue).kind = kind
  /\ queue' = Tail(queue)

\* A disconnect step for token t: mark it as kicked, forget it and close its
\* sockets, or the socket that tried to authenticate when it has none.
DisconnectStep(t, tried) ==
  LET targets == IF SocketsOf(t) = {} THEN tried ELSE SocketsOf(t)
  IN  /\ kicked' = IF t \in directory THEN kicked \cup {t} ELSE kicked
      /\ directory' = directory \ {t}
      /\ sock' = Shut(targets)
      /\ UNCHANGED <<dead, registered, alive, claim, token, doomed>>

\* A socket that is no longer active is not attached.
AttachDropped ==
  /\ Dequeue("attach")
  /\ LET s == Head(queue).socket
     IN  ~Active(s) /\ auth' = [auth EXCEPT ![s] = "done"]
  /\ UNCHANGED <<sock, dead, registered, alive, claim, token, doomed, authority, applying,
                 sessions, marks, closing>>

Attach ==
  /\ Dequeue("attach")
  /\ LET s == Head(queue).socket
         t == claim[s]
     IN  /\ Active(s)
         /\ t \in attached \/ (Revocable(t) /\ ~Full)
         /\ auth' = [auth EXCEPT ![s] = "done"]
         /\ token' = [token EXCEPT ![s] = t]
         /\ directory' = directory \cup {t}
         /\ attached' = attached \cup {t}
         /\ kept' = IF t \in attached THEN kept ELSE kept \ {t}
         /\ media' = IF t \in attached THEN None ELSE t
  /\ UNCHANGED <<sock, dead, registered, alive, claim, doomed, authority, todo, failed,
                 kicked, closing>>

AttachRejected ==
  /\ Dequeue("attach")
  /\ LET s == Head(queue).socket
         t == claim[s]
     IN  /\ Active(s)
         /\ t \notin attached /\ (Revocable(t) => Full)
         /\ auth' = [auth EXCEPT ![s] = "done"]
         /\ DisconnectStep(t, {s})
  /\ UNCHANGED <<authority, applying, sessions, closing>>

\* Ending the page, the calls and the feed of a session re-routes any others.
Detach ==
  /\ Dequeue("detach")
  /\ LET t == Head(queue).token
     IN  IF t \in attached
           THEN /\ attached' = attached \ {t}
                /\ kept' = IF Head(queue).reason = "disconnect" THEN kept \cup {t}
                                                                ELSE kept \ {t}
                /\ \E S \in SUBSET attached' :
                     todo' = [s \in Tokens |-> IF s \in S \cup {t} THEN "route" ELSE "nothing"]
           ELSE UNCHANGED <<attached, kept, todo>>
  /\ UNCHANGED <<connections, authority, media, failed, marks, closing>>

\* A session whose user is gone is disconnected instead of refreshed.
Refresh ==
  /\ Dequeue("refresh")
  /\ todo' = [t \in Tokens |->
       IF t \notin attached \/ Owner[t] \notin Head(queue).users THEN "nothing"
       ELSE IF Owner[t] \in accounts THEN "sync" ELSE "disconnect"]
  /\ UNCHANGED <<connections, authority, media, failed, sessions, marks, closing>>

\* A command of an attached session re-routes any sessions; others are refused.
RunCommand ==
  /\ Dequeue("command")
  /\ \E S \in SUBSET attached :
       /\ Head(queue).token \notin attached => S = {}
       /\ todo' = [t \in Tokens |-> IF t \in S THEN "route" ELSE "nothing"]
  /\ UNCHANGED <<connections, authority, media, failed, sessions, marks, closing>>

-----------------------------------------------------------------------------
(* The steps of an operation *)

\* The next token's steps, up to the wait for the media worker.
Step(t) ==
  /\ media = None
  /\ todo[t] \in {"sync", "route"}
  /\ todo' = [todo EXCEPT ![t] = "nothing"]
  /\ directory' = IF todo[t] = "sync" THEN directory \cup {t} ELSE directory
  /\ media' = t
  /\ UNCHANGED <<connections, authority, queue, failed, sessions, kicked, closing>>

StepDisconnect(t) ==
  /\ media = None
  /\ todo[t] = "disconnect"
  /\ todo' = [todo EXCEPT ![t] = "nothing"]
  /\ DisconnectStep(t, {})
  /\ UNCHANGED <<auth, authority, queue, media, failed, sessions, closing>>

\* The media worker answers; one failure is remembered.
MediaAnswers(ok) ==
  /\ media # None
  /\ media' = None
  /\ failed' = IF ok THEN failed ELSE media
  /\ UNCHANGED <<connections, authority, queue, todo, sessions, marks, closing>>

\* Slip: the queue does not go on after a failure.
CloseFailedAndHang ==
  /\ media = None /\ NothingToDo
  /\ failed # None
  /\ sock' = Shut(SocketsOf(failed))
  /\ UNCHANGED <<dead, registered, alive, auth, claim, token, doomed, authority, queue,
                 applying, sessions, marks, closing>>

\* closeSessionForMediaFailure, after the last step.
CloseFailed ==
  /\ media = None /\ NothingToDo
  /\ failed # None
  /\ failed' = None
  /\ sock' = Shut(SocketsOf(failed))
  /\ UNCHANGED <<dead, registered, alive, auth, claim, token, doomed, authority, queue, todo,
                 media, sessions, marks, closing>>

-----------------------------------------------------------------------------
ConnectionEvent(s) ==
  \/ Connect(s) \/ Resolved(s) \/ Command(s) \/ PeerDies(s) \/ Pong(s)
  \/ SocketCloses(s) \/ CloseDoomed(s)
  \/ \E t \in Tokens : Authenticate(s, t)

ServerEvent ==
  \/ \E t \in Tokens : Logout(t)
  \/ \E u \in Users : DeleteUser(u) \/ KickUser(u)
  \/ \E us \in {{u} : u \in Users} \cup {Users} : RequestRefresh(us)
  \/ WorkerRestarts \/ Heartbeat \/ Shutdown

QueueStep ==
  \/ AttachDropped \/ Attach \/ AttachRejected \/ Detach \/ Refresh \/ RunCommand
  \/ \E t \in Tokens : Step(t) \/ StepDisconnect(t)
  \/ MediaAnswers(TRUE) \/ MediaAnswers(FALSE)
  \/ CloseFailed

Next == (\E s \in Sockets : ConnectionEvent(s)) \/ ServerEvent \/ QueueStep

Spec == Init /\ [][Next]_vars

\* The queue is always drained (the media worker answers every request), host
\* names resolve, a closing handshake ends (ws gives it 30 s), disconnected
\* sockets are closed and the heartbeat ticks.  These are events, which wait
\* whenever promise callbacks are pending, but the event loop forgets none of
\* them: strong fairness.
Fairness ==
  /\ WF_vars(QueueStep)
  /\ SF_vars(Heartbeat)
  /\ \A s \in Sockets :
       SF_vars(Resolved(s) \/ CloseDoomed(s) \/ (sock[s] = "closing" /\ SocketCloses(s)))

FairSpec == Spec /\ Fairness

-----------------------------------------------------------------------------
(* Properties *)

Reasons == {"disconnect", "logout", "revoked", "shutdown"}

Operation ==
  [kind : {"attach"}, socket : Sockets]
  \cup [kind : {"detach"}, token : Tokens, reason : Reasons]
  \cup [kind : {"refresh"}, users : SUBSET Users]
  \cup [kind : {"command"}, token : Tokens]

\* Every part of the service's state has its type.
TypeOK ==
  /\ sock \in [Sockets -> {"unused", "open", "closing", "closed"}]
  /\ dead \subseteq Sockets /\ registered \subseteq Sockets
  /\ alive \subseteq registered /\ doomed \subseteq Sockets
  /\ auth \in [Sockets -> {"no", "resolving", "queued", "done"}]
  /\ claim \in [Sockets -> Tokens \cup {None}]
  /\ token \in [Sockets -> Tokens \cup {None}]
  /\ store \subseteq Tokens /\ accounts \subseteq Users
  /\ queue \in Seq(Operation)
  /\ todo \in [Tokens -> {"nothing", "sync", "route", "disconnect"}]
  /\ media \in Tokens \cup {None} /\ failed \in Tokens \cup {None}
  /\ attached \subseteq Tokens /\ kept \subseteq Tokens
  /\ directory \subseteq Tokens /\ kicked \subseteq Tokens
  /\ closing \in BOOLEAN

DetachQueued(t) ==
  \E i \in DOMAIN queue : queue[i].kind = "detach" /\ queue[i].token = t

\* No session outlives its connections: a token that has a session has a
\* registered connection or its detach is queued, whatever order closes,
\* reconnects, revocations and attaches came in.
NoGhostSession ==
  \A t \in attached : SocketsOf(t) # {} \/ DetachQueued(t)

\* disconnectUser finds every live connection of the user: an authenticated
\* connection that is not being closed is in the directory.
ConnectionsAreRevocable ==
  \A s \in registered : (sock[s] = "open" /\ token[s] # None) => token[s] \in directory

\* After a shutdown has run the queue dry nobody has a session any more.
ShutdownDetachesAll == (closing /\ Idle /\ queue = <<>>) => attached = {}

\* A connection whose peer vanished is found by the heartbeat and cleaned up
\* (02-MVP-DESIGN.md: "Heartbeat/keepalive with automatic disconnect detection").
DeadPeersLeave == \A s \in Sockets : s \in dead ~> s \notin registered

\* A session all of whose connections are gone is detached, unless the operator
\* is back before that.
AbandonedSessionsEnd ==
  \A t \in Tokens :
    (t \in attached /\ SocketsOf(t) = {}) ~> (t \notin attached \/ SocketsOf(t) # {})

\* regressions.test.ts "disconnects authenticated realtime sessions when the HTTP
\* session logs out": once nothing is queued, no connection is left open under
\* a token that was logged out.
LoggedOutAreDisconnected ==
  (Idle /\ queue = <<>>) =>
    \A s \in registered : (sock[s] = "open" /\ token[s] # None) => token[s] \in store

\* regressions.test.ts "closes the session when the media adapter fails during a
\* state transition": so are the connections of every session it
\* failed for before the failure is forgotten.
MediaFailureCloses ==
  [][(failed # None /\ failed' # failed) => \A s \in SocketsOf(failed) : sock'[s] # "open"]_vars
=============================================================================
