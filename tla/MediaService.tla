----------------------------- MODULE MediaService -----------------------------
(***************************************************************************)
(* The media service of the CueCommX server: one peer per session with its *)
(* transports and producer, one consumer for every talker a session should *)
(* hear, and the notices that tell a client which consumers it has.        *)
(*                                                                         *)
(* The service runs one operation at a time (serialize); an operation that *)
(* waits for its turn is still on its way here.  MediaClient composes it   *)
(* with the controllers of the clients.                                    *)
(***************************************************************************)
EXTENDS Naturals, Sequences, FiniteSets

CONSTANTS
  Users,      \* one session each
  Channels,
  Listens,    \* the channels each user listens to
  MaxTalks,   \* bound: talk changes of each user
  MaxDeaths   \* bound: deaths of the media worker

ASSUME MediaServiceAssumption ==
  /\ IsFiniteSet(Users) /\ Listens \in [Users -> SUBSET Channels]
  /\ MaxTalks \in [Users -> Nat] /\ MaxDeaths \in Nat

VARIABLES
  link,     \* websocket: "down", "open", "attached", or "closing" by the server
  up,       \* requests on their way to the service, media operations included
  down,     \* answers and notices on their way to the client
  session,  \* whether the coordination has a session of the user
  talk,     \* channels the user talks on, as the coordination knows it
  owed,     \* users whose state change has not reached the media service
  worker,   \* whether there is a media worker
  peer,     \* sessions: what the service knows of a user, NoPeer without one
  heard,    \* consumersByProducerSession: what a listener hears of a talker
  made,     \* ids given out for the objects of each user
  talks, deaths   \* counters for the bounds

wires   == <<link, up, down>>
routing == <<worker, peer, heard, made>>
serverVars == <<wires, session, talk, owed, routing, talks, deaths>>

NoPeer == [known |-> FALSE, talk |-> {}, send |-> 0, recv |-> 0, producer |-> 0]
NoConsumer == [id |-> 0, on |-> {}, paused |-> TRUE]

ServerInit ==
  /\ link = [u \in Users |-> "down"]
  /\ up = [u \in Users |-> <<>>] /\ down = [u \in Users |-> <<>>]
  /\ session = [u \in Users |-> FALSE]
  /\ talk = [u \in Users |-> {}] /\ owed = {}
  /\ worker = TRUE
  /\ peer = [u \in Users |-> NoPeer]
  /\ heard = [l \in Users |-> [p \in Users |-> NoConsumer]]
  /\ made = [u \in Users |-> 0]
  /\ talks = [u \in Users |-> 0] /\ deaths = 0

-----------------------------------------------------------------------------
(* Routes and consumers *)

\* buildDesiredMediaRoutes: the channels on which listener l should hear p.
Desired(P, l, p) ==
  IF l # p /\ P[l].known /\ P[p].known /\ P[p].producer # 0 /\ P[l].recv # 0
  THEN P[p].talk \cap Listens[l] ELSE {}

Exists(consumer) == consumer.on # {}

\* upsertSession with the state of the coordination at that time
Upserted(P, u) == [P EXCEPT ![u].known = TRUE, ![u].talk = talk[u]]

\* Closing a producer closes its consumers, closing a receive transport those
\* of its session; neither tells the listeners.
Unheard(H, u) == [l \in Users |-> [H[l] EXCEPT ![u] = NoConsumer]]
Deaf(H, u) == [H EXCEPT ![u] = [p \in Users |-> NoConsumer]]

\* Slip: consumers of routes that are gone stay.
ReconciledKeeping(P, H, M) ==
  [l \in Users |-> [p \in Users |->
    IF Exists(H[l][p])
    THEN [H[l][p] EXCEPT !.on = IF Desired(P, l, p) = {} THEN @ ELSE Desired(P, l, p)]
    ELSE IF Desired(P, l, p) = {} THEN NoConsumer
    ELSE [id |-> M[l] + 1, on |-> Desired(P, l, p), paused |-> TRUE]]]

\* reconcileConsumers: the consumers afterwards.  New ones start paused.
Reconciled(P, H, M) ==
  [l \in Users |-> [p \in Users |->
    IF Desired(P, l, p) = {} THEN NoConsumer
    ELSE IF Exists(H[l][p]) THEN [H[l][p] EXCEPT !.on = Desired(P, l, p)]
    ELSE [id |-> M[l] + 1, on |-> Desired(P, l, p), paused |-> TRUE]]]

Notice(kind, p, consumer) ==
  [kind |-> kind, from |-> p, id |-> consumer.id, on |-> consumer.on]

\* The notices of a reconcile to listener l, one for each talker that changed.
NoticesTo(l, before, after) ==
  {Notice("closed", p, before[l][p]) :
     p \in {q \in Users : Exists(before[l][q]) /\ ~Exists(after[l][q])}}
  \cup {Notice("state", p, after[l][p]) :
     p \in {q \in Users : /\ Exists(before[l][q]) /\ Exists(after[l][q])
                          /\ before[l][q].on # after[l][q].on}}
  \cup {Notice("available", p, after[l][p]) :
     p \in {q \in Users : ~Exists(before[l][q]) /\ Exists(after[l][q])}}

\* Changes of old consumers are told before new consumers.
InOrder(notices) ==
  CHOOSE q \in [1..Cardinality(notices) -> notices] :
    /\ {q[i] : i \in DOMAIN q} = notices
    /\ \A i, j \in DOMAIN q : q[i].kind = "available" /\ i < j => q[j].kind = "available"

\* sendMessage: only open sockets of authenticated connections get messages.
Sent(D, messages) ==
  [u \in Users |-> IF link[u] = "attached" THEN D[u] \o messages[u] ELSE D[u]]

\* The service reconciles from the peers P and consumers H, having made M.
Reconcile(P, H, M, answers) ==
  LET after == Reconciled(P, H, M)
      isNew(l) == \E p \in Users : Exists(after[l][p]) /\ after[l][p].id > M[l]
  IN /\ peer' = P /\ heard' = after
     /\ made' = [u \in Users |-> IF isNew(u) THEN M[u] + 1 ELSE M[u]]
     /\ down' = Sent(down, [u \in Users |-> answers[u] \o InOrder(NoticesTo(u, H, after))])

-----------------------------------------------------------------------------
(* Requests of the clients *)

Request(kind, id) == [kind |-> kind, id |-> id, live |-> TRUE]
Answer(request, id, ok) ==
  [kind |-> "answer", to |-> request.kind, id |-> id, ok |-> ok, live |-> request.live]

Silence == [u \in Users |-> <<>>]
To(u, message) == [Silence EXCEPT ![u] = <<message>>]

\* The service takes the next request of u, of one of the given kinds.
Takes(u, kinds) ==
  /\ link[u] = "attached" /\ worker
  /\ up[u] # <<>> /\ Head(up[u]).kind \in kinds
  /\ up' = [up EXCEPT ![u] = Tail(@)]
  /\ UNCHANGED <<link, session, talk, owed, worker, talks, deaths>>

Refusal(u) == Answer(Head(up[u]), 0, FALSE)

\* createMediaCapabilitiesResponse; only this request knows no peer.
ServeCapabilities(u) ==
  /\ Takes(u, {"capabilities"})
  /\ down' = Sent(down, To(u, Answer(Head(up[u]), 0, TRUE)))
  /\ UNCHANGED <<peer, heard, made>>

\* handleTransportCreate replaces the transport of that direction, and with it
\* the producer or the consumers.  Nothing is reconciled.
ServeTransport(u) ==
  LET id == made[u] + 1
      P == Upserted(peer, u)
      sending == Head(up[u]).kind = "send"
  IN /\ Takes(u, {"send", "recv"})
     /\ peer' = IF sending THEN [P EXCEPT ![u].send = id, ![u].producer = 0]
                           ELSE [P EXCEPT ![u].recv = id]
     /\ heard' = IF sending THEN Unheard(heard, u) ELSE Deaf(heard, u)
     /\ made' = [made EXCEPT ![u] = id]
     /\ down' = Sent(down, To(u, Answer(Head(up[u]), id, TRUE)))

\* handleTransportConnect of the receive transport
ServeConnect(u) ==
  LET P == Upserted(peer, u) IN
  /\ Takes(u, {"connect"})
  /\ IF Head(up[u]).id = peer[u].recv /\ peer[u].recv # 0
     THEN Reconcile(P, heard, made, To(u, Answer(Head(up[u]), Head(up[u]).id, TRUE)))
     ELSE /\ peer' = P /\ down' = Sent(down, To(u, Refusal(u)))
          /\ UNCHANGED <<heard, made>>

\* handleProducerCreate, with the connect of the send transport before it that
\* changes nothing here.  A producer that is replaced closes its consumers.
ServeProducer(u) ==
  LET P == Upserted(peer, u)
      id == made[u] + 1
  IN /\ Takes(u, {"produce"})
     /\ IF Head(up[u]).id = peer[u].send /\ peer[u].send # 0
        THEN Reconcile([P EXCEPT ![u].producer = id], Unheard(heard, u),
                       [made EXCEPT ![u] = id], To(u, Answer(Head(up[u]), id, TRUE)))
        ELSE /\ peer' = P /\ down' = Sent(down, To(u, Refusal(u)))
             /\ UNCHANGED <<heard, made>>

\* handleConsumerResume
ServeResume(u) ==
  LET r == Head(up[u])
      found == {p \in Users : Exists(heard[u][p]) /\ p = r.from /\ heard[u][p].id = r.id}
  IN /\ Takes(u, {"resume"})
     /\ peer' = Upserted(peer, u)
     /\ heard' = [heard EXCEPT ![u] = [p \in Users |->
                    IF p \in found THEN [@[p] EXCEPT !.paused = FALSE] ELSE @[p]]]
     /\ down' = Sent(down, To(u, Answer(r, r.id, found # {})))
     /\ UNCHANGED made

\* ensureReady throws while there is no worker: the request is answered with an
\* error.
ServeWithoutWorker(u) ==
  /\ ~worker /\ link[u] = "attached" /\ up[u] # <<>>
  /\ up' = [up EXCEPT ![u] = Tail(@)]
  /\ down' = Sent(down, To(u, Refusal(u)))
  /\ UNCHANGED <<link, session, talk, owed, routing, talks, deaths>>

\* A request that arrives before the session is attached is refused without its
\* request id, so that the client goes on waiting.
RefuseEarly(u) ==
  /\ link[u] = "open" /\ up[u] # <<>>
  /\ up' = [up EXCEPT ![u] = Tail(@)]
  /\ UNCHANGED <<link, down, session, talk, owed, routing, talks, deaths>>

-----------------------------------------------------------------------------
(* Operations of the coordination *)

\* The server closes the socket of u: nothing of it is served or sent any more.
Hung(u) ==
  /\ link' = [link EXCEPT ![u] = "closing"]
  /\ up' = [up EXCEPT ![u] = <<>>]
  /\ down' = [down EXCEPT ![u] = <<>>]

\* A client authenticates.  The session of an earlier connection that has not
\* been detached yet is taken over as it is (registerSession is skipped).
Attach(u) ==
  /\ link[u] = "open"
  /\ session' = [session EXCEPT ![u] = TRUE]
  /\ IF session[u] \/ worker
     THEN link' = [link EXCEPT ![u] = "attached"] /\ UNCHANGED <<up, down>>
     ELSE Hung(u)
  /\ peer' = IF ~session[u] /\ worker THEN Upserted(peer, u) ELSE peer
  /\ UNCHANGED <<talk, owed, worker, heard, made, talks, deaths>>

\* The operator or somebody else changes what u talks on.
Talk(u, cs) ==
  /\ link[u] = "attached" /\ talks[u] < MaxTalks[u] /\ cs # talk[u]
  /\ talk' = [talk EXCEPT ![u] = cs]
  /\ owed' = owed \cup {u}
  /\ talks' = [talks EXCEPT ![u] = @ + 1]
  /\ UNCHANGED <<wires, session, routing, deaths>>

\* updateOperatorState; a failure closes the sockets of the session.
Update(u) ==
  /\ u \in owed
  /\ owed' = owed \ {u}
  /\ IF worker
     THEN Reconcile(Upserted(peer, u), heard, made, Silence) /\ UNCHANGED <<link, up>>
     ELSE /\ IF link[u] = "attached" THEN Hung(u) ELSE UNCHANGED wires
          /\ UNCHANGED <<peer, heard, made>>
  /\ UNCHANGED <<session, talk, worker, talks, deaths>>

\* The last connection of u is cleaned up: its session ends and unregisterSession
\* closes what it had.
Detach(u) ==
  /\ session[u] /\ link[u] # "attached"
  /\ session' = [session EXCEPT ![u] = FALSE]
  /\ talk' = [talk EXCEPT ![u] = {}]
  /\ owed' = owed \ {u}
  /\ IF peer[u].known /\ worker
     THEN Reconcile([peer EXCEPT ![u] = NoPeer], heard, made, Silence)
     ELSE UNCHANGED <<peer, heard, made, down>>
  /\ UNCHANGED <<link, up, worker, talks, deaths>>

-----------------------------------------------------------------------------
(* Death of the media worker *)

\* handleWorkerDied forgets all peers, then disconnects everybody and only then
\* starts another worker.
WorkerDies ==
  /\ worker /\ deaths < MaxDeaths
  /\ worker' = FALSE /\ deaths' = deaths + 1
  /\ peer' = [u \in Users |-> NoPeer]
  /\ heard' = [l \in Users |-> [p \in Users |-> NoConsumer]]
  /\ UNCHANGED <<wires, session, talk, owed, made, talks>>

\* disconnectAllUsers
Evict(u) ==
  /\ ~worker /\ link[u] = "attached"
  /\ Hung(u)
  /\ UNCHANGED <<session, talk, owed, routing, talks, deaths>>

WorkerRestarts ==
  /\ ~worker /\ \A u \in Users : link[u] # "attached"
  /\ worker' = TRUE
  /\ UNCHANGED <<wires, session, talk, owed, peer, heard, made, talks, deaths>>

ServerStep(u) ==
  \/ ServeCapabilities(u) \/ ServeTransport(u) \/ ServeConnect(u)
  \/ ServeProducer(u) \/ ServeResume(u) \/ ServeWithoutWorker(u) \/ RefuseEarly(u)
  \/ Attach(u) \/ Update(u) \/ Detach(u) \/ Evict(u)

ServerNext ==
  \/ \E u \in Users : ServerStep(u) \/ \E cs \in SUBSET Channels : Talk(u, cs)
  \/ WorkerDies \/ WorkerRestarts

-----------------------------------------------------------------------------
(* Properties *)

\* When every state change has reached the media service, a listener has exactly
\* the consumers of its desired routes: none of a talker it should no longer
\* hear, on none but the channels of the route, and, once its own audio is up,
\* none missing.
SettledRoutes ==
  worker /\ owed = {} =>
    \A l, p \in Users :
      LET want == IF peer[l].known /\ peer[p].known /\ peer[p].producer # 0
                     /\ peer[l].recv # 0 /\ l # p
                  THEN talk[p] \cap Listens[l] ELSE {}
      IN IF peer[l].producer # 0 THEN heard[l][p].on = want ELSE heard[l][p].on \subseteq want
=============================================================================
