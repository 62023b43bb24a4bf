------------------------------ MODULE MediaClient ------------------------------
(***************************************************************************)
(* The media controllers of the web client and the mobile app, the part of *)
(* their screens that arms, restores and disarms audio, and their requests *)
(* over a websocket that may go away at any time.  Composed with           *)
(* MediaService.                                                           *)
(*                                                                         *)
(* The effect that follows a change of the link or of audioArmed runs      *)
(* before the next event and is part of the action that causes it.  The    *)
(* limit of 15 seconds on a mobile start, input levels and quality reports *)
(* are left out.                                                           *)
(***************************************************************************)
EXTENDS MediaService

CONSTANTS
  Mobile,      \* the users of the mobile app; the others use the web client
  MaxStarts,   \* bound: starts of audio of each user
  MaxLinks,    \* bound: connections of each user
  Slow         \* whether a request of a start may time out although the server
               \* handles it

ASSUME MediaClientAssumption ==
  /\ Mobile \subseteq Users /\ Slow \in BOOLEAN
  /\ MaxStarts \in [Users -> Nat] /\ MaxLinks \in [Users -> Nat]

VARIABLES
  ctl,      \* armed and ready of the screen; what the controller holds, and the
            \* connection on which it made its transports (history)
  job,      \* the start under way: where it is, who began it, its send transport
  pend,     \* pendingConsumers
  opening,  \* consumers whose recvTransport.consume is under way
  playing,  \* remoteConsumers
  dtls,     \* receive transport: "new", "asked" or "up"
  err,      \* audioError
  starts, joins   \* counters for the bounds

hearing == <<pend, opening, playing, dtls>>
clientVars == <<ctl, job, hearing, err, starts, joins>>
vars == <<serverVars, clientVars>>

NoAudio == [armed |-> FALSE, ready |-> FALSE, mic |-> FALSE, device |-> "none",
            send |-> 0, recv |-> 0, producer |-> 0, since |-> 0]
Idle == [at |-> "idle", by |-> "effect", send |-> 0]

Init ==
  /\ ServerInit
  /\ ctl = [u \in Users |-> NoAudio]
  /\ job = [u \in Users |-> Idle]
  /\ pend = [u \in Users |-> {}] /\ opening = [u \in Users |-> {}]
  /\ playing = [u \in Users |-> {}]
  /\ dtls = [u \in Users |-> "new"]
  /\ err = [u \in Users |-> FALSE]
  /\ starts = [u \in Users |-> 0] /\ joins = [u \in Users |-> 0]

Requests == {"capabilities", "send", "recv", "produce"}
Waiting(u) == job[u].at \in Requests
Connected(u) == link[u] # "down"    \* realtimeState of the screen

-----------------------------------------------------------------------------
(* The controller *)

\* Slip: the receive transport stays.
ResetSending(c) == [c EXCEPT !.send = 0, !.producer = 0]

\* resetConnection
Reset(c) == [c EXCEPT !.send = 0, !.recv = 0, !.producer = 0]

\* The next stage of start for controller c: a device is made once, both
\* transports are made when one is missing.
StageAfter(c) ==
  IF ~c.mic THEN "capture"
  ELSE IF c.device = "none" THEN "capabilities"
  ELSE IF c.send = 0 \/ c.recv = 0 THEN "send"
  ELSE IF c.producer = 0 THEN "produce" ELSE "drain"

Asked(u, kind, id) == up' = [up EXCEPT ![u] = Append(@, Request(kind, id))]

\* recvTransport.consume connects the transport first.
AsksDtls(u, records) == records # {} /\ dtls[u] = "new"

\* The job of u goes on with controller c at the next stage.  On "drain" the
\* pending consumers are opened.
Proceed(u, c, j) ==
  LET at == StageAfter(c)
      \* Device.factory comes before the request for its capabilities.
      d == IF at = "capabilities" THEN [c EXCEPT !.device = "new"] ELSE c
  IN /\ ctl' = [ctl EXCEPT ![u] = d]
     /\ job' = [job EXCEPT ![u] = [j EXCEPT !.at = at]]
     /\ CASE at \in {"capabilities", "send"} -> Asked(u, at, 0) /\ UNCHANGED hearing
          [] at = "produce" -> Asked(u, at, c.send) /\ UNCHANGED hearing
          [] at = "capture" -> UNCHANGED <<up, hearing>>
          [] at = "drain" ->
               /\ opening' = [opening EXCEPT ![u] = @ \cup pend[u]]
               /\ pend' = [pend EXCEPT ![u] = {}]
               /\ IF AsksDtls(u, pend[u])
                  THEN dtls' = [dtls EXCEPT ![u] = "asked"] /\ Asked(u, "connect", c.recv)
                  ELSE UNCHANGED <<dtls, up>>
               /\ UNCHANGED playing

Begin(u, c, by) ==
  /\ Proceed(u, c, [Idle EXCEPT !.by = by])
  /\ starts' = [starts EXCEPT ![u] = @ + 1]

\* Both catch handlers of start
Fail(u) ==
  /\ job' = [job EXCEPT ![u] = Idle]
  /\ ctl' = [ctl EXCEPT ![u].ready = FALSE]
  /\ err' = [err EXCEPT ![u] = TRUE]

\* Slip: a late answer counts for the request of the same kind that waits.
ForgottenNothing(q, kinds) == q

\* Answers to requests of these kinds are of no use any more.
Forgotten(q, kinds) == [i \in DOMAIN q |->
  IF q[i].kind \in kinds \/ (q[i].kind = "answer" /\ q[i].to \in kinds)
  THEN [q[i] EXCEPT !.live = FALSE] ELSE q[i]]

-----------------------------------------------------------------------------
(* The operator *)

\* handleArmAudio.  The web client starts at once; on the mobile app the effect
\* does when audioArmed changes, and nothing happens when it was set before.
Arm(u) ==
  /\ Connected(u) /\ ~ctl[u].ready /\ job[u] = Idle /\ starts[u] < MaxStarts[u]
  /\ IF u \notin Mobile
     THEN Begin(u, ctl[u], "arm") /\ UNCHANGED err
     ELSE /\ err' = [err EXCEPT ![u] = FALSE]
          /\ IF ctl[u].armed
             THEN /\ starts' = [starts EXCEPT ![u] = @ + 1]
                  /\ UNCHANGED <<ctl, job, hearing, up>>
             ELSE Begin(u, [ctl[u] EXCEPT !.armed = TRUE], "effect")
  /\ UNCHANGED <<link, down, session, talk, owed, routing, talks, deaths, joins>>

\* The browser grants the microphone, or there is none.
Captured(u) ==
  /\ job[u].at = "capture"
  /\ IF Connected(u)
     THEN Proceed(u, [ctl[u] EXCEPT !.mic = TRUE], job[u]) /\ UNCHANGED err
     ELSE /\ job' = [job EXCEPT ![u] = Idle]
          /\ ctl' = [ctl EXCEPT ![u].mic = TRUE,
                       ![u].device = IF @ = "none" THEN "new" ELSE @]
          /\ err' = [err EXCEPT ![u] = TRUE]
          /\ UNCHANGED <<hearing, up>>
  /\ UNCHANGED <<link, down, session, talk, owed, routing, talks, deaths, starts, joins>>

CaptureDenied(u) ==
  /\ job[u].at = "capture" /\ Fail(u)
  /\ UNCHANGED <<serverVars, hearing, starts, joins>>

\* handleDisarmAudio: close() tells the server nothing, and fails the consumers
\* that are being opened.
Disarm(u) ==
  /\ ctl[u].ready /\ job[u] = Idle
  /\ ctl' = [ctl EXCEPT ![u] = NoAudio]
  /\ err' = [err EXCEPT ![u] = @ \/ opening[u] # {}]
  /\ pend' = [pend EXCEPT ![u] = {}] /\ opening' = [opening EXCEPT ![u] = {}]
  /\ playing' = [playing EXCEPT ![u] = {}] /\ dtls' = [dtls EXCEPT ![u] = "new"]
  /\ up' = [up EXCEPT ![u] = Forgotten(@, Requests \cup {"connect"})]
  /\ down' = [down EXCEPT ![u] = Forgotten(@, Requests \cup {"connect"})]
  /\ UNCHANGED <<link, session, talk, owed, routing, talks, deaths, job, starts, joins>>

-----------------------------------------------------------------------------
(* The link *)

\* The socket opens: the client authenticates, and the effect starts audio that
\* is armed.
Connect(u) ==
  /\ link[u] = "down" /\ joins[u] < MaxLinks[u]
  /\ link' = [link EXCEPT ![u] = "open"]
  /\ joins' = [joins EXCEPT ![u] = @ + 1]
  /\ IF ctl[u].armed /\ job[u] = Idle
     THEN Begin(u, ctl[u], "effect")
     ELSE UNCHANGED <<ctl, job, hearing, up, starts>>
  /\ UNCHANGED <<down, session, talk, owed, routing, talks, deaths, err>>

\* Slip: audio that is armed survives a lost link.
DropKeepingMedia(u) ==
  /\ Connected(u)
  /\ link' = [link EXCEPT ![u] = "down"]
  /\ up' = [up EXCEPT ![u] = <<>>] /\ down' = [down EXCEPT ![u] = <<>>]
  /\ job' = [job EXCEPT ![u] = IF @.at = "capture" THEN @ ELSE Idle]
  /\ UNCHANGED <<session, talk, owed, routing, talks, deaths, ctl, err, hearing, starts, joins>>

\* The socket closes.  A request under way is rejected and fails the job; failed
\* consumers do not fail it, so that a job in its last stage succeeds.  Then the
\* effect resets what was armed; audio that is not armed yet is left as it is.
Drop(u) ==
  LET atLast == job[u].at = "drain"
      armed == ctl[u].armed \/ (atLast /\ job[u].by = "arm")
      c == [ctl[u] EXCEPT !.armed = armed, !.ready = FALSE]
  IN /\ Connected(u)
     /\ link' = [link EXCEPT ![u] = "down"]
     /\ up' = [up EXCEPT ![u] = <<>>] /\ down' = [down EXCEPT ![u] = <<>>]
     /\ ctl' = [ctl EXCEPT ![u] = IF armed THEN Reset(c) ELSE c]
     /\ job' = [job EXCEPT ![u] = IF @.at = "capture" THEN @ ELSE Idle]
     /\ err' = [err EXCEPT ![u] = (@ /\ ~atLast) \/ Waiting(u) \/ (opening[u] # {} /\ ~atLast)]
     /\ opening' = [opening EXCEPT ![u] = {}]
     /\ pend' = [pend EXCEPT ![u] = IF armed THEN {} ELSE @]
     /\ playing' = [playing EXCEPT ![u] = IF armed THEN {} ELSE @]
     /\ dtls' = [dtls EXCEPT ![u] = IF @ = "up" /\ ~armed THEN "up" ELSE "new"]
     /\ UNCHANGED <<session, talk, owed, routing, talks, deaths, starts, joins>>

\* The server dropped the request that the job of u waits for.
Lost(u) ==
  /\ \A i \in DOMAIN up[u] : up[u][i].live => up[u][i].kind # job[u].at
  /\ \A i \in DOMAIN down[u] :
       down[u][i].kind = "answer" /\ down[u][i].live => down[u][i].to # job[u].at

\* A request is rejected after five seconds: the server lost it, or it is slow.
TimeOut(u) ==
  /\ Waiting(u) /\ Connected(u) /\ (Slow \/ Lost(u))
  /\ Fail(u)
  /\ up' = [up EXCEPT ![u] = Forgotten(@, Requests)]
  /\ down' = [down EXCEPT ![u] = Forgotten(@, Requests)]
  /\ UNCHANGED <<link, session, talk, owed, routing, talks, deaths, hearing, starts, joins>>

-----------------------------------------------------------------------------
(* Messages of the server *)

Receives(u) ==
  /\ down[u] # <<>>
  /\ down' = [down EXCEPT ![u] = Tail(@)]
  /\ UNCHANGED <<link, session, talk, owed, routing, talks, deaths, starts, joins>>

\* What an answer gives the controller: the transports are stored when both have
\* been made, which needs a device that loaded the capabilities.
Stored(u, m) ==
  CASE m.to = "capabilities" -> [ctl[u] EXCEPT !.device = "loaded"]
    [] m.to = "recv"         -> [ctl[u] EXCEPT !.send = job[u].send, !.recv = m.id,
                                               !.since = joins[u]]
    [] m.to = "produce"      -> [ctl[u] EXCEPT !.producer = m.id]
    [] OTHER                 -> ctl[u]

\* start goes on when the answer it waits for arrives.
JobAnswered(u) ==
  LET m == Head(down[u])
      c == Stored(u, m)
  IN /\ Receives(u)
     /\ m.kind = "answer" /\ m.live /\ m.to = job[u].at
     /\ IF ~m.ok \/ (m.to = "recv" /\ c.device # "loaded")
        THEN Fail(u) /\ UNCHANGED <<up, hearing>>
        ELSE IF m.to = "send"
        THEN /\ job' = [job EXCEPT ![u] = [@ EXCEPT !.at = "recv", !.send = m.id]]
             /\ Asked(u, "recv", 0) /\ UNCHANGED <<ctl, err, hearing>>
        ELSE Proceed(u, c, job[u]) /\ UNCHANGED err

\* An answer that nobody waits for
AnswerIgnored(u) ==
  /\ Receives(u)
  /\ Head(down[u]).kind = "answer" /\ ~Head(down[u]).live
  /\ UNCHANGED <<up, ctl, job, hearing, err>>

\* The receive transport is connected, or everything that waits for it fails.
DtlsAnswered(u) ==
  LET m == Head(down[u]) IN
  /\ Receives(u)
  /\ m.kind = "answer" /\ m.live /\ m.to = "connect"
  /\ dtls' = [dtls EXCEPT ![u] = IF m.ok THEN "up" ELSE "new"]
  /\ opening' = [opening EXCEPT ![u] = IF m.ok THEN @ ELSE {}]
  /\ err' = [err EXCEPT ![u] = @ \/ ~m.ok]
  /\ UNCHANGED <<up, ctl, job, pend, playing>>

ResumeAnswered(u) ==
  LET m == Head(down[u]) IN
  /\ Receives(u)
  /\ m.kind = "answer" /\ m.live /\ m.to = "resume"
  /\ err' = [err EXCEPT ![u] = @ \/ ~m.ok]
  /\ UNCHANGED <<up, ctl, job, hearing>>

\* media:consumer:available.  Without a receive transport it has to wait.
Available(u) ==
  LET m == Head(down[u])
      r == [id |-> m.id, from |-> m.from, on |-> m.on]
  IN /\ Receives(u)
     /\ m.kind = "available"
     /\ IF ctl[u].recv = 0
        THEN pend' = [pend EXCEPT ![u] = @ \cup {r}] /\ UNCHANGED <<opening, dtls, up>>
        ELSE /\ opening' = [opening EXCEPT ![u] = @ \cup {r}]
             /\ IF AsksDtls(u, {r})
                THEN dtls' = [dtls EXCEPT ![u] = "asked"] /\ Asked(u, "connect", ctl[u].recv)
                ELSE UNCHANGED <<dtls, up>>
             /\ UNCHANGED pend
     /\ UNCHANGED <<ctl, job, playing, err>>

\* Slip: a consumer that plays is not resumed.
OpenedPaused(u, r) ==
  /\ r \in opening[u] /\ dtls[u] = "up"
  /\ opening' = [opening EXCEPT ![u] = @ \ {r}]
  /\ playing' = [playing EXCEPT ![u] = @ \cup {r}]
  /\ UNCHANGED <<serverVars, ctl, job, pend, dtls, err, starts, joins>>

\* recvTransport.consume is done: the consumer plays and the server is asked to
\* resume it.
Opened(u, r) ==
  /\ r \in opening[u] /\ dtls[u] = "up"
  /\ opening' = [opening EXCEPT ![u] = @ \ {r}]
  /\ playing' = [playing EXCEPT ![u] = @ \cup {r}]
  /\ up' = [up EXCEPT ![u] = Append(@, [kind |-> "resume", id |-> r.id, from |-> r.from, live |-> TRUE])]
  /\ UNCHANGED <<link, down, session, talk, owed, routing, talks, deaths>>
  /\ UNCHANGED <<ctl, job, pend, dtls, err, starts, joins>>

\* updateRemoteConsumerState and removeRemoteConsumer know only what plays.
StateOrClosed(u) ==
  LET m == Head(down[u])
      same(r) == r.id = m.id /\ r.from = m.from
  IN /\ Receives(u)
     /\ m.kind \in {"state", "closed"}
     /\ playing' = [playing EXCEPT ![u] =
          IF m.kind = "closed" THEN {r \in @ : ~same(r)}
          ELSE {IF same(r) THEN [r EXCEPT !.on = m.on] ELSE r : r \in @}]
     /\ UNCHANGED <<up, ctl, job, pend, opening, dtls, err>>

\* start ends when the consumers that were pending have been opened.
Ready(u) ==
  /\ job[u].at = "drain" /\ opening[u] = {}
  /\ job' = [job EXCEPT ![u] = Idle]
  /\ ctl' = [ctl EXCEPT ![u].ready = TRUE, ![u].armed = TRUE]
  /\ err' = [err EXCEPT ![u] = FALSE]
  /\ UNCHANGED <<serverVars, hearing, starts, joins>>

Answered(u) ==
  \/ JobAnswered(u) \/ AnswerIgnored(u) \/ DtlsAnswered(u) \/ ResumeAnswered(u)
  \/ Available(u) \/ StateOrClosed(u)

ClientStep(u) ==
  \/ Arm(u) \/ Captured(u) \/ CaptureDenied(u) \/ Disarm(u)
  \/ Connect(u) \/ Drop(u) \/ TimeOut(u)
  \/ Answered(u) \/ Ready(u) \/ \E r \in opening[u] : Opened(u, r)

Next ==
  \/ ServerNext /\ UNCHANGED clientVars
  \/ \E u \in Users : ClientStep(u)

Spec == Init /\ [][Next]_vars

\* Every message is handled, lost requests time out, consumers open and a closed
\* socket is noticed.
Fairness ==
  \A u \in Users :
    /\ WF_vars(ServerStep(u) /\ UNCHANGED clientVars)
    /\ WF_vars(Answered(u))
    /\ WF_vars(Lost(u) /\ TimeOut(u))
    /\ WF_vars(Ready(u)) /\ WF_vars(\E r \in opening[u] : Opened(u, r))
    /\ WF_vars(link[u] = "closing" /\ Drop(u))

FairSpec == Spec /\ Fairness

-----------------------------------------------------------------------------
(* Properties *)

Heards == [id : Nat, from : Users, on : SUBSET Channels]

\* Shapes of all values: the controllers have both transports or none, and no
\* producer without them.
MediaTypeOK ==
  /\ link \in [Users -> {"down", "open", "attached", "closing"}]
  /\ session \in [Users -> BOOLEAN] /\ talk \in [Users -> SUBSET Channels]
  /\ owed \subseteq Users /\ worker \in BOOLEAN
  /\ peer \in [Users -> [known : BOOLEAN, talk : SUBSET Channels,
                         send : Nat, recv : Nat, producer : Nat]]
  /\ heard \in [Users -> [Users -> [id : Nat, on : SUBSET Channels, paused : BOOLEAN]]]
  /\ made \in [Users -> Nat]
  /\ ctl \in [Users -> [armed : BOOLEAN, ready : BOOLEAN, mic : BOOLEAN,
                        device : {"none", "new", "loaded"},
                        send : Nat, recv : Nat, producer : Nat, since : Nat]]
  /\ job \in [Users -> [at : Requests \cup {"idle", "capture", "drain"},
                        by : {"arm", "effect"}, send : Nat]]
  /\ \A u \in Users : (ctl[u].send = 0) = (ctl[u].recv = 0)
  /\ \A u \in Users : ctl[u].producer # 0 => ctl[u].send # 0
  /\ \A u \in Users : pend[u] \cup opening[u] \cup playing[u] \subseteq Heards
  /\ dtls \in [Users -> {"new", "asked", "up"}]
  /\ err \in [Users -> BOOLEAN]

\* A screen that shows audio as ready on an attached link is not mistaken: the
\* transports and the producer its controller holds are the ones the server has.
ReadyIsReal ==
  \A u \in Users :
    ctl[u].ready /\ link[u] = "attached" /\ session[u] /\ worker =>
      /\ peer[u].send = ctl[u].send /\ peer[u].recv = ctl[u].recv
      /\ peer[u].producer = ctl[u].producer /\ ctl[u].producer # 0

\* u has nothing on its way to or from the server, nor anything to do.
Quiet(u) ==
  /\ link[u] = "attached" /\ up[u] = <<>> /\ down[u] = <<>>
  /\ job[u] = Idle /\ opening[u] = {} /\ pend[u] = {}
  /\ worker /\ owed = {}

\* Listener l hears every talker that the server routes to it.
HearsRouted(l) ==
  \A p \in Users : Exists(heard[l][p]) =>
    /\ ~heard[l][p].paused
    /\ \E r \in playing[l] : r.from = p /\ r.id = heard[l][p].id

\* With audio ready and nothing under way, every talker the server routes to a
\* listener is heard and is not paused, on the connection on which the listener
\* made its transports; a reconnection of armed audio makes them again.
RoutedAreHeard ==
  \A l \in Users : Quiet(l) /\ ctl[l].ready /\ ctl[l].since = joins[l] => HearsRouted(l)

\* On any connection a listener that misses a talker is shown an error.  The web
\* client keeps the transports of a start that the link cut off; when it is back
\* before the server noticed, it misses what it was told meanwhile.
SilentOnlyWithError ==
  \A l \in Users : Quiet(l) /\ ctl[l].ready /\ ~err[l] => HearsRouted(l)

\* What the active-talker display shows and ducking acts on is what the server
\* routes: no talker whose consumer is gone, and on the channels of the route.
TalkersShown ==
  \A l \in Users : Quiet(l) /\ ctl[l].ready =>
    \A r \in playing[l] :
      heard[l][r.from].id = r.id /\ heard[l][r.from].on = r.on

\* Audio that was armed is restored when the link is, unless the link fails again.
AudioRestored ==
  \A u \in Users :
    ctl[u].armed /\ ctl[u].mic /\ link[u] = "open" ~>
      ctl[u].ready \/ link[u] \notin {"open", "attached"}
=============================================================================
