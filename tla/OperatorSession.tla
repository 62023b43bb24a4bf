--------------------------- MODULE OperatorSession ---------------------------
(***************************************************************************)
(* The server as one operator meets it over the sockets of RealtimeClient: *)
(* the operator's session, the all-page and the direct call it takes part  *)
(* in, and what the server sends of them.  Coordination has the whole      *)
(* server and no messages; here commands and answers take time.  The       *)
(* operator may talk and listen on every channel and may page, and the     *)
(* other people of the intercom act at any time.                           *)
(***************************************************************************)
EXTENDS RealtimeClient

CONSTANTS
  Channels,
  MaxEvents   \* bound: operations, and what other people and the network do

ASSUME OperatorSessionAssumption == MaxEvents \in Nat

VARIABLES
  srv,      \* login -> its session in the server
  page,     \* who pages: 0 for nobody, a login, or Other
  call,     \* the direct call of the operator
  calls, events,   \* counters: ids of calls, and the bound
  paged     \* whether someone else has paged (history)

serverState == <<srv, page, call, calls>>
sessionVars == <<serverState, events, paged>>

Other == MaxLogins + 1
NoSession == [talk |-> {}, listen |-> {}, kept |-> {}, saved |-> {}]
NoCall == [id |-> 0, by |-> 0, phase |-> "none", mine |-> FALSE]

SessionInit ==
  /\ srv = [k \in Logins |-> NoSession] /\ page = 0 /\ call = NoCall
  /\ calls = 0 /\ events = 0 /\ paged = FALSE

Attached == {k \in Logins : ServerSockets(k) # {}}

-----------------------------------------------------------------------------
(* What the server sends *)

State(x) == [kind |-> "state", talk |-> x.talk, listen |-> x.listen]
Notice(p) ==
  [kind |-> "page", who |-> IF p = 0 THEN "none" ELSE IF p = Other THEN "other" ELSE "me"]
Ended == [kind |-> "ended"]

\* Every socket of a session k of K gets the messages Msgs(k); they are lost on
\* a socket that its client has given up.
Told(K, Msgs(_)) == [s \in Sockets |->
  IF wire[s].by \in K /\ wire[s].server = "up" /\ wire[s].client = "open"
  THEN down[s] \o Msgs(wire[s].by) ELSE down[s]]

Line(k, m) == down' = Told({k}, LAMBDA j : <<m>>)

\* Session k gets the state x and is told.
Changed(k, x) == srv' = [srv EXCEPT ![k] = x] /\ Line(k, State(x))

-----------------------------------------------------------------------------
(* All-page *)

\* The others are muted, which they are told, and then hear everything, which
\* they are not.
PageStarts(p) ==
  LET now == [k \in Logins |->
        IF k \notin Attached THEN srv[k]
        ELSE IF k = p THEN [srv[k] EXCEPT !.talk = Channels]
        ELSE [srv[k] EXCEPT !.talk = {}, !.listen = Channels, !.saved = {srv[k].listen}]]
      Msgs(k) == (IF srv[k].talk # now[k].talk THEN <<State([talk |-> now[k].talk, listen |-> srv[k].listen])>>
                                                ELSE <<>>) \o <<Notice(p)>>
  IN page' = p /\ srv' = now /\ down' = Told(Attached, Msgs)

Kept(L, default) == IF L = {} THEN default ELSE CHOOSE S \in L : TRUE

\* Sessions and messages when the page ends; the sessions of K stay.
AfterPage(K) ==
  LET now == [k \in Logins |->
        IF k \notin K THEN srv[k]
        ELSE IF k = page THEN [srv[k] EXCEPT !.talk = {}]
        ELSE [srv[k] EXCEPT !.listen = Kept(srv[k].saved, @), !.saved = {}]]
      Msgs(k) == <<State(now[k]), Notice(0)>>
  IN [srv |-> now, down |-> Told(K, Msgs)]

PageStops ==
  page' = 0 /\ srv' = AfterPage(Attached).srv /\ down' = AfterPage(Attached).down

-----------------------------------------------------------------------------
(* The operator's session *)

\* Slip: a connection that joins its session again is told nothing of it.
AuthenticatedQuietly(s, k) ==
  /\ k \in valid
  /\ wire' = [wire EXCEPT ![s].server = "up"]
  /\ srv' = [srv EXCEPT ![k] = IF k \in Attached THEN @
                ELSE [NoSession EXCEPT !.listen = Kept(srv[k].kept, Channels)]]
  /\ down' = IF k \in Attached THEN down ELSE [down EXCEPT ![s] = Append(@, State(srv'[k]))]
  /\ UNCHANGED <<page, call, calls>>

\* A socket authenticates.  The first of a session attaches it with the listen
\* selection kept from a drop; another one is told the state there is.  An
\* all-page under way is told, a direct call is not.
Authenticated(s, k) ==
  IF k \notin valid THEN UNCHANGED <<wire, serverState, down>>
  ELSE LET x == IF k \in Attached THEN srv[k]
                ELSE [NoSession EXCEPT !.listen = Kept(srv[k].kept, Channels)]
       IN /\ wire' = [wire EXCEPT ![s].server = "up"]
          /\ srv' = [srv EXCEPT ![k] = x]
          /\ down' = IF wire[s].client # "open" THEN down
                     ELSE [down EXCEPT ![s] = @ \o <<State(x)>>
                             \o (IF page = 0 THEN <<>> ELSE <<Notice(page)>>)]
          /\ UNCHANGED <<page, call, calls>>

\* The last socket of session k is gone.
Detached(k, kept) ==
  /\ srv' = [(IF page = k THEN AfterPage(Attached \ {k}).srv ELSE srv)
               EXCEPT ![k] = [NoSession EXCEPT !.kept = kept]]
  /\ down' = IF page = k THEN AfterPage(Attached \ {k}).down ELSE down
  /\ page' = IF page = k THEN 0 ELSE page
  /\ call' = IF call.by = k THEN NoCall ELSE call
  /\ UNCHANGED calls

\* Commands of session k; one that the server rejects changes nothing.
TalkCommand(k, m) ==
  /\ IF m.on /\ page \notin {0, k} THEN UNCHANGED <<srv, down>>
     ELSE Changed(k, [srv[k] EXCEPT !.talk = IF m.on THEN @ \cup m.of ELSE @ \ m.of])
  /\ UNCHANGED <<page, call, calls>>

ListenCommand(k, m) ==
  /\ Changed(k, [srv[k] EXCEPT !.listen = IF m.on THEN @ \cup m.of ELSE @ \ m.of])
  /\ UNCHANGED <<page, call, calls>>

PageCommand(k, m) ==
  /\ CASE m.on /\ page = 0 -> PageStarts(k)
       [] ~m.on /\ page = k -> PageStops
       [] OTHER -> UNCHANGED <<srv, page, down>>
  /\ UNCHANGED <<call, calls>>

\* request: the target may be gone or in a call of its own.
CallCommand(k) ==
  /\ \/ call.by = k /\ UNCHANGED <<call, calls, down>>
     \/ call.by # k /\ Line(k, Ended) /\ UNCHANGED <<call, calls>>
     \/ /\ call = NoCall
        /\ calls' = calls + 1
        /\ call' = [id |-> calls + 1, by |-> k, phase |-> "ringing", mine |-> TRUE]
        /\ UNCHANGED down
  /\ UNCHANGED <<srv, page>>

\* accept, reject and end
AnswerCommand(k, m) ==
  LET mine == call.id = m.id /\ call.by = k
      rings == mine /\ call.phase = "ringing" /\ ~call.mine
  IN /\ CASE m.kind = "accept" /\ rings ->
               call' = [call EXCEPT !.phase = "active"] /\ Line(k, [kind |-> "active", id |-> m.id])
          [] (m.kind = "reject" /\ rings) \/ (m.kind = "end" /\ mine) ->
               call' = NoCall /\ Line(k, Ended)
          [] OTHER -> UNCHANGED <<call, down>>
     /\ UNCHANGED <<srv, page, calls>>

Command(k, m) ==
  CASE m.kind = "talk" -> TalkCommand(k, m)
    [] m.kind = "listen" -> ListenCommand(k, m)
    [] m.kind = "page" -> PageCommand(k, m)
    [] m.kind = "call" -> CallCommand(k)
    [] m.kind \in {"accept", "reject", "end"} -> AnswerCommand(k, m)

Read(s) ==
  /\ wire[s].server \in {"new", "up"} /\ up[s] # <<>>
  /\ up' = [up EXCEPT ![s] = Tail(@)]
  /\ IF Head(up[s]).kind = "authenticate" THEN Authenticated(s, wire[s].by)
     ELSE /\ IF wire[s].server = "up" THEN Command(wire[s].by, Head(up[s]))
             ELSE UNCHANGED <<serverState, down>>
          /\ UNCHANGED wire
  /\ UNCHANGED <<device, login, leaving, valid, client, events, paged>>

\* The server takes a socket for closed: after what was sent when the client
\* closed it, at any time when the network or a heartbeat failed.
SocketEnds(s) ==
  LET k == wire[s].by IN
  /\ wire[s].server \in {"new", "up"}
  /\ wire[s].client = "left" => up[s] = <<>>
  /\ wire[s].client \in {"opening", "open"} => events < MaxEvents
  /\ events' = IF wire[s].client \in {"opening", "open"} THEN events + 1 ELSE events
  /\ wire' = ServerEnds({s})
  /\ up' = UpOf({s})
  /\ IF ServerSockets(k) = {s} THEN Detached(k, {srv[k].listen})
     ELSE UNCHANGED <<serverState, down>>
  /\ UNCHANGED <<device, login, leaving, valid, client, paged>>

-----------------------------------------------------------------------------
(* Other people *)

Happens ==
  /\ events < MaxEvents /\ events' = events + 1
  /\ UNCHANGED <<device, login, leaving, valid, client, wire, up>>

OtherPages ==
  Happens /\ page = 0 /\ PageStarts(Other) /\ paged' = TRUE /\ UNCHANGED <<call, calls>>

OtherPageEnds ==
  Happens /\ page = Other /\ PageStops /\ UNCHANGED <<call, calls, paged>>

\* An admin mutes the operator.
Muted(k) ==
  /\ Happens
  /\ k \in Attached /\ srv[k].talk # {} /\ Changed(k, [srv[k] EXCEPT !.talk = {}])
  /\ UNCHANGED <<page, call, calls, paged>>

PeerCalls(k) ==
  /\ Happens
  /\ k \in Attached /\ call = NoCall
  /\ calls' = calls + 1
  /\ call' = [id |-> calls + 1, by |-> k, phase |-> "ringing", mine |-> FALSE]
  /\ Line(k, [kind |-> "incoming", id |-> calls + 1])
  /\ UNCHANGED <<srv, page, paged>>

PeerAccepts ==
  /\ Happens
  /\ call.phase = "ringing" /\ call.mine
  /\ call' = [call EXCEPT !.phase = "active"]
  /\ Line(call.by, [kind |-> "active", id |-> call.id])
  /\ UNCHANGED <<srv, page, calls, paged>>

\* The peer hangs up or rejects, or nobody answers for 30 seconds.
PeerEnds ==
  /\ Happens
  /\ call # NoCall /\ call' = NoCall /\ Line(call.by, Ended)
  /\ UNCHANGED <<srv, page, calls, paged>>

OtherPeople ==
  OtherPages \/ OtherPageEnds \/ PeerAccepts \/ PeerEnds
  \/ \E k \in Logins : Muted(k) \/ PeerCalls(k)
=============================================================================
