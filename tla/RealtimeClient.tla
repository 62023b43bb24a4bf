---------------------------- MODULE RealtimeClient ----------------------------
(***************************************************************************)
(* The shared websocket client and the logins of one operator.  A screen   *)
(* makes a client for each login and disconnects it when it signs out; the *)
(* client keeps a socket or a timer for the next one until then.  What the *)
(* messages say is left to OperatorScreen; the media requests of the same  *)
(* client are in MediaClient.                                              *)
(*                                                                         *)
(* A drop of the network is noticed by the client and by the server at     *)
(* times of their own: the client may be back on a second socket while the *)
(* server still takes the first for live.                                  *)
(***************************************************************************)
EXTENDS Naturals, Sequences

CONSTANTS
  Devices,    \* "web", "mobile": the clients to check
  MaxLogins,  \* bound
  MaxSockets  \* bound

Logins == 1..MaxLogins
Sockets == 1..MaxSockets

ASSUME RealtimeClientAssumption ==
  Devices \subseteq {"web", "mobile"} /\ MaxLogins \in Nat /\ MaxSockets \in Nat

VARIABLES
  device,    \* what the operator uses
  login,     \* the login of the screen, 0 when signed out
  leaving,   \* the web client waits for its session to be deleted
  valid,     \* logins whose token the server accepts
  client,    \* login -> state, socket and timer of its client
  wire,      \* socket -> its two ends
  up, down   \* messages under way on each socket

linkVars == <<device, login, leaving, valid, client, wire, up, down>>

NoClient == [at |-> "idle", socket |-> 0, timer |-> FALSE]
NoWire == [by |-> 0, client |-> "none", server |-> "none"]

LinkInit ==
  /\ device \in Devices
  /\ login = 0 /\ leaving = FALSE /\ valid = {}
  /\ client = [k \in Logins |-> NoClient]
  /\ wire = [s \in Sockets |-> NoWire]
  /\ up = [s \in Sockets |-> <<>>] /\ down = [s \in Sockets |-> <<>>]

Fresh == {s \in Sockets : wire[s] = NoWire /\ \A r \in Sockets : r < s => wire[r] # NoWire}
SocketOf == IF login = 0 THEN 0 ELSE client[login].socket
ScreenState == IF login = 0 THEN "idle" ELSE client[login].at

\* The sockets through which the server knows login k.
ServerSockets(k) == {s \in Sockets : wire[s].by = k /\ wire[s].server = "up"}

\* sendClientMessage throws unless the socket is open.
CanSend == SocketOf # 0 /\ wire[SocketOf].client = "open"

OpenSocket(k, s, state) ==
  /\ client' = [client EXCEPT ![k] = [at |-> state, socket |-> s, timer |-> FALSE]]
  /\ wire' = [wire EXCEPT ![s] = [by |-> k, client |-> "opening", server |-> "none"]]

\* connect
Connect(k, s) ==
  IF client[k].socket # 0 \/ client[k].timer THEN UNCHANGED <<client, wire>>
  ELSE OpenSocket(k, s, "connecting")

\* Slip: the timer of the next attempt stays.
DisconnectKeepingTimer(k) ==
  LET s == client[k].socket IN
  /\ client' = [client EXCEPT ![k].at = "closed", ![k].socket = 0]
  /\ wire' = IF s = 0 THEN wire ELSE [wire EXCEPT ![s].client = "left"]
  /\ down' = IF s = 0 THEN down ELSE [down EXCEPT ![s] = <<>>]

\* disconnect: its listeners are removed from the socket, which closes after
\* what was sent.
Disconnect(k) ==
  LET s == client[k].socket IN
  /\ client' = [client EXCEPT ![k] = [NoClient EXCEPT !.at = "closed"]]
  /\ wire' = IF s = 0 THEN wire ELSE [wire EXCEPT ![s].client = "left"]
  /\ down' = IF s = 0 THEN down ELSE [down EXCEPT ![s] = <<>>]

\* handleClose: the next attempt is scheduled.
HandleClose(k) ==
  LET s == client[k].socket IN
  /\ client' = [client EXCEPT ![k] = [at |-> "reconnecting", socket |-> 0, timer |-> TRUE]]
  /\ wire' = [wire EXCEPT ![s].client = "lost"]
  /\ down' = [down EXCEPT ![s] = <<>>]

\* The socket opens and the client authenticates at once; the screen's effects come after.
HandleOpen(k, msgs) ==
  LET s == client[k].socket IN
  /\ s # 0 /\ wire[s].client = "opening"
  /\ wire' = [wire EXCEPT ![s].client = "open", ![s].server = "new"]
  /\ client' = [client EXCEPT ![k].at = "connected"]
  /\ up' = [up EXCEPT ![s] = <<[kind |-> "authenticate"]>> \o msgs]
  /\ UNCHANGED <<device, login, leaving, valid, down>>

\* The timer of scheduleReconnect
Reconnect(k) ==
  /\ client[k].timer
  /\ \E s \in Fresh : OpenSocket(k, s, "reconnecting")
  /\ UNCHANGED <<device, login, leaving, valid, up, down>>

\* The server closes its end, and so ends what was under way to it.
ServerEnds(S) == [s \in Sockets |-> IF s \in S /\ wire[s].server # "none"
                                    THEN [wire[s] EXCEPT !.server = "gone"] ELSE wire[s]]
UpOf(S) == [s \in Sockets |-> IF s \in S THEN <<>> ELSE up[s]]

\* The token of login k is dropped and the server closes its sockets.
SessionDeleted(k) ==
  /\ valid' = valid \ {k}
  /\ wire' = ServerEnds({s \in Sockets : wire[s].by = k})
  /\ up' = UpOf({s \in Sockets : wire[s].by = k})

\* The only socket that is open or being opened, and the only timer that will
\* open one, are those of the login on the screen (connect, disconnect and
\* handleClose of realtime-client.ts under quick sign-outs, drops and sign-ins).
OneConnection ==
  \A k \in Logins :
    /\ k # login => client[k].socket = 0 /\ ~client[k].timer
    /\ ~(client[k].socket # 0 /\ client[k].timer)
    /\ \A s \in Sockets : wire[s].by = k /\ wire[s].client \in {"opening", "open"}
                            => client[k].socket = s
=============================================================================
