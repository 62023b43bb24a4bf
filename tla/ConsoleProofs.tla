----------------------------- MODULE ConsoleProofs -----------------------------
(***************************************************************************)
(* The screen of the operator and the websocket client under it, for any   *)
(* number of logins, sockets, channels and events: signing out and in,     *)
(* drops and timers never leave a second connection behind, and what the   *)
(* screen shows once nothing is under way is what the server has.          *)
(***************************************************************************)
EXTENDS OperatorScreen, TLAPS, SequenceTheorems, FiniteSetTheorems

-----------------------------------------------------------------------------
(* What keeps a connection single *)

Ends == [by : Nat, client : {"none", "opening", "open", "left", "lost"},
         server : {"none", "new", "up", "gone"}]
ClientStates == [at : {"idle", "connecting", "reconnecting", "connected", "closed"},
                 socket : Nat, timer : BOOLEAN]

LinkShapes ==
  /\ login \in Nat /\ (login = 0 \/ login \in Logins)
  /\ client \in [Logins -> ClientStates] /\ wire \in [Sockets -> Ends]

\* A client that was never connected has neither socket nor timer, the socket of
\* a client is its own and not closed, and only a login signs out.
SocketsOwned ==
  /\ leaving => login # 0
  /\ \A k \in Logins :
       /\ client[k].at = "idle" => client[k] = NoClient
       /\ client[k].socket # 0 =>
            /\ client[k].socket \in Sockets /\ wire[client[k].socket].by = k
            /\ wire[client[k].socket].client \in {"opening", "open"}

ConsoleInv == LinkShapes /\ SocketsOwned /\ OneConnection

\* What the screen sends when its socket opens, after the token.
Greets == IF scr.known THEN Monitors(scr) ELSE <<>>

LEMMA LoginsNat == /\ 0 \notin Logins /\ 0 \notin Sockets
                   /\ Logins \subseteq Nat /\ Sockets \subseteq Nat
BY RealtimeClientAssumption DEF Logins, Sockets

LEMMA ClientParts ==
  ASSUME ConsoleInv, NEW k \in Logins
  PROVE  /\ client[k] \in ClientStates
         /\ client[k] = [at |-> client[k].at, socket |-> client[k].socket, timer |-> client[k].timer]
BY DEF ConsoleInv, LinkShapes, ClientStates

LEMMA InitConsole == Init => ConsoleInv
<1> SUFFICES ASSUME Init PROVE ConsoleInv
  OBVIOUS
<1>1. /\ login = 0 /\ leaving = FALSE /\ client = [k \in Logins |-> NoClient]
      /\ wire = [s \in Sockets |-> NoWire]
  BY DEF Init, LinkInit
<1>2. NoClient \in ClientStates /\ NoClient.socket = 0 /\ ~NoClient.timer
  BY DEF NoClient, ClientStates
<1>3. NoWire \in Ends /\ NoWire.client = "none"
  BY DEF NoWire, Ends
<1>4. LinkShapes
  BY <1>1, <1>2, <1>3 DEF LinkShapes
<1>5. SocketsOwned
  BY <1>1, <1>2 DEF SocketsOwned
<1>6. OneConnection
  BY <1>1, <1>2, <1>3 DEF OneConnection
<1> QED BY <1>4, <1>5, <1>6 DEF ConsoleInv

\* Nothing of the client's ends changes, nor does the login.
LEMMA ServerOnly ==
  ASSUME ConsoleInv, UNCHANGED <<login, client>>, leaving' => login # 0,
         wire' \in [Sockets -> Ends],
         \A s \in Sockets : wire'[s].by = wire[s].by /\ wire'[s].client = wire[s].client
  PROVE  ConsoleInv'
<1>1. LinkShapes'
  BY DEF ConsoleInv, LinkShapes
<1>2. SocketsOwned'
  BY DEF ConsoleInv, SocketsOwned
<1>3. OneConnection'
  BY DEF ConsoleInv, OneConnection
<1> QED BY <1>1, <1>2, <1>3 DEF ConsoleInv

\* An end of a socket takes another state.
LEMMA EndsParts ==
  ASSUME wire \in [Sockets -> Ends], NEW s \in Sockets
  PROVE  /\ \A x \in {"none", "new", "up", "gone"} :
              /\ [wire[s] EXCEPT !.server = x] \in Ends
              /\ [wire[s] EXCEPT !.server = x].by = wire[s].by
              /\ [wire[s] EXCEPT !.server = x].client = wire[s].client
         /\ \A x \in {"none", "opening", "open", "left", "lost"} :
              /\ [wire[s] EXCEPT !.client = x] \in Ends
              /\ [wire[s] EXCEPT !.client = x].by = wire[s].by
              /\ [wire[s] EXCEPT !.client = x].client = x
<1>1. wire[s] \in Ends
  OBVIOUS
<1> QED BY <1>1 DEF Ends

LEMMA ServerEndsKept ==
  ASSUME ConsoleInv, UNCHANGED <<login, client>>, leaving' => login # 0, NEW S, wire' = ServerEnds(S)
  PROVE  ConsoleInv'
<1>1. \A s \in Sockets : wire'[s] \in {wire[s], [wire[s] EXCEPT !.server = "gone"]}
  BY DEF ServerEnds
<1>2. ASSUME NEW s \in Sockets
      PROVE  wire'[s] \in Ends /\ wire'[s].by = wire[s].by /\ wire'[s].client = wire[s].client
  <2> DEFINE e == [wire[s] EXCEPT !.server = "gone"]
  <2>1. wire \in [Sockets -> Ends]
    BY DEF ConsoleInv, LinkShapes
  <2>2. e \in Ends /\ e.by = wire[s].by /\ e.client = wire[s].client
    BY <2>1, EndsParts
  <2>3. wire'[s] \in {wire[s], e}
    BY <1>1
  <2> HIDE DEF e
  <2> QED BY <2>1, <2>2, <2>3
<1>3. wire' = [s \in Sockets |-> wire'[s]]
  BY DEF ServerEnds
<1>4. wire' \in [Sockets -> Ends]
  BY <1>2, <1>3
<1> QED BY <1>2, <1>4, ServerOnly

LEMMA AuthenticatedKept ==
  ASSUME ConsoleInv, NEW s \in Sockets, NEW k, Authenticated(s, k),
         UNCHANGED <<login, leaving, client>>
  PROVE  ConsoleInv'
<1>1. wire' = wire \/ wire' = [wire EXCEPT ![s].server = "up"]
  BY DEF Authenticated
<1>2. wire \in [Sockets -> Ends] /\ (leaving' => login # 0)
  BY DEF ConsoleInv, LinkShapes, SocketsOwned
<1>3. CASE wire' = wire
  BY <1>2, <1>3, ServerOnly
<1>4. CASE wire' = [wire EXCEPT ![s].server = "up"]
  <2> DEFINE e == [wire[s] EXCEPT !.server = "up"]
  <2>1. e \in Ends /\ e.by = wire[s].by /\ e.client = wire[s].client
    BY <1>2, EndsParts
  <2>2. wire' = [wire EXCEPT ![s] = e]
    BY <1>4
  <2> HIDE DEF e
  <2>3. /\ wire' \in [Sockets -> Ends]
        /\ \A r \in Sockets : wire'[r].by = wire[r].by /\ wire'[r].client = wire[r].client
    BY <1>2, <2>1, <2>2
  <2> QED BY <1>2, <2>3, ServerOnly
<1> QED BY <1>1, <1>3, <1>4

\* A client without socket and timer, or whose timer runs out, opens a socket
\* that was never used.
LEMMA OpenSocketKept ==
  ASSUME ConsoleInv, NEW k \in Logins, NEW s \in Fresh, client[k].socket = 0,
         NEW state \in {"connecting", "reconnecting"}, OpenSocket(k, s, state),
         login' = k, leaving' => login # 0, login \in {0, k}
  PROVE  ConsoleInv'
<1> DEFINE c == [at |-> state, socket |-> s, timer |-> FALSE]
           e == [by |-> k, client |-> "opening", server |-> "none"]
<1>1. s \in Sockets /\ s \in Nat /\ s # 0 /\ wire[s] = NoWire /\ k \in Nat
  BY LoginsNat DEF Fresh
<1>2. client' = [client EXCEPT ![k] = c] /\ wire' = [wire EXCEPT ![s] = e]
  BY DEF OpenSocket
<1>3. c \in ClientStates /\ c.at # "idle" /\ c.socket = s /\ c.timer = FALSE
  BY <1>1 DEF ClientStates
<1>4. e \in Ends /\ e.by = k /\ e.client = "opening"
  BY <1>1 DEF Ends
<1> HIDE DEF c, e
<1>5. /\ client \in [Logins -> ClientStates] /\ wire \in [Sockets -> Ends]
      /\ \A j \in Logins : client[j].socket # s
  <2>1. NoWire.client = "none"
    BY DEF NoWire
  <2> QED BY <1>1, <2>1 DEF ConsoleInv, LinkShapes, SocketsOwned
<1>6. /\ client' \in [Logins -> ClientStates] /\ client'[k] = c
      /\ \A j \in Logins \ {k} : client'[j] = client[j]
  BY <1>2, <1>3, <1>5
<1>7. /\ wire' \in [Sockets -> Ends] /\ wire'[s] = e
      /\ \A r \in Sockets \ {s} : wire'[r] = wire[r]
  BY <1>1, <1>2, <1>4, <1>5
<1>8. LinkShapes'
  BY <1>1, <1>6, <1>7 DEF LinkShapes
<1>9. SocketsOwned'
  <2>1. ASSUME NEW j \in Logins
        PROVE  /\ client'[j].at = "idle" => client'[j] = NoClient
               /\ client'[j].socket # 0 =>
                    /\ client'[j].socket \in Sockets /\ wire'[client'[j].socket].by = j
                    /\ wire'[client'[j].socket].client \in {"opening", "open"}
    <3>1. CASE j = k
      BY <1>1, <1>3, <1>4, <1>6, <1>7, <3>1
    <3>2. CASE j # k
      BY <1>5, <1>6, <1>7, <3>2 DEF ConsoleInv, SocketsOwned
    <3> QED BY <3>1, <3>2
  <2>2. leaving' => login' # 0
    BY LoginsNat
  <2> QED BY <2>1, <2>2 DEF SocketsOwned
<1>10. OneConnection'
  <2> SUFFICES ASSUME NEW j \in Logins
               PROVE  /\ j # k => client'[j].socket = 0 /\ ~client'[j].timer
                      /\ ~(client'[j].socket # 0 /\ client'[j].timer)
                      /\ \A r \in Sockets : wire'[r].by = j /\ wire'[r].client \in {"opening", "open"}
                                              => client'[j].socket = r
    BY DEF OneConnection
  <2>1. CASE j = k
    <3>1. \A r \in Sockets \ {s} : ~(wire[r].by = k /\ wire[r].client \in {"opening", "open"})
      BY <1>1, LoginsNat DEF ConsoleInv, OneConnection
    <3> QED BY <1>1, <1>3, <1>4, <1>6, <1>7, <2>1, <3>1
  <2>2. CASE j # k
    BY <1>4, <1>6, <1>7, <2>2, LoginsNat DEF ConsoleInv, OneConnection
  <2> QED BY <2>1, <2>2
<1> QED BY <1>8, <1>9, <1>10 DEF ConsoleInv

\* The client of the login gives up its socket, if it has one.
LEMMA SocketGivenUp ==
  ASSUME ConsoleInv, login \in Logins, NEW c \in ClientStates, c.at # "idle", c.socket = 0,
         client' = [client EXCEPT ![login] = c],
         NEW x \in {"left", "lost"},
         wire' = IF client[login].socket = 0 THEN wire
                 ELSE [wire EXCEPT ![client[login].socket].client = x],
         login' = login \/ (login' = 0 /\ ~c.timer), leaving' => login' # 0
  PROVE  ConsoleInv'
<1> DEFINE k == login
           s == client[login].socket
<1>1. /\ client \in [Logins -> ClientStates] /\ wire \in [Sockets -> Ends]
      /\ s # 0 => s \in Sockets /\ wire[s].by = k /\ wire[s].client \in {"opening", "open"}
  BY DEF ConsoleInv, LinkShapes, SocketsOwned
<1>2. /\ client' \in [Logins -> ClientStates] /\ client'[k] = c
      /\ \A j \in Logins \ {k} : client'[j] = client[j]
  BY <1>1
<1>3. /\ wire' \in [Sockets -> Ends] /\ \A r \in Sockets : wire'[r].by = wire[r].by
      /\ s # 0 => wire'[s].client = x
      /\ \A r \in Sockets \ {s} : wire'[r] = wire[r]
  <2>1. CASE s = 0
    BY <1>1, <2>1
  <2>2. CASE s # 0
    <3> DEFINE e == [wire[s] EXCEPT !.client = x]
    <3>1. e \in Ends /\ e.by = wire[s].by /\ e.client = x
      <4>1. wire[s] \in Ends
        BY <1>1, <2>2
      <4> HIDE DEF s
      <4> QED BY <4>1 DEF Ends
    <3>2. wire' = [wire EXCEPT ![s] = e]
      BY <1>1, <2>2
    <3> HIDE DEF e
    <3> QED BY <1>1, <2>2, <3>1, <3>2
  <2> QED BY <2>1, <2>2
<1> HIDE DEF s
<1>4. LinkShapes'
  BY <1>2, <1>3, LoginsNat DEF ConsoleInv, LinkShapes
<1>5. \A j \in Logins \ {k} : client[j].socket = 0 /\ ~client[j].timer
  BY DEF ConsoleInv, OneConnection
<1>6. SocketsOwned'
  BY <1>2, <1>5 DEF ConsoleInv, SocketsOwned
<1>7. OneConnection'
  <2> SUFFICES ASSUME NEW j \in Logins
               PROVE  /\ j # login' => client'[j].socket = 0 /\ ~client'[j].timer
                      /\ ~(client'[j].socket # 0 /\ client'[j].timer)
                      /\ \A r \in Sockets : wire'[r].by = j /\ wire'[r].client \in {"opening", "open"}
                                              => client'[j].socket = r
    BY DEF OneConnection
  <2>1. ASSUME NEW r \in Sockets, wire'[r].by = j, wire'[r].client \in {"opening", "open"}
        PROVE  FALSE
    <3>1. r # s \/ s = 0
      BY <1>3, <2>1
    <3>2. wire'[r] = wire[r]
      BY <1>3, <3>1, LoginsNat
    <3>3. client[j].socket = r /\ r # 0
      BY <2>1, <3>2, LoginsNat DEF ConsoleInv, OneConnection
    <3>4. j = k
      BY <1>5, <3>3
    <3> QED BY <3>1, <3>3, <3>4 DEF s
  <2>2. client'[j].socket = 0
    BY <1>2, <1>5
  <2>3. j # login' => ~client'[j].timer
    BY <1>2, <1>5
  <2> QED BY <2>1, <2>2, <2>3
<1> QED BY <1>4, <1>6, <1>7 DEF ConsoleInv

-----------------------------------------------------------------------------
(* Signing in and out, and the link *)

LEMMA SameLinkKept ==
  ASSUME ConsoleInv, UNCHANGED <<login, leaving, client, wire>> PROVE ConsoleInv'
<1>1. wire' \in [Sockets -> Ends] /\ (leaving' => login # 0)
  BY DEF ConsoleInv, LinkShapes, SocketsOwned
<1> QED BY <1>1, ServerOnly

LEMMA SignInKept == ASSUME ConsoleInv, SignIn PROVE ConsoleInv'
<1>1. PICK k \in Logins : /\ client[k].at = "idle" /\ login' = k
                          /\ \E s \in Fresh : Connect(k, s)
  BY DEF SignIn
<1>2. PICK s \in Fresh : Connect(k, s)
  BY <1>1
<1>3. client[k].socket = 0 /\ client[k].timer = FALSE
  BY <1>1 DEF ConsoleInv, SocketsOwned, NoClient
<1>4. OpenSocket(k, s, "connecting")
  BY <1>2, <1>3 DEF Connect
<1>5. login = 0 /\ ~leaving'
  BY DEF SignIn, ConsoleInv, SocketsOwned
<1> QED BY <1>1, <1>3, <1>4, <1>5, OpenSocketKept

LEMMA AskSignOutKept == ASSUME ConsoleInv, AskSignOut PROVE ConsoleInv'
<1>1. UNCHANGED <<login, client>> /\ (leaving' => login # 0)
  BY DEF AskSignOut
<1>2. wire' = wire \/ \E S : wire' = ServerEnds(S)
  BY DEF AskSignOut, SessionDeleted
<1>3. CASE wire' = wire
  <2>1. wire \in [Sockets -> Ends]
    BY DEF ConsoleInv, LinkShapes
  <2> QED BY <1>1, <1>3, <2>1, ServerOnly
<1>4. ASSUME NEW S, wire' = ServerEnds(S) PROVE ConsoleInv'
  BY <1>1, <1>4, ServerEndsKept
<1> QED BY <1>2, <1>3, <1>4

\* disconnect leaves neither a socket nor a timer.
LEMMA DisconnectKept ==
  ASSUME ConsoleInv, login \in Logins, Disconnect(login), login' = 0, ~leaving'
  PROVE  ConsoleInv'
<1> DEFINE c == [NoClient EXCEPT !.at = "closed"]
<1>1. c \in ClientStates /\ c.at # "idle" /\ c.socket = 0 /\ c.timer = FALSE
  BY DEF NoClient, ClientStates
<1>2. client' = [client EXCEPT ![login] = c]
  BY DEF Disconnect
<1> HIDE DEF c
<1>3. wire' = IF client[login].socket = 0 THEN wire
              ELSE [wire EXCEPT ![client[login].socket].client = "left"]
  BY DEF Disconnect
<1> QED BY <1>1, <1>2, <1>3, SocketGivenUp

LEMMA LeaveKept == ASSUME ConsoleInv, login # 0, Leave PROVE ConsoleInv'
<1>1. login \in Logins /\ Disconnect(login) /\ login' = 0 /\ ~leaving'
  BY DEF Leave, ConsoleInv, LinkShapes
<1> QED BY <1>1, DisconnectKept

LEMMA LinkLostKept == ASSUME ConsoleInv, LinkLost PROVE ConsoleInv'
<1> DEFINE c == [at |-> "reconnecting", socket |-> 0, timer |-> TRUE]
<1>1. login \in Logins /\ client[login].socket # 0 /\ HandleClose(login)
  BY DEF LinkLost, Closes, SocketOf, ConsoleInv, LinkShapes
<1>2. c \in ClientStates /\ c.at # "idle" /\ c.socket = 0
  BY DEF ClientStates
<1>3. client' = [client EXCEPT ![login] = c]
      /\ wire' = [wire EXCEPT ![client[login].socket].client = "lost"]
  BY <1>1 DEF HandleClose
<1> HIDE DEF c
<1>4. UNCHANGED login /\ (leaving' => login' # 0)
  BY DEF LinkLost, Closes
<1>5. wire' = IF client[login].socket = 0 THEN wire
              ELSE [wire EXCEPT ![client[login].socket].client = "lost"]
  BY <1>1, <1>3
<1> QED BY <1>1, <1>2, <1>3, <1>4, <1>5, SocketGivenUp

LEMMA LinkLostInVoiceKept == ASSUME ConsoleInv, LinkLostInVoice PROVE ConsoleInv'
<1>1. login \in Logins /\ Disconnect(login) /\ login' = 0 /\ ~leaving'
  BY DEF LinkLostInVoice, Closes, ConsoleInv, LinkShapes
<1> QED BY <1>1, DisconnectKept

\* The socket that opens is the one that the client of the login has.
LEMMA HandleOpenKept ==
  ASSUME ConsoleInv, login \in Logins, HandleOpen(login, Greets) PROVE ConsoleInv'
<1> DEFINE k == login
           s == client[login].socket
           c == [client[login] EXCEPT !.at = "connected"]
           e == [wire[client[login].socket] EXCEPT !.client = "open", !.server = "new"]
<1>1. /\ client \in [Logins -> ClientStates] /\ wire \in [Sockets -> Ends]
      /\ s # 0 /\ s \in Sockets /\ wire[s].by = k /\ wire[s].client = "opening"
  BY DEF HandleOpen, ConsoleInv, LinkShapes, SocketsOwned
<1>2. c \in ClientStates /\ c.at = "connected" /\ c.socket = s /\ c.timer = client[k].timer
  <2>1. client[k] \in ClientStates
    BY <1>1
  <2> QED BY <2>1 DEF ClientStates
<1>3. e \in Ends /\ e.by = k /\ e.client = "open"
  <2>1. wire[s] \in Ends /\ wire[s].by = k
    BY <1>1
  <2> QED BY <2>1 DEF Ends
<1>4. client' = [client EXCEPT ![k] = c] /\ UNCHANGED <<login, leaving>>
  BY DEF HandleOpen
<1>5. wire' = [wire EXCEPT ![s] = e]
  BY <1>1 DEF HandleOpen
<1> HIDE DEF s, c, e
<1>6. /\ client' \in [Logins -> ClientStates] /\ client'[k] = c
      /\ \A j \in Logins \ {k} : client'[j] = client[j]
  BY <1>1, <1>2, <1>4
<1>7. /\ wire' \in [Sockets -> Ends] /\ wire'[s] = e
      /\ \A r \in Sockets \ {s} : wire'[r] = wire[r]
  BY <1>1, <1>3, <1>5
<1>8. LinkShapes'
  BY <1>4, <1>6, <1>7 DEF ConsoleInv, LinkShapes
<1>9. \A j \in Logins \ {k} : client[j].socket = 0 /\ ~client[j].timer
  BY DEF ConsoleInv, OneConnection
<1>10. SocketsOwned'
  <2>1. ASSUME NEW j \in Logins
        PROVE  /\ client'[j].at = "idle" => client'[j] = NoClient
               /\ client'[j].socket # 0 =>
                    /\ client'[j].socket \in Sockets /\ wire'[client'[j].socket].by = j
                    /\ wire'[client'[j].socket].client \in {"opening", "open"}
    <3>1. CASE j = k
      BY <1>1, <1>2, <1>3, <1>6, <1>7, <3>1
    <3>2. CASE j # k
      BY <1>6, <1>9, <3>2 DEF ConsoleInv, SocketsOwned
    <3> QED BY <3>1, <3>2
  <2>2. leaving' => login' # 0
    BY <1>4 DEF ConsoleInv, SocketsOwned
  <2> QED BY <2>1, <2>2 DEF SocketsOwned
<1>11. OneConnection'
  <2> SUFFICES ASSUME NEW j \in Logins
               PROVE  /\ j # k => client'[j].socket = 0 /\ ~client'[j].timer
                      /\ ~(client'[j].socket # 0 /\ client'[j].timer)
                      /\ \A r \in Sockets : wire'[r].by = j /\ wire'[r].client \in {"opening", "open"}
                                              => client'[j].socket = r
    BY <1>4 DEF OneConnection
  <2>1. CASE j = k
    <3>1. ~client[k].timer
      BY <1>1 DEF ConsoleInv, OneConnection, s
    <3>2. \A r \in Sockets \ {s} : ~(wire[r].by = k /\ wire[r].client \in {"opening", "open"})
      BY <1>1 DEF ConsoleInv, OneConnection, s
    <3> QED BY <1>1, <1>2, <1>3, <1>6, <1>7, <2>1, <3>1, <3>2
  <2>2. CASE j # k
    <3>1. client'[j].socket = 0 /\ ~client'[j].timer
      BY <1>6, <1>9, <2>2
    <3>2. ASSUME NEW r \in Sockets, wire'[r].by = j, wire'[r].client \in {"opening", "open"}
          PROVE  client'[j].socket = r
      BY <1>3, <1>6, <1>7, <2>2, <3>2 DEF ConsoleInv, OneConnection
    <3> QED BY <3>1, <3>2
  <2> QED BY <2>1, <2>2
<1> QED BY <1>8, <1>10, <1>11 DEF ConsoleInv

LEMMA LinkOpens == Link => HandleOpen(login, Greets) \/ Reconnect(login)
BY DEF Link, Greets

LEMMA LinkKept == ASSUME ConsoleInv, Link PROVE ConsoleInv'
<1>1. login \in Logins /\ login # 0
  BY DEF Link, ConsoleInv, LinkShapes
<1>2. CASE HandleOpen(login, Greets)
  BY <1>1, <1>2, HandleOpenKept
<1>3. CASE Reconnect(login)
  <2>1. PICK s \in Fresh : OpenSocket(login, s, "reconnecting")
    BY <1>3 DEF Reconnect
  <2>2. client[login].socket = 0
    BY <1>1, <1>3 DEF Reconnect, ConsoleInv, OneConnection
  <2>3. login' = login /\ (leaving' => login # 0)
    BY <1>1, <1>3 DEF Reconnect
  <2> QED BY <1>1, <2>1, <2>2, <2>3, OpenSocketKept
<1> QED BY <1>2, <1>3, LinkOpens

-----------------------------------------------------------------------------
(* The operator and the server *)

\* What the operator does with the intercom leaves its connection alone.
LEMMA OperatorKept == ASSUME ConsoleInv, Operator PROVE ConsoleInv'
<1> DEFINE Same == UNCHANGED <<login, leaving, client, wire>>
<1>1. CASE SignIn
  BY <1>1, SignInKept
<1>2. CASE AskSignOut
  BY <1>2, AskSignOutKept
<1>3. CASE WebSignOut \/ MobileSignOut
  <2>1. login # 0 /\ Leave
    BY <1>3 DEF WebSignOut, MobileSignOut, ConsoleInv, SocketsOwned
  <2> QED BY <2>1, LeaveKept
<1>4. Operates => Same
  BY DEF Operates
<1>5. CASE Escape \/ Widget \/ Disarm \/ LatchSwitch \/ VoxSwitch
  <2>1. Same
    BY <1>4, <1>5 DEF Escape, Widget, Disarm, LatchSwitch, VoxSwitch
  <2> QED BY <2>1, SameLinkKept
<1>6. CASE WebVoice \/ MobileVoice
  <2>1. Operates
    BY <1>6 DEF WebVoice, MobileVoice, Voice
  <2> QED BY <1>4, <2>1, SameLinkKept
<1>7. CASE WebSilence \/ MobileSilence
  <2>1. Same
    BY <1>7 DEF WebSilence, MobileSilence, Silence
  <2> QED BY <2>1, SameLinkKept
<1>8. CASE WebPageButton \/ MobilePageButton \/ CallPeer \/ Accept \/ Reject \/ HangUp
  <2>1. Operates
    BY <1>8 DEF WebPageButton, MobilePageButton, Pages, CallPeer, Accept, Reject, HangUp
  <2> QED BY <1>4, <2>1, SameLinkKept
<1>9. ASSUME NEW c \in Channels,
             \/ WebPress(c) \/ KeyPress(c) \/ MobilePress(c) \/ Release(c) \/ WebTap(c) \/ MobileTap(c)
             \/ ToggleLatchMode(c) \/ ToggleVoxMode(c) \/ WebListen(c) \/ MobileListen(c)
      PROVE  ConsoleInv'
  <2>1. CASE Release(c)
    <3>1. Same
      BY <2>1 DEF Release
    <3> QED BY <3>1, SameLinkKept
  <2>2. CASE WebPress(c) \/ KeyPress(c) \/ MobilePress(c) \/ WebTap(c) \/ MobileTap(c)
    <3>1. Operates
      BY <2>2 DEF WebPress, KeyPress, MobilePress, Holds, WebTap, MobileTap, Taps
    <3> QED BY <1>4, <3>1, SameLinkKept
  <2>3. CASE ToggleLatchMode(c) \/ ToggleVoxMode(c) \/ WebListen(c) \/ MobileListen(c)
    <3>1. Operates
      BY <2>3 DEF ToggleLatchMode, ToggleVoxMode, WebModes, WebListen, MobileListen, Listens
    <3> QED BY <1>4, <3>1, SameLinkKept
  <2> QED BY <1>9, <2>1, <2>2, <2>3
<1>10. Visible \subseteq Channels
  BY DEF Visible
<1> QED BY <1>1, <1>2, <1>3, <1>5, <1>6, <1>7, <1>8, <1>9, <1>10 DEF Operator

LEMMA ServerKept == ASSUME ConsoleInv, Server PROVE ConsoleInv'
<1>1. ASSUME NEW s \in Sockets, Read(s) PROVE ConsoleInv'
  <2>1. UNCHANGED <<login, leaving, client>>
    BY <1>1 DEF Read
  <2>2. CASE Authenticated(s, wire[s].by)
    BY <2>1, <2>2, AuthenticatedKept
  <2>3. CASE UNCHANGED wire
    BY <2>1, <2>3, SameLinkKept
  <2> QED BY <1>1, <2>2, <2>3 DEF Read
<1>2. ASSUME NEW s \in Sockets, SocketEnds(s) PROVE ConsoleInv'
  <2>1. UNCHANGED <<login, leaving, client>> /\ wire' = ServerEnds({s})
    BY <1>2 DEF SocketEnds
  <2>2. leaving' => login # 0
    BY <2>1 DEF ConsoleInv, SocketsOwned
  <2> QED BY <2>1, <2>2, ServerEndsKept
<1>3. CASE OtherPeople
  <2>1. Happens
    BY <1>3 DEF OtherPeople, OtherPages, OtherPageEnds, Muted, PeerCalls, PeerAccepts, PeerEnds
  <2>2. UNCHANGED <<login, leaving, client, wire>>
    BY <2>1 DEF Happens
  <2> QED BY <2>2, SameLinkKept
<1> QED BY <1>1, <1>2, <1>3 DEF Server

LEMMA StepConsole == ConsoleInv /\ [Next]_vars => ConsoleInv'
<1> SUFFICES ASSUME ConsoleInv, [Next]_vars PROVE ConsoleInv'
  OBVIOUS
<1>1. CASE Operator
  BY <1>1, OperatorKept
<1>2. CASE Server
  BY <1>2, ServerKept
<1>3. CASE Link
  BY <1>3, LinkKept
<1>4. CASE LinkLost
  BY <1>4, LinkLostKept
<1>5. CASE LinkLostInVoice
  BY <1>5, LinkLostInVoiceKept
<1>6. CASE WebAudioReady \/ MobileAudioReady
  <2>1. UNCHANGED <<login, leaving, client, wire>>
    BY <1>6 DEF WebAudioReady, MobileAudioReady, BecomesReady, linkVars
  <2> QED BY <2>1, SameLinkKept
<1>7. CASE WebReceives \/ MobileReceives
  <2>1. \E x : Receives(x)
    BY <1>7 DEF WebReceives, MobileReceives, ReceivesNext
  <2>2. UNCHANGED <<login, leaving, client, wire>>
    BY <2>1 DEF Receives
  <2> QED BY <2>2, SameLinkKept
<1>8. CASE UNCHANGED vars
  <2>1. UNCHANGED <<login, leaving, client, wire>>
    BY <1>8 DEF vars, linkVars
  <2> QED BY <2>1, SameLinkKept
<1> QED BY <1>1, <1>2, <1>3, <1>4, <1>5, <1>6, <1>7, <1>8 DEF Next

-----------------------------------------------------------------------------
(* The result *)

LEMMA ConsoleInvariant == Spec => []ConsoleInv
<1>1. Init => ConsoleInv
  BY InitConsole
<1>2. ConsoleInv /\ [Next]_vars => ConsoleInv'
  BY StepConsole
<1> QED BY <1>1, <1>2, PTL DEF Spec

\* However often the operator signs out and in while the network drops, only the
\* login on the screen has a socket that is open or being opened, or a timer
\* that will open one (connect, disconnect and handleClose of the client).
THEOREM ConnectionAlwaysSingle == Spec => []OneConnection
<1>1. ConsoleInv => OneConnection
  BY DEF ConsoleInv
<1> QED BY <1>1, ConsoleInvariant, PTL

-----------------------------------------------------------------------------
(* Sequences of messages *)

LEMMA TailFacts ==
  ASSUME NEW S, NEW q \in Seq(S), q # <<>>
  PROVE  /\ Tail(q) \in Seq(S) /\ 1 \in DOMAIN q /\ Head(q) = q[1] /\ q[1] \in S
         /\ \A i \in DOMAIN q : i \in Nat /\ i >= 1
         /\ \A i \in DOMAIN Tail(q) : /\ i \in Nat /\ i >= 1 /\ i + 1 \in DOMAIN q
                                      /\ Tail(q)[i] = q[i + 1]
         /\ \A i \in DOMAIN q : i # 1 => i - 1 \in DOMAIN Tail(q) /\ Tail(q)[i - 1] = q[i]
<1>1. Len(q) \in Nat /\ Len(q) > 0 /\ DOMAIN q = 1..Len(q) /\ 1 \in 1..Len(q) /\ q[1] \in S
  BY EmptySeq, LenProperties
<1>2. Tail(q) \in Seq(S) /\ Len(Tail(q)) = Len(q) - 1 /\ DOMAIN Tail(q) = 1..Len(q) - 1
      /\ \A i \in 1..Len(q) - 1 : Tail(q)[i] = q[i + 1]
  BY <1>1, HeadTailProperties, LenProperties
<1>3. Head(q) = q[1]
  OBVIOUS
<1>4. ASSUME NEW i \in DOMAIN Tail(q)
      PROVE  i \in Nat /\ i >= 1 /\ i + 1 \in DOMAIN q /\ Tail(q)[i] = q[i + 1]
  BY <1>1, <1>2
<1>5. ASSUME NEW i \in DOMAIN q, i # 1
      PROVE  i - 1 \in DOMAIN Tail(q) /\ Tail(q)[i - 1] = q[i]
  <2>1. i \in 2..Len(q) /\ i - 1 \in 1..Len(q) - 1 /\ (i - 1) + 1 = i
    BY <1>1, <1>5
  <2> QED BY <1>2, <2>1
<1> QED BY <1>1, <1>2, <1>3, <1>4, <1>5

LEMMA ConcatFacts ==
  ASSUME NEW S, NEW q \in Seq(S), NEW r \in Seq(S)
  PROVE  /\ q \o r \in Seq(S) /\ Len(q) \in Nat
         /\ \A i \in DOMAIN q : /\ i \in Nat /\ i <= Len(q)
                                /\ i \in DOMAIN (q \o r) /\ (q \o r)[i] = q[i]
         /\ \A j \in DOMAIN r : /\ j \in Nat /\ j >= 1
                                /\ Len(q) + j \in DOMAIN (q \o r) /\ (q \o r)[Len(q) + j] = r[j]
         /\ \A i \in DOMAIN (q \o r) : i \in DOMAIN q \/ \E j \in DOMAIN r : i = Len(q) + j
<1>1. /\ Len(q) \in Nat /\ Len(r) \in Nat /\ DOMAIN q = 1..Len(q) /\ DOMAIN r = 1..Len(r)
      /\ DOMAIN (q \o r) = 1..Len(q) + Len(r)
  BY ConcatProperties, LenProperties
<1>2. /\ q \o r \in Seq(S)
      /\ \A i \in 1..Len(q) + Len(r) : (q \o r)[i] = IF i <= Len(q) THEN q[i] ELSE r[i - Len(q)]
  BY ConcatProperties
<1>3. ASSUME NEW j \in DOMAIN r
      PROVE  /\ j \in Nat /\ j >= 1
             /\ Len(q) + j \in DOMAIN (q \o r) /\ (q \o r)[Len(q) + j] = r[j]
  <2>1. /\ Len(q) + j \in 1..Len(q) + Len(r) /\ ~(Len(q) + j <= Len(q))
        /\ (Len(q) + j) - Len(q) = j
    BY <1>1
  <2> QED BY <1>1, <1>2, <2>1
<1>4. ASSUME NEW i \in DOMAIN (q \o r), i \notin DOMAIN q
      PROVE  \E j \in DOMAIN r : i = Len(q) + j
  <2>1. i - Len(q) \in DOMAIN r /\ i = Len(q) + (i - Len(q))
    BY <1>1, <1>4
  <2> QED BY <2>1
<1>5. ASSUME NEW i \in DOMAIN q
      PROVE  i \in Nat /\ i <= Len(q) /\ i \in DOMAIN (q \o r) /\ (q \o r)[i] = q[i]
  BY <1>1, <1>2
<1> QED BY <1>1, <1>2, <1>3, <1>4, <1>5

\* m is the last message of q whose kind is in K.
None(q, K) == \A i \in DOMAIN q : q[i].kind \notin K
Newest(q, K, m) ==
  /\ m.kind \in K
  /\ \E i \in DOMAIN q : q[i] = m /\ \A j \in DOMAIN q : j > i => q[j].kind \notin K

LEMMA LastOfConcat ==
  ASSUME NEW S, NEW q \in Seq(S), NEW r \in Seq(S), NEW K
  PROVE  /\ None(q \o r, K) <=> None(q, K) /\ None(r, K)
         /\ \A m : Newest(q \o r, K, m) => Newest(r, K, m) \/ (None(r, K) /\ Newest(q, K, m))
<1> DEFINE z == q \o r
           n == Len(q)
<1>1. /\ n \in Nat
      /\ \A i \in DOMAIN q : i \in Nat /\ i <= n /\ i \in DOMAIN z /\ z[i] = q[i]
      /\ \A j \in DOMAIN r : j \in Nat /\ j >= 1 /\ n + j \in DOMAIN z /\ z[n + j] = r[j]
      /\ \A i \in DOMAIN z : i \in DOMAIN q \/ \E j \in DOMAIN r : i = n + j
  BY ConcatFacts
<1> HIDE DEF z, n
<1>2. None(z, K) <=> None(q, K) /\ None(r, K)
  BY <1>1 DEF None
<1>3. ASSUME NEW m, Newest(z, K, m) PROVE Newest(r, K, m) \/ (None(r, K) /\ Newest(q, K, m))
  <2>1. PICK i \in DOMAIN z : z[i] = m /\ \A j \in DOMAIN z : j > i => z[j].kind \notin K
    BY <1>3 DEF Newest
  <2>2. m.kind \in K
    BY <1>3 DEF Newest
  <2>3. CASE i \in DOMAIN q
    <3>1. ASSUME NEW j \in DOMAIN r PROVE r[j].kind \notin K
      <4>1. n + j > i /\ n + j \in DOMAIN z /\ z[n + j] = r[j]
        BY <1>1, <2>3
      <4> QED BY <2>1, <4>1
    <3>2. \A j \in DOMAIN q : j > i => q[j].kind \notin K
      BY <1>1, <2>1
    <3>3. q[i] = m
      BY <1>1, <2>1, <2>3
    <3> QED BY <2>2, <2>3, <3>1, <3>2, <3>3 DEF None, Newest
  <2>4. ASSUME NEW j \in DOMAIN r, i = n + j PROVE Newest(r, K, m)
    <3>1. ASSUME NEW l \in DOMAIN r, l > j PROVE r[l].kind \notin K
      <4>1. n + l > i /\ n + l \in DOMAIN z /\ z[n + l] = r[l]
        BY <1>1, <2>4, <3>1
      <4> QED BY <2>1, <4>1
    <3>2. r[j] = m
      BY <1>1, <2>1, <2>4
    <3> QED BY <2>2, <3>1, <3>2 DEF Newest
  <2> QED BY <1>1, <2>3, <2>4
<1> QED BY <1>2, <1>3 DEF z

LEMMA LastOfTail ==
  ASSUME NEW S, NEW q \in Seq(S), q # <<>>, NEW K
  PROVE  /\ \A m : Newest(Tail(q), K, m) => Newest(q, K, m)
         /\ None(Tail(q), K) => None(q, K) \/ Newest(q, K, Head(q))
<1> DEFINE t == Tail(q)
<1>1. /\ 1 \in DOMAIN q /\ Head(q) = q[1]
      /\ \A i \in DOMAIN q : i \in Nat /\ i >= 1
      /\ \A i \in DOMAIN t : i \in Nat /\ i >= 1 /\ i + 1 \in DOMAIN q /\ t[i] = q[i + 1]
      /\ \A i \in DOMAIN q : i # 1 => i - 1 \in DOMAIN t /\ t[i - 1] = q[i]
  BY TailFacts
<1> HIDE DEF t
<1>2. ASSUME NEW m, Newest(t, K, m) PROVE Newest(q, K, m)
  <2>1. PICK i \in DOMAIN t : t[i] = m /\ \A j \in DOMAIN t : j > i => t[j].kind \notin K
    BY <1>2 DEF Newest
  <2>2. i \in Nat /\ i + 1 \in DOMAIN q /\ q[i + 1] = m
    BY <1>1, <2>1
  <2>3. ASSUME NEW j \in DOMAIN q, j > i + 1 PROVE q[j].kind \notin K
    <3>1. j # 1 /\ j - 1 > i
      BY <1>1, <2>2, <2>3
    <3> QED BY <1>1, <2>1, <3>1
  <2> QED BY <1>2, <2>2, <2>3 DEF Newest
<1>3. ASSUME None(t, K), q[1].kind \in K PROVE Newest(q, K, q[1])
  <2>1. \A j \in DOMAIN q : j > 1 => q[j].kind \notin K
    BY <1>1, <1>3 DEF None
  <2> QED BY <1>1, <1>3, <2>1 DEF Newest
<1>4. ASSUME None(t, K), q[1].kind \notin K PROVE None(q, K)
  BY <1>1, <1>4 DEF None
<1> QED BY <1>1, <1>2, <1>3, <1>4 DEF t

LEMMA LastOfOne ==
  ASSUME NEW m, NEW K
  PROVE  /\ None(<<m>>, K) <=> m.kind \notin K
         /\ \A x : Newest(<<m>>, K, x) => x = m /\ m.kind \in K
<1>1. DOMAIN <<m>> = {1} /\ <<m>>[1] = m
  OBVIOUS
<1> HIDE DEF None, Newest
<1>2. None(<<m>>, K) <=> m.kind \notin K
  BY <1>1 DEF None
<1>3. ASSUME NEW x, Newest(<<m>>, K, x) PROVE x = m /\ m.kind \in K
  BY <1>1, <1>3 DEF Newest
<1> QED BY <1>2, <1>3

LEMMA LastOfNothing == ASSUME NEW K PROVE None(<<>>, K) /\ \A x : ~Newest(<<>>, K, x)
<1>1. DOMAIN <<>> = {}
  OBVIOUS
<1> QED BY <1>1 DEF None, Newest

\* The channels of C, one after the other.
LEMMA SetToSeqFacts ==
  ASSUME NEW C, IsFiniteSet(C)
  PROVE  /\ SetToSeq(C) \in Seq(C)
         /\ \A c \in C : \E i \in DOMAIN SetToSeq(C) : SetToSeq(C)[i] = c
<1>1. PICK n \in Nat : ExistsBijection(1..n, C)
  BY FS_NatBijection
<1>2. Cardinality(C) = n
  BY <1>1, FS_CountingElements
<1>3. PICK f \in Bijection(1..n, C) : TRUE
  BY <1>1 DEF ExistsBijection
<1>4. f \in [1..n -> C] /\ IsInjective(f)
  BY <1>3 DEF Bijection, Injection, IsInjective
<1>5. SetToSeq(C) \in [1..n -> C] /\ IsInjective(SetToSeq(C))
  BY <1>2, <1>4 DEF SetToSeq
<1>6. SetToSeq(C) \in Seq(C)
  BY <1>5 
<1>7. SetToSeq(C) \in Surjection(1..n, C)
  <2>1. SetToSeq(C) \in Injection(1..n, C)
    BY <1>5 DEF Injection
  <2>2. IsFiniteSet(1..n) /\ Cardinality(1..n) = n
    BY FS_Interval
  <2> QED BY <1>2, <2>1, <2>2, FS_Injection
<1>8. \A c \in C : \E i \in 1..n : SetToSeq(C)[i] = c
  BY <1>7 DEF Surjection
<1> QED BY <1>5, <1>6, <1>8

-----------------------------------------------------------------------------
(* What the screen, the server and the sockets hold *)

Sessions == [talk : SUBSET Channels, listen : SUBSET Channels,
             kept : SUBSET SUBSET Channels, saved : SUBSET SUBSET Channels]
Calls == [id : Nat, by : Nat, phase : {"none", "ringing", "active"}, mine : BOOLEAN]
Directs == [id : Nat, state : {"none", "requesting", "active"}]
Screens == [known : BOOLEAN, talk : SUBSET Channels, listen : SUBSET Channels, ready : BOOLEAN,
            page : {"none", "other", "me"}, direct : Directs, incoming : Nat,
            latch : SUBSET Channels, voxed : SUBSET Channels,
            held : [Channels -> {"no", "button", "key"}], stored : SUBSET SUBSET Channels,
            prefer : SUBSET Channels, restored : Nat]
Detectors == [on : BOOLEAN, channels : SUBSET Channels, view : SUBSET Channels]
Commands == [kind : {"authenticate", "call"}] \cup [kind : {"page"}, on : BOOLEAN]
            \cup [kind : {"talk", "listen"}, on : BOOLEAN, of : SUBSET Channels]
            \cup [kind : {"accept", "reject", "end"}, id : Nat]
Answers == [kind : {"state"}, talk : SUBSET Channels, listen : SUBSET Channels]
           \cup [kind : {"page"}, who : {"none", "other", "me"}]
           \cup [kind : {"incoming", "active"}, id : Nat] \cup [kind : {"ended"}]

ServerShapes ==
  srv \in [Logins -> Sessions] /\ page \in Nat /\ call \in Calls /\ calls \in Nat
SessionShapes ==
  /\ up \in [Sockets -> Seq(Commands)] /\ down \in [Sockets -> Seq(Answers)]
  /\ ServerShapes /\ scr \in Screens /\ vox \in Detectors

LEMMA CommandFacts ==
  /\ \A on \in BOOLEAN : \A C \in SUBSET Channels :
       /\ Talk(on, C) \in Commands /\ Talk(on, C).kind = "talk"
       /\ Talk(on, C).on = on /\ Talk(on, C).of = C
       /\ Listen(on, C) \in Commands /\ Listen(on, C).kind = "listen"
       /\ Listen(on, C).on = on /\ Listen(on, C).of = C
  /\ \A on \in BOOLEAN : [kind |-> "page", on |-> on] \in Commands
  /\ \A k \in {"authenticate", "call"} : [kind |-> k] \in Commands
  /\ \A k \in {"accept", "reject", "end"} : \A n \in Nat : [kind |-> k, id |-> n] \in Commands
BY DEF Talk, Listen, Commands

LEMMA CommandKinds ==
  ASSUME NEW m \in Commands
  PROVE  /\ m.kind \in {"authenticate", "call", "page", "talk", "listen", "accept", "reject", "end"}
         /\ m.kind \in {"talk", "listen"} => m.on \in BOOLEAN /\ m.of \in SUBSET Channels
         /\ m.kind = "page" => m.on \in BOOLEAN
         /\ m.kind \in {"accept", "reject", "end"} => m.id \in Nat /\ m = [kind |-> m.kind, id |-> m.id]
BY DEF Commands

LEMMA AnswerFacts ==
  /\ \A x \in Sessions : /\ State(x) \in Answers /\ State(x).kind = "state"
                         /\ State(x).talk = x.talk /\ State(x).listen = x.listen
  /\ \A T, L \in SUBSET Channels :
       LET m == State([talk |-> T, listen |-> L]) IN
       m \in Answers /\ m.kind = "state" /\ m.talk = T /\ m.listen = L
  /\ \A p \in Nat : /\ Notice(p) \in Answers /\ Notice(p).kind = "page"
                    /\ Notice(p).who \in {"none", "other", "me"}
  /\ Ended \in Answers /\ Ended.kind = "ended"
  /\ \A k \in {"incoming", "active"} : \A n \in Nat : [kind |-> k, id |-> n] \in Answers
<1>1. \A x \in Sessions : /\ State(x) \in Answers /\ State(x).kind = "state"
                          /\ State(x).talk = x.talk /\ State(x).listen = x.listen
  BY DEF State, Answers, Sessions
<1>5. \A T, L \in SUBSET Channels :
        LET m == State([talk |-> T, listen |-> L]) IN
        m \in Answers /\ m.kind = "state" /\ m.talk = T /\ m.listen = L
  BY DEF State, Answers
<1>2. ASSUME NEW p \in Nat
      PROVE  /\ Notice(p) \in Answers /\ Notice(p).kind = "page"
             /\ Notice(p).who \in {"none", "other", "me"}
  <2> DEFINE w == IF p = 0 THEN "none" ELSE IF p = Other THEN "other" ELSE "me"
  <2>1. w \in {"none", "other", "me"} /\ Notice(p) = [kind |-> "page", who |-> w]
    BY DEF Notice
  <2> HIDE DEF w
  <2> QED BY <2>1 DEF Answers
<1>3. Ended \in Answers /\ Ended.kind = "ended"
  BY DEF Ended, Answers
<1>4. \A k \in {"incoming", "active"} : \A n \in Nat : [kind |-> k, id |-> n] \in Answers
  BY DEF Answers
<1> QED BY <1>1, <1>2, <1>3, <1>4, <1>5

LEMMA AnswerKinds ==
  ASSUME NEW m \in Answers
  PROVE  /\ m.kind \in {"state", "page", "incoming", "active", "ended"}
         /\ m.kind = "state" => m.talk \in SUBSET Channels /\ m.listen \in SUBSET Channels
         /\ m.kind = "page" => m.who \in {"none", "other", "me"}
         /\ m.kind \in {"incoming", "active"} => m.id \in Nat
BY DEF Answers

\* One message for each channel of C.
LEMMA EachFacts ==
  ASSUME NEW C \in SUBSET Channels, NEW on \in BOOLEAN
  PROVE  /\ TalkEach(on, C) \in Seq(Commands)
         /\ \A i \in DOMAIN TalkEach(on, C) : \E c \in C : TalkEach(on, C)[i] = Talk(on, {c})
         /\ \A c \in C : \E i \in DOMAIN TalkEach(on, C) : TalkEach(on, C)[i] = Talk(on, {c})
         /\ ListenEach(on, C) \in Seq(Commands)
         /\ \A i \in DOMAIN ListenEach(on, C) : \E c \in C : ListenEach(on, C)[i] = Listen(on, {c})
         /\ \A c \in C : \E i \in DOMAIN ListenEach(on, C) : ListenEach(on, C)[i] = Listen(on, {c})
<1> DEFINE q == SetToSeq(C)
<1>1. IsFiniteSet(C)
  BY OperatorScreenAssumption, FS_Subset
<1>2. q \in Seq(C) /\ \A c \in C : \E i \in DOMAIN q : q[i] = c
  BY <1>1, SetToSeqFacts
<1> HIDE DEF q
<1>3. Len(q) \in Nat /\ DOMAIN q = 1..Len(q) /\ \A i \in 1..Len(q) : q[i] \in C
  BY <1>2, LenProperties, ElementOfSeq
<1>4. /\ \A i \in 1..Len(q) : {q[i]} \in SUBSET Channels
      /\ \A i \in 1..Len(q) : Talk(on, {q[i]}) \in Commands /\ Listen(on, {q[i]}) \in Commands
  BY <1>3, CommandFacts
<1>5. /\ TalkEach(on, C) = [i \in 1..Len(q) |-> Talk(on, {q[i]})]
      /\ ListenEach(on, C) = [i \in 1..Len(q) |-> Listen(on, {q[i]})]
  BY <1>3 DEF TalkEach, ListenEach, q
<1>6. TalkEach(on, C) \in Seq(Commands) /\ ListenEach(on, C) \in Seq(Commands)
  BY <1>3, <1>4, <1>5
<1>7. /\ DOMAIN q = 1..Len(q) /\ DOMAIN TalkEach(on, C) = 1..Len(q)
      /\ DOMAIN ListenEach(on, C) = 1..Len(q)
      /\ \A i \in 1..Len(q) : /\ TalkEach(on, C)[i] = Talk(on, {q[i]})
                             /\ ListenEach(on, C)[i] = Listen(on, {q[i]})
  BY <1>3, <1>5
<1>8. /\ \A i \in DOMAIN TalkEach(on, C) : \E c \in C : TalkEach(on, C)[i] = Talk(on, {c})
      /\ \A i \in DOMAIN ListenEach(on, C) : \E c \in C : ListenEach(on, C)[i] = Listen(on, {c})
  BY <1>3, <1>7
<1>9. ASSUME NEW c \in C
      PROVE  /\ \E i \in DOMAIN TalkEach(on, C) : TalkEach(on, C)[i] = Talk(on, {c})
             /\ \E i \in DOMAIN ListenEach(on, C) : ListenEach(on, C)[i] = Listen(on, {c})
  <2>1. PICK i \in 1..Len(q) : q[i] = c
    BY <1>2, <1>7
  <2>2. TalkEach(on, C)[i] = Talk(on, {c}) /\ ListenEach(on, C)[i] = Listen(on, {c})
    BY <1>7, <2>1
  <2> QED BY <1>7, <2>2
<1> QED BY <1>6, <1>8, <1>9

-----------------------------------------------------------------------------
(* What the ends of a socket say of each other *)

\* A socket in use belongs to a login, and nothing was sent down one that has not
\* authenticated.
SocketsUsed ==
  \A s \in Sockets :
    /\ wire[s] # NoWire => wire[s].by \in Logins
    /\ wire[s].client = "opening" => wire[s].server = "none"
    /\ wire[s].client = "open" => wire[s].server # "none"
    /\ wire[s].server \in {"none", "new"} => down[s] = <<>>

ClientsUsed ==
  /\ \A k \in Logins :
       /\ client[k].at # "idle" => \E s \in Sockets : wire[s].by = k
       /\ client[k].at = "connected" <=>
            client[k].socket # 0 /\ wire[client[k].socket].client = "open"
  /\ login # 0 => client[login].at # "idle"
  /\ scr.ready => Connected

\* Only sessions that are attached page or call.
LinesHeld ==
  /\ page \in Logins => page \in Attached
  /\ call # NoCall => call.by \in Attached /\ call.id # 0 /\ call.phase # "none"

ScreenInv == ConsoleInv /\ SessionShapes /\ SocketsUsed /\ ClientsUsed /\ LinesHeld

LEMMA SocketParts ==
  ASSUME ScreenInv
  PROVE  /\ login \in Nat /\ (login = 0 \/ login \in Logins) /\ 0 \notin Logins /\ 0 \notin Sockets
         /\ SocketOf # 0 => /\ login \in Logins /\ SocketOf = client[login].socket
                            /\ SocketOf \in Sockets /\ wire[SocketOf].by = login
                            /\ wire[SocketOf].client \in {"opening", "open"}
         /\ CanSend => SocketOf \in Sockets /\ wire[SocketOf].client = "open"
         /\ CanSend <=> Connected
         /\ Logins \subseteq Nat /\ Sockets \subseteq Nat /\ Other \in Nat /\ Other \notin Logins /\ Other # 0
<1>1. /\ login \in Nat /\ (login = 0 \/ login \in Logins) /\ 0 \notin Logins /\ 0 \notin Sockets
      /\ Logins \subseteq Nat /\ Sockets \subseteq Nat
  BY LoginsNat DEF ScreenInv, ConsoleInv, LinkShapes
<1>2. SocketOf # 0 => /\ login \in Logins /\ SocketOf = client[login].socket
                      /\ SocketOf \in Sockets /\ wire[SocketOf].by = login
                      /\ wire[SocketOf].client \in {"opening", "open"}
  BY <1>1 DEF SocketOf, ScreenInv, ConsoleInv, SocketsOwned
<1>3. CanSend <=> Connected
  BY <1>1 DEF CanSend, SocketOf, Connected, ScreenState, ScreenInv, ClientsUsed
<1>4. Other \in Nat /\ Other \notin Logins /\ Other # 0
  BY RealtimeClientAssumption DEF Other, Logins
<1> QED BY <1>1, <1>2, <1>3, <1>4 DEF CanSend

LEMMA SessionsParts ==
  /\ NoSession \in Sessions /\ NoSession.talk = {}
  /\ NoCall \in Calls
  /\ \A x \in Sessions : \A T \in SUBSET Channels :
       /\ [x EXCEPT !.talk = T] \in Sessions /\ [x EXCEPT !.talk = T].talk = T
       /\ [x EXCEPT !.talk = T].listen = x.listen
       /\ [x EXCEPT !.listen = T] \in Sessions /\ [x EXCEPT !.listen = T].talk = x.talk
       /\ [x EXCEPT !.listen = T].listen = T
       /\ [x EXCEPT !.listen = T, !.saved = {}] \in Sessions
       /\ [x EXCEPT !.listen = T, !.saved = {}].talk = x.talk
       /\ [NoSession EXCEPT !.listen = T] \in Sessions /\ [NoSession EXCEPT !.listen = T].talk = {}
       /\ [NoSession EXCEPT !.listen = T].listen = T
  /\ \A x \in Sessions :
       /\ [x EXCEPT !.talk = {}, !.listen = Channels, !.saved = {x.listen}] \in Sessions
       /\ [x EXCEPT !.talk = {}, !.listen = Channels, !.saved = {x.listen}].talk = {}
  /\ \A L \in SUBSET SUBSET Channels : [NoSession EXCEPT !.kept = L] \in Sessions
BY DEF Sessions, NoSession, NoCall, Calls

LEMMA KeptFacts ==
  ASSUME NEW L \in SUBSET SUBSET Channels, NEW D \in SUBSET Channels
  PROVE  Kept(L, D) \in SUBSET Channels
<1>1. CASE L = {}
  BY <1>1 DEF Kept
<1>2. CASE L # {}
  <2>1. (CHOOSE T \in L : TRUE) \in L
    BY <1>2
  <2>2. Kept(L, D) = CHOOSE T \in L : TRUE
    BY <1>2 DEF Kept
  <2> HIDE DEF Kept
  <2> QED BY <2>1, <2>2
<1> QED BY <1>1, <1>2

\* What a command sends.
LEMMA SentShape ==
  ASSUME ScreenInv, NEW msgs \in Seq(Commands), Sent(msgs)
  PROVE  /\ up' \in [Sockets -> Seq(Commands)]
         /\ CanSend => up'[SocketOf] = up[SocketOf] \o msgs
         /\ ~CanSend => up' = up
         /\ \A s \in Sockets : s # SocketOf => up'[s] = up[s]
<1>1. up \in [Sockets -> Seq(Commands)]
  BY DEF ScreenInv, SessionShapes
<1>2. CASE CanSend
  <2>1. SocketOf \in Sockets /\ SocketOf # 0
    BY <1>2, SocketParts
  <2>2. up' = [up EXCEPT ![SocketOf] = up[SocketOf] \o msgs]
    BY <1>2, <2>1 DEF Sent
  <2>3. up[SocketOf] \o msgs \in Seq(Commands)
    BY <1>1, <2>1, ConcatFacts
  <2> QED BY <1>1, <1>2, <2>1, <2>2, <2>3
<1>3. CASE ~CanSend
  BY <1>1, <1>3 DEF Sent
<1> QED BY <1>2, <1>3

-----------------------------------------------------------------------------
(* What the operator does with the intercom *)

\* y shows what x shows of the session; readiness goes only when nothing is held.
SameView(x, y) ==
  /\ y.known = x.known /\ y.talk = x.talk /\ y.listen = x.listen /\ y.page = x.page
  /\ y.restored = x.restored /\ y.stored = x.stored
  /\ y.ready = x.ready \/ (~y.ready /\ \A c \in Channels : y.held[c] = "no")

LEMMA ScreenParts ==
  ASSUME NEW x \in Screens
  PROVE  /\ \A c \in Channels : \A h \in {"no", "button", "key"} :
              LET y == [x EXCEPT !.held[c] = h] IN
              y \in Screens /\ SameView(x, y) /\ y.direct = x.direct /\ y.incoming = x.incoming
              /\ y.prefer = x.prefer /\ y.latch = x.latch /\ y.held = [x.held EXCEPT ![c] = h]
         /\ \A L, V \in SUBSET Channels :
              LET y == [x EXCEPT !.latch = L, !.voxed = V] IN
              y \in Screens /\ SameView(x, y) /\ y.direct = x.direct /\ y.incoming = x.incoming
              /\ y.prefer = x.prefer /\ y.voxed = V
         /\ \A L \in SUBSET Channels :
              LET y == [x EXCEPT !.latch = L] IN
              y \in Screens /\ SameView(x, y) /\ y.direct = x.direct /\ y.incoming = x.incoming
              /\ y.prefer = x.prefer /\ y.latch = L /\ y.held = x.held
         /\ \A V \in SUBSET Channels :
              LET y == [x EXCEPT !.voxed = V] IN
              y \in Screens /\ SameView(x, y) /\ y.direct = x.direct /\ y.incoming = x.incoming
              /\ y.prefer = x.prefer /\ y.latch = x.latch /\ y.held = x.held
         /\ \A P \in SUBSET Channels :
              LET y == [x EXCEPT !.prefer = P] IN
              y \in Screens /\ SameView(x, y) /\ y.direct = x.direct /\ y.incoming = x.incoming
              /\ y.prefer = P
         /\ \A d \in Directs :
              LET y == [x EXCEPT !.direct = d] IN
              y \in Screens /\ SameView(x, y) /\ y.direct = d /\ y.incoming = x.incoming
              /\ y.prefer = x.prefer /\ y.latch = x.latch /\ y.held = x.held
         /\ LET y == [x EXCEPT !.incoming = 0] IN
              y \in Screens /\ SameView(x, y) /\ y.direct = x.direct /\ y.incoming = 0
              /\ y.prefer = x.prefer /\ y.latch = x.latch /\ y.held = x.held
         /\ \A b \in BOOLEAN :
              LET y == [x EXCEPT !.ready = b] IN
              y \in Screens /\ y.ready = b /\ y.direct = x.direct /\ y.incoming = x.incoming
              /\ y.prefer = x.prefer /\ y.latch = x.latch /\ y.held = x.held /\ y.known = x.known
              /\ y.talk = x.talk /\ y.listen = x.listen /\ y.page = x.page /\ y.restored = x.restored
              /\ y.stored = x.stored
BY DEF Screens, SameView

LEMMA ScreenFields ==
  ASSUME ScreenInv
  PROVE  /\ scr \in Screens /\ vox \in Detectors /\ up \in [Sockets -> Seq(Commands)]
         /\ scr.talk \in SUBSET Channels /\ scr.listen \in SUBSET Channels
         /\ scr.latch \in SUBSET Channels /\ scr.voxed \in SUBSET Channels
         /\ scr.prefer \in SUBSET Channels /\ scr.direct \in Directs /\ scr.direct.id \in Nat
         /\ scr.incoming \in Nat /\ scr.ready \in BOOLEAN /\ scr.known \in BOOLEAN
         /\ vox.channels \in SUBSET Channels /\ vox.view \in SUBSET Channels /\ vox.on \in BOOLEAN
<1>1. scr \in Screens /\ vox \in Detectors /\ up \in [Sockets -> Seq(Commands)]
  BY DEF ScreenInv, SessionShapes
<1>2. scr.direct \in Directs
  BY <1>1 DEF Screens
<1> QED BY <1>1, <1>2 DEF Screens, Detectors, Directs

Local ==
  /\ UNCHANGED <<device, login, leaving, valid, client, wire, down, serverState, paged>>
  /\ scr' \in Screens /\ vox' \in Detectors /\ SameView(scr, scr')
  /\ \E msgs \in Seq(Commands) : Sent(msgs)

LEMMA OneCommand == <<>> \in Seq(Commands) /\ \A m \in Commands : <<m>> \in Seq(Commands)
OBVIOUS

LEMMA OperatesLocal == Operates =>
  UNCHANGED <<device, login, leaving, valid, client, wire, down, serverState, paged>>
BY DEF Operates

LEMMA ViewRefl == ASSUME NEW x PROVE SameView(x, x)
BY DEF SameView

\* A talk button or key.
LEMMA HoldsLocal ==
  ASSUME ScreenInv, NEW c \in Channels, WebPress(c) \/ KeyPress(c) \/ MobilePress(c)
  PROVE  Local
<1>1. PICK by \in {"button", "key"}, msgs \in {WebStarts(c, scr.talk), <<Talk(TRUE, {c})>>} :
        Holds(c, by, msgs)
  BY DEF WebPress, KeyPress, MobilePress
<1>2. Talk(TRUE, {c}) \in Commands
  BY CommandFacts
<1>3. msgs \in Seq(Commands)
  <2>1. msgs \in {<<>>, <<Talk(TRUE, {c})>>}
    BY DEF WebStarts
  <2> QED BY <1>2, <2>1, OneCommand
<1>4. /\ scr' = [scr EXCEPT !.held[c] = by] /\ UNCHANGED vox /\ Sent(msgs) /\ Operates
  BY <1>1 DEF Holds
<1>5. scr' \in Screens /\ SameView(scr, scr')
  <2>1. by \in {"no", "button", "key"} /\ scr \in Screens
    BY ScreenFields
  <2> QED BY <1>4, <2>1, ScreenParts
<1> QED BY <1>3, <1>4, <1>5, ScreenFields, OperatesLocal DEF Local

LEMMA ReleaseLocal == ASSUME ScreenInv, NEW c \in Channels, Release(c) PROVE Local
<1>1. Talk(FALSE, {c}) \in Commands
  BY CommandFacts
<1>2. ReleaseSends(c) \in Seq(Commands)
  <2>1. ReleaseSends(c) \in {<<>>, <<Talk(FALSE, {c})>>}
    BY DEF ReleaseSends, MobileReleases, KeyReleases, ButtonReleases, WebStops
  <2> QED BY <1>1, <2>1, OneCommand
<1>3. scr' = [scr EXCEPT !.held[c] = "no"] /\ UNCHANGED vox /\ Sent(ReleaseSends(c))
  BY DEF Release
<1>4. scr' \in Screens /\ SameView(scr, scr')
  BY <1>3, ScreenFields, ScreenParts
<1>5. UNCHANGED <<device, login, leaving, valid, client, wire, down, serverState, paged>>
  BY DEF Release, sessionVars
<1> QED BY <1>2, <1>3, <1>4, <1>5, ScreenFields DEF Local

\* What sends messages and changes nothing on the screen.
LEMMA SendsLocal ==
  ASSUME ScreenInv, UNCHANGED <<device, login, leaving, valid, client, wire, down, serverState, paged>>,
         UNCHANGED scr, vox' \in Detectors, NEW msgs \in Seq(Commands), Sent(msgs)
  PROVE  Local
BY ScreenFields, ViewRefl DEF Local

LEMMA TapsLocal ==
  ASSUME ScreenInv, NEW c \in Channels, WebTap(c) \/ MobileTap(c) PROVE Local
<1>1. Taps(c)
  BY DEF WebTap, MobileTap
<1> DEFINE msgs == <<Talk(c \notin scr.talk, {c})>>
<1>2. msgs \in Seq(Commands)
  <2>1. Talk(c \notin scr.talk, {c}) \in Commands
    BY CommandFacts
  <2> QED BY <2>1, OneCommand
<1>3. Operates /\ Sent(msgs) /\ UNCHANGED <<scr, vox>>
  BY <1>1 DEF Taps
<1> HIDE DEF msgs
<1> QED BY <1>2, <1>3, SendsLocal, OperatesLocal, ScreenFields

LEMMA EscapeLocal == ASSUME ScreenInv, Escape \/ Widget PROVE Local
<1>1. Operates /\ UNCHANGED <<scr, vox>>
  BY DEF Escape, Widget
<1>2. Channels \in SUBSET Channels /\ scr.talk \in SUBSET Channels
  BY ScreenFields
<1>3. <<Talk(scr.talk = {}, Channels)>> \in Seq(Commands)
  <2>1. Talk(scr.talk = {}, Channels) \in Commands
    BY <1>2, CommandFacts
  <2> QED BY <2>1
<1>4. TalkEach(FALSE, scr.talk) \in Seq(Commands)
  BY <1>2, EachFacts
<1>5. Sent(<<Talk(scr.talk = {}, Channels)>>) \/ Sent(TalkEach(FALSE, scr.talk))
  BY DEF Escape, Widget
<1> QED BY <1>1, <1>3, <1>4, <1>5, SendsLocal, OperatesLocal, ScreenFields

LEMMA DetectorParts ==
  ASSUME ScreenInv
  PROVE  /\ \A b \in BOOLEAN : /\ [vox EXCEPT !.on = b] \in Detectors
                               /\ [vox EXCEPT !.on = b].on = b
         /\ Quiet \in Detectors /\ ~Quiet.on
         /\ \A C, V \in SUBSET Channels : [on |-> FALSE, channels |-> C, view |-> V] \in Detectors
         /\ DetectorStops \in Seq(Commands)
<1>1. vox \in Detectors
  BY ScreenFields
<1>2. TalkEach(FALSE, vox.channels \cap vox.view) \in Seq(Commands)
  BY ScreenFields, EachFacts
<1>3. DetectorStops \in Seq(Commands)
  <2>1. DetectorStops = IF vox.on THEN TalkEach(FALSE, vox.channels \cap vox.view) ELSE <<>>
    BY DEF DetectorStops
  <2> HIDE DEF DetectorStops
  <2> QED BY <1>2, <2>1, OneCommand
<1> HIDE DEF DetectorStops
<1> QED BY <1>1, <1>3 DEF Detectors, Quiet

\* The app lets go of its audio.
LEMMA DisarmLocal == ASSUME ScreenInv, Disarm PROVE Local
<1> DEFINE msgs == IF vox.on THEN <<Talk(FALSE, Channels)>> ELSE <<>>
<1>1. /\ scr' = [scr EXCEPT !.ready = FALSE] /\ vox' = [vox EXCEPT !.on = FALSE] /\ Sent(msgs)
      /\ UNCHANGED <<device, login, leaving, valid, client, wire, down, serverState, paged>>
  BY DEF Disarm
<1>2. scr' \in Screens /\ SameView(scr, scr')
  <2>1. \A c \in Channels : scr.held[c] = "no"
    BY DEF Disarm
  <2>2. scr \in Screens
    BY ScreenFields
  <2>3. scr' \in Screens /\ ~scr'.ready /\ scr'.held = scr.held /\ scr'.known = scr.known
    BY <1>1, <2>2, ScreenParts
  <2>4. /\ scr'.talk = scr.talk /\ scr'.listen = scr.listen /\ scr'.page = scr.page
        /\ scr'.restored = scr.restored /\ scr'.stored = scr.stored
    BY <1>1, <2>2 DEF Screens
  <2> QED BY <2>1, <2>3, <2>4 DEF SameView
<1>3. vox' \in Detectors
  BY <1>1, DetectorParts
<1>4. msgs \in Seq(Commands)
  <2>1. Talk(FALSE, Channels) \in Commands
    BY CommandFacts
  <2> QED BY <2>1, OneCommand
<1> HIDE DEF msgs
<1> QED BY <1>1, <1>2, <1>3, <1>4 DEF Local

LEMMA DetectorForShape ==
  ASSUME NEW x \in Screens, DetectorFor(x), Quiet \in Detectors PROVE vox' \in Detectors
<1>1. x.voxed \in SUBSET Channels /\ x.talk \in SUBSET Channels
  BY DEF Screens
<1>2. [on |-> FALSE, channels |-> x.voxed, view |-> x.talk] \in Detectors
  BY <1>1 DEF Detectors
<1> QED BY <1>2 DEF DetectorFor

\* The switches of the modes.
LEMMA ModesLocal ==
  ASSUME ScreenInv, \/ LatchSwitch \/ VoxSwitch
                    \/ \E c \in Channels : ToggleLatchMode(c) \/ ToggleVoxMode(c)
  PROVE  Local
<1>1. CASE LatchSwitch
  <2>1. scr' = [scr EXCEPT !.latch = Channels \ scr.latch] /\ UNCHANGED <<up, vox>> /\ Operates
    BY <1>1 DEF LatchSwitch
  <2>2. scr' \in Screens /\ SameView(scr, scr')
    BY <2>1, ScreenFields, ScreenParts
  <2>3. <<>> \in Seq(Commands) /\ Sent(<<>>)
    <3>1. up \in [Sockets -> Seq(Commands)] /\ (CanSend => SocketOf \in Sockets)
      BY ScreenFields, SocketParts
    <3>2. CanSend => up[SocketOf] \o <<>> = up[SocketOf]
      BY <3>1, ConcatEmptySeq
    <3>3. CanSend => [up EXCEPT ![SocketOf] = up[SocketOf] \o <<>>] = up
      BY <3>1, <3>2
    <3>4. <<>> \in Seq(Commands)
      OBVIOUS
    <3> QED BY <2>1, <3>3, <3>4 DEF Sent
  <2> QED BY <2>1, <2>2, <2>3, ScreenFields, OperatesLocal DEF Local
<1>2. CASE VoxSwitch
  <2> DEFINE msgs == IF vox.on THEN <<Talk(FALSE, Channels)>> ELSE <<>>
  <2>1. /\ scr' = [scr EXCEPT !.voxed = Channels \ scr.voxed] /\ Operates
        /\ vox' = [vox EXCEPT !.on = FALSE] /\ Sent(msgs)
    BY <1>2 DEF VoxSwitch
  <2>2. scr' \in Screens /\ SameView(scr, scr')
    BY <2>1, ScreenFields, ScreenParts
  <2>3. vox' \in Detectors
    BY <2>1, DetectorParts
  <2>4. msgs \in Seq(Commands)
    <3>1. Talk(FALSE, Channels) \in Commands
      BY CommandFacts
    <3> QED BY <3>1, OneCommand
  <2> HIDE DEF msgs
  <2> QED BY <2>1, <2>2, <2>3, <2>4, OperatesLocal DEF Local
<1>3. ASSUME NEW c \in Channels, ToggleLatchMode(c) \/ ToggleVoxMode(c) PROVE Local
  <2>1. PICK L \in SUBSET Channels, V \in SUBSET Channels : WebModes(L, V)
    <3>1. /\ Toggled(scr.latch, {c}) \in SUBSET Channels /\ scr.voxed \ {c} \in SUBSET Channels
          /\ scr.latch \ {c} \in SUBSET Channels /\ Toggled(scr.voxed, {c}) \in SUBSET Channels
      BY ScreenFields DEF Toggled
    <3>2. \/ WebModes(Toggled(scr.latch, {c}), scr.voxed \ {c})
          \/ WebModes(scr.latch \ {c}, Toggled(scr.voxed, {c}))
      BY <1>3 DEF ToggleLatchMode, ToggleVoxMode
    <3> QED BY <3>1, <3>2
  <2>2. /\ scr' = [scr EXCEPT !.latch = L, !.voxed = V] /\ Operates
        /\ Sent(DetectorStops) /\ DetectorFor(scr')
    BY <2>1 DEF WebModes
  <2>3. scr' \in Screens /\ SameView(scr, scr')
    BY <2>2, ScreenFields, ScreenParts
  <2>4. vox' \in Detectors
    BY <2>2, <2>3, DetectorParts, DetectorForShape
  <2> QED BY <2>2, <2>3, <2>4, DetectorParts, OperatesLocal DEF Local
<1> QED BY <1>1, <1>2, <1>3

LEMMA VoiceLocal ==
  ASSUME ScreenInv, WebVoice \/ MobileVoice \/ WebSilence \/ MobileSilence PROVE Local
<1>1. /\ TalkEach(TRUE, vox.channels \ vox.view) \in Seq(Commands)
      /\ <<Talk(TRUE, Channels)>> \in Seq(Commands) /\ <<Talk(FALSE, Channels)>> \in Seq(Commands)
      /\ DetectorStops \in Seq(Commands)
  <2>1. Talk(TRUE, Channels) \in Commands /\ Talk(FALSE, Channels) \in Commands
    BY CommandFacts
  <2>2. vox.channels \ vox.view \in SUBSET Channels
    BY ScreenFields
  <2>3. TalkEach(TRUE, vox.channels \ vox.view) \in Seq(Commands)
    BY <2>2, EachFacts
  <2> QED BY <2>1, <2>3, DetectorParts, OneCommand
<1>2. PICK msgs \in Seq(Commands) : Sent(msgs)
  <2>1. \/ Sent(TalkEach(TRUE, vox.channels \ vox.view)) \/ Sent(<<Talk(TRUE, Channels)>>)
        \/ Sent(DetectorStops) \/ Sent(<<Talk(FALSE, Channels)>>)
    BY DEF WebVoice, MobileVoice, Voice, WebSilence, MobileSilence, Silence
  <2> QED BY <1>1, <2>1
<1>3. UNCHANGED scr /\ \E b \in BOOLEAN : vox' = [vox EXCEPT !.on = b]
  BY DEF WebVoice, MobileVoice, Voice, WebSilence, MobileSilence, Silence
<1>4. UNCHANGED <<device, login, leaving, valid, client, wire, down, serverState, paged>>
  <2>1. CASE WebVoice \/ MobileVoice
    BY <2>1, OperatesLocal DEF WebVoice, MobileVoice, Voice
  <2>2. CASE WebSilence \/ MobileSilence
    BY <2>2 DEF WebSilence, MobileSilence, Silence, sessionVars
  <2> QED BY <2>1, <2>2
<1> QED BY <1>2, <1>3, <1>4, DetectorParts, SendsLocal

LEMMA ListensLocal ==
  ASSUME ScreenInv, NEW c \in Channels, WebListen(c) \/ MobileListen(c) PROVE Local
<1> DEFINE msgs == <<Listen(c \notin scr.listen, {c})>>
<1>1. Operates /\ Sent(msgs) /\ UNCHANGED vox
  BY DEF WebListen, MobileListen, Listens
<1>2. msgs \in Seq(Commands)
  <2>1. Listen(c \notin scr.listen, {c}) \in Commands
    BY CommandFacts
  <2> QED BY <2>1, OneCommand
<1>3. scr' \in Screens /\ SameView(scr, scr')
  <2>1. CASE WebListen(c)
    <3>1. PICK P \in SUBSET Channels : scr' = [scr EXCEPT !.prefer = P]
      <4>1. scr.prefer \ {c} \in SUBSET Channels /\ scr.prefer \cup {c} \in SUBSET Channels
        BY ScreenFields
      <4>2. \/ scr' = [scr EXCEPT !.prefer = scr.prefer \ {c}]
            \/ scr' = [scr EXCEPT !.prefer = scr.prefer \cup {c}]
        BY <2>1 DEF WebListen
      <4> QED BY <4>1, <4>2
    <3> QED BY <3>1, ScreenFields, ScreenParts
  <2>2. CASE MobileListen(c)
    BY <2>2, ScreenFields, ViewRefl DEF MobileListen
  <2> QED BY <2>1, <2>2
<1> HIDE DEF msgs
<1> QED BY <1>1, <1>2, <1>3, ScreenFields, OperatesLocal DEF Local

LEMMA PagesLocal == ASSUME ScreenInv, WebPageButton \/ MobilePageButton PROVE Local
<1> DEFINE msgs == <<[kind |-> "page", on |-> scr.page # "me"]>>
<1>1. Pages
  BY DEF WebPageButton, MobilePageButton
<1>2. Operates /\ Sent(msgs) /\ UNCHANGED <<scr, vox>>
  BY <1>1 DEF Pages
<1>3. msgs \in Seq(Commands)
  <2>1. [kind |-> "page", on |-> scr.page # "me"] \in Commands
    BY CommandFacts
  <2> QED BY <2>1
<1> HIDE DEF msgs
<1> QED BY <1>2, <1>3, SendsLocal, OperatesLocal, ScreenFields

LEMMA CallsLocal ==
  ASSUME ScreenInv, CallPeer \/ Accept \/ Reject \/ HangUp PROVE Local
<1>1. Operates /\ UNCHANGED vox
  BY DEF CallPeer, Accept, Reject, HangUp
<1>2. PICK m \in Commands : Sent(<<m>>)
  <2>1. /\ [kind |-> "call"] \in Commands
        /\ [kind |-> "accept", id |-> scr.incoming] \in Commands
        /\ [kind |-> "reject", id |-> scr.incoming] \in Commands
        /\ [kind |-> "end", id |-> scr.direct.id] \in Commands
    BY CommandFacts, ScreenFields
  <2>2. \/ Sent(<<[kind |-> "call"]>>) \/ Sent(<<[kind |-> "accept", id |-> scr.incoming]>>)
        \/ Sent(<<[kind |-> "reject", id |-> scr.incoming]>>)
        \/ Sent(<<[kind |-> "end", id |-> scr.direct.id]>>)
    BY DEF CallPeer, Accept, Reject, HangUp
  <2> QED BY <2>1, <2>2
<1>3. scr' \in Screens /\ SameView(scr, scr')
  <2>1. CASE Accept
    BY <2>1, ScreenFields, ViewRefl DEF Accept
  <2>2. CASE Reject
    BY <2>2, ScreenFields, ScreenParts DEF Reject
  <2>3. CASE CallPeer \/ HangUp
    <3>1. PICK d \in Directs : scr' = [scr EXCEPT !.direct = d]
      BY <2>3 DEF CallPeer, HangUp, NoDirect, Directs
    <3> QED BY <3>1, ScreenFields, ScreenParts
  <2> QED BY <2>1, <2>2, <2>3
<1>4. <<m>> \in Seq(Commands)
  OBVIOUS
<1> QED BY <1>1, <1>2, <1>3, <1>4, ScreenFields, OperatesLocal DEF Local

\* Everything but signing in and out.
LEMMA OperatorLocal ==
  ASSUME ScreenInv, Operator, ~SignIn, ~AskSignOut, ~WebSignOut, ~MobileSignOut PROVE Local
<1>1. CASE Escape \/ Widget \/ Disarm
  BY <1>1, EscapeLocal, DisarmLocal
<1>2. CASE LatchSwitch \/ VoxSwitch
  BY <1>2, ModesLocal
<1>3. CASE WebVoice \/ MobileVoice \/ WebSilence \/ MobileSilence
  BY <1>3, VoiceLocal
<1>4. CASE WebPageButton \/ MobilePageButton
  BY <1>4, PagesLocal
<1>5. CASE CallPeer \/ Accept \/ Reject \/ HangUp
  BY <1>5, CallsLocal
<1>6. ASSUME NEW c \in Channels,
             \/ WebPress(c) \/ KeyPress(c) \/ MobilePress(c) \/ Release(c) \/ WebTap(c) \/ MobileTap(c)
             \/ ToggleLatchMode(c) \/ ToggleVoxMode(c) \/ WebListen(c) \/ MobileListen(c)
      PROVE  Local
  <2>1. CASE WebPress(c) \/ KeyPress(c) \/ MobilePress(c)
    BY <2>1, HoldsLocal
  <2>2. CASE Release(c)
    BY <2>2, ReleaseLocal
  <2>3. CASE WebTap(c) \/ MobileTap(c)
    BY <2>3, TapsLocal
  <2>4. CASE ToggleLatchMode(c) \/ ToggleVoxMode(c)
    BY <2>4, ModesLocal
  <2>5. CASE WebListen(c) \/ MobileListen(c)
    BY <2>5, ListensLocal
  <2> QED BY <1>6, <2>1, <2>2, <2>3, <2>4, <2>5
<1>7. Visible \subseteq Channels
  BY DEF Visible
<1> QED BY <1>1, <1>2, <1>3, <1>4, <1>5, <1>6, <1>7 DEF Operator

-----------------------------------------------------------------------------
(* Signing in and out, and the link *)

LEMMA ScreenInvParts ==
  ASSUME ScreenInv
  PROVE  /\ ConsoleInv /\ ServerShapes /\ scr \in Screens /\ vox \in Detectors
         /\ up \in [Sockets -> Seq(Commands)] /\ down \in [Sockets -> Seq(Answers)]
         /\ client \in [Logins -> ClientStates] /\ wire \in [Sockets -> Ends]
BY DEF ScreenInv, SessionShapes, ConsoleInv, LinkShapes

LEMMA SameAttached ==
  ASSUME UNCHANGED wire PROVE Attached' = Attached
BY DEF Attached, ServerSockets

\* The sockets that the server takes for live are the same.
LEMMA AttachedKept ==
  ASSUME \A s \in Sockets : wire'[s].server = "up" <=> wire[s].server = "up",
         \A s \in Sockets : wire[s].server = "up" => wire'[s].by = wire[s].by
  PROVE  /\ Attached' = Attached /\ \A k \in Logins : ServerSockets(k)' = ServerSockets(k)
<1>1. \A k \in Logins : ServerSockets(k)' = ServerSockets(k)
  BY DEF ServerSockets
<1> QED BY <1>1 DEF Attached

LEMMA LocalKept == ASSUME ScreenInv, ConsoleInv', Local PROVE ScreenInv'
<1>1. /\ UNCHANGED <<login, client, wire, down, srv, page, call, calls>>
      /\ scr' \in Screens /\ vox' \in Detectors /\ (scr'.ready => scr.ready)
  BY DEF Local, SameView, serverState
<1>2. up' \in [Sockets -> Seq(Commands)]
  BY SentShape DEF Local
<1>3. SessionShapes'
  BY <1>1, <1>2 DEF ScreenInv, SessionShapes, ServerShapes
<1>4. SocketsUsed' /\ ClientsUsed'
  BY <1>1 DEF ScreenInv, SocketsUsed, ClientsUsed, Connected, ScreenState
<1>5. LinesHeld'
  BY <1>1, SameAttached DEF ScreenInv, LinesHeld
<1> QED BY <1>3, <1>4, <1>5 DEF ScreenInv

\* A login connects, or connects again.
LEMMA OpenKept ==
  ASSUME ScreenInv, ConsoleInv', NEW k \in Logins, NEW s \in Fresh,
         NEW state \in {"connecting", "reconnecting"}, OpenSocket(k, s, state),
         ~Connected, login' = k, UNCHANGED <<up, down, serverState, scr, vox>>
  PROVE  ScreenInv'
<1> DEFINE c == [at |-> state, socket |-> s, timer |-> FALSE]
           e == [by |-> k, client |-> "opening", server |-> "none"]
<1>1. /\ s \in Sockets /\ wire[s] = NoWire /\ s # 0
      /\ client \in [Logins -> ClientStates] /\ wire \in [Sockets -> Ends]
  BY SocketParts, ScreenInvParts DEF Fresh
<1>2. client' = [client EXCEPT ![k] = c] /\ wire' = [wire EXCEPT ![s] = e]
  BY DEF OpenSocket
<1>3. c.at = state /\ c.socket = s /\ e.by = k /\ e.client = "opening" /\ e.server = "none"
  OBVIOUS
<1> HIDE DEF c, e
<1>4. /\ client'[k] = c /\ \A j \in Logins \ {k} : client'[j] = client[j]
      /\ wire'[s] = e /\ \A r \in Sockets \ {s} : wire'[r] = wire[r]
  BY <1>1, <1>2
<1>5. NoWire.server = "none" /\ NoWire.client = "none" /\ NoWire.by = 0
  BY DEF NoWire
<1>6. SessionShapes'
  BY DEF ScreenInv, SessionShapes, ServerShapes, serverState
<1>7. SocketsUsed'
  BY <1>1, <1>3, <1>4, <1>5 DEF ScreenInv, SocketsUsed
<1>8. scr.ready = FALSE
  BY ScreenFields DEF ScreenInv, ClientsUsed
<1>9. ASSUME NEW j \in Logins
      PROVE  /\ client'[j].at # "idle" => \E r \in Sockets : wire'[r].by = j
             /\ client'[j].at = "connected" <=>
                  client'[j].socket # 0 /\ wire'[client'[j].socket].client = "open"
  <2>1. CASE j = k
    BY <1>1, <1>3, <1>4, <2>1
  <2>2. CASE j # k
    <3>1. client'[j] = client[j]
      BY <1>4, <2>2
    <3>2. client[j].socket # 0 => client[j].socket \in Sockets /\ client[j].socket # s
      BY <1>1, <1>5 DEF ScreenInv, ConsoleInv, SocketsOwned
    <3>3. client[j].at # "idle" => \E r \in Sockets : wire'[r].by = j
      <4>1. ASSUME NEW r \in Sockets, wire[r].by = j PROVE wire'[r].by = j
        BY <1>1, <1>4, <1>5, <4>1, SocketParts
      <4> QED BY <4>1 DEF ScreenInv, ClientsUsed
    <3> QED BY <1>4, <3>1, <3>2, <3>3 DEF ScreenInv, ClientsUsed
  <2> QED BY <2>1, <2>2
<1>10. ClientsUsed'
  BY <1>3, <1>4, <1>8, <1>9 DEF ClientsUsed
<1>11. LinesHeld'
  <2>1. /\ \A r \in Sockets : wire'[r].server = "up" <=> wire[r].server = "up"
        /\ \A r \in Sockets : wire[r].server = "up" => wire'[r].by = wire[r].by
    BY <1>1, <1>3, <1>4, <1>5
  <2>2. Attached' = Attached
    BY <2>1, AttachedKept
  <2> QED BY <2>2 DEF ScreenInv, LinesHeld, serverState
<1> QED BY <1>6, <1>7, <1>10, <1>11 DEF ScreenInv

LEMMA SignInOpens ==
  ASSUME ScreenInv, SignIn
  PROVE  \E k \in Logins, s \in Fresh :
           /\ OpenSocket(k, s, "connecting") /\ login = 0 /\ login' = k
           /\ UNCHANGED <<up, down, serverState, scr, vox, events, paged, opener>>
<1>1. PICK k \in Logins : client[k].at = "idle" /\ login' = k /\ \E s \in Fresh : Connect(k, s)
  BY DEF SignIn
<1>2. PICK s \in Fresh : Connect(k, s)
  BY <1>1
<1>3. client[k].socket = 0 /\ client[k].timer = FALSE
  BY <1>1 DEF ScreenInv, ConsoleInv, SocketsOwned, NoClient
<1>4. OpenSocket(k, s, "connecting")
  BY <1>2, <1>3 DEF Connect
<1> QED BY <1>1, <1>4 DEF SignIn, sessionVars

LEMMA ReconnectOpens ==
  ASSUME ScreenInv, login # 0, Reconnect(login)
  PROVE  /\ \E s \in Fresh : OpenSocket(login, s, "reconnecting")
         /\ login \in Logins /\ ~Connected /\ SocketOf = 0 /\ UNCHANGED <<login, up, down>>
<1>1. login \in Logins
  BY SocketParts
<1>2. client[login].socket = 0
  BY <1>1 DEF Reconnect, ScreenInv, ConsoleInv, OneConnection
<1>3. SocketOf = 0
  BY <1>2 DEF SocketOf
<1>4. ~Connected
  BY <1>3, SocketParts DEF CanSend
<1> QED BY <1>1, <1>3, <1>4 DEF Reconnect

\* The client of the login gives up its socket.
GivesUp(x) ==
  LET s == client[login].socket IN
  /\ client'[login].at \notin {"idle", "connected"} /\ client'[login].socket = 0
  /\ \A j \in Logins \ {login} : client'[j] = client[j]
  /\ s # 0 => /\ wire' = [wire EXCEPT ![s].client = x] /\ down' = [down EXCEPT ![s] = <<>>]
  /\ s = 0 => UNCHANGED <<wire, down>>

LEMMA GivesUpShape ==
  ASSUME ScreenInv, login # 0,
         Disconnect(login) \/ (HandleClose(login) /\ client[login].socket # 0)
  PROVE  \E x \in {"left", "lost"} : GivesUp(x)
<1>1. login \in Logins /\ client \in [Logins -> ClientStates]
  BY SocketParts, ScreenInvParts
<1>2. CASE Disconnect(login)
  <2> DEFINE c == [NoClient EXCEPT !.at = "closed"]
  <2>1. c.at = "closed" /\ c.socket = 0
    BY DEF NoClient
  <2>2. client' = [client EXCEPT ![login] = c]
    BY <1>2 DEF Disconnect
  <2> HIDE DEF c
  <2>3. GivesUp("left")
    BY <1>1, <1>2, <2>1, <2>2 DEF Disconnect, GivesUp
  <2> QED BY <2>3
<1>3. CASE HandleClose(login) /\ client[login].socket # 0
  <2> DEFINE c == [at |-> "reconnecting", socket |-> 0, timer |-> TRUE]
  <2>1. c.at = "reconnecting" /\ c.socket = 0
    OBVIOUS
  <2>2. client' = [client EXCEPT ![login] = c]
    BY <1>3 DEF HandleClose
  <2> HIDE DEF c
  <2>3. GivesUp("lost")
    BY <1>1, <1>3, <2>1, <2>2 DEF HandleClose, GivesUp
  <2> QED BY <2>3
<1> QED BY <1>2, <1>3

LEMMA GivesUpKept ==
  ASSUME ScreenInv, ConsoleInv', login # 0, NEW x \in {"left", "lost"}, GivesUp(x),
         login' \in {0, login}, UNCHANGED <<up, serverState>>, scr' \in Screens, ~scr'.ready, vox' \in Detectors
  PROVE  ScreenInv'
<1> DEFINE s == client[login].socket
           e == [wire[client[login].socket] EXCEPT !.client = x]
<1>1. /\ login \in Logins /\ wire \in [Sockets -> Ends] /\ down \in [Sockets -> Seq(Answers)]
      /\ s # 0 => s \in Sockets /\ wire[s].by = login /\ wire[s].client \in {"opening", "open"}
  BY SocketParts, ScreenInvParts DEF ScreenInv, ConsoleInv, SocketsOwned
<1>2. s # 0 => e.by = wire[s].by /\ e.server = wire[s].server /\ e.client = x
  <2>1. s # 0 => wire[s] \in Ends
    BY <1>1
  <2> QED BY <2>1 DEF Ends
<1>3. /\ client'[login].at \notin {"idle", "connected"} /\ client'[login].socket = 0
      /\ \A j \in Logins \ {login} : client'[j] = client[j]
      /\ s # 0 => wire' = [wire EXCEPT ![s] = e] /\ down' = [down EXCEPT ![s] = <<>>]
      /\ s = 0 => wire' = wire /\ down' = down
  BY DEF GivesUp
<1> HIDE DEF s, e
<1>4. /\ \A r \in Sockets : wire'[r].by = wire[r].by /\ wire'[r].server = wire[r].server
      /\ s # 0 => wire'[s].client = x
      /\ \A r \in Sockets \ {s} : wire'[r] = wire[r] /\ down'[r] = down[r]
      /\ \A r \in Sockets : down'[r] \in {down[r], <<>>}
      /\ down' \in [Sockets -> Seq(Answers)]
  <2>1. CASE s = 0
    BY <1>1, <1>3, <2>1
  <2>2. CASE s # 0
    <3>1. <<>> \in Seq(Answers)
      OBVIOUS
    <3> QED BY <1>1, <1>2, <1>3, <2>2, <3>1
  <2> QED BY <2>1, <2>2
<1>5. SessionShapes'
  BY <1>4 DEF ScreenInv, SessionShapes, ServerShapes, serverState
<1>6. SocketsUsed'
  <2> SUFFICES ASSUME NEW r \in Sockets
               PROVE  /\ wire'[r] # NoWire => wire'[r].by \in Logins
                      /\ wire'[r].client = "opening" => wire'[r].server = "none"
                      /\ wire'[r].client = "open" => wire'[r].server # "none"
                      /\ wire'[r].server \in {"none", "new"} => down'[r] = <<>>
    BY DEF SocketsUsed
  <2>1. CASE r = s
    <3>1. s # 0
      BY <2>1, SocketParts
    <3> QED BY <1>1, <1>4, <2>1, <3>1 DEF ScreenInv, SocketsUsed
  <2>2. CASE r # s
    BY <1>4, <2>2 DEF ScreenInv, SocketsUsed
  <2> QED BY <2>1, <2>2
<1>7. ClientsUsed'
  <2>1. ASSUME NEW j \in Logins
        PROVE  /\ client'[j].at # "idle" => \E r \in Sockets : wire'[r].by = j
               /\ client'[j].at = "connected" <=>
                    client'[j].socket # 0 /\ wire'[client'[j].socket].client = "open"
    <3>1. CASE j = login
      <4>1. client[login].at # "idle"
        BY DEF ScreenInv, ClientsUsed
      <4> QED BY <1>3, <1>4, <3>1, <4>1 DEF ScreenInv, ClientsUsed
    <3>2. CASE j # login
      <4>1. client'[j] = client[j] /\ client[j].socket = 0
        BY <1>3, <3>2 DEF ScreenInv, ConsoleInv, OneConnection
      <4> QED BY <1>4, <4>1 DEF ScreenInv, ClientsUsed
    <3> QED BY <3>1, <3>2
  <2> QED BY <1>3, <2>1 DEF ClientsUsed
<1>8. LinesHeld'
  <2>1. Attached' = Attached
    BY <1>4, AttachedKept
  <2> QED BY <2>1 DEF ScreenInv, LinesHeld, serverState
<1> QED BY <1>5, <1>6, <1>7, <1>8 DEF ScreenInv

\* Confidence channels are turned on, one message for each.
LEMMA MonitorsShape ==
  ASSUME NEW x \in Screens
  PROVE  /\ Monitors(x) \in Seq(Commands)
         /\ \A i \in DOMAIN Monitors(x) :
              \E c \in Confidence \ x.listen : Monitors(x)[i] = Listen(TRUE, {c})
         /\ \A c \in Confidence \ x.listen :
              \E i \in DOMAIN Monitors(x) : Monitors(x)[i] = Listen(TRUE, {c})
<1>1. Confidence \ x.listen \in SUBSET Channels
  BY OperatorScreenAssumption
<1> QED BY <1>1, EachFacts DEF Monitors

\* A message that turns a channel on or off for listening.
IsListen(m) == m.kind = "listen" /\ m.on \in BOOLEAN /\ \E c \in Channels : m.of = {c}

LEMMA GreetsShape ==
  ASSUME ScreenInv
  PROVE  Greets \in Seq(Commands) /\ \A i \in DOMAIN Greets : IsListen(Greets[i])
<1>1. /\ Monitors(scr) \in Seq(Commands)
      /\ \A i \in DOMAIN Monitors(scr) :
           \E c \in Confidence \ scr.listen : Monitors(scr)[i] = Listen(TRUE, {c})
  BY MonitorsShape, ScreenFields
<1>2. \A c \in Confidence : IsListen(Listen(TRUE, {c}))
  BY OperatorScreenAssumption DEF IsListen, Listen
<1>3. <<>> \in Seq(Commands) /\ DOMAIN <<>> = {}
  BY OneCommand
<1> QED BY <1>1, <1>2, <1>3 DEF Greets

\* The socket opens and asks to be authenticated.
LEMMA HandleOpenShape ==
  ASSUME ScreenInv, login # 0, HandleOpen(login, Greets)
  PROVE  /\ SocketOf \in Sockets /\ SocketOf # 0 /\ login \in Logins
         /\ wire[SocketOf].client = "opening" /\ wire[SocketOf].server = "none"
         /\ wire'[SocketOf].client = "open" /\ wire'[SocketOf].server = "new"
         /\ wire'[SocketOf].by = login
         /\ \A r \in Sockets \ {SocketOf} : wire'[r] = wire[r] /\ up'[r] = up[r]
         /\ up'[SocketOf] = <<[kind |-> "authenticate"]>> \o Greets /\ up' \in [Sockets -> Seq(Commands)]
         /\ client'[login].at = "connected" /\ client'[login].socket = SocketOf
         /\ \A j \in Logins \ {login} : client'[j] = client[j]
         /\ SocketOf' = SocketOf /\ UNCHANGED <<login, down>>
<1> DEFINE k == login
           s == client[login].socket
           c == [client[login] EXCEPT !.at = "connected"]
           e == [wire[client[login].socket] EXCEPT !.client = "open", !.server = "new"]
<1>1. /\ client \in [Logins -> ClientStates] /\ wire \in [Sockets -> Ends]
      /\ s = SocketOf /\ s # 0 /\ s \in Sockets /\ k \in Logins /\ wire[s].by = k
      /\ wire[s].client = "opening" /\ wire[s].server = "none"
      /\ up \in [Sockets -> Seq(Commands)]
  BY SocketParts, ScreenInvParts DEF HandleOpen, SocketOf, ScreenInv, SocketsUsed, ConsoleInv, SocketsOwned
<1>2. c.at = "connected" /\ c.socket = s
  <2>1. client[k] \in ClientStates
    BY <1>1
  <2> QED BY <2>1 DEF ClientStates
<1>3. e.by = k /\ e.client = "open" /\ e.server = "new"
  <2>1. wire[s] \in Ends /\ wire[s].by = k
    BY <1>1
  <2> QED BY <2>1 DEF Ends
<1>4. /\ client' = [client EXCEPT ![k] = c] /\ UNCHANGED <<login, down>>
      /\ wire' = [wire EXCEPT ![s] = e]
      /\ up' = [up EXCEPT ![s] = <<[kind |-> "authenticate"]>> \o Greets]
  BY <1>1 DEF HandleOpen
<1>5. <<[kind |-> "authenticate"]>> \o Greets \in Seq(Commands)
  <2>1. <<[kind |-> "authenticate"]>> \in Seq(Commands)
    BY CommandFacts, OneCommand
  <2> QED BY <2>1, GreetsShape, ConcatFacts
<1> HIDE DEF s, c, e
<1>6. SocketOf' = SocketOf
  BY <1>1, <1>2, <1>4 DEF SocketOf
<1> QED BY <1>1, <1>2, <1>3, <1>4, <1>5, <1>6

LEMMA HandleOpenKeeps ==
  ASSUME ScreenInv, ConsoleInv', login # 0, HandleOpen(login, Greets), UNCHANGED <<serverState, scr, vox>>
  PROVE  ScreenInv'
<1> DEFINE s == SocketOf
<1>1. /\ s \in Sockets /\ login \in Logins /\ wire[s].server = "none"
      /\ wire'[s].client = "open" /\ wire'[s].server = "new" /\ wire'[s].by = login
      /\ \A r \in Sockets \ {s} : wire'[r] = wire[r]
      /\ up' \in [Sockets -> Seq(Commands)] /\ s # 0
      /\ client'[login].at = "connected" /\ client'[login].socket = s
      /\ \A j \in Logins \ {login} : client'[j] = client[j]
      /\ UNCHANGED <<login, down>>
  BY HandleOpenShape
<1> HIDE DEF s
<1>2. SessionShapes'
  BY <1>1 DEF ScreenInv, SessionShapes, ServerShapes, serverState
<1>3. SocketsUsed'
  <2>1. down'[s] = <<>>
    BY <1>1 DEF ScreenInv, SocketsUsed
  <2> QED BY <1>1, <2>1 DEF ScreenInv, SocketsUsed
<1>4. ClientsUsed'
  <2>1. ASSUME NEW j \in Logins
        PROVE  /\ client'[j].at # "idle" => \E r \in Sockets : wire'[r].by = j
               /\ client'[j].at = "connected" <=>
                    client'[j].socket # 0 /\ wire'[client'[j].socket].client = "open"
    <3>1. CASE j = login
      BY <1>1, <3>1
    <3>2. CASE j # login
      <4>1. client'[j] = client[j] /\ client[j].socket = 0
        BY <1>1, <3>2 DEF ScreenInv, ConsoleInv, OneConnection
      <4>2. ASSUME NEW r \in Sockets, wire[r].by = j PROVE wire'[r].by = j
        <5>1. wire[s].by = login
          BY <1>1, SocketParts DEF s
        <5> QED BY <1>1, <3>2, <4>2, <5>1
      <4>3. \A r \in Sockets : wire[r].by = j => wire'[r].by = j
        BY <4>2
      <4> QED BY <4>1, <4>3 DEF ScreenInv, ClientsUsed
    <3> QED BY <3>1, <3>2
  <2>2. Connected'
    BY <1>1, SocketParts DEF Connected, ScreenState
  <2> QED BY <1>1, <2>1, <2>2 DEF ClientsUsed
<1>5. LinesHeld'
  <2>1. Attached' = Attached
    <3>1. \A r \in Sockets : wire'[r].server = "up" <=> wire[r].server = "up"
      BY <1>1
    <3>2. \A r \in Sockets : wire[r].server = "up" => wire'[r].by = wire[r].by
      BY <1>1
    <3> QED BY <3>1, <3>2, AttachedKept
  <2> QED BY <2>1 DEF ScreenInv, LinesHeld, serverState
<1> QED BY <1>2, <1>3, <1>4, <1>5 DEF ScreenInv

LEMMA ReadyKept ==
  ASSUME ScreenInv, ConsoleInv', WebAudioReady \/ MobileAudioReady PROVE ScreenInv'
<1>1. /\ UNCHANGED <<login, client, wire, up, down, serverState>> /\ Connected
      /\ scr' = [scr EXCEPT !.ready = TRUE]
  BY DEF WebAudioReady, MobileAudioReady, BecomesReady, linkVars, sessionVars
<1>2. scr' \in Screens
  BY <1>1, ScreenFields, ScreenParts
<1>3. vox' \in Detectors
  BY <1>2, DetectorParts, DetectorForShape, ScreenFields DEF WebAudioReady, MobileAudioReady
<1>4. SessionShapes'
  BY <1>1, <1>2, <1>3 DEF ScreenInv, SessionShapes, ServerShapes, serverState
<1>5. SocketsUsed' /\ ClientsUsed'
  BY <1>1 DEF ScreenInv, SocketsUsed, ClientsUsed, Connected, ScreenState
<1>6. LinesHeld'
  BY <1>1, SameAttached DEF ScreenInv, LinesHeld, serverState
<1> QED BY <1>4, <1>5, <1>6 DEF ScreenInv

\* y is what the screen shows once it took the message m.
ShowsAfter(y, m) ==
  /\ y \in Screens /\ y.ready = scr.ready /\ y.restored = scr.restored
  /\ y.stored = scr.stored
  /\ y.prefer = scr.prefer /\ y.latch = scr.latch /\ y.held = scr.held
  /\ m.kind = "state" => y.known /\ y.talk = m.talk /\ y.listen = m.listen
  /\ m.kind # "state" => y.known = scr.known /\ y.talk = scr.talk /\ y.listen = scr.listen
  /\ m.kind = "page" => y.page = m.who
  /\ m.kind # "page" => y.page = scr.page
  /\ m.kind = "incoming" => y.incoming = m.id /\ y.direct = scr.direct
  /\ m.kind = "active" => y.incoming = 0 /\ y.direct = [id |-> m.id, state |-> "active"]
  /\ m.kind = "ended" => y.incoming = 0 /\ y.direct = NoDirect
  /\ m.kind \notin {"incoming", "active", "ended"} =>
       y.incoming = scr.incoming /\ y.direct = scr.direct

WithCall(x, d) == [x EXCEPT !.incoming = 0, !.direct = d]

LEMMA CallTaken ==
  ASSUME NEW x \in Screens, NEW d \in Directs
  PROVE  /\ WithCall(x, d) \in Screens /\ SameView(x, WithCall(x, d))
         /\ WithCall(x, d).direct = d /\ WithCall(x, d).incoming = 0
         /\ WithCall(x, d).prefer = x.prefer /\ WithCall(x, d).latch = x.latch
         /\ WithCall(x, d).held = x.held /\ WithCall(x, d).ready = x.ready
<1> DEFINE z == [x EXCEPT !.incoming = 0]
           y == [z EXCEPT !.direct = d]
<1>1. /\ z \in Screens /\ SameView(x, z) /\ z.incoming = 0 /\ z.ready = x.ready
      /\ z.prefer = x.prefer /\ z.latch = x.latch /\ z.held = x.held
  <2>1. z \in Screens /\ SameView(x, z) /\ z.incoming = 0
    BY ScreenParts
  <2>2. z.ready = x.ready /\ z.prefer = x.prefer /\ z.latch = x.latch /\ z.held = x.held
    BY DEF Screens
  <2> QED BY <2>1, <2>2
<1>2. y = WithCall(x, d)
  BY DEF WithCall
<1> HIDE DEF z
<1>3. /\ y \in Screens /\ y.known = z.known /\ y.talk = z.talk /\ y.listen = z.listen
      /\ y.page = z.page /\ y.restored = z.restored /\ y.ready = z.ready /\ y.stored = z.stored
      /\ y.direct = d /\ y.incoming = z.incoming
      /\ y.prefer = z.prefer /\ y.latch = z.latch /\ y.held = z.held
  BY <1>1 DEF Screens
<1> HIDE DEF y
<1> QED BY <1>1, <1>2, <1>3 DEF SameView

LEMMA AfterShape ==
  ASSUME ScreenInv, NEW m \in Answers
  PROVE  ShowsAfter(After(m), m)
<1> SUFFICES ASSUME NEW y, y = After(m) PROVE ShowsAfter(y, m)
  OBVIOUS
<1>1. scr \in Screens
  BY ScreenFields
<1>2. m.kind \in {"state", "page", "incoming", "active", "ended"}
  BY AnswerKinds
<1>3. CASE m.kind = "state"
  <2>1. y = [scr EXCEPT !.known = TRUE, !.talk = m.talk, !.listen = m.listen]
    BY <1>3 DEF After
  <2>2. m.talk \in SUBSET Channels /\ m.listen \in SUBSET Channels
    BY <1>3, AnswerKinds
  <2>3. /\ y \in Screens /\ y.ready = scr.ready /\ y.restored = scr.restored
        /\ y.stored = scr.stored
        /\ y.prefer = scr.prefer /\ y.latch = scr.latch /\ y.held = scr.held
        /\ y.known /\ y.talk = m.talk /\ y.listen = m.listen
        /\ y.page = scr.page /\ y.incoming = scr.incoming /\ y.direct = scr.direct
    <3> DEFINE a == [scr EXCEPT !.known = TRUE]
               b == [a EXCEPT !.talk = m.talk]
               e == [b EXCEPT !.listen = m.listen]
    <3>1. /\ a \in Screens /\ a.known /\ a.talk = scr.talk /\ a.listen = scr.listen
          /\ a.ready = scr.ready /\ a.restored = scr.restored /\ a.stored = scr.stored
          /\ a.prefer = scr.prefer /\ a.latch = scr.latch /\ a.held = scr.held
          /\ a.page = scr.page /\ a.incoming = scr.incoming /\ a.direct = scr.direct
      BY <1>1 DEF Screens
    <3>2. y = e
      BY <2>1
    <3> HIDE DEF a
    <3>3. /\ b \in Screens /\ b.known = a.known /\ b.talk = m.talk /\ b.listen = a.listen
          /\ b.ready = a.ready /\ b.restored = a.restored /\ b.stored = a.stored
          /\ b.prefer = a.prefer /\ b.latch = a.latch /\ b.held = a.held
          /\ b.page = a.page /\ b.incoming = a.incoming /\ b.direct = a.direct
      BY <2>2, <3>1 DEF Screens
    <3> HIDE DEF b
    <3>4. /\ e \in Screens /\ e.known = b.known /\ e.talk = b.talk /\ e.listen = m.listen
          /\ e.ready = b.ready /\ e.restored = b.restored /\ e.stored = b.stored
          /\ e.prefer = b.prefer /\ e.latch = b.latch /\ e.held = b.held
          /\ e.page = b.page /\ e.incoming = b.incoming /\ e.direct = b.direct
      BY <2>2, <3>3 DEF Screens
    <3> HIDE DEF e
    <3> QED BY <3>1, <3>2, <3>3, <3>4
  <2> QED BY <1>3, <2>3 DEF ShowsAfter
<1>4. CASE m.kind = "page"
  <2>1. y = [scr EXCEPT !.page = m.who]
    BY <1>4 DEF After
  <2>2. m.who \in {"none", "other", "me"}
    BY <1>4, AnswerKinds
  <2> QED BY <1>1, <1>4, <2>1, <2>2 DEF Screens, ShowsAfter
<1>5. CASE m.kind = "incoming"
  <2>1. y = [scr EXCEPT !.incoming = m.id]
    BY <1>5 DEF After
  <2>2. m.id \in Nat
    BY <1>5, AnswerKinds
  <2> QED BY <1>1, <1>5, <2>1, <2>2 DEF Screens, ShowsAfter
<1>6. CASE m.kind = "active"
  <2> DEFINE d == [id |-> m.id, state |-> "active"]
  <2>1. y = WithCall(scr, d)
    BY <1>6 DEF After, WithCall
  <2>2. m.id \in Nat
    BY <1>6, AnswerKinds
  <2>3. d \in Directs
    BY <2>2 DEF Directs
  <2> HIDE DEF d
  <2>4. /\ y \in Screens /\ y.ready = scr.ready /\ y.restored = scr.restored
        /\ y.stored = scr.stored
        /\ y.prefer = scr.prefer /\ y.latch = scr.latch /\ y.held = scr.held
        /\ y.known = scr.known /\ y.talk = scr.talk /\ y.listen = scr.listen
        /\ y.page = scr.page /\ y.incoming = 0 /\ y.direct = d
    BY <1>1, <2>1, <2>3, CallTaken DEF SameView
  <2> QED BY <1>6, <2>4 DEF d, ShowsAfter
<1>7. CASE m.kind = "ended"
  <2>1. y = WithCall(scr, NoDirect)
    BY <1>7 DEF After, WithCall
  <2>2. NoDirect \in Directs
    BY DEF NoDirect, Directs
  <2> HIDE DEF NoDirect
  <2>3. /\ y \in Screens /\ SameView(scr, y) /\ y.direct = NoDirect /\ y.incoming = 0
        /\ y.ready = scr.ready
        /\ y.prefer = scr.prefer /\ y.latch = scr.latch /\ y.held = scr.held
    BY <1>1, <2>1, <2>2, CallTaken
  <2> QED BY <1>7, <2>3 DEF SameView, ShowsAfter
<1>8. \/ m.kind = "state" \/ m.kind = "page" \/ m.kind = "incoming" \/ m.kind = "active"
      \/ m.kind = "ended"
  BY <1>2
<1> QED BY <1>3, <1>4, <1>5, <1>6, <1>7, <1>8

\* The selection is the last thing that a state touches on the screen.
LEMMA PrefersShape ==
  ASSUME NEW x \in Screens, login \in Nat
  PROVE  LET y == Prefers(x) IN
         /\ y \in Screens /\ y.known = x.known /\ y.talk = x.talk /\ y.listen = x.listen
         /\ y.ready = x.ready /\ y.page = x.page /\ y.direct = x.direct /\ y.incoming = x.incoming
         /\ y.latch = x.latch /\ y.held = x.held /\ y.stored = x.stored
         /\ Web /\ scr.stored = {} => y.prefer = x.listen /\ y.restored = x.restored
         /\ Web /\ scr.stored # {} => y.prefer = x.prefer /\ y.restored = login
         /\ ~Web => y = x
BY DEF Prefers, Screens

LEMMA RestoresShape ==
  ASSUME NEW x \in Screens
  PROVE  /\ ListenEach(TRUE, x.prefer \ x.listen) \in Seq(Commands)
         /\ ListenEach(FALSE, x.listen \ x.prefer) \in Seq(Commands)
         /\ Restores(x) \in Seq(Commands)
<1>1. x.prefer \ x.listen \in SUBSET Channels /\ x.listen \ x.prefer \in SUBSET Channels
  BY DEF Screens
<1>2. /\ ListenEach(TRUE, x.prefer \ x.listen) \in Seq(Commands)
      /\ ListenEach(FALSE, x.listen \ x.prefer) \in Seq(Commands)
  BY <1>1, EachFacts
<1> QED BY <1>2, ConcatFacts DEF Restores

LEMMA RepliesShape ==
  ASSUME NEW x \in Screens
  PROVE  Replies(x) \in Seq(Commands) /\ \A i \in DOMAIN Replies(x) : IsListen(Replies(x)[i])
<1>1. x.prefer \ x.listen \in SUBSET Channels /\ x.listen \ x.prefer \in SUBSET Channels
      /\ Confidence \ x.listen \in SUBSET Channels
  BY OperatorScreenAssumption DEF Screens
<1>2. ASSUME NEW C \in SUBSET Channels, NEW on \in BOOLEAN
      PROVE  /\ ListenEach(on, C) \in Seq(Commands)
             /\ \A i \in DOMAIN ListenEach(on, C) : IsListen(ListenEach(on, C)[i])
  <2>1. \A c \in C : IsListen(Listen(on, {c}))
    BY DEF IsListen, Listen
  <2>2. /\ ListenEach(on, C) \in Seq(Commands)
        /\ \A i \in DOMAIN ListenEach(on, C) : \E c \in C : ListenEach(on, C)[i] = Listen(on, {c})
    BY EachFacts
  <2> HIDE DEF IsListen, ListenEach, Listen
  <2> QED BY <2>1, <2>2
<1> DEFINE Good(q) == q \in Seq(Commands) /\ \A i \in DOMAIN q : IsListen(q[i])
<1>3. ASSUME NEW q, NEW r, Good(q), Good(r) PROVE Good(q \o r)
  BY <1>3, ConcatFacts
<1>4. Good(Restores(x)) /\ Good(Monitors(x)) /\ Good(<<>>)
  <2>1. Good(Restores(x))
    BY <1>1, <1>2, <1>3 DEF Restores
  <2>2. Good(Monitors(x))
    BY <1>1, <1>2 DEF Monitors
  <2> QED BY <2>1, <2>2, OneCommand
<1> HIDE DEF Good
<1>5. Good(Replies(x))
  BY <1>3, <1>4 DEF Replies
<1> QED BY <1>5 DEF Good

\* The screen takes the first message: what it does, in both clients.
LEMMA ReceivesShape ==
  ASSUME ScreenInv, WebReceives \/ MobileReceives
  PROVE  \E m \in Answers :
           /\ CanSend /\ SocketOf \in Sockets /\ down[SocketOf] # <<>> /\ m = Head(down[SocketOf])
           /\ down' = [down EXCEPT ![SocketOf] = Tail(down[SocketOf])]
           /\ down' \in [Sockets -> Seq(Answers)]
           /\ UNCHANGED <<device, login, leaving, valid, client, wire, sessionVars, vox, opener>>
           /\ up' \in [Sockets -> Seq(Commands)]
           /\ m.kind = "state" => scr' = Prefers(After(m)) /\ Sent(Replies(After(m)))
           /\ m.kind # "state" => scr' = After(m) /\ UNCHANGED up
           /\ scr' \in Screens /\ scr'.ready = scr.ready
           /\ scr'.known = After(m).known /\ scr'.talk = After(m).talk
           /\ scr'.listen = After(m).listen /\ scr'.page = After(m).page
           /\ scr'.direct = After(m).direct /\ scr'.incoming = After(m).incoming
           /\ scr'.latch = After(m).latch /\ scr'.held = After(m).held
           /\ scr'.stored = scr.stored
<1> DEFINE m == Head(down[SocketOf])
<1>1. CanSend /\ SocketOf \in Sockets /\ down[SocketOf] # <<>>
  BY SocketParts DEF WebReceives, MobileReceives, ReceivesNext
<1>2. down[SocketOf] \in Seq(Answers) /\ down \in [Sockets -> Seq(Answers)]
      /\ up \in [Sockets -> Seq(Commands)] /\ login \in Nat
  BY <1>1, ScreenInvParts, SocketParts
<1>3. m \in Answers /\ Tail(down[SocketOf]) \in Seq(Answers)
  BY <1>1, <1>2, TailFacts
<1> DEFINE x == After(m)
<1>4. x \in Screens /\ x.ready = scr.ready /\ x.stored = scr.stored
  BY <1>3, AfterShape DEF ShowsAfter
<1>5. /\ m.kind = "state" => Receives(Prefers(x)) /\ Sent(Replies(x))
      /\ m.kind # "state" => Receives(x) /\ UNCHANGED up
  BY DEF WebReceives, MobileReceives, ReceivesNext
<1> HIDE DEF m, x
<1>6. Replies(x) \in Seq(Commands)
  BY <1>4, RepliesShape
<1>7. Sent(Replies(x)) => up' \in [Sockets -> Seq(Commands)]
  BY <1>6, SentShape
<1>8. \E y \in {x, Prefers(x)} : Receives(y)
  BY <1>5
<1>9. /\ down' = [down EXCEPT ![SocketOf] = Tail(down[SocketOf])]
      /\ UNCHANGED <<device, login, leaving, valid, client, wire, sessionVars, vox, opener>>
  BY <1>8 DEF Receives
<1>10. down' \in [Sockets -> Seq(Answers)]
  BY <1>1, <1>2, <1>3, <1>9
<1>11. /\ m.kind = "state" => scr' = Prefers(x) /\ Sent(Replies(x))
       /\ m.kind # "state" => scr' = x /\ UNCHANGED up
  BY <1>5 DEF Receives
<1>12. up' \in [Sockets -> Seq(Commands)]
  BY <1>2, <1>7, <1>11
<1>13. /\ scr' \in Screens /\ scr'.ready = scr.ready
       /\ scr'.known = x.known /\ scr'.talk = x.talk /\ scr'.listen = x.listen
       /\ scr'.page = x.page /\ scr'.direct = x.direct /\ scr'.incoming = x.incoming
       /\ scr'.latch = x.latch /\ scr'.held = x.held /\ scr'.stored = scr.stored
  BY <1>2, <1>4, <1>11, PrefersShape
<1> QED BY <1>1, <1>3, <1>9, <1>10, <1>11, <1>12, <1>13 DEF m, x

LEMMA ReceivesKept ==
  ASSUME ScreenInv, ConsoleInv', WebReceives \/ MobileReceives PROVE ScreenInv'
<1>1. /\ SocketOf \in Sockets /\ down' = [down EXCEPT ![SocketOf] = Tail(down[SocketOf])]
      /\ down[SocketOf] # <<>>
      /\ down' \in [Sockets -> Seq(Answers)] /\ up' \in [Sockets -> Seq(Commands)]
      /\ UNCHANGED <<login, client, wire, sessionVars, vox>>
      /\ scr' \in Screens /\ (scr'.ready => scr.ready)
  BY ReceivesShape
<1>2. SessionShapes'
  BY <1>1 DEF ScreenInv, SessionShapes, ServerShapes, sessionVars, serverState
<1>3. SocketsUsed'
  BY <1>1 DEF ScreenInv, SocketsUsed
<1>4. ClientsUsed'
  BY <1>1 DEF ScreenInv, ClientsUsed, Connected, ScreenState
<1>5. LinesHeld'
  BY <1>1, SameAttached DEF ScreenInv, LinesHeld, sessionVars, serverState
<1> QED BY <1>2, <1>3, <1>4, <1>5 DEF ScreenInv

-----------------------------------------------------------------------------
(* What the server sends *)

\* Messages reach sockets that have authenticated.
Delivered(D) ==
  /\ D \in [Sockets -> Seq(Answers)]
  /\ \A s \in Sockets : wire[s].server \in {"none", "new"} => D[s] = down[s]

\* The socket of the screen is open and authenticated.
Live == CanSend /\ wire[SocketOf].server = "up"

LEMMA LiveFacts ==
  ASSUME ScreenInv, Live
  PROVE  /\ SocketOf \in Sockets /\ SocketOf # 0 /\ login \in Logins /\ login \in Attached
         /\ wire[SocketOf].by = login /\ wire[SocketOf].server = "up"
         /\ wire[SocketOf].client = "open" /\ SocketOf \in ServerSockets(login)
         /\ down[SocketOf] \in Seq(Answers) /\ up[SocketOf] \in Seq(Commands)
<1>1. /\ SocketOf \in Sockets /\ SocketOf # 0 /\ login \in Logins
      /\ wire[SocketOf].by = login /\ wire[SocketOf].server = "up"
      /\ wire[SocketOf].client = "open"
  BY SocketParts DEF Live, CanSend
<1>2. SocketOf \in ServerSockets(login)
  BY <1>1 DEF ServerSockets
<1> QED BY <1>1, <1>2, ScreenInvParts DEF Attached

LEMMA OneAnswer == \A m \in Answers : <<m>> \in Seq(Answers)
OBVIOUS

LEMMA TwoAnswers ==
  ASSUME NEW m \in Answers, NEW n \in Answers
  PROVE  /\ <<m, n>> \in Seq(Answers) /\ DOMAIN <<m, n>> = {1, 2}
         /\ <<m, n>>[1] = m /\ <<m, n>>[2] = n
<1>1. <<m, n>> \in Seq(Answers)
  OBVIOUS
<1>2. DOMAIN <<m, n>> = 1..2 /\ <<m, n>>[1] = m /\ <<m, n>>[2] = n
  OBVIOUS
<1>3. 1..2 = {1, 2}
  OBVIOUS
<1> QED BY <1>1, <1>2, <1>3

\* Session k is told m.
LEMMA LineShape ==
  ASSUME ScreenInv, NEW k, NEW m \in Answers, Line(k, m)
  PROVE  /\ Delivered(down')
         /\ Live => down'[SocketOf] = IF k = login THEN down[SocketOf] \o <<m>> ELSE down[SocketOf]
<1>1. down' = [s \in Sockets |-> IF wire[s].by \in {k} /\ wire[s].server = "up" /\ wire[s].client = "open"
                                 THEN down[s] \o <<m>> ELSE down[s]]
  BY DEF Line, Told
<1>2. down \in [Sockets -> Seq(Answers)] /\ <<m>> \in Seq(Answers)
  BY OneAnswer, ScreenInvParts
<1>3. \A s \in Sockets : down[s] \o <<m>> \in Seq(Answers)
  BY <1>2, ConcatFacts
<1>4. Delivered(down')
  BY <1>1, <1>2, <1>3 DEF Delivered
<1>5. ASSUME Live
      PROVE  down'[SocketOf] = IF k = login THEN down[SocketOf] \o <<m>> ELSE down[SocketOf]
  BY <1>1, <1>5, LiveFacts
<1> QED BY <1>4, <1>5

LEMMA ServerFields ==
  ASSUME ScreenInv
  PROVE  /\ srv \in [Logins -> Sessions] /\ page \in Nat /\ call \in Calls /\ calls \in Nat
         /\ \A k \in Logins : /\ srv[k] \in Sessions /\ srv[k].talk \in SUBSET Channels
                              /\ srv[k].listen \in SUBSET Channels
                              /\ srv[k].kept \in SUBSET SUBSET Channels
                              /\ srv[k].saved \in SUBSET SUBSET Channels
<1>1. srv \in [Logins -> Sessions] /\ page \in Nat /\ call \in Calls /\ calls \in Nat
  BY DEF ScreenInv, SessionShapes, ServerShapes
<1>2. \A k \in Logins : srv[k] \in Sessions
  BY <1>1
<1> QED BY <1>1, <1>2 DEF Sessions

\* Session k is changed to x and told.
LEMMA ChangedShape ==
  ASSUME ScreenInv, NEW k \in Logins, NEW x \in Sessions, Changed(k, x)
  PROVE  /\ srv' \in [Logins -> Sessions] /\ srv'[k] = x
         /\ \A j \in Logins \ {k} : srv'[j] = srv[j]
         /\ Delivered(down')
         /\ Live => down'[SocketOf] = IF k = login THEN down[SocketOf] \o <<State(srv'[login])>>
                                      ELSE down[SocketOf]
<1>1. srv' = [srv EXCEPT ![k] = x] /\ Line(k, State(x))
  BY DEF Changed
<1>2. State(x) \in Answers
  BY AnswerFacts
<1>3. srv' \in [Logins -> Sessions] /\ srv'[k] = x /\ \A j \in Logins \ {k} : srv'[j] = srv[j]
  BY <1>1, ServerFields
<1>4. /\ Delivered(down')
      /\ Live => down'[SocketOf] = IF k = login THEN down[SocketOf] \o <<State(x)>> ELSE down[SocketOf]
  BY <1>1, <1>2, LineShape
<1> QED BY <1>3, <1>4

\* What a page of p makes of session k.
Paged(p, k) ==
  IF k \notin Attached THEN srv[k]
  ELSE IF k = p THEN [srv[k] EXCEPT !.talk = Channels]
  ELSE [srv[k] EXCEPT !.talk = {}, !.listen = Channels, !.saved = {srv[k].listen}]

LEMMA PagedShape ==
  ASSUME ScreenInv, NEW p, NEW k \in Logins
  PROVE  /\ Paged(p, k) \in Sessions
         /\ k \notin Attached => Paged(p, k) = srv[k]
         /\ k = p => Paged(p, k).listen = srv[k].listen
         /\ srv[k].listen \subseteq Paged(p, k).listen
         /\ k # p /\ k \in Attached => Paged(p, k).talk = {}
<1>1. srv[k] \in Sessions /\ srv[k].listen \in SUBSET Channels /\ Channels \in SUBSET Channels
  BY ServerFields
<1>2. CASE k \notin Attached
  BY <1>1, <1>2 DEF Paged
<1>3. CASE k \in Attached /\ k = p
  <2>1. Paged(p, k) = [srv[k] EXCEPT !.talk = Channels]
    BY <1>3 DEF Paged
  <2> QED BY <1>1, <1>3, <2>1 DEF Sessions
<1>4. CASE k \in Attached /\ k # p
  <2>1. Paged(p, k) = [srv[k] EXCEPT !.talk = {}, !.listen = Channels, !.saved = {srv[k].listen}]
    BY <1>4 DEF Paged
  <2>2. {srv[k].listen} \in SUBSET SUBSET Channels
    BY <1>1
  <2>3. /\ Paged(p, k) \in Sessions /\ Paged(p, k).listen = Channels /\ Paged(p, k).talk = {}
    BY <1>1, <2>1, <2>2 DEF Sessions
  <2> QED BY <1>1, <1>4, <2>3
<1> QED BY <1>2, <1>3, <1>4

\* What the screen is told of the start of a page: it is muted, but listens as before.
Muting == [talk |-> srv'[login].talk, listen |-> srv[login].listen]

LEMMA PageStartsShape ==
  ASSUME ScreenInv, NEW p \in Nat, PageStarts(p)
  PROVE  /\ page' = p /\ srv' \in [Logins -> Sessions] /\ Delivered(down')
         /\ \A k \in Logins : srv'[k] = Paged(p, k)
         /\ Live => down'[SocketOf] = down[SocketOf] \o
              ((IF srv[login].talk # srv'[login].talk THEN <<State(Muting)>> ELSE <<>>)
                 \o <<Notice(p)>>)
<1>1. page' = p /\ srv' = [k \in Logins |-> Paged(p, k)]
  BY DEF PageStarts, Paged
<1>2. srv' \in [Logins -> Sessions] /\ \A k \in Logins : srv'[k] = Paged(p, k)
  BY <1>1, PagedShape
<1>3. down' = [s \in Sockets |->
         IF wire[s].by \in Attached /\ wire[s].server = "up" /\ wire[s].client = "open"
         THEN down[s] \o ((IF srv[wire[s].by].talk # srv'[wire[s].by].talk
                           THEN <<State([talk |-> srv'[wire[s].by].talk, listen |-> srv[wire[s].by].listen])>> ELSE <<>>) \o <<Notice(p)>>)
         ELSE down[s]]
  <2> DEFINE now == [k \in Logins |->
        IF k \notin Attached THEN srv[k]
        ELSE IF k = p THEN [srv[k] EXCEPT !.talk = Channels]
        ELSE [srv[k] EXCEPT !.talk = {}, !.listen = Channels, !.saved = {srv[k].listen}]]
  <2>1. srv' = now
    BY DEF PageStarts
  <2>2. down' = [s \in Sockets |->
           IF wire[s].by \in Attached /\ wire[s].server = "up" /\ wire[s].client = "open"
           THEN down[s] \o ((IF srv[wire[s].by].talk # now[wire[s].by].talk
                             THEN <<State([talk |-> now[wire[s].by].talk, listen |-> srv[wire[s].by].listen])>> ELSE <<>>) \o <<Notice(p)>>)
           ELSE down[s]]
    BY DEF PageStarts, Told
  <2> HIDE DEF now
  <2> QED BY <2>1, <2>2
<1>4. Attached \subseteq Logins
  BY DEF Attached
<1>5. ASSUME NEW k \in Logins
      PROVE  ((IF srv[k].talk # srv'[k].talk
               THEN <<State([talk |-> srv'[k].talk, listen |-> srv[k].listen])>>
               ELSE <<>>) \o <<Notice(p)>>) \in Seq(Answers)
  <2> DEFINE x == [talk |-> srv'[k].talk, listen |-> srv[k].listen]
  <2>1. State(x) \in Answers /\ Notice(p) \in Answers
    <3>1. srv'[k].talk \in SUBSET Channels /\ srv[k].listen \in SUBSET Channels
      BY <1>2, ServerFields DEF Sessions
    <3> QED BY <3>1, AnswerFacts
  <2> HIDE DEF x
  <2>2. <<State(x)>> \in Seq(Answers) /\ <<>> \in Seq(Answers) /\ <<Notice(p)>> \in Seq(Answers)
    BY <2>1, OneAnswer
  <2>3. (IF srv[k].talk # srv'[k].talk THEN <<State(x)>> ELSE <<>>) \in Seq(Answers)
    BY <2>2
  <2> QED BY <2>2, <2>3, ConcatFacts DEF x
<1>6. Delivered(down')
  <2>1. \A s \in Sockets : down[s] \in Seq(Answers)
    BY ScreenInvParts
  <2>2. ASSUME NEW s \in Sockets, wire[s].by \in Attached
        PROVE  down[s] \o ((IF srv[wire[s].by].talk # srv'[wire[s].by].talk
                            THEN <<State([talk |-> srv'[wire[s].by].talk, listen |-> srv[wire[s].by].listen])>> ELSE <<>>) \o <<Notice(p)>>)
                 \in Seq(Answers)
    BY <1>4, <1>5, <2>1, <2>2, ConcatFacts
  <2>3. down' \in [Sockets -> Seq(Answers)]
    BY <1>3, <2>1, <2>2
  <2>4. \A s \in Sockets : wire[s].server \in {"none", "new"} => down'[s] = down[s]
    BY <1>3
  <2> QED BY <2>3, <2>4 DEF Delivered
<1>7. ASSUME Live
      PROVE  down'[SocketOf] = down[SocketOf] \o
              ((IF srv[login].talk # srv'[login].talk THEN <<State(Muting)>> ELSE <<>>)
                 \o <<Notice(p)>>)
  BY <1>3, <1>7, LiveFacts DEF Muting
<1> QED BY <1>1, <1>2, <1>6, <1>7

\* What the end of a page makes of session k, for the sessions K.
Unpaged(K, k) ==
  IF k \notin K THEN srv[k]
  ELSE IF k = page THEN [srv[k] EXCEPT !.talk = {}]
  ELSE [srv[k] EXCEPT !.listen = Kept(srv[k].saved, srv[k].listen), !.saved = {}]

LEMMA UnpagedShape ==
  ASSUME ScreenInv, NEW K, NEW k \in Logins
  PROVE  /\ Unpaged(K, k) \in Sessions
         /\ k \notin K => Unpaged(K, k) = srv[k]
         /\ k = page => Unpaged(K, k).listen = srv[k].listen
         /\ Unpaged(K, k).talk \in {{}, srv[k].talk}
<1>1. /\ srv[k] \in Sessions /\ {} \in SUBSET Channels
      /\ Kept(srv[k].saved, srv[k].listen) \in SUBSET Channels
  BY ServerFields, KeptFacts
<1>2. CASE k \notin K
  BY <1>1, <1>2 DEF Unpaged
<1>3. CASE k \in K /\ k = page
  <2>1. Unpaged(K, k) = [srv[k] EXCEPT !.talk = {}]
    BY <1>3 DEF Unpaged
  <2> QED BY <1>1, <1>3, <2>1 DEF Sessions
<1>4. CASE k \in K /\ k # page
  <2> DEFINE L == Kept(srv[k].saved, srv[k].listen)
  <2>1. Unpaged(K, k) = [srv[k] EXCEPT !.listen = L, !.saved = {}]
    BY <1>4 DEF Unpaged
  <2> HIDE DEF L
  <2>2. L \in SUBSET Channels
    BY <1>1 DEF L
  <2> QED BY <1>1, <1>4, <2>1, <2>2 DEF Sessions
<1> QED BY <1>2, <1>3, <1>4

LEMMA AfterPageShape ==
  ASSUME ScreenInv, NEW K \in SUBSET Logins
  PROVE  /\ AfterPage(K).srv = [k \in Logins |-> Unpaged(K, k)]
         /\ AfterPage(K).srv \in [Logins -> Sessions]
         /\ Delivered(AfterPage(K).down)
         /\ Live => AfterPage(K).down[SocketOf] =
              IF login \in K THEN down[SocketOf] \o <<State(Unpaged(K, login)), Notice(0)>>
              ELSE down[SocketOf]
<1>1. AfterPage(K).srv = [k \in Logins |-> Unpaged(K, k)]
  BY DEF AfterPage, Unpaged
<1>2. AfterPage(K).down = [s \in Sockets |->
         IF wire[s].by \in K /\ wire[s].server = "up" /\ wire[s].client = "open"
         THEN down[s] \o <<State(AfterPage(K).srv[wire[s].by]), Notice(0)>> ELSE down[s]]
  BY DEF AfterPage, Told
<1> DEFINE D == AfterPage(K).down
           N == AfterPage(K).srv
<1> HIDE DEF D, N
<1>3. N \in [Logins -> Sessions] /\ \A k \in Logins : N[k] = Unpaged(K, k)
  BY <1>1, UnpagedShape DEF N
<1>4. ASSUME NEW s \in Sockets, wire[s].by \in K
      PROVE  down[s] \o <<State(N[wire[s].by]), Notice(0)>> \in Seq(Answers)
  <2>1. State(N[wire[s].by]) \in Answers /\ Notice(0) \in Answers
    BY <1>3, <1>4, AnswerFacts
  <2>2. down[s] \in Seq(Answers)
    BY ScreenInvParts
  <2> QED BY <2>1, <2>2, TwoAnswers, ConcatFacts
<1>5. D = [s \in Sockets |->
         IF wire[s].by \in K /\ wire[s].server = "up" /\ wire[s].client = "open"
         THEN down[s] \o <<State(N[wire[s].by]), Notice(0)>> ELSE down[s]]
  BY <1>2 DEF D, N
<1>6. Delivered(D)
  <2>1. down \in [Sockets -> Seq(Answers)]
    BY ScreenInvParts
  <2>2. D \in [Sockets -> Seq(Answers)]
    BY <1>4, <1>5, <2>1
  <2>3. \A s \in Sockets : wire[s].server \in {"none", "new"} => D[s] = down[s]
    BY <1>5
  <2> QED BY <2>2, <2>3 DEF Delivered
<1>7. ASSUME Live
      PROVE  D[SocketOf] = IF login \in K THEN down[SocketOf] \o <<State(Unpaged(K, login)), Notice(0)>>
                           ELSE down[SocketOf]
  BY <1>3, <1>5, <1>7, LiveFacts
<1> QED BY <1>1, <1>3, <1>6, <1>7 DEF D, N

-----------------------------------------------------------------------------
(* The server keeps it *)

\* Sockets of S are closed by the server.
LEMMA EndedShape ==
  ASSUME ScreenInv, NEW S, wire' = ServerEnds(S)
  PROVE  /\ \A r \in Sockets :
              /\ wire'[r].by = wire[r].by /\ wire'[r].client = wire[r].client
              /\ r \notin S => wire'[r] = wire[r]
              /\ wire'[r].server = "none" <=> wire[r].server = "none"
              /\ r \in S => wire'[r].server \in {"none", "gone"}
              /\ wire'[r] # NoWire => wire[r] # NoWire
         /\ \A k \in Logins : ServerSockets(k)' = ServerSockets(k) \ S
         /\ \A k \in Logins : k \in Attached' <=> ServerSockets(k) \ S # {}
<1>1. wire \in [Sockets -> Ends]
  BY ScreenInvParts
<1>2. ASSUME NEW r \in Sockets
      PROVE  /\ wire'[r].by = wire[r].by /\ wire'[r].client = wire[r].client
             /\ r \notin S => wire'[r] = wire[r]
             /\ wire'[r].server = "none" <=> wire[r].server = "none"
             /\ r \in S => wire'[r].server \in {"none", "gone"}
             /\ wire'[r] # NoWire => wire[r] # NoWire
  <2> DEFINE e == [wire[r] EXCEPT !.server = "gone"]
  <2>1. e.by = wire[r].by /\ e.client = wire[r].client /\ e.server = "gone"
    <3>1. wire[r] \in Ends
      BY <1>1
    <3> QED BY <3>1 DEF Ends
  <2>2. wire'[r] = IF r \in S /\ wire[r].server # "none" THEN e ELSE wire[r]
    BY DEF ServerEnds
  <2>3. NoWire.server = "none"
    BY DEF NoWire
  <2> HIDE DEF e
  <2> QED BY <2>1, <2>2, <2>3
<1>3. ASSUME NEW k \in Logins PROVE ServerSockets(k)' = ServerSockets(k) \ S
  <2>1. \A r \in Sockets : wire'[r].by = k /\ wire'[r].server = "up"
                             <=> wire[r].by = k /\ wire[r].server = "up" /\ r \notin S
    BY <1>2
  <2> QED BY <2>1 DEF ServerSockets
<1>4. \A k \in Logins : k \in Attached' <=> ServerSockets(k)' # {}
  BY DEF Attached
<1> QED BY <1>2, <1>3, <1>4

LEMMA UpOfShape ==
  ASSUME ScreenInv, NEW S, up' = UpOf(S)
  PROVE  /\ up' \in [Sockets -> Seq(Commands)]
         /\ \A r \in Sockets : up'[r] = IF r \in S THEN <<>> ELSE up[r]
<1>1. <<>> \in Seq(Commands) /\ up \in [Sockets -> Seq(Commands)]
  BY ScreenInvParts, OneCommand
<1> QED BY <1>1 DEF UpOf

LEMMA ServedKept ==
  ASSUME ScreenInv, ConsoleInv', UNCHANGED <<login, client, scr, vox>>,
         \A r \in Sockets : /\ wire'[r].by = wire[r].by /\ wire'[r].client = wire[r].client
                            /\ wire'[r].server = "none" <=> wire[r].server = "none"
                            /\ wire'[r] # NoWire => wire[r] # NoWire
                            /\ wire'[r].server \in {"none", "new"} =>
                                 wire'[r].server = wire[r].server /\ down'[r] = down[r],
         up' \in [Sockets -> Seq(Commands)], down' \in [Sockets -> Seq(Answers)],
         ServerShapes', LinesHeld'
  PROVE  ScreenInv'
<1>1. SessionShapes'
  BY DEF ScreenInv, SessionShapes
<1>2. SocketsUsed'
  BY DEF ScreenInv, SocketsUsed
<1>3. ClientsUsed'
  <2>1. ASSUME NEW k \in Logins
        PROVE  /\ client'[k].at # "idle" => \E s \in Sockets : wire'[s].by = k
               /\ client'[k].at = "connected" <=>
                    client'[k].socket # 0 /\ wire'[client'[k].socket].client = "open"
    <3>1. client[k].at # "idle" => \E s \in Sockets : wire[s].by = k
      BY DEF ScreenInv, ClientsUsed
    <3>2. client[k].socket # 0 => client[k].socket \in Sockets
      BY DEF ScreenInv, ConsoleInv, SocketsOwned
    <3>3. client[k].at = "connected" <=>
            client[k].socket # 0 /\ wire[client[k].socket].client = "open"
      BY DEF ScreenInv, ClientsUsed
    <3> QED BY <3>1, <3>2, <3>3
  <2>2. (login' # 0 => client'[login'].at # "idle") /\ (scr'.ready => Connected')
    BY DEF ScreenInv, ClientsUsed, Connected, ScreenState
  <2> QED BY <2>1, <2>2 DEF ClientsUsed
<1> QED BY <1>1, <1>2, <1>3 DEF ScreenInv

LEMMA ReachesSockets ==
  ASSUME ScreenInv, NEW s \in Sockets, wire[s].server \in {"new", "up"}
  PROVE  /\ wire[s].by \in Logins /\ wire[s] # NoWire
         /\ wire[s].server = "up" => wire[s].by \in Attached /\ s \in ServerSockets(wire[s].by)
<1>1. NoWire.server = "none"
  BY DEF NoWire
<1>2. wire[s].by \in Logins /\ wire[s] # NoWire
  BY <1>1 DEF ScreenInv, SocketsUsed
<1> QED BY <1>2 DEF Attached, ServerSockets

\* A socket authenticates.
LEMMA AuthenticatedShape ==
  ASSUME ScreenInv, NEW s \in Sockets, wire[s].server \in {"new", "up"},
         NEW k, k = wire[s].by, Authenticated(s, k)
  PROVE  /\ UNCHANGED <<page, call, calls>>
         /\ \/ k \notin valid /\ UNCHANGED <<wire, serverState, down>>
            \/ /\ k \in valid /\ wire'[s].server = "up" /\ wire'[s].by = k
               /\ wire'[s].client = wire[s].client
               /\ \A r \in Sockets \ {s} : wire'[r] = wire[r] /\ down'[r] = down[r]
               /\ srv' \in [Logins -> Sessions] /\ \A j \in Logins \ {k} : srv'[j] = srv[j]
               /\ k \in Attached => srv'[k] = srv[k]
               /\ k \notin Attached => srv'[k].talk = {}
               /\ k \notin Attached /\ srv[k].kept = {} => srv'[k].listen = Channels
               /\ down' \in [Sockets -> Seq(Answers)]
               /\ wire[s].client # "open" => down'[s] = down[s]
               /\ wire[s].client = "open" =>
                    down'[s] = (down[s] \o <<State(srv'[k])>>)
                                 \o (IF page = 0 THEN <<>> ELSE <<Notice(page)>>)
<1>1. k \in Logins
  BY ReachesSockets
<1>2. CASE k \notin valid
  BY <1>2 DEF Authenticated, serverState
<1>3. CASE k \in valid
  <2> DEFINE L == Kept(srv[k].kept, Channels)
             x == IF k \in Attached THEN srv[k] ELSE [NoSession EXCEPT !.listen = L]
             e == [wire[s] EXCEPT !.server = "up"]
             n == IF page = 0 THEN <<>> ELSE <<Notice(page)>>
  <2>1. /\ wire' = [wire EXCEPT ![s] = e] /\ srv' = [srv EXCEPT ![k] = x]
        /\ down' = IF wire[s].client # "open" THEN down
                   ELSE [down EXCEPT ![s] = (down[s] \o <<State(x)>>) \o n]
        /\ UNCHANGED <<page, call, calls>>
    BY <1>3 DEF Authenticated
  <2>2. L \in SUBSET Channels /\ (srv[k].kept = {} => L = Channels)
    <3>1. Channels \in SUBSET Channels /\ srv[k].kept \in SUBSET SUBSET Channels
      BY <1>1, ServerFields
    <3> QED BY <3>1, KeptFacts DEF Kept
  <2> HIDE DEF L
  <2>3. /\ x \in Sessions /\ (k \in Attached => x = srv[k])
        /\ k \notin Attached => x.talk = {} /\ x.listen = L
    <3>1. [NoSession EXCEPT !.listen = L] \in Sessions /\ [NoSession EXCEPT !.listen = L].talk = {}
          /\ [NoSession EXCEPT !.listen = L].listen = L
      <4>1. NoSession \in Sessions
        BY SessionsParts
      <4> QED BY <2>2, <4>1, SessionsParts
    <3>2. srv[k] \in Sessions
      BY <1>1, ServerFields
    <3> QED BY <3>1, <3>2
  <2>4. e.server = "up" /\ e.by = k /\ e.client = wire[s].client
    <3>1. wire[s] \in Ends
      BY ScreenInvParts
    <3> QED BY <3>1 DEF Ends
  <2>5. n \in Seq(Answers)
    <3>1. page \in Nat
      BY ServerFields
    <3>2. Notice(page) \in Answers
      BY <3>1, AnswerFacts
    <3>3. <<>> \in Seq(Answers)
      OBVIOUS
    <3> QED BY <3>2, <3>3, OneAnswer
  <2> HIDE DEF x, e, n
  <2>6. wire \in [Sockets -> Ends] /\ down \in [Sockets -> Seq(Answers)] /\ srv \in [Logins -> Sessions]
    BY ScreenInvParts, ServerFields
  <2>7. srv' \in [Logins -> Sessions] /\ srv'[k] = x /\ \A j \in Logins \ {k} : srv'[j] = srv[j]
    BY <1>1, <2>1, <2>3, <2>6
  <2>8. /\ wire'[s] = e /\ \A r \in Sockets \ {s} : wire'[r] = wire[r] /\ down'[r] = down[r]
        /\ wire[s].client # "open" => down'[s] = down[s]
        /\ wire[s].client = "open" => down'[s] = (down[s] \o <<State(x)>>) \o n
    BY <2>1, <2>6
  <2>9. (down[s] \o <<State(x)>>) \o n \in Seq(Answers)
    <3>1. State(x) \in Answers
      BY <2>3, AnswerFacts
    <3>2. <<State(x)>> \in Seq(Answers) /\ down[s] \in Seq(Answers)
      BY <2>6, <3>1, OneAnswer
    <3>3. down[s] \o <<State(x)>> \in Seq(Answers)
      BY <3>2, ConcatFacts
    <3> QED BY <2>5, <3>3, ConcatFacts
  <2>10. down' \in [Sockets -> Seq(Answers)]
    BY <2>1, <2>6, <2>9
  <2>11. down[s] \o <<State(x)>> = down[s] \o <<State(srv'[k])>>
    BY <2>7
  <2>12. wire[s].client = "open" =>
           down'[s] = (down[s] \o <<State(srv'[k])>>)
                        \o (IF page = 0 THEN <<>> ELSE <<Notice(page)>>)
    BY <2>8, <2>11 DEF n
  <2> QED BY <1>1, <1>3, <2>1, <2>2, <2>3, <2>4, <2>7, <2>8, <2>10, <2>12
<1> QED BY <1>2, <1>3

LEMMA AuthenticatedKeeps ==
  ASSUME ScreenInv, ConsoleInv', NEW s \in Sockets, wire[s].server \in {"new", "up"},
         NEW k, k = wire[s].by, Authenticated(s, k), up' \in [Sockets -> Seq(Commands)],
         UNCHANGED <<login, client, scr, vox>>
  PROVE  ScreenInv'
<1>1. /\ srv' \in [Logins -> Sessions] /\ UNCHANGED <<page, call, calls>>
      /\ down' \in [Sockets -> Seq(Answers)]
      /\ \A r \in Sockets \ {s} : wire'[r] = wire[r] /\ down'[r] = down[r]
      /\ \/ wire'[s] = wire[s] /\ down'[s] = down[s]
         \/ wire'[s].server = "up" /\ wire'[s].by = k /\ wire'[s].client = wire[s].client
  BY AuthenticatedShape, ScreenInvParts, ServerFields DEF serverState
<1>2. wire[s] # NoWire
  BY ReachesSockets
<1>3. \A r \in Sockets :
        /\ wire'[r].by = wire[r].by /\ wire'[r].client = wire[r].client
        /\ wire'[r].server = "none" <=> wire[r].server = "none"
        /\ wire'[r] # NoWire => wire[r] # NoWire
        /\ wire'[r].server \in {"none", "new"} =>
             wire'[r].server = wire[r].server /\ down'[r] = down[r]
  BY <1>1, <1>2
<1>4. ServerShapes'
  BY <1>1, ServerFields DEF ServerShapes
<1>5. Attached \subseteq Attached'
  <2>1. ASSUME NEW j \in Logins PROVE ServerSockets(j) \subseteq ServerSockets(j)'
    <3>1. \A r \in Sockets : wire[r].server = "up" => wire'[r].server = "up"
      BY <1>1
    <3> QED BY <1>3, <3>1 DEF ServerSockets
  <2> QED BY <2>1 DEF Attached
<1>6. LinesHeld'
  BY <1>1, <1>5 DEF ScreenInv, LinesHeld
<1> QED BY <1>1, <1>3, <1>4, <1>6, ServedKept

\* What a step of the server keeps true while sockets stay.
Serves == ServerShapes' /\ LinesHeld' /\ Delivered(down')

LEMMA SameDelivered == ASSUME ScreenInv, UNCHANGED down PROVE Delivered(down')
BY ScreenInvParts DEF Delivered

LEMMA SessionServes ==
  ASSUME ScreenInv, UNCHANGED <<wire, page, call, calls>>,
         srv' \in [Logins -> Sessions], Delivered(down')
  PROVE  Serves
<1>1. ServerShapes'
  BY ServerFields DEF ServerShapes
<1>2. LinesHeld'
  BY SameAttached DEF ScreenInv, LinesHeld
<1> QED BY <1>1, <1>2 DEF Serves

\* What a talk or a listen command makes of a session.
WithTalk(k, m) == [srv[k] EXCEPT !.talk = IF m.on THEN srv[k].talk \cup m.of ELSE srv[k].talk \ m.of]
WithListen(k, m) ==
  [srv[k] EXCEPT !.listen = IF m.on THEN srv[k].listen \cup m.of ELSE srv[k].listen \ m.of]

LEMMA WithShapes ==
  ASSUME ScreenInv, NEW k \in Logins, NEW m \in Commands, m.kind \in {"talk", "listen"}
  PROVE  /\ WithTalk(k, m) \in Sessions /\ WithTalk(k, m).listen = srv[k].listen
         /\ WithTalk(k, m).talk = IF m.on THEN srv[k].talk \cup m.of ELSE srv[k].talk \ m.of
         /\ WithListen(k, m) \in Sessions /\ WithListen(k, m).talk = srv[k].talk
         /\ WithListen(k, m).listen = IF m.on THEN srv[k].listen \cup m.of ELSE srv[k].listen \ m.of
<1> DEFINE T == IF m.on THEN srv[k].talk \cup m.of ELSE srv[k].talk \ m.of
           L == IF m.on THEN srv[k].listen \cup m.of ELSE srv[k].listen \ m.of
<1>1. T \in SUBSET Channels /\ L \in SUBSET Channels /\ srv[k] \in Sessions
  BY ServerFields, CommandKinds
<1>2. WithTalk(k, m) = [srv[k] EXCEPT !.talk = T] /\ WithListen(k, m) = [srv[k] EXCEPT !.listen = L]
  BY DEF WithTalk, WithListen
<1> HIDE DEF T, L
<1>3. WithTalk(k, m) \in Sessions /\ WithTalk(k, m).listen = srv[k].listen /\ WithTalk(k, m).talk = T
  BY <1>1, <1>2 DEF Sessions
<1>4. /\ WithListen(k, m) \in Sessions /\ WithListen(k, m).talk = srv[k].talk
      /\ WithListen(k, m).listen = L
  BY <1>1, <1>2 DEF Sessions
<1> QED BY <1>3, <1>4 DEF T, L

LEMMA TalkServes ==
  ASSUME ScreenInv, NEW k \in Logins, NEW m \in Commands, m.kind \in {"talk", "listen"},
         UNCHANGED wire, TalkCommand(k, m) \/ ListenCommand(k, m)
  PROVE  Serves
<1>1. \/ UNCHANGED <<srv, down>>
      \/ Changed(k, WithTalk(k, m)) \/ Changed(k, WithListen(k, m))
  BY DEF TalkCommand, ListenCommand, WithTalk, WithListen
<1>2. UNCHANGED <<page, call, calls>>
  BY DEF TalkCommand, ListenCommand
<1>3. srv' \in [Logins -> Sessions] /\ Delivered(down')
  <2>1. CASE UNCHANGED <<srv, down>>
    BY <2>1, ServerFields, SameDelivered
  <2>2. CASE ~UNCHANGED <<srv, down>>
    BY <1>1, <2>2, WithShapes, ChangedShape
  <2> QED BY <2>1, <2>2
<1> QED BY <1>2, <1>3, SessionServes

\* The end of a page.
LEMMA StopsShape ==
  ASSUME ScreenInv, PageStops
  PROVE  /\ page' = 0 /\ srv' \in [Logins -> Sessions] /\ Delivered(down')
         /\ \A k \in Logins : srv'[k] = Unpaged(Attached, k)
         /\ Live => down'[SocketOf] = down[SocketOf] \o <<State(srv'[login]), Notice(0)>>
<1>1. page' = 0 /\ srv' = AfterPage(Attached).srv /\ down' = AfterPage(Attached).down
  BY DEF PageStops
<1>2. Attached \in SUBSET Logins
  BY DEF Attached
<1>3. /\ srv' = [k \in Logins |-> Unpaged(Attached, k)] /\ srv' \in [Logins -> Sessions]
      /\ Delivered(down')
      /\ Live => down'[SocketOf] =
           IF login \in Attached THEN down[SocketOf] \o <<State(Unpaged(Attached, login)), Notice(0)>>
           ELSE down[SocketOf]
  BY <1>1, <1>2, AfterPageShape
<1>4. Live => login \in Logins /\ login \in Attached
  BY LiveFacts
<1> QED BY <1>1, <1>3, <1>4

LEMMA PageServes ==
  ASSUME ScreenInv, UNCHANGED <<wire, call, calls>>,
         \/ PageStops
         \/ PageStarts(Other) \/ \E k \in Attached : PageStarts(k)
  PROVE  Serves
<1>1. page' = 0 \/ page' = Other \/ page' \in Attached
  BY DEF PageStops, PageStarts
<1>2. srv' \in [Logins -> Sessions] /\ Delivered(down')
  <2>1. CASE PageStops
    BY <2>1, StopsShape
  <2>2. ASSUME NEW p \in Attached \cup {Other}, PageStarts(p)
        PROVE  srv' \in [Logins -> Sessions] /\ Delivered(down')
    <3>1. p \in Nat
      BY SocketParts DEF Attached
    <3> QED BY <2>2, <3>1, PageStartsShape
  <2> QED BY <2>1, <2>2
<1>3. page' \in Nat /\ (page' \in Logins => page' \in Attached)
  BY <1>1, SocketParts DEF Attached
<1>4. ServerShapes'
  BY <1>2, <1>3, ServerFields DEF ServerShapes
<1>5. LinesHeld'
  BY <1>3, SameAttached DEF ScreenInv, LinesHeld
<1> QED BY <1>2, <1>4, <1>5 DEF Serves

LEMMA PageCommandServes ==
  ASSUME ScreenInv, NEW k \in Attached, NEW m, UNCHANGED wire, PageCommand(k, m)
  PROVE  Serves
<1>1. UNCHANGED <<call, calls>>
  BY DEF PageCommand
<1>2. PageStarts(k) \/ PageStops \/ UNCHANGED <<srv, page, down>>
  BY DEF PageCommand
<1>3. CASE UNCHANGED <<srv, page, down>>
  BY <1>1, <1>3, ServerFields, SameDelivered, SessionServes
<1> QED BY <1>1, <1>2, <1>3, PageServes

\* The direct call.
LEMMA CallServes ==
  ASSUME ScreenInv, UNCHANGED <<wire, srv, page>>, call' \in Calls, calls' \in Nat,
         call' # NoCall => call'.by \in Attached /\ call'.id # 0 /\ call'.phase # "none",
         UNCHANGED down \/ \E m \in Answers : \E k : Line(k, m)
  PROVE  Serves
<1>1. Delivered(down')
  BY SameDelivered, LineShape
<1>2. ServerShapes'
  BY ServerFields DEF ServerShapes
<1>3. LinesHeld'
  BY SameAttached DEF ScreenInv, LinesHeld
<1> QED BY <1>1, <1>2, <1>3 DEF Serves

LEMMA CallParts ==
  ASSUME ScreenInv
  PROVE  /\ call \in Calls /\ call.id \in Nat /\ calls \in Nat /\ call.phase \in {"none", "ringing", "active"}
         /\ [call EXCEPT !.phase = "active"] \in Calls
         /\ [call EXCEPT !.phase = "active"].by = call.by
         /\ [call EXCEPT !.phase = "active"].id = call.id
         /\ [call EXCEPT !.phase = "active"].phase = "active"
         /\ [call EXCEPT !.phase = "active"].mine = call.mine
         /\ NoCall \in Calls /\ NoCall.id = 0 /\ NoCall.by = 0 /\ NoCall.phase = "none"
         /\ call # NoCall => call.by \in Attached /\ call.id # 0 /\ call.phase # "none"
<1>1. call \in Calls /\ calls \in Nat
  BY ServerFields
<1>2. call # NoCall => call.by \in Attached /\ call.id # 0 /\ call.phase # "none"
  BY DEF ScreenInv, LinesHeld
<1> QED BY <1>1, <1>2 DEF Calls, NoCall

LEMMA NewCall ==
  ASSUME ScreenInv, NEW k \in Attached, NEW mine \in BOOLEAN
  PROVE  LET c == [id |-> calls + 1, by |-> k, phase |-> "ringing", mine |-> mine] IN
         /\ c \in Calls /\ c.by = k /\ c.id = calls + 1 /\ c.phase = "ringing" /\ c.mine = mine
         /\ c.id # 0 /\ calls + 1 \in Nat
<1>1. calls \in Nat /\ k \in Nat
  BY ServerFields, SocketParts DEF Attached
<1>2. calls + 1 \in Nat /\ calls + 1 # 0
  BY <1>1
<1> QED BY <1>1, <1>2 DEF Calls

LEMMA CallCommandServes ==
  ASSUME ScreenInv, NEW k \in Attached, UNCHANGED wire, CallCommand(k)
  PROVE  Serves
<1>1. UNCHANGED <<srv, page>>
  BY DEF CallCommand
<1>2. \/ UNCHANGED <<call, calls, down>>
      \/ Line(k, Ended) /\ UNCHANGED <<call, calls>>
      \/ /\ calls' = calls + 1 /\ UNCHANGED down
         /\ call' = [id |-> calls + 1, by |-> k, phase |-> "ringing", mine |-> TRUE]
  BY DEF CallCommand
<1>3. CASE UNCHANGED <<call, calls>>
  <2>1. UNCHANGED down \/ \E m \in Answers : \E j : Line(j, m)
    <3>1. Ended \in Answers
      BY AnswerFacts
    <3>2. CASE UNCHANGED down
      BY <3>2
    <3>3. CASE Line(k, Ended)
      BY <3>1, <3>3
    <3>4. UNCHANGED down \/ Line(k, Ended)
      BY <1>2
    <3> QED BY <3>2, <3>3, <3>4
  <2> QED BY <1>1, <1>3, <2>1, CallParts, CallServes
<1>4. CASE /\ calls' = calls + 1 /\ UNCHANGED down
           /\ call' = [id |-> calls + 1, by |-> k, phase |-> "ringing", mine |-> TRUE]
  <2>1. /\ call' \in Calls /\ call'.by = k /\ call'.id # 0 /\ call'.phase = "ringing" /\ calls' \in Nat
    BY <1>4, NewCall
  <2> QED BY <1>1, <1>4, <2>1, CallServes
<1> QED BY <1>2, <1>3, <1>4

LEMMA AnswerCommandServes ==
  ASSUME ScreenInv, NEW k, NEW m \in Commands, m.kind \in {"accept", "reject", "end"},
         UNCHANGED wire, AnswerCommand(k, m)
  PROVE  Serves
<1>1. UNCHANGED <<srv, page, calls>>
  BY DEF AnswerCommand
<1>2. \/ /\ call' = [call EXCEPT !.phase = "active"] /\ call.id = m.id /\ call.by = k
         /\ call.phase = "ringing" /\ Line(k, [kind |-> "active", id |-> m.id])
      \/ call' = NoCall /\ Line(k, Ended)
      \/ UNCHANGED <<call, down>>
  BY DEF AnswerCommand
<1>3. [kind |-> "active", id |-> m.id] \in Answers /\ Ended \in Answers
  BY AnswerFacts, CommandKinds
<1>4. CASE UNCHANGED <<call, down>>
  BY <1>1, <1>4, CallParts, CallServes
<1>5. CASE call' = NoCall /\ Line(k, Ended)
  <2>1. \E n \in Answers : \E j : Line(j, n)
    BY <1>3, <1>5
  <2> QED BY <1>1, <1>5, <2>1, CallParts, CallServes
<1>6. CASE /\ call' = [call EXCEPT !.phase = "active"] /\ call.phase = "ringing"
           /\ Line(k, [kind |-> "active", id |-> m.id])
  <2>1. \E n \in Answers : \E j : Line(j, n)
    BY <1>3, <1>6
  <2>2. call # NoCall
    BY <1>6, CallParts
  <2>3. /\ call' \in Calls /\ call'.by = call.by /\ call'.id = call.id /\ call'.phase = "active"
    BY <1>6, CallParts
  <2> QED BY <1>1, <2>1, <2>2, <2>3, CallParts, CallServes
<1> QED BY <1>2, <1>4, <1>5, <1>6

LEMMA CommandServes ==
  ASSUME ScreenInv, NEW k \in Attached, NEW m \in Commands, m.kind # "authenticate",
         UNCHANGED wire, Command(k, m)
  PROVE  Serves
<1>1. k \in Logins
  BY DEF Attached
<1>2. CASE m.kind = "talk"
  BY <1>1, <1>2, TalkServes DEF Command
<1>3. CASE m.kind = "listen"
  BY <1>1, <1>3, TalkServes DEF Command
<1>4. CASE m.kind = "page"
  BY <1>4, PageCommandServes DEF Command
<1>5. CASE m.kind = "call"
  BY <1>5, CallCommandServes DEF Command
<1>6. CASE m.kind \in {"accept", "reject", "end"}
  BY <1>6, AnswerCommandServes DEF Command
<1> QED BY <1>2, <1>3, <1>4, <1>5, <1>6, CommandKinds

\* Other people.
LEMMA OthersServe ==
  ASSUME ScreenInv, OtherPeople
  PROVE  Serves
<1>1. UNCHANGED wire
  BY DEF OtherPeople, OtherPages, OtherPageEnds, Muted, PeerCalls, PeerAccepts, PeerEnds, Happens
<1>2. CASE OtherPages \/ OtherPageEnds
  BY <1>1, <1>2, PageServes DEF OtherPages, OtherPageEnds
<1>3. ASSUME NEW k \in Logins, Muted(k) PROVE Serves
  <2> DEFINE x == [srv[k] EXCEPT !.talk = {}]
  <2>1. Changed(k, x) /\ UNCHANGED <<page, call, calls>>
    BY <1>3 DEF Muted
  <2>2. x \in Sessions
    <3>1. srv[k] \in Sessions /\ {} \in SUBSET Channels
      BY ServerFields
    <3> QED BY <3>1, SessionsParts
  <2> HIDE DEF x
  <2>3. srv' \in [Logins -> Sessions] /\ Delivered(down')
    BY <2>1, <2>2, ChangedShape
  <2> QED BY <1>1, <2>1, <2>3, SessionServes
<1>4. ASSUME NEW k \in Logins, PeerCalls(k) PROVE Serves
  <2>1. /\ k \in Attached /\ calls' = calls + 1 /\ UNCHANGED <<srv, page>>
        /\ call' = [id |-> calls + 1, by |-> k, phase |-> "ringing", mine |-> FALSE]
        /\ Line(k, [kind |-> "incoming", id |-> calls + 1])
    BY <1>4 DEF PeerCalls
  <2>2. /\ call' \in Calls /\ call'.by = k /\ call'.id # 0 /\ call'.phase = "ringing" /\ calls + 1 \in Nat
    BY <2>1, NewCall
  <2>3. [kind |-> "incoming", id |-> calls + 1] \in Answers
    BY <2>2, AnswerFacts
  <2>4. \E n \in Answers : \E j : Line(j, n)
    BY <2>1, <2>3
  <2> QED BY <1>1, <2>1, <2>2, <2>4, CallServes
<1>5. CASE PeerAccepts
  <2>1. /\ call.phase = "ringing" /\ call' = [call EXCEPT !.phase = "active"]
        /\ Line(call.by, [kind |-> "active", id |-> call.id]) /\ UNCHANGED <<srv, page, calls>>
    BY <1>5 DEF PeerAccepts
  <2>2. [kind |-> "active", id |-> call.id] \in Answers
    BY CallParts, AnswerFacts
  <2>3. \E n \in Answers : \E j : Line(j, n)
    BY <2>1, <2>2
  <2>4. call # NoCall /\ call' \in Calls /\ call'.by = call.by /\ call'.id = call.id /\ call'.phase = "active"
    BY <2>1, CallParts
  <2> QED BY <1>1, <2>1, <2>3, <2>4, CallParts, CallServes
<1>6. CASE PeerEnds
  <2>1. call' = NoCall /\ Line(call.by, Ended) /\ UNCHANGED <<srv, page, calls>>
    BY <1>6 DEF PeerEnds
  <2>2. \E n \in Answers : \E j : Line(j, n)
    BY <2>1, AnswerFacts
  <2> QED BY <1>1, <2>1, <2>2, CallParts, CallServes
<1> QED BY <1>2, <1>3, <1>4, <1>5, <1>6 DEF OtherPeople

\* The last socket of session k goes.
LEMMA DetachedShape ==
  ASSUME ScreenInv, NEW k \in Logins, NEW kept \in SUBSET SUBSET Channels, Detached(k, kept)
  PROVE  /\ srv' \in [Logins -> Sessions] /\ srv'[k] = [NoSession EXCEPT !.kept = kept]
         /\ \A j \in Logins \ {k} :
              srv'[j] = IF page = k THEN Unpaged(Attached \ {k}, j) ELSE srv[j]
         /\ page' = (IF page = k THEN 0 ELSE page) /\ page' \in Nat /\ page' # k
         /\ call' = (IF call.by = k THEN NoCall ELSE call) /\ call' \in Calls /\ calls' = calls
         /\ Delivered(down')
         /\ Live /\ login # k =>
              down'[SocketOf] = IF page = k THEN down[SocketOf] \o <<State(srv'[login]), Notice(0)>>
                                ELSE down[SocketOf]
<1> DEFINE K == Attached \ {k}
           n == IF page = k THEN AfterPage(K).srv ELSE srv
           g == [NoSession EXCEPT !.kept = kept]
<1>1. /\ srv' = [n EXCEPT ![k] = g] /\ down' = (IF page = k THEN AfterPage(K).down ELSE down)
      /\ page' = (IF page = k THEN 0 ELSE page)
      /\ call' = (IF call.by = k THEN NoCall ELSE call) /\ calls' = calls
  BY DEF Detached
<1>2. K \in SUBSET Logins
  BY DEF Attached
<1>3. /\ AfterPage(K).srv = [j \in Logins |-> Unpaged(K, j)]
      /\ AfterPage(K).srv \in [Logins -> Sessions] /\ Delivered(AfterPage(K).down)
      /\ Live => AfterPage(K).down[SocketOf] =
           IF login \in K THEN down[SocketOf] \o <<State(Unpaged(K, login)), Notice(0)>>
           ELSE down[SocketOf]
  BY <1>2, AfterPageShape
<1>4. g \in Sessions
  BY SessionsParts
<1> HIDE DEF g
<1>5. /\ n \in [Logins -> Sessions]
      /\ \A j \in Logins : n[j] = IF page = k THEN Unpaged(K, j) ELSE srv[j]
  BY <1>3, ServerFields
<1> HIDE DEF n
<1>6. srv' \in [Logins -> Sessions] /\ srv'[k] = g /\ \A j \in Logins \ {k} : srv'[j] = n[j]
  BY <1>1, <1>4, <1>5
<1>7. k \in Nat /\ k # 0 /\ page \in Nat
  BY SocketParts, ServerFields
<1>8. page' \in Nat /\ page' # k
  BY <1>1, <1>7
<1>9. call' \in Calls
  BY <1>1, CallParts
<1>10. Delivered(down')
  BY <1>1, <1>3, SameDelivered, ScreenInvParts DEF Delivered
<1>11. ASSUME Live, login # k
       PROVE  down'[SocketOf] = IF page = k THEN down[SocketOf] \o <<State(srv'[login]), Notice(0)>>
                                ELSE down[SocketOf]
  <2>1. login \in K /\ login \in Logins
    BY <1>11, LiveFacts
  <2>2. CASE page = k
    <3>1. srv'[login] = Unpaged(K, login)
      BY <1>5, <1>6, <1>11, <2>1, <2>2
    <3> QED BY <1>1, <1>3, <1>11, <2>1, <2>2, <3>1
  <2>3. CASE page # k
    BY <1>1, <2>3
  <2> QED BY <2>2, <2>3
<1> QED BY <1>1, <1>5, <1>6, <1>8, <1>9, <1>10, <1>11 DEF g

LEMMA DetachedServes ==
  ASSUME ScreenInv, NEW k \in Logins, NEW kept \in SUBSET SUBSET Channels, Detached(k, kept),
         Attached \ {k} \subseteq Attached'
  PROVE  ServerShapes' /\ LinesHeld'
<1>1. /\ srv' \in [Logins -> Sessions] /\ page' \in Nat /\ page' # k /\ page' \in {0, page}
      /\ call' \in Calls /\ calls' = calls /\ call' = (IF call.by = k THEN NoCall ELSE call)
  BY DetachedShape
<1>2. ServerShapes'
  BY <1>1, ServerFields DEF ServerShapes
<1>3. LinesHeld'
  <2>1. page' \in Logins => page' \in Attached'
    BY <1>1, SocketParts DEF ScreenInv, LinesHeld
  <2>2. call' # NoCall => call'.by \in Attached' /\ call'.id # 0 /\ call'.phase # "none"
    BY <1>1, CallParts
  <2> QED BY <2>1, <2>2 DEF LinesHeld
<1> QED BY <1>2, <1>3

LEMMA ReadShape ==
  ASSUME ScreenInv, NEW s \in Sockets, Read(s)
  PROVE  \E m \in Commands :
           /\ m = Head(up[s]) /\ up[s] # <<>> /\ up[s] \in Seq(Commands)
           /\ wire[s].server \in {"new", "up"} /\ wire[s].by \in Logins
           /\ up' \in [Sockets -> Seq(Commands)] /\ up'[s] = Tail(up[s])
           /\ \A r \in Sockets \ {s} : up'[r] = up[r]
           /\ UNCHANGED <<device, login, leaving, valid, client, events, paged>>
           /\ \/ m.kind = "authenticate" /\ Authenticated(s, wire[s].by)
              \/ m.kind # "authenticate" /\ wire[s].server = "up" /\ wire[s].by \in Attached
                 /\ Command(wire[s].by, m) /\ UNCHANGED wire
              \/ m.kind # "authenticate" /\ wire[s].server = "new" /\ UNCHANGED <<wire, serverState, down>>
<1> DEFINE m == Head(up[s])
<1>1. up \in [Sockets -> Seq(Commands)] /\ up[s] \in Seq(Commands) /\ up[s] # <<>>
      /\ wire[s].server \in {"new", "up"} /\ up' = [up EXCEPT ![s] = Tail(up[s])]
  BY ScreenInvParts DEF Read
<1>2. m \in Commands /\ Tail(up[s]) \in Seq(Commands)
  BY <1>1, TailFacts
<1>3. up' \in [Sockets -> Seq(Commands)] /\ up'[s] = Tail(up[s]) /\ \A r \in Sockets \ {s} : up'[r] = up[r]
  BY <1>1, <1>2
<1>4. wire[s].by \in Logins /\ (wire[s].server = "up" => wire[s].by \in Attached)
  BY <1>1, ReachesSockets
<1>5. UNCHANGED <<device, login, leaving, valid, client, events, paged>>
  BY DEF Read
<1>6. \/ m.kind = "authenticate" /\ Authenticated(s, wire[s].by)
      \/ m.kind # "authenticate" /\ wire[s].server = "up" /\ Command(wire[s].by, m) /\ UNCHANGED wire
      \/ m.kind # "authenticate" /\ wire[s].server # "up" /\ UNCHANGED <<wire, serverState, down>>
  BY DEF Read
<1> HIDE DEF m
<1> QED BY <1>1, <1>2, <1>3, <1>4, <1>5, <1>6 DEF m

LEMMA ReadKept ==
  ASSUME ScreenInv, ConsoleInv', NEW s \in Sockets, Read(s), UNCHANGED <<scr, vox>>
  PROVE  ScreenInv'
<1>1. PICK m \in Commands :
           /\ wire[s].server \in {"new", "up"}
           /\ up' \in [Sockets -> Seq(Commands)]
           /\ UNCHANGED <<login, client>>
           /\ \/ m.kind = "authenticate" /\ Authenticated(s, wire[s].by)
              \/ m.kind # "authenticate" /\ wire[s].server = "up" /\ wire[s].by \in Attached
                 /\ Command(wire[s].by, m) /\ UNCHANGED wire
              \/ m.kind # "authenticate" /\ wire[s].server = "new" /\ UNCHANGED <<wire, serverState, down>>
  BY ReadShape
<1>2. CASE Authenticated(s, wire[s].by)
  BY <1>1, <1>2, AuthenticatedKeeps
<1>3. ASSUME Serves, UNCHANGED wire PROVE ScreenInv'
  BY <1>1, <1>3, ServedKept DEF Serves, Delivered
<1>4. CASE m.kind # "authenticate" /\ wire[s].by \in Attached /\ Command(wire[s].by, m) /\ UNCHANGED wire
  BY <1>3, <1>4, CommandServes
<1>5. CASE UNCHANGED <<wire, serverState, down>>
  <2>1. srv' \in [Logins -> Sessions] /\ Delivered(down') /\ UNCHANGED <<wire, page, call, calls>>
    BY <1>5, ServerFields, SameDelivered DEF serverState
  <2> QED BY <1>3, <1>5, <2>1, SessionServes
<1> QED BY <1>1, <1>2, <1>4, <1>5

\* Sockets of one session end, with or without the last one.
LEMMA EndsKept ==
  ASSUME ScreenInv, ConsoleInv', NEW S \in SUBSET Sockets, NEW k \in Logins,
         NEW kept \in SUBSET SUBSET Channels,
         \A s \in S : wire[s].by = k,
         wire' = ServerEnds(S), up' = UpOf(S), UNCHANGED <<login, client, scr, vox>>,
         \/ Detached(k, kept)
         \/ UNCHANGED <<serverState, down>> /\ (ServerSockets(k) \ S # {} \/ ServerSockets(k) = {})
  PROVE  ScreenInv'
<1>1. /\ \A r \in Sockets :
           /\ wire'[r].by = wire[r].by /\ wire'[r].client = wire[r].client
           /\ r \notin S => wire'[r] = wire[r]
           /\ wire'[r].server = "none" <=> wire[r].server = "none"
           /\ r \in S => wire'[r].server \in {"none", "gone"}
           /\ wire'[r] # NoWire => wire[r] # NoWire
      /\ \A j \in Logins : j \in Attached' <=> ServerSockets(j) \ S # {}
  BY EndedShape
<1>2. up' \in [Sockets -> Seq(Commands)]
  BY UpOfShape
<1>3. \A j \in Logins \ {k} : ServerSockets(j) \ S = ServerSockets(j)
  BY DEF ServerSockets
<1>4. Attached \ {k} \subseteq Attached'
  BY <1>1, <1>3 DEF Attached
<1>5. ServerShapes' /\ LinesHeld' /\ Delivered(down')
  <2>1. CASE Detached(k, kept)
    BY <1>4, <2>1, DetachedServes, DetachedShape
  <2>2. CASE UNCHANGED <<serverState, down>> /\ (ServerSockets(k) \ S # {} \/ ServerSockets(k) = {})
    <3>1. Attached \subseteq Attached'
      BY <1>1, <1>4, <2>2 DEF Attached
    <3>2. ServerShapes' /\ LinesHeld'
      BY <2>2, <3>1, ServerFields DEF ServerShapes, serverState, ScreenInv, LinesHeld
    <3> QED BY <2>2, <3>2, SameDelivered
  <2> QED BY <2>1, <2>2
<1>6. \A r \in Sockets : wire'[r].server \in {"none", "new"} =>
                           wire'[r].server = wire[r].server /\ down'[r] = down[r]
  <2>1. \A r \in Sockets : wire'[r].server \in {"none", "new"} => wire'[r].server = wire[r].server
    BY <1>1
  <2> QED BY <1>5, <2>1 DEF Delivered
<1> QED BY <1>1, <1>2, <1>5, <1>6, ServedKept DEF Delivered

LEMMA SocketEndsKept ==
  ASSUME ScreenInv, ConsoleInv', NEW s \in Sockets, SocketEnds(s), UNCHANGED <<scr, vox>>
  PROVE  ScreenInv'
<1> DEFINE k == wire[s].by
<1>1. /\ wire[s].server \in {"new", "up"} /\ wire' = ServerEnds({s}) /\ up' = UpOf({s})
      /\ UNCHANGED <<login, client>>
      /\ \/ ServerSockets(k) = {s} /\ Detached(k, {srv[k].listen})
         \/ ServerSockets(k) # {s} /\ UNCHANGED <<serverState, down>>
  BY DEF SocketEnds
<1>2. k \in Logins
  BY <1>1, ReachesSockets
<1>3. {srv[k].listen} \in SUBSET SUBSET Channels /\ {s} \in SUBSET Sockets
  BY <1>2, ServerFields
<1>4. \A r \in {s} : wire[r].by = k
  OBVIOUS
<1> HIDE DEF k
<1>5. ServerSockets(k) # {s} => ServerSockets(k) \ {s} # {} \/ ServerSockets(k) = {}
  OBVIOUS
<1> QED BY <1>1, <1>2, <1>3, <1>4, <1>5, EndsKept

LEMMA AskSignOutKeeps ==
  ASSUME ScreenInv, ConsoleInv', AskSignOut
  PROVE  ScreenInv'
<1> DEFINE S == {s \in Sockets : wire[s].by = login}
<1>1. /\ login \in Logins /\ UNCHANGED <<login, client, scr, vox>>
      /\ \/ UNCHANGED <<wire, up, serverState, down>>
         \/ /\ wire' = ServerEnds(S) /\ up' = UpOf(S)
            /\ \/ Detached(login, {})
               \/ login \notin Attached /\ UNCHANGED <<serverState, down>>
  BY SocketParts DEF AskSignOut, SessionDeleted
<1>2. CASE UNCHANGED <<wire, up, serverState, down>>
  <2>1. ServerShapes' /\ LinesHeld'
    BY <1>2, SameAttached, ServerFields DEF ServerShapes, serverState, ScreenInv, LinesHeld
  <2> QED BY <1>1, <1>2, <2>1, ScreenInvParts, ServedKept
<1>3. CASE wire' = ServerEnds(S) /\ up' = UpOf(S)
  <2>1. login \notin Attached => ServerSockets(login) = {}
    BY <1>1 DEF Attached
  <2>2. {} \in SUBSET SUBSET Channels /\ S \in SUBSET Sockets /\ \A s \in S : wire[s].by = login
    OBVIOUS
  <2>3. Detached(login, {}) \/ (UNCHANGED <<serverState, down>> /\ ServerSockets(login) = {})
        \/ UNCHANGED <<wire, up, serverState, down>>
    BY <1>1, <2>1
  <2> HIDE DEF S
  <2> QED BY <1>1, <1>2, <1>3, <2>2, <2>3, EndsKept
<1> QED BY <1>1, <1>2, <1>3

LEMMA ServerKeeps == ASSUME ScreenInv, ConsoleInv', Server PROVE ScreenInv'
<1>1. UNCHANGED <<scr, vox>>
  BY DEF Server
<1>2. ASSUME NEW s \in Sockets, Read(s) \/ SocketEnds(s) PROVE ScreenInv'
  BY <1>1, <1>2, ReadKept, SocketEndsKept
<1>3. CASE OtherPeople
  <2>1. UNCHANGED <<login, client, wire, up>>
    BY <1>3 DEF OtherPeople, OtherPages, OtherPageEnds, Muted, PeerCalls, PeerAccepts, PeerEnds, Happens
  <2> QED BY <1>1, <1>3, <2>1, OthersServe, ScreenInvParts, ServedKept DEF Serves, Delivered
<1> QED BY <1>2, <1>3 DEF Server

LEMMA SignedOutShape ==
  ASSUME ScreenInv
  PROVE  /\ SignedOut \in Screens /\ ~SignedOut.ready
         /\ SignedOut.held = scr.held /\ SignedOut.stored = scr.stored
         /\ ~Web => SignedOut.latch = scr.latch
         /\ SignedOut.known = FALSE /\ SignedOut.restored = scr.restored
<1>1. scr \in Screens
  BY ScreenFields
<1>2. NoDirect \in Directs
  BY DEF NoDirect, Directs
<1> DEFINE p == IF Web THEN scr.page ELSE "none"
           l == IF Web THEN scr.latch \cap Assigned(0) ELSE scr.latch
           v == IF Web THEN scr.voxed \cap Assigned(0) ELSE {}
           f == scr.prefer \cap Assigned(0)
<1>3. SignedOut = [scr EXCEPT !.known = FALSE, !.talk = {}, !.listen = {}, !.ready = FALSE,
                     !.direct = NoDirect, !.incoming = 0, !.page = p, !.latch = l, !.voxed = v,
                     !.prefer = f]
  BY DEF SignedOut
<1>4. /\ p \in {"none", "other", "me"} /\ l \in SUBSET Channels /\ v \in SUBSET Channels
      /\ f \in SUBSET Channels /\ (~Web => l = scr.latch)
  BY <1>1 DEF Screens
<1> HIDE DEF p, l, v, f, NoDirect
<1> QED BY <1>1, <1>2, <1>3, <1>4 DEF Screens

\* A screen that was just loaded.
LEMMA BlankShape ==
  /\ \A L \in Storages \cup {{}} :
       /\ Blank(L) \in Screens /\ ~Blank(L).ready /\ ~Blank(L).known /\ Blank(L).restored = 0
       /\ Blank(L).page = "none" /\ Blank(L).direct = NoDirect /\ Blank(L).incoming = 0
  /\ Quiet \in Detectors
<1>1. NoDirect \in Directs
  BY DEF NoDirect, Directs
<1> HIDE DEF NoDirect
<1>2. ASSUME NEW L \in Storages \cup {{}}
      PROVE  /\ Blank(L) \in Screens /\ ~Blank(L).ready /\ ~Blank(L).known
             /\ Blank(L).restored = 0 /\ Blank(L).page = "none" /\ Blank(L).direct = NoDirect
             /\ Blank(L).incoming = 0
  <2> DEFINE f == UNION L \cap Assigned(0)
  <2>1. f \in SUBSET Channels /\ L \in SUBSET SUBSET Channels
    BY OperatorScreenAssumption DEF Assigned
  <2>2. Blank(L) =
          [known |-> FALSE, talk |-> {}, listen |-> {}, ready |-> FALSE, page |-> "none",
           direct |-> NoDirect, incoming |-> 0, latch |-> {}, voxed |-> {},
           held |-> [c \in Channels |-> "no"], stored |-> L, prefer |-> f, restored |-> 0]
    BY DEF Blank
  <2> HIDE DEF f
  <2> QED BY <1>1, <2>1, <2>2 DEF Screens
<1> QED BY <1>2 DEF Quiet, Detectors

LEMMA LeaveKeeps ==
  ASSUME ScreenInv, ConsoleInv', WebSignOut \/ MobileSignOut PROVE ScreenInv'
<1>1. /\ login # 0 /\ Disconnect(login) /\ login' = 0 /\ scr' = SignedOut /\ vox' = Quiet
      /\ UNCHANGED <<up, serverState>>
  BY DEF WebSignOut, MobileSignOut, Leave, sessionVars, ScreenInv, ConsoleInv, SocketsOwned
<1>2. PICK x \in {"left", "lost"} : GivesUp(x)
  BY <1>1, GivesUpShape
<1>3. scr' \in Screens /\ ~scr'.ready /\ vox' \in Detectors
  BY <1>1, SignedOutShape, BlankShape
<1> QED BY <1>1, <1>2, <1>3, GivesUpKept

LEMMA LostShape ==
  ASSUME ScreenInv, LinkLost
  PROVE  /\ login # 0 /\ UNCHANGED <<login, up, serverState, paged, opener, device>>
         /\ \E x \in {"left", "lost"} : GivesUp(x)
         /\ scr' = [scr EXCEPT !.ready = FALSE] /\ scr' \in Screens /\ ~scr'.ready
         /\ vox' \in Detectors /\ (~Web => ~vox'.on)
<1>1. /\ login # 0 /\ client[login].socket # 0 /\ HandleClose(login)
      /\ UNCHANGED <<login, up, serverState, paged, opener, device>>
      /\ scr' = [scr EXCEPT !.ready = FALSE] /\ vox' = (IF Web THEN Quiet ELSE vox)
      /\ (~Web => ~vox.on)
  BY DEF LinkLost, Closes, SocketOf
<1>2. \E x \in {"left", "lost"} : GivesUp(x)
  BY <1>1, GivesUpShape
<1>3. scr' \in Screens /\ ~scr'.ready
  BY <1>1, ScreenFields, ScreenParts
<1> QED BY <1>1, <1>2, <1>3, BlankShape, ScreenFields

LEMMA LostInVoiceShape ==
  ASSUME ScreenInv, LinkLostInVoice
  PROVE  /\ login # 0 /\ login' = 0 /\ UNCHANGED <<up, serverState, opener, device>>
         /\ \E x \in {"left", "lost"} : GivesUp(x)
         /\ scr' = Blank({}) /\ vox' = Quiet
<1>1. /\ login # 0 /\ Disconnect(login) /\ login' = 0
      /\ UNCHANGED <<up, serverState, opener, device>> /\ scr' = Blank({}) /\ vox' = Quiet
  BY DEF LinkLostInVoice, Closes
<1> QED BY <1>1, GivesUpShape

LEMMA InitScreen == Init => ScreenInv
<1> SUFFICES ASSUME Init PROVE ScreenInv
  OBVIOUS
<1>1. /\ login = 0 /\ client = [k \in Logins |-> NoClient] /\ wire = [s \in Sockets |-> NoWire]
      /\ up = [s \in Sockets |-> <<>>] /\ down = [s \in Sockets |-> <<>>]
      /\ srv = [k \in Logins |-> NoSession] /\ page = 0 /\ call = NoCall /\ calls = 0
      /\ vox = Quiet /\ \E L \in Storages \cup {{}} : scr = Blank(L)
  BY DEF Init, LinkInit, SessionInit
<1>2. <<>> \in Seq(Commands) /\ <<>> \in Seq(Answers)
  OBVIOUS
<1>3. NoSession \in Sessions /\ NoCall \in Calls
  BY SessionsParts
<1>4. SessionShapes
  BY <1>1, <1>2, <1>3, BlankShape DEF SessionShapes, ServerShapes
<1>5. NoWire.by = 0 /\ NoWire.client = "none" /\ NoWire.server = "none"
  BY DEF NoWire
<1>6. NoClient.at = "idle" /\ NoClient.socket = 0
  BY DEF NoClient
<1>7. SocketsUsed
  BY <1>1, <1>5 DEF SocketsUsed
<1>8. ClientsUsed
  BY <1>1, <1>6, BlankShape DEF ClientsUsed
<1>9. LinesHeld
  BY <1>1, LoginsNat DEF LinesHeld
<1> QED BY <1>4, <1>7, <1>8, <1>9, InitConsole DEF ScreenInv

LEMMA SameKept == ASSUME ScreenInv, UNCHANGED vars PROVE ScreenInv'
<1>1. UNCHANGED <<login, leaving, client, wire, up, down, srv, page, call, calls, scr, vox>>
  BY DEF vars, linkVars, sessionVars, serverState
<1>2. ConsoleInv'
  BY <1>1 DEF ScreenInv, ConsoleInv, LinkShapes, SocketsOwned, OneConnection
<1>3. ServerShapes' /\ LinesHeld'
  BY <1>1, SameAttached, ServerFields DEF ServerShapes, ScreenInv, LinesHeld
<1> QED BY <1>1, <1>2, <1>3, ScreenInvParts, ServedKept

LEMMA StepScreen == ScreenInv /\ [Next]_vars => ScreenInv'
<1> SUFFICES ASSUME ScreenInv, [Next]_vars PROVE ScreenInv'
  OBVIOUS
<1>1. ConsoleInv'
  BY StepConsole DEF ScreenInv
<1>2. CASE SignIn
  <2>1. PICK k \in Logins, s \in Fresh :
           /\ OpenSocket(k, s, "connecting") /\ login = 0 /\ login' = k
           /\ UNCHANGED <<up, down, serverState, scr, vox>>
    BY <1>2, SignInOpens
  <2>2. ~Connected
    BY <2>1 DEF Connected, ScreenState
  <2> QED BY <1>1, <2>1, <2>2, OpenKept
<1>3. CASE AskSignOut
  BY <1>1, <1>3, AskSignOutKeeps
<1>4. CASE WebSignOut \/ MobileSignOut
  BY <1>1, <1>4, LeaveKeeps
<1>5. CASE Operator /\ ~SignIn /\ ~AskSignOut /\ ~WebSignOut /\ ~MobileSignOut
  BY <1>1, <1>5, OperatorLocal, LocalKept
<1>6. CASE Server
  BY <1>1, <1>6, ServerKeeps
<1>7. CASE Link
  <2>1. login # 0 /\ UNCHANGED <<serverState, scr, vox>> /\ (HandleOpen(login, Greets) \/ Reconnect(login))
    BY <1>7, LinkOpens DEF Link, sessionVars
  <2>2. CASE HandleOpen(login, Greets)
    BY <1>1, <2>1, <2>2, HandleOpenKeeps
  <2>3. CASE Reconnect(login)
    <3>1. PICK s \in Fresh : OpenSocket(login, s, "reconnecting")
      BY <2>1, <2>3, ReconnectOpens
    <3>2. login \in Logins /\ ~Connected /\ UNCHANGED <<login, up, down>>
      BY <2>1, <2>3, ReconnectOpens
    <3> QED BY <1>1, <2>1, <3>1, <3>2, OpenKept
  <2> QED BY <2>1, <2>2, <2>3
<1>8. CASE LinkLost
  BY <1>1, <1>8, LostShape, GivesUpKept
<1>9. CASE LinkLostInVoice
  BY <1>1, <1>9, LostInVoiceShape, BlankShape, GivesUpKept
<1>10. CASE WebAudioReady \/ MobileAudioReady
  BY <1>1, <1>10, ReadyKept
<1>11. CASE WebReceives \/ MobileReceives
  BY <1>1, <1>11, ReceivesKept
<1>12. CASE UNCHANGED vars
  BY <1>12, SameKept
<1> QED BY <1>2, <1>3, <1>4, <1>5, <1>6, <1>7, <1>8, <1>9, <1>10, <1>11, <1>12 DEF Next

-----------------------------------------------------------------------------
(* The screen shows what the server has *)

States == {"state"}

\* x shows the microphones and the listen selection of the session y, when p pages;
\* nothing is shown as heard that is not.
Shown(x, y, p) ==
  /\ x.talk = y.talk /\ x.listen \subseteq y.listen
  /\ p \in {0, login} => x.listen = y.listen

\* The screen will show the session once it took the messages under way.
MicInv ==
  Live =>
    /\ \A m \in Answers : Newest(down[SocketOf], States, m) => Shown(m, srv[login], page)
    /\ None(down[SocketOf], States) => scr.known /\ Shown(scr, srv[login], page)

\* The step leaves what there is to show.
NoNews ==
  /\ srv'[login].talk = srv[login].talk /\ srv[login].listen \subseteq srv'[login].listen
  /\ page' \in {0, login} => page \in {0, login} /\ srv'[login].listen = srv[login].listen

\* The messages r tell what the step does to the session on the screen.
Informs(r) ==
  /\ r \in Seq(Answers)
  /\ \A m \in Answers : Newest(r, States, m) => Shown(m, srv'[login], page')
  /\ None(r, States) => NoNews

Informed == Live => \E r : Informs(r) /\ down'[SocketOf] = down[SocketOf] \o r

LEMMA InformedKept ==
  ASSUME ScreenInv, MicInv, Live, SocketOf' = SocketOf, UNCHANGED <<login, scr>>, Informed
  PROVE  MicInv'
<1> DEFINE q == down[SocketOf]
<1>1. PICK r : Informs(r) /\ down'[SocketOf] = q \o r
  BY DEF Informed
<1>2. q \in Seq(Answers) /\ r \in Seq(Answers)
  BY <1>1, LiveFacts DEF Informs
<1>3. /\ None(q \o r, States) <=> None(q, States) /\ None(r, States)
      /\ \A m : Newest(q \o r, States, m) => Newest(r, States, m) \/ (None(r, States) /\ Newest(q, States, m))
  BY <1>2, LastOfConcat
<1>4. /\ \A m \in Answers : Newest(q, States, m) => Shown(m, srv[login], page)
      /\ None(q, States) => scr.known /\ Shown(scr, srv[login], page)
  BY DEF MicInv
<1>5. /\ \A m \in Answers : Newest(r, States, m) => Shown(m, srv'[login], page')
      /\ None(r, States) => NoNews
  BY <1>1 DEF Informs
<1> HIDE DEF q
<1>6. \A x : Shown(x, srv[login], page) /\ NoNews => Shown(x, srv'[login], page')
  BY DEF Shown, NoNews
<1>7. \A m \in Answers : Newest(q \o r, States, m) => Shown(m, srv'[login], page')
  BY <1>3, <1>4, <1>5, <1>6
<1>8. None(q \o r, States) => scr.known /\ Shown(scr, srv'[login], page')
  BY <1>3, <1>4, <1>5, <1>6
<1>9. down'[SocketOf'] = q \o r /\ login' = login /\ scr' = scr
  BY <1>1
<1>10. /\ \A m \in Answers : Newest(down'[SocketOf'], States, m) => Shown(m, srv'[login], page')
       /\ None(down'[SocketOf'], States) => scr'.known /\ Shown(scr', srv'[login], page')
  BY <1>7, <1>8, <1>9
<1> HIDE DEF None, Newest
<1> QED BY <1>9, <1>10 DEF MicInv, Shown

LEMMA SaysNothing ==
  ASSUME ScreenInv, Live => down'[SocketOf] = down[SocketOf], Live => NoNews
  PROVE  Informed
<1> SUFFICES ASSUME Live PROVE \E r : Informs(r) /\ down'[SocketOf] = down[SocketOf] \o r
  BY DEF Informed
<1>1. down[SocketOf] \in Seq(Answers) /\ <<>> \in Seq(Answers)
  BY LiveFacts
<1>2. down[SocketOf] \o <<>> = down[SocketOf]
  BY <1>1, ConcatEmptySeq
<1>3. Informs(<<>>)
  BY <1>1, LastOfNothing DEF Informs
<1> QED BY <1>2, <1>3

LEMMA SaysState ==
  ASSUME ScreenInv, Live => down'[SocketOf] = down[SocketOf] \o <<State(srv'[login])>>,
         Live => srv'[login] \in Sessions
  PROVE  Informed
<1> SUFFICES ASSUME Live PROVE \E r : Informs(r) /\ down'[SocketOf] = down[SocketOf] \o r
  BY DEF Informed
<1> DEFINE m == State(srv'[login])
<1>1. m \in Answers /\ m.kind = "state" /\ m.talk = srv'[login].talk /\ m.listen = srv'[login].listen
  BY AnswerFacts
<1> HIDE DEF m
<1>2. <<m>> \in Seq(Answers)
  BY <1>1
<1>3. Informs(<<m>>)
  BY <1>1, <1>2, LastOfOne DEF Informs, Shown, States
<1> QED BY <1>3 DEF m

LEMMA SaysOther ==
  ASSUME ScreenInv, NEW m \in Answers, m.kind # "state",
         Live => down'[SocketOf] = down[SocketOf] \o <<m>>, Live => NoNews
  PROVE  Informed
<1>1. <<m>> \in Seq(Answers)
  OBVIOUS
<1>2. Live => Informs(<<m>>)
  BY <1>1, LastOfOne DEF Informs, States
<1> QED BY <1>2 DEF Informed

\* A message to one session, about something else.
LEMMA LineInforms ==
  ASSUME ScreenInv, UNCHANGED <<srv, page>>, NEW k, NEW m \in Answers, m.kind # "state", Line(k, m)
  PROVE  Informed
<1>1. NoNews
  BY DEF NoNews
<1>2. Live => down'[SocketOf] = IF k = login THEN down[SocketOf] \o <<m>> ELSE down[SocketOf]
  BY LineShape
<1> QED BY <1>1, <1>2, SaysNothing, SaysOther

LEMMA ChangedInforms ==
  ASSUME ScreenInv, UNCHANGED page, NEW k \in Logins, NEW x \in Sessions, Changed(k, x)
  PROVE  Informed
<1>1. /\ srv' \in [Logins -> Sessions] /\ \A j \in Logins \ {k} : srv'[j] = srv[j]
      /\ Live => down'[SocketOf] = IF k = login THEN down[SocketOf] \o <<State(srv'[login])>>
                                   ELSE down[SocketOf]
  BY ChangedShape
<1>2. Live => login \in Logins
  BY LiveFacts
<1>3. CASE k = login
  BY <1>1, <1>3, SaysState
<1>4. CASE k # login
  <2>1. Live => NoNews
    BY <1>1, <1>2, <1>4 DEF NoNews
  <2> QED BY <1>1, <1>4, <2>1, SaysNothing
<1> QED BY <1>3, <1>4

LEMMA SaysPageEnd ==
  ASSUME ScreenInv, Live => down'[SocketOf] = down[SocketOf] \o <<State(srv'[login]), Notice(0)>>,
         Live => srv'[login] \in Sessions
  PROVE  Informed
<1> SUFFICES ASSUME Live PROVE \E r : Informs(r) /\ down'[SocketOf] = down[SocketOf] \o r
  BY DEF Informed
<1> DEFINE m == State(srv'[login])
           n == Notice(0)
<1>1. /\ m \in Answers /\ m.kind = "state" /\ m.talk = srv'[login].talk /\ m.listen = srv'[login].listen
      /\ n \in Answers /\ n.kind = "page"
  BY AnswerFacts
<1> HIDE DEF m, n
<1>2. <<m, n>> \in Seq(Answers) /\ DOMAIN <<m, n>> = {1, 2} /\ <<m, n>>[1] = m /\ <<m, n>>[2] = n
  BY <1>1, TwoAnswers
<1>3. ~None(<<m, n>>, States) /\ \A x : Newest(<<m, n>>, States, x) => x = m
  BY <1>1, <1>2 DEF None, Newest, States
<1>4. Informs(<<m, n>>)
  BY <1>1, <1>2, <1>3 DEF Informs, Shown
<1> QED BY <1>4 DEF m, n

LEMMA StopsInform == ASSUME ScreenInv, PageStops PROVE Informed
<1>1. /\ srv' \in [Logins -> Sessions]
      /\ Live => down'[SocketOf] = down[SocketOf] \o <<State(srv'[login]), Notice(0)>>
  BY StopsShape
<1>2. Live => login \in Logins
  BY LiveFacts
<1> QED BY <1>1, <1>2, SaysPageEnd

LEMMA StartsInform ==
  ASSUME ScreenInv, page = 0, NEW p \in Attached \cup {Other}, PageStarts(p)
  PROVE  Informed
<1>1. p \in Nat /\ p # 0
  BY SocketParts DEF Attached
<1>2. /\ page' = p /\ srv' \in [Logins -> Sessions] /\ \A k \in Logins : srv'[k] = Paged(p, k)
      /\ Live => down'[SocketOf] = down[SocketOf] \o
              ((IF srv[login].talk # srv'[login].talk THEN <<State(Muting)>> ELSE <<>>)
                 \o <<Notice(p)>>)
  BY <1>1, PageStartsShape
<1> SUFFICES ASSUME Live PROVE \E r : Informs(r) /\ down'[SocketOf] = down[SocketOf] \o r
  BY DEF Informed
<1> DEFINE m == State(Muting)
           h == IF srv[login].talk # srv'[login].talk THEN <<m>> ELSE <<>>
           n == Notice(p)
<1>3. login \in Logins
  BY LiveFacts
<1>14. srv[login].listen \in SUBSET Channels /\ srv'[login].talk \in SUBSET Channels
  BY <1>2, <1>3, ServerFields DEF Sessions
<1>4. /\ m \in Answers /\ m.kind = "state" /\ m.talk = srv'[login].talk /\ m.listen = srv[login].listen
      /\ n \in Answers /\ n.kind = "page"
  BY <1>1, <1>14, AnswerFacts DEF Muting
<1> HIDE DEF m, n
<1>5. h \in Seq(Answers) /\ <<n>> \in Seq(Answers)
  BY <1>4, OneAnswer
<1>6. /\ p = login => srv'[login].listen = srv[login].listen
      /\ srv[login].listen \subseteq srv'[login].listen
  BY <1>2, <1>3, PagedShape
<1>7. /\ \A x : Newest(h, States, x) => x = m
      /\ None(h, States) => srv'[login].talk = srv[login].talk
  BY <1>4, LastOfOne, LastOfNothing DEF States
<1> HIDE DEF h
<1>8. None(<<n>>, States) /\ \A x : ~Newest(<<n>>, States, x)
  BY <1>4, LastOfOne DEF States
<1>9. h \o <<n>> \in Seq(Answers)
  BY <1>5, ConcatFacts
<1>10. /\ None(h \o <<n>>, States) => None(h, States)
       /\ \A x : Newest(h \o <<n>>, States, x) => Newest(h, States, x)
  BY <1>5, <1>8, LastOfConcat
<1>11. None(h \o <<n>>, States) => NoNews
  <2>1. page' \in {0, login} => page \in {0, login} /\ srv'[login].listen = srv[login].listen
    BY <1>1, <1>2, <1>6
  <2> QED BY <1>6, <1>7, <1>10, <2>1 DEF NoNews
<1>12. \A x : Newest(h \o <<n>>, States, x) => Shown(x, srv'[login], page')
  <2>1. page' \in {0, login} => p = login
    BY <1>1, <1>2
  <2> QED BY <1>4, <1>6, <1>7, <1>10, <2>1 DEF Shown
<1>13. Informs(h \o <<n>>)
  BY <1>9, <1>11, <1>12 DEF Informs
<1> QED BY <1>2, <1>13 DEF h, m, n

LEMMA CommandInforms ==
  ASSUME ScreenInv, NEW k \in Attached, NEW m \in Commands, m.kind # "authenticate", Command(k, m)
  PROVE  Informed
<1>1. k \in Logins
  BY DEF Attached
<1>2. UNCHANGED <<srv, page, down>> => Informed
  BY SaysNothing DEF NoNews
<1>3. CASE m.kind \in {"talk", "listen"}
  <2>1. TalkCommand(k, m) \/ ListenCommand(k, m)
    BY <1>3 DEF Command
  <2>2. \/ UNCHANGED <<srv, down>>
        \/ Changed(k, WithTalk(k, m)) \/ Changed(k, WithListen(k, m))
    BY <2>1 DEF TalkCommand, ListenCommand, WithTalk, WithListen
  <2>3. UNCHANGED page
    BY <2>1 DEF TalkCommand, ListenCommand
  <2>4. WithTalk(k, m) \in Sessions /\ WithListen(k, m) \in Sessions
    BY <1>1, <1>3, WithShapes
  <2> QED BY <1>1, <1>2, <2>2, <2>3, <2>4, ChangedInforms
<1>4. CASE m.kind = "page"
  <2>1. (page = 0 /\ PageStarts(k)) \/ PageStops \/ UNCHANGED <<srv, page, down>>
    BY <1>4 DEF Command, PageCommand
  <2> QED BY <1>2, <2>1, StartsInform, StopsInform
<1>5. CASE m.kind \in {"call", "accept", "reject", "end"}
  <2>1. UNCHANGED <<srv, page>>
    BY <1>5 DEF Command, CallCommand, AnswerCommand
  <2>2. UNCHANGED down \/ Line(k, Ended) \/ Line(k, [kind |-> "active", id |-> m.id])
    BY <1>5 DEF Command, CallCommand, AnswerCommand
  <2>3. CASE UNCHANGED down
    BY <1>2, <2>1, <2>3
  <2>4. CASE Line(k, Ended)
    BY <2>1, <2>4, AnswerFacts, LineInforms
  <2>5. CASE m.kind = "call"
    <3>1. UNCHANGED down \/ Line(k, Ended)
      BY <2>5 DEF Command, CallCommand
    <3> QED BY <2>3, <2>4, <3>1
  <2>6. CASE m.kind # "call" /\ Line(k, [kind |-> "active", id |-> m.id])
    <3>1. [kind |-> "active", id |-> m.id] \in Answers
      BY <1>5, <2>6, AnswerFacts, CommandKinds
    <3>2. [kind |-> "active", id |-> m.id].kind # "state"
      OBVIOUS
    <3> QED BY <2>1, <2>6, <3>1, <3>2, LineInforms
  <2> QED BY <2>2, <2>3, <2>4, <2>5, <2>6
<1> QED BY <1>3, <1>4, <1>5, CommandKinds

LEMMA OthersInform == ASSUME ScreenInv, OtherPeople PROVE Informed
<1>1. CASE OtherPages \/ OtherPageEnds
  BY <1>1, StartsInform, StopsInform DEF OtherPages, OtherPageEnds
<1>2. ASSUME NEW k \in Logins, Muted(k) PROVE Informed
  <2> DEFINE x == [srv[k] EXCEPT !.talk = {}]
  <2>1. Changed(k, x) /\ UNCHANGED page
    BY <1>2 DEF Muted
  <2>2. x \in Sessions
    <3>1. srv[k] \in Sessions /\ {} \in SUBSET Channels
      BY ServerFields
    <3> QED BY <3>1, SessionsParts
  <2> HIDE DEF x
  <2> QED BY <2>1, <2>2, ChangedInforms
<1>3. ASSUME NEW k \in Logins, PeerCalls(k) PROVE Informed
  <2>1. Line(k, [kind |-> "incoming", id |-> calls + 1]) /\ UNCHANGED <<srv, page>>
    BY <1>3 DEF PeerCalls
  <2>2. calls + 1 \in Nat
    BY ServerFields
  <2>3. [kind |-> "incoming", id |-> calls + 1] \in Answers
    BY <2>2, AnswerFacts
  <2> QED BY <2>1, <2>3, LineInforms
<1>4. CASE PeerAccepts
  <2>1. Line(call.by, [kind |-> "active", id |-> call.id]) /\ UNCHANGED <<srv, page>>
    BY <1>4 DEF PeerAccepts
  <2>2. [kind |-> "active", id |-> call.id] \in Answers
    BY CallParts, AnswerFacts
  <2> QED BY <2>1, <2>2, LineInforms
<1>5. CASE PeerEnds
  <2>1. Line(call.by, Ended) /\ UNCHANGED <<srv, page>>
    BY <1>5 DEF PeerEnds
  <2> QED BY <2>1, AnswerFacts, LineInforms
<1> QED BY <1>1, <1>2, <1>3, <1>4, <1>5 DEF OtherPeople

LEMMA SameLive ==
  ASSUME ScreenInv, UNCHANGED <<login, client>>
  PROVE  /\ SocketOf' = SocketOf
         /\ (SocketOf # 0 => wire'[SocketOf] = wire[SocketOf]) => (Live' <=> Live)
<1>1. SocketOf' = SocketOf
  BY DEF SocketOf
<1> QED BY <1>1 DEF Live, CanSend

\* Another socket than the screen's authenticates.
LEMMA AuthenticatedElsewhere ==
  ASSUME ScreenInv, NEW s \in Sockets, wire[s].server \in {"new", "up"}, s # SocketOf,
         NEW k, k = wire[s].by, Authenticated(s, k), UNCHANGED <<login, client>>
  PROVE  (Live' <=> Live) /\ Informed
<1>1. /\ UNCHANGED page
      /\ \/ UNCHANGED <<wire, serverState, down>>
         \/ /\ \A r \in Sockets \ {s} : wire'[r] = wire[r] /\ down'[r] = down[r]
            /\ \A j \in Logins \ {k} : srv'[j] = srv[j]
            /\ k \in Attached => srv'[k] = srv[k]
  BY AuthenticatedShape
<1>2. SocketOf # 0 => SocketOf \in Sockets
  BY SocketParts
<1>3. Live' <=> Live
  BY <1>1, <1>2, SameLive
<1>4. Live => login \in Logins /\ login \in Attached /\ SocketOf \in Sockets
  BY LiveFacts
<1>5. Live => srv'[login] = srv[login] /\ down'[SocketOf] = down[SocketOf]
  BY <1>1, <1>4 DEF serverState
<1>6. Live => NoNews
  BY <1>1, <1>5 DEF NoNews
<1> QED BY <1>3, <1>5, <1>6, SaysNothing

\* A socket authenticates: its session is told the state there is.
LEMMA AuthenticatedInforms ==
  ASSUME ScreenInv, MicInv, NEW s \in Sockets, wire[s].server \in {"new", "up"},
         NEW k, k = wire[s].by, Authenticated(s, k), UNCHANGED <<login, client, scr>>
  PROVE  MicInv'
<1>1. SocketOf' = SocketOf
  BY SameLive
<1>2. UNCHANGED page
  BY AuthenticatedShape
<1>3. CASE UNCHANGED <<wire, serverState, down>>
  <2>1. Live' <=> Live
    BY <1>3, SameLive
  <2>2. Informed
    BY <1>2, <1>3, SaysNothing DEF NoNews, serverState
  <2> QED BY <1>1, <2>1, <2>2, InformedKept DEF MicInv
<1>4. CASE ~UNCHANGED <<wire, serverState, down>>
  <2>1. /\ \A r \in Sockets \ {s} : wire'[r] = wire[r] /\ down'[r] = down[r]
        /\ srv' \in [Logins -> Sessions] /\ \A j \in Logins \ {k} : srv'[j] = srv[j]
        /\ k \in Attached => srv'[k] = srv[k]
        /\ wire'[s].client = wire[s].client
        /\ wire[s].client = "open" =>
             down'[s] = (down[s] \o <<State(srv'[k])>>)
                          \o (IF page = 0 THEN <<>> ELSE <<Notice(page)>>)
    BY <1>4, AuthenticatedShape
  <2>2. k \in Logins
    BY ReachesSockets
  <2>3. CASE s = SocketOf
    <3> SUFFICES ASSUME Live' PROVE MicInv'
      BY DEF MicInv
    <3>1. SocketOf # 0 /\ k = login /\ wire[s].client = "open"
      BY <1>1, <2>1, <2>3, SocketParts DEF Live, CanSend
    <3> DEFINE q == down[s]
               m == State(srv'[login])
               n == IF page = 0 THEN <<>> ELSE <<Notice(page)>>
    <3>2. down'[s] = (q \o <<m>>) \o n
      BY <2>1, <3>1
    <3>3. m \in Answers /\ m.kind = "state" /\ m.talk = srv'[login].talk /\ m.listen = srv'[login].listen
      BY <2>1, <2>2, <3>1, AnswerFacts
    <3>4. n \in Seq(Answers) /\ None(n, States) /\ \A x : ~Newest(n, States, x)
      <4>1. Notice(page) \in Answers /\ Notice(page).kind = "page"
        BY ServerFields, AnswerFacts
      <4>2. <<>> \in Seq(Answers) /\ <<Notice(page)>> \in Seq(Answers)
        BY <4>1
      <4>3. CASE page = 0
        BY <4>2, <4>3, LastOfNothing
      <4>4. CASE page # 0
        BY <4>1, <4>2, <4>4, LastOfOne DEF States
      <4> QED BY <4>3, <4>4
    <3>5. q \in Seq(Answers)
      BY ScreenInvParts
    <3> HIDE DEF q, m, n
    <3>6. <<m>> \in Seq(Answers)
      BY <3>3
    <3>7. ~None(<<m>>, States) /\ \A x : Newest(<<m>>, States, x) => x = m
      BY <3>3, LastOfOne DEF States
    <3>8. /\ ~None(q \o <<m>>, States) /\ \A x : Newest(q \o <<m>>, States, x) => x = m
          /\ q \o <<m>> \in Seq(Answers)
      BY <3>5, <3>6, <3>7, LastOfConcat, ConcatFacts
    <3>9. ~None((q \o <<m>>) \o n, States) /\ \A x : Newest((q \o <<m>>) \o n, States, x) => x = m
      BY <3>4, <3>8, LastOfConcat
    <3>10. Shown(m, srv'[login], page')
      BY <3>3 DEF Shown
    <3>11. /\ \A x \in Answers : Newest(down'[SocketOf'], States, x) => Shown(x, srv'[login], page')
           /\ ~None(down'[SocketOf'], States)
      BY <1>1, <2>3, <3>2, <3>9, <3>10
    <3> HIDE DEF None, Newest
    <3> QED BY <3>11 DEF MicInv, Shown
  <2>4. CASE s # SocketOf
    BY <1>1, <2>4, AuthenticatedElsewhere, InformedKept DEF MicInv
  <2> QED BY <2>3, <2>4
<1> QED BY <1>3, <1>4

LEMMA ReadMic ==
  ASSUME ScreenInv, MicInv, NEW s \in Sockets, Read(s), UNCHANGED scr
  PROVE  MicInv'
<1>1. PICK m \in Commands :
           /\ wire[s].server \in {"new", "up"}
           /\ UNCHANGED <<login, client>>
           /\ \/ m.kind = "authenticate" /\ Authenticated(s, wire[s].by)
              \/ m.kind # "authenticate" /\ wire[s].server = "up" /\ wire[s].by \in Attached
                 /\ Command(wire[s].by, m) /\ UNCHANGED wire
              \/ m.kind # "authenticate" /\ wire[s].server = "new" /\ UNCHANGED <<wire, serverState, down>>
  BY ReadShape
<1>2. CASE Authenticated(s, wire[s].by)
  BY <1>1, <1>2, AuthenticatedInforms
<1>3. ASSUME Informed, UNCHANGED wire PROVE MicInv'
  BY <1>1, <1>3, SameLive, InformedKept DEF MicInv
<1>4. CASE m.kind # "authenticate" /\ wire[s].by \in Attached /\ Command(wire[s].by, m) /\ UNCHANGED wire
  BY <1>3, <1>4, CommandInforms
<1>5. CASE UNCHANGED <<wire, serverState, down>>
  <2>1. Informed
    BY <1>5, SaysNothing DEF NoNews, serverState
  <2> QED BY <1>3, <1>5, <2>1
<1> QED BY <1>1, <1>2, <1>4, <1>5

\* The screen's socket stays when it is not the one that ends.
LEMMA SocketEndsInforms ==
  ASSUME ScreenInv, NEW s \in Sockets, SocketEnds(s), Live'
  PROVE  s # SocketOf /\ SocketOf' = SocketOf /\ Live /\ Informed
<1> DEFINE k == wire[s].by
<1>1. /\ wire[s].server \in {"new", "up"} /\ wire' = ServerEnds({s})
      /\ UNCHANGED <<login, client>>
      /\ \/ ServerSockets(k) = {s} /\ Detached(k, {srv[k].listen})
         \/ UNCHANGED <<serverState, down>>
  BY DEF SocketEnds
<1>2. k \in Logins
  BY <1>1, ReachesSockets
<1>3. SocketOf' = SocketOf
  BY <1>1, SameLive
<1>4. SocketOf # 0 /\ SocketOf \in Sockets /\ wire'[SocketOf].server = "up"
  BY <1>3, SocketParts DEF Live, CanSend
<1>5. s # SocketOf /\ wire'[SocketOf] = wire[SocketOf]
  BY <1>1, <1>4, EndedShape
<1>6. Live
  BY <1>1, <1>5, SameLive
<1>7. login \in Logins /\ SocketOf \in ServerSockets(login)
  BY <1>6, LiveFacts
<1>8. Informed
  <2>1. CASE UNCHANGED <<serverState, down>>
    BY <2>1, SaysNothing DEF NoNews, serverState
  <2>2. CASE ServerSockets(k) = {s} /\ Detached(k, {srv[k].listen})
    <3>1. login # k
      BY <1>5, <1>7, <2>2
    <3>2. {srv[k].listen} \in SUBSET SUBSET Channels
      BY <1>2, ServerFields
    <3> HIDE DEF k
    <3>3. /\ srv' \in [Logins -> Sessions]
          /\ page # k => srv'[login] = srv[login] /\ page' = page /\ down'[SocketOf] = down[SocketOf]
          /\ page = k => down'[SocketOf] = down[SocketOf] \o <<State(srv'[login]), Notice(0)>>
      BY <1>2, <1>6, <1>7, <2>2, <3>1, <3>2, DetachedShape
    <3>4. CASE page = k
      BY <1>7, <3>3, <3>4, SaysPageEnd
    <3>5. CASE page # k
      BY <3>3, <3>5, SaysNothing DEF NoNews
    <3> QED BY <3>4, <3>5
  <2> QED BY <1>1, <2>1, <2>2
<1> QED BY <1>3, <1>5, <1>6, <1>8

LEMMA SocketEndsMic ==
  ASSUME ScreenInv, MicInv, NEW s \in Sockets, SocketEnds(s), UNCHANGED scr
  PROVE  MicInv'
<1>1. Live' => SocketOf' = SocketOf /\ Live /\ Informed
  BY SocketEndsInforms
<1>2. UNCHANGED login
  BY DEF SocketEnds
<1>3. ~Live' => MicInv'
  BY DEF MicInv
<1> QED BY <1>1, <1>2, <1>3, InformedKept

\* The session is deleted, which closes the screen's socket, or nothing happens yet.
LEMMA AskSignOutEnds ==
  ASSUME ScreenInv, AskSignOut
  PROVE  /\ UNCHANGED <<device, login, client, scr>>
         /\ UNCHANGED <<wire, up, serverState, down>> \/ ~Live'
<1>1. /\ login # 0 /\ UNCHANGED <<device, login, client, scr>>
      /\ \/ UNCHANGED <<wire, up, serverState, down>>
         \/ wire' = ServerEnds({s \in Sockets : wire[s].by = login})
  BY DEF AskSignOut, SessionDeleted
<1>2. CASE wire' = ServerEnds({s \in Sockets : wire[s].by = login})
  <2> SUFFICES ASSUME Live' PROVE FALSE
    BY <1>1
  <2>1. SocketOf' = SocketOf
    BY <1>1, SameLive
  <2>2. SocketOf \in Sockets /\ wire[SocketOf].by = login /\ wire'[SocketOf].server = "up"
    BY <2>1, SocketParts DEF Live, CanSend
  <2>3. SocketOf \in {s \in Sockets : wire[s].by = login}
    BY <2>2
  <2>4. wire'[SocketOf].server \in {"none", "gone"}
    BY <1>2, <2>2, <2>3, EndedShape
  <2> QED BY <2>2, <2>4
<1> QED BY <1>1, <1>2

LEMMA AskSignOutMic == ASSUME ScreenInv, MicInv, AskSignOut PROVE MicInv'
<1>1. /\ UNCHANGED <<login, client, scr>>
      /\ UNCHANGED <<wire, up, serverState, down>> \/ ~Live'
  BY AskSignOutEnds
<1>2. CASE UNCHANGED <<wire, up, serverState, down>>
  <2>1. Informed
    BY <1>2, SaysNothing DEF NoNews, serverState
  <2> QED BY <1>1, <1>2, <2>1, SameLive, InformedKept DEF MicInv
<1>3. CASE ~Live'
  BY <1>3 DEF MicInv
<1> QED BY <1>1, <1>2, <1>3

LEMMA ReceivesMic ==
  ASSUME ScreenInv, MicInv, WebReceives \/ MobileReceives PROVE MicInv'
<1>1. PICK m \in Answers :
           /\ CanSend /\ SocketOf \in Sockets /\ down[SocketOf] # <<>> /\ m = Head(down[SocketOf])
           /\ down' = [down EXCEPT ![SocketOf] = Tail(down[SocketOf])]
           /\ UNCHANGED <<login, client, wire, sessionVars>>
           /\ scr'.known = After(m).known /\ scr'.talk = After(m).talk
           /\ scr'.listen = After(m).listen
  BY ReceivesShape
<1> DEFINE q == down[SocketOf]
<1>2. SocketOf' = SocketOf /\ (Live' <=> Live)
  BY <1>1, SameLive
<1> SUFFICES ASSUME Live PROVE MicInv'
  BY <1>2 DEF MicInv
<1>3. q \in Seq(Answers) /\ q # <<>> /\ down'[SocketOf] = Tail(q) /\ m = Head(q)
  BY <1>1, ScreenInvParts
<1>4. UNCHANGED <<srv, page, login>>
  BY <1>1 DEF sessionVars, serverState
<1>5. /\ m.kind = "state" => scr'.known /\ scr'.talk = m.talk /\ scr'.listen = m.listen
      /\ m.kind # "state" => scr'.known = scr.known /\ scr'.talk = scr.talk /\ scr'.listen = scr.listen
  <2>1. ShowsAfter(After(m), m)
    BY AfterShape
  <2> QED BY <1>1, <2>1 DEF ShowsAfter
<1>6. /\ \A n \in Answers : Newest(q, States, n) => Shown(n, srv[login], page)
      /\ None(q, States) => scr.known /\ Shown(scr, srv[login], page)
  BY DEF MicInv
<1> HIDE DEF q
<1>7. /\ \A n : Newest(Tail(q), States, n) => Newest(q, States, n)
      /\ None(Tail(q), States) => None(q, States) \/ Newest(q, States, m)
  BY <1>3, LastOfTail
<1>8. Newest(q, States, m) => m.kind = "state"
  BY DEF Newest, States
<1>9. None(q, States) => m.kind # "state"
  <2>1. 1 \in DOMAIN q /\ q[1] = m
    BY <1>3, TailFacts
  <2> QED BY <2>1 DEF None, States
<1> HIDE DEF None, Newest
<1>10. None(Tail(q), States) => scr'.known /\ Shown(scr', srv[login], page)
  BY <1>5, <1>6, <1>7, <1>8, <1>9 DEF Shown
<1>11. \A n \in Answers : Newest(Tail(q), States, n) => Shown(n, srv[login], page)
  BY <1>6, <1>7
<1>12. down'[SocketOf'] = Tail(q)
  BY <1>2, <1>3
<1> QED BY <1>4, <1>10, <1>11, <1>12 DEF MicInv, Shown

\* What leaves the session and the socket alone, and the screen's view of them.
LEMMA SameMic ==
  ASSUME ScreenInv, MicInv, UNCHANGED <<login, client, wire, down, srv, page>>,
         scr'.known = scr.known, scr'.talk = scr.talk, scr'.listen = scr.listen
  PROVE  MicInv'
<1>1. SocketOf' = SocketOf /\ (Live' <=> Live)
  BY SameLive
<1> HIDE DEF None, Newest
<1> QED BY <1>1 DEF MicInv, Shown

LEMMA GivesUpOffline ==
  ASSUME ScreenInv, login # 0, NEW x, GivesUp(x), login' \in {0, login}
  PROVE  SocketOf' = 0 /\ ~Live'
<1>1. client'[login].socket = 0
  BY DEF GivesUp
<1>2. SocketOf' = 0
  BY <1>1 DEF SocketOf
<1> QED BY <1>2 DEF Live, CanSend

LEMMA OpensOffline ==
  ASSUME ScreenInv, NEW k \in Logins, NEW s \in Fresh, NEW state, OpenSocket(k, s, state), login' = k
  PROVE  /\ SocketOf' = s /\ s \in Sockets /\ wire'[s].server = "none" /\ wire'[s].client = "opening"
         /\ ~Live' /\ \A r \in Sockets \ {s} : wire'[r] = wire[r]
<1> DEFINE c == [at |-> state, socket |-> s, timer |-> FALSE]
           e == [by |-> k, client |-> "opening", server |-> "none"]
<1>1. /\ s \in Sockets /\ k # 0
      /\ client \in [Logins -> ClientStates] /\ wire \in [Sockets -> Ends]
  BY SocketParts, ScreenInvParts DEF Fresh
<1>2. client' = [client EXCEPT ![k] = c] /\ wire' = [wire EXCEPT ![s] = e]
  BY DEF OpenSocket
<1>3. c.socket = s /\ e.server = "none" /\ e.client = "opening"
  OBVIOUS
<1> HIDE DEF c, e
<1>4. client'[k] = c /\ wire'[s] = e /\ \A r \in Sockets \ {s} : wire'[r] = wire[r]
  BY <1>1, <1>2
<1>5. SocketOf' = s
  BY <1>1, <1>3, <1>4 DEF SocketOf
<1> QED BY <1>1, <1>3, <1>4, <1>5 DEF Live

LEMMA StepMic == ScreenInv /\ MicInv /\ [Next]_vars => MicInv'
<1> SUFFICES ASSUME ScreenInv, MicInv, [Next]_vars PROVE MicInv'
  OBVIOUS
<1>0. ~Live' => MicInv'
  BY DEF MicInv
<1>1. CASE SignIn
  BY <1>0, <1>1, SignInOpens, OpensOffline
<1>2. CASE AskSignOut
  BY <1>2, AskSignOutMic
<1>3. CASE WebSignOut \/ MobileSignOut
  <2>1. /\ login # 0 /\ Disconnect(login) /\ login' = 0
    BY <1>3 DEF WebSignOut, MobileSignOut, Leave, ScreenInv, ConsoleInv, SocketsOwned
  <2> QED BY <1>0, <2>1, GivesUpShape, GivesUpOffline
<1>4. CASE Operator /\ ~SignIn /\ ~AskSignOut /\ ~WebSignOut /\ ~MobileSignOut
  <2>1. Local
    BY <1>4, OperatorLocal
  <2> QED BY <2>1, SameMic DEF Local, SameView, serverState
<1>5. CASE Server
  <2>1. UNCHANGED scr
    BY <1>5 DEF Server
  <2>2. CASE OtherPeople
    <3>1. UNCHANGED <<login, client, wire>>
      BY <2>2 DEF OtherPeople, OtherPages, OtherPageEnds, Muted, PeerCalls, PeerAccepts, PeerEnds, Happens
    <3> QED BY <2>1, <2>2, <3>1, OthersInform, SameLive, InformedKept DEF MicInv
  <2> QED BY <1>5, <2>1, <2>2, ReadMic, SocketEndsMic DEF Server
<1>6. CASE Link
  <2>1. login # 0 /\ (HandleOpen(login, Greets) \/ Reconnect(login))
    BY <1>6, LinkOpens DEF Link
  <2>2. CASE HandleOpen(login, Greets)
    <3>1. SocketOf' = SocketOf /\ wire'[SocketOf].server = "new"
      BY <2>1, <2>2, HandleOpenShape
    <3>2. ~Live'
      BY <3>1 DEF Live
    <3> QED BY <1>0, <3>2
  <2>3. CASE Reconnect(login)
    BY <1>0, <2>1, <2>3, ReconnectOpens, OpensOffline
  <2> QED BY <2>1, <2>2, <2>3
<1>7. CASE LinkLost
  BY <1>0, <1>7, LostShape, GivesUpOffline
<1>8. CASE LinkLostInVoice
  BY <1>0, <1>8, LostInVoiceShape, GivesUpOffline
<1>9. CASE WebAudioReady \/ MobileAudioReady
  <2>1. /\ UNCHANGED <<login, client, wire, down, srv, page>> /\ scr' = [scr EXCEPT !.ready = TRUE]
    BY <1>9 DEF WebAudioReady, MobileAudioReady, BecomesReady, linkVars, sessionVars, serverState
  <2>2. scr'.known = scr.known /\ scr'.talk = scr.talk /\ scr'.listen = scr.listen
    BY <2>1, ScreenFields, ScreenParts
  <2> QED BY <2>1, <2>2, SameMic
<1>10. CASE WebReceives \/ MobileReceives
  BY <1>10, ReceivesMic
<1>11. CASE UNCHANGED vars
  BY <1>11, SameMic DEF vars, linkVars, sessionVars, serverState
<1> QED BY <1>1, <1>2, <1>3, <1>4, <1>5, <1>6, <1>7, <1>8, <1>9, <1>10, <1>11 DEF Next

LEMMA InitMic == Init => MicInv
<1> SUFFICES ASSUME Init PROVE MicInv
  OBVIOUS
<1>1. SocketOf = 0
  BY DEF Init, LinkInit, SocketOf
<1> QED BY <1>1 DEF MicInv, Live, CanSend

LEMMA ScreenInvariant == Spec => []ScreenInv
<1>1. Init => ScreenInv
  BY InitScreen
<1>2. ScreenInv /\ [Next]_vars => ScreenInv'
  BY StepScreen
<1> QED BY <1>1, <1>2, PTL DEF Spec

\* Whatever drops, reconnections, pages and mutes came before, once nothing is
\* under way the screen shows exactly the microphones that the server has open,
\* and the listen selection unless someone else pages (session:ready and
\* operator-state, which every change of a session sends).
THEOREM MicAlwaysShown == Spec => []MicShown
<1>1. Init => MicInv
  BY InitMic
<1>2. ScreenInv /\ MicInv /\ [Next]_vars => MicInv'
  BY StepMic
<1>3. MicInv => MicShown
  <2> SUFFICES ASSUME MicInv, Rest PROVE scr.known /\ Shown(scr, srv[login], page)
    BY DEF MicShown, Shown
  <2>1. Live /\ down[SocketOf] = <<>>
    BY DEF Rest, Live
  <2>2. None(down[SocketOf], States)
    BY <2>1, LastOfNothing
  <2> QED BY <2>1, <2>2 DEF MicInv
<1> QED BY <1>1, <1>2, <1>3, ScreenInvariant, PTL DEF Spec

-----------------------------------------------------------------------------
(* The first socket *)

LEMMA DeviceKept == ASSUME ScreenInv, [Next]_vars PROVE UNCHANGED device
<1>1. CASE Operator
  <2>1. CASE SignIn \/ AskSignOut \/ WebSignOut \/ MobileSignOut
    BY <2>1 DEF SignIn, AskSignOut, WebSignOut, MobileSignOut, Leave
  <2> QED BY <1>1, <2>1, OperatorLocal DEF Local
<1>2. CASE Server
  <2>1. CASE OtherPeople
    BY <2>1 DEF OtherPeople, OtherPages, OtherPageEnds, Muted, PeerCalls, PeerAccepts, PeerEnds, Happens
  <2>2. ASSUME NEW s \in Sockets, Read(s) \/ SocketEnds(s) PROVE UNCHANGED device
    BY <2>2 DEF Read, SocketEnds
  <2> QED BY <1>2, <2>1, <2>2 DEF Server
<1>3. CASE Link
  BY <1>3 DEF Link, HandleOpen, Reconnect
<1>4. CASE LinkLost \/ LinkLostInVoice
  BY <1>4 DEF LinkLost, LinkLostInVoice, Closes
<1>5. CASE WebAudioReady \/ MobileAudioReady
  BY <1>5 DEF WebAudioReady, MobileAudioReady, BecomesReady, linkVars
<1>6. CASE WebReceives \/ MobileReceives
  BY <1>6, ReceivesShape
<1>7. CASE UNCHANGED vars
  BY <1>7 DEF vars, linkVars
<1> QED BY <1>1, <1>2, <1>3, <1>4, <1>5, <1>6, <1>7 DEF Next

\* The first socket has not authenticated yet.
Unheard == FirstSocket /\ (SocketOf # 0 => wire[SocketOf].server \in {"none", "new"})

\* Until then there is no session, nor does the screen show anything of one.
BlankInv ==
  Unheard =>
    /\ srv = [k \in Logins |-> NoSession] /\ call = NoCall /\ page \in {0, Other}
    /\ scr.page = "none" /\ scr.direct.state # "active" /\ scr.incoming = 0
    /\ ~scr.known /\ scr.restored = 0

LEMMA FirstAlone ==
  ASSUME ScreenInv, FirstSocket
  PROVE  /\ \A s \in Sockets : wire[s].server \in {"new", "up"} => s = SocketOf
         /\ \A k \in Attached : k = login /\ wire[SocketOf].server = "up" /\ SocketOf # 0
         /\ \A k \in Logins : ServerSockets(k) \in {{}, {SocketOf}}
         /\ Unheard => Attached = {}
<1>1. NoWire.server = "none" /\ NoWire.client = "none" /\ NoWire.by = 0
  BY DEF NoWire
<1>2. \A s \in Sockets : wire[s].server \in {"new", "up"} => s = SocketOf
  BY <1>1 DEF FirstSocket
<1>3. ASSUME NEW k \in Attached PROVE k = login /\ wire[SocketOf].server = "up" /\ SocketOf # 0
  <2>1. PICK s \in Sockets : wire[s].by = k /\ wire[s].server = "up"
    BY DEF Attached, ServerSockets
  <2>2. s = SocketOf /\ s # 0
    BY <1>2, <2>1, SocketParts
  <2> QED BY <2>1, <2>2, SocketParts
<1>4. \A k \in Logins : ServerSockets(k) \in {{}, {SocketOf}}
  BY <1>2 DEF ServerSockets
<1>5. Unheard => Attached = {}
  BY <1>3 DEF Unheard
<1> QED BY <1>2, <1>3, <1>4, <1>5

\* Once the only socket is given up the next one is not the first.
LEMMA GivesUpFirst ==
  ASSUME ScreenInv, login # 0, NEW x \in {"left", "lost"}, GivesUp(x), login' \in {0, login}
  PROVE  ~FirstSocket'
<1>1. SocketOf' = 0 /\ 0 \notin Sockets /\ login \in Logins
  BY GivesUpOffline, SocketParts
<1>2. PICK s \in Sockets : wire[s].by = login
  BY <1>1 DEF ScreenInv, ClientsUsed
<1>3. wire'[s].by = login
  <2> DEFINE t == client[login].socket
             e == [wire[t] EXCEPT !.client = x]
  <2>1. wire \in [Sockets -> Ends]
    BY ScreenInvParts
  <2>2. wire' = wire \/ (t \in Sockets /\ wire' = [wire EXCEPT ![t] = e])
    BY <1>1 DEF GivesUp, ScreenInv, ConsoleInv, SocketsOwned
  <2>3. t \in Sockets => e.by = wire[t].by
    <3>1. t \in Sockets => wire[t] \in Ends
      BY <2>1
    <3> HIDE DEF t
    <3> QED BY <3>1 DEF Ends
  <2> HIDE DEF t, e
  <2> QED BY <1>2, <2>1, <2>2, <2>3
<1>4. NoWire.by = 0 /\ login # 0
  BY DEF NoWire
<1>5. s # SocketOf' /\ wire'[s] # NoWire
  BY <1>1, <1>3, <1>4
<1> QED BY <1>5 DEF FirstSocket

LEMMA OpensFirst ==
  ASSUME ScreenInv, SocketOf = 0, NEW k \in Logins, NEW s \in Fresh, NEW state,
         OpenSocket(k, s, state), login' = k, FirstSocket'
  PROVE  Unheard
<1>1. /\ SocketOf' = s /\ s \in Sockets /\ wire[s] = NoWire
      /\ \A r \in Sockets \ {s} : wire'[r] = wire[r]
  BY OpensOffline DEF Fresh
<1>2. \A r \in Sockets : wire[r] = NoWire
  BY <1>1 DEF FirstSocket
<1> QED BY <1>2 DEF Unheard, FirstSocket

\* What the operator does to the call on the screen.
CallLocal ==
  \/ scr'.direct = scr.direct /\ scr'.incoming = scr.incoming
  \/ CallPeer \/ Reject \/ HangUp

LEMMA OperatorCall ==
  ASSUME ScreenInv, Operator, ~SignIn, ~AskSignOut, ~WebSignOut, ~MobileSignOut
  PROVE  CallLocal
<1>00. scr \in Screens
  BY ScreenFields
<1>0. UNCHANGED scr => CallLocal
  BY DEF CallLocal
<1>1. CASE Escape \/ Widget \/ WebVoice \/ MobileVoice \/ WebSilence \/ MobileSilence
           \/ WebPageButton \/ MobilePageButton \/ Accept
  <2>1. UNCHANGED scr
    BY <1>1 DEF Escape, Widget, WebVoice, MobileVoice, Voice, WebSilence, MobileSilence, Silence,
                WebPageButton, MobilePageButton, Pages, Accept
  <2> QED BY <1>0, <2>1
<1>2. CASE LatchSwitch \/ VoxSwitch \/ Disarm
  <2>1. \/ scr' = [scr EXCEPT !.latch = Channels \ scr.latch]
        \/ scr' = [scr EXCEPT !.voxed = Channels \ scr.voxed]
        \/ scr' = [scr EXCEPT !.ready = FALSE]
    BY <1>2 DEF LatchSwitch, VoxSwitch, Disarm
  <2>2. scr'.direct = scr.direct /\ scr'.incoming = scr.incoming
    BY <2>1, <1>00 DEF Screens
  <2> QED BY <2>2 DEF CallLocal
<1>3. CASE CallPeer \/ Reject \/ HangUp
  BY <1>3 DEF CallLocal
<1>4. ASSUME NEW c \in Channels, WebTap(c) \/ MobileTap(c) \/ MobileListen(c) PROVE CallLocal
  <2>1. UNCHANGED scr
    BY <1>4 DEF WebTap, MobileTap, Taps, MobileListen
  <2> QED BY <1>0, <2>1
<1>5. ASSUME NEW c \in Channels, WebPress(c) \/ KeyPress(c) \/ MobilePress(c) \/ Release(c)
      PROVE  CallLocal
  <2>1. PICK h \in {"no", "button", "key"} : scr' = [scr EXCEPT !.held[c] = h]
    BY <1>5 DEF WebPress, KeyPress, MobilePress, Holds, Release
  <2>2. scr'.direct = scr.direct /\ scr'.incoming = scr.incoming
    BY <2>1, <1>00 DEF Screens
  <2> QED BY <2>2 DEF CallLocal
<1>6. ASSUME NEW c \in Channels, WebListen(c) PROVE CallLocal
  <2>1. PICK P \in SUBSET Channels : scr' = [scr EXCEPT !.prefer = P]
    <3>1. scr.prefer \ {c} \in SUBSET Channels /\ scr.prefer \cup {c} \in SUBSET Channels
      BY ScreenFields
    <3>2. \/ scr' = [scr EXCEPT !.prefer = scr.prefer \ {c}]
          \/ scr' = [scr EXCEPT !.prefer = scr.prefer \cup {c}]
      BY <1>6 DEF WebListen
    <3> QED BY <3>1, <3>2
  <2>2. scr'.direct = scr.direct /\ scr'.incoming = scr.incoming
    BY <2>1, <1>00 DEF Screens
  <2> QED BY <2>2 DEF CallLocal
<1>7. ASSUME NEW c \in Channels, ToggleLatchMode(c) \/ ToggleVoxMode(c) PROVE CallLocal
  <2>1. PICK L \in SUBSET Channels, V \in SUBSET Channels : scr' = [scr EXCEPT !.latch = L, !.voxed = V]
    <3>1. /\ Toggled(scr.latch, {c}) \in SUBSET Channels /\ scr.voxed \ {c} \in SUBSET Channels
          /\ scr.latch \ {c} \in SUBSET Channels /\ Toggled(scr.voxed, {c}) \in SUBSET Channels
      BY ScreenFields DEF Toggled
    <3>2. \/ WebModes(Toggled(scr.latch, {c}), scr.voxed \ {c})
          \/ WebModes(scr.latch \ {c}, Toggled(scr.voxed, {c}))
      BY <1>7 DEF ToggleLatchMode, ToggleVoxMode
    <3> QED BY <3>1, <3>2 DEF WebModes
  <2>2. scr'.direct = scr.direct /\ scr'.incoming = scr.incoming
    BY <2>1, <1>00 DEF Screens
  <2> QED BY <2>2 DEF CallLocal
<1>8. Visible \subseteq Channels
  BY DEF Visible
<1> QED BY <1>1, <1>2, <1>3, <1>4, <1>5, <1>6, <1>7, <1>8 DEF Operator

LEMMA FirstBack ==
  ASSUME ScreenInv, UNCHANGED <<login, client>>, \A r \in Sockets : wire'[r].by = wire[r].by,
         FirstSocket'
  PROVE  FirstSocket /\ SocketOf' = SocketOf
<1>1. SocketOf' = SocketOf
  BY SameLive
<1>2. NoWire.by = 0 /\ 0 \notin Logins
  BY SocketParts DEF NoWire
<1>3. \A r \in Sockets : wire'[r] = NoWire => wire[r] = NoWire
  BY <1>2 DEF ScreenInv, SocketsUsed
<1> QED BY <1>1, <1>3 DEF FirstSocket

LEMMA SameBlank ==
  ASSUME ScreenInv, BlankInv, Unheard' => Unheard, UNCHANGED <<srv, call>>, page' \in {0, Other},
         \/ UNCHANGED scr
         \/ /\ scr'.page = scr.page /\ scr'.known = scr.known /\ scr'.restored = scr.restored
            /\ scr'.incoming \in {0, scr.incoming}
            /\ scr'.direct.state = "active" => scr.direct.state = "active"
  PROVE  BlankInv'
<1>1. Unheard' => /\ srv' = [k \in Logins |-> NoSession] /\ call' = NoCall
                  /\ scr'.page = "none" /\ scr'.direct.state # "active" /\ scr'.incoming = 0
                  /\ ~scr'.known /\ scr'.restored = 0
  BY DEF BlankInv
<1> HIDE DEF Unheard
<1> QED BY <1>1 DEF BlankInv

LEMMA BlankPage == ASSUME BlankInv, Unheard, UNCHANGED page PROVE page' \in {0, Other}
BY DEF BlankInv, Other

LEMMA OthersBlank ==
  ASSUME ScreenInv, BlankInv, OtherPeople, UNCHANGED scr PROVE BlankInv'
<1>1. UNCHANGED <<login, client, wire>>
  BY DEF OtherPeople, OtherPages, OtherPageEnds, Muted, PeerCalls, PeerAccepts, PeerEnds, Happens
<1> SUFFICES ASSUME Unheard' PROVE BlankInv'
  BY DEF BlankInv
<1>2. Unheard
  BY <1>1, SameLive DEF Unheard, FirstSocket
<1>3. Attached = {}
  BY <1>2, FirstAlone DEF Unheard
<1>4. call = NoCall /\ page \in {0, Other} /\ srv \in [Logins -> Sessions] /\ NoCall.phase = "none"
  BY <1>2, ServerFields, CallParts DEF BlankInv
<1>5. CASE OtherPages
  <2>1. PageStarts(Other) /\ UNCHANGED call /\ Other \in Nat
    BY <1>5, SocketParts DEF OtherPages
  <2>2. page' = Other /\ srv' \in [Logins -> Sessions] /\ \A k \in Logins : srv'[k] = Paged(Other, k)
    BY <2>1, PageStartsShape
  <2>3. \A k \in Logins : srv'[k] = srv[k]
    BY <1>3, <2>2, PagedShape
  <2>4. srv' = srv
    BY <1>4, <2>2, <2>3
  <2> QED BY <1>2, <2>1, <2>2, <2>4, SameBlank
<1>6. CASE OtherPageEnds
  <2>1. PageStops /\ UNCHANGED call
    BY <1>6 DEF OtherPageEnds
  <2>2. page' = 0 /\ srv' \in [Logins -> Sessions] /\ \A k \in Logins : srv'[k] = Unpaged(Attached, k)
    BY <2>1, StopsShape
  <2>3. \A k \in Logins : srv'[k] = srv[k]
    BY <1>3, <2>2, UnpagedShape
  <2>4. srv' = srv
    BY <1>4, <2>2, <2>3
  <2> QED BY <1>2, <2>1, <2>2, <2>4, SameBlank
<1>7. CASE PeerAccepts \/ PeerEnds
  BY <1>4, <1>7 DEF PeerAccepts, PeerEnds
<1>8. ASSUME NEW k \in Logins, Muted(k) \/ PeerCalls(k) PROVE FALSE
  BY <1>3, <1>8 DEF Muted, PeerCalls
<1> QED BY <1>5, <1>6, <1>7, <1>8 DEF OtherPeople

LEMMA ReadBlank ==
  ASSUME ScreenInv, BlankInv, NEW s \in Sockets, Read(s), UNCHANGED scr PROVE BlankInv'
<1>1. PICK m \in Commands :
           /\ wire[s].server \in {"new", "up"}
           /\ UNCHANGED <<login, client>>
           /\ \/ m.kind = "authenticate" /\ Authenticated(s, wire[s].by)
              \/ m.kind # "authenticate" /\ wire[s].server = "up" /\ wire[s].by \in Attached
                 /\ Command(wire[s].by, m) /\ UNCHANGED wire
              \/ m.kind # "authenticate" /\ wire[s].server = "new" /\ UNCHANGED <<wire, serverState, down>>
  BY ReadShape
<1> SUFFICES ASSUME Unheard' PROVE BlankInv'
  BY DEF BlankInv
<1>2. UNCHANGED <<wire, serverState, down>> \/ wire'[s].server = "up"
  BY <1>1, AuthenticatedShape
<1>3. \A r \in Sockets : wire'[r].by = wire[r].by
  <2>1. CASE UNCHANGED wire
    BY <2>1
  <2>2. CASE Authenticated(s, wire[s].by) /\ ~UNCHANGED <<wire, serverState, down>>
    <3>1. wire'[s].by = wire[s].by /\ \A r \in Sockets \ {s} : wire'[r] = wire[r]
      BY <1>1, <2>2, AuthenticatedShape
    <3> QED BY <3>1
  <2> QED BY <1>1, <2>1, <2>2
<1>4. FirstSocket /\ SocketOf' = SocketOf
  BY <1>1, <1>3, FirstBack DEF Unheard
<1>5. s = SocketOf
  BY <1>1, <1>4, FirstAlone
<1>6. UNCHANGED <<wire, serverState, down>>
  BY <1>2, <1>4, <1>5, SocketParts DEF Unheard
<1>7. Unheard
  BY <1>4, <1>6 DEF Unheard
<1>8. page' \in {0, Other} /\ UNCHANGED <<srv, call>>
  BY <1>6, <1>7, BlankPage DEF serverState
<1> QED BY <1>7, <1>8, SameBlank

LEMMA SocketEndsHeard ==
  ASSUME ScreenInv, NEW s \in Sockets, SocketEnds(s), FirstSocket'
  PROVE  s = SocketOf /\ FirstSocket /\ SocketOf' = SocketOf /\ wire'[SocketOf].server = "gone"
<1>1. wire[s].server \in {"new", "up"} /\ wire' = ServerEnds({s}) /\ UNCHANGED <<login, client>>
  BY DEF SocketEnds
<1>2. /\ \A r \in Sockets : wire'[r].by = wire[r].by
      /\ wire'[s].server \in {"none", "gone"} /\ wire'[s].server # "none"
  BY <1>1, EndedShape
<1>3. FirstSocket /\ SocketOf' = SocketOf
  BY <1>1, <1>2, FirstBack
<1>4. s = SocketOf
  BY <1>1, <1>3, FirstAlone
<1> QED BY <1>2, <1>3, <1>4

LEMMA AskSignOutBlank ==
  ASSUME ScreenInv, BlankInv, AskSignOut PROVE BlankInv'
<1>1. /\ login # 0 /\ UNCHANGED <<login, client, scr>>
      /\ \/ UNCHANGED <<wire, serverState>>
         \/ /\ wire' = ServerEnds({s \in Sockets : wire[s].by = login})
            /\ login \notin Attached => UNCHANGED serverState
  BY DEF AskSignOut, SessionDeleted
<1> SUFFICES ASSUME Unheard' PROVE BlankInv'
  BY DEF BlankInv
<1>2. \A r \in Sockets : wire'[r].by = wire[r].by
  BY <1>1, EndedShape
<1>3. FirstSocket /\ SocketOf' = SocketOf
  BY <1>1, <1>2, FirstBack DEF Unheard
<1>4. Unheard
  <2>1. CASE UNCHANGED wire
    BY <1>3, <2>1 DEF Unheard
  <2>2. CASE wire' = ServerEnds({s \in Sockets : wire[s].by = login})
    <3>1. \A r \in Sockets : wire'[r].server = "none" => wire[r].server = "none"
      BY <2>2, EndedShape
    <3>2. \A r \in Sockets : wire[r].by = login => wire'[r].server \in {"none", "gone"}
      BY <2>2, EndedShape
    <3> QED BY <1>3, <3>1, <3>2, SocketParts DEF Unheard
  <2> QED BY <1>1, <2>1, <2>2
<1>5. Attached = {}
  BY <1>4, FirstAlone DEF Unheard
<1>6. page' \in {0, Other} /\ UNCHANGED <<srv, call>>
  BY <1>1, <1>4, <1>5, BlankPage DEF serverState
<1> QED BY <1>1, <1>4, <1>6, SameBlank

LEMMA LocalBlank ==
  ASSUME ScreenInv, BlankInv, Local, CallLocal PROVE BlankInv'
<1>1. /\ UNCHANGED <<login, client, wire, srv, call, page>> /\ SameView(scr, scr')
  BY DEF Local, serverState
<1>2. Unheard' <=> Unheard
  BY <1>1, SameLive DEF Unheard, FirstSocket
<1>3. /\ scr'.incoming \in {0, scr.incoming}
      /\ scr'.direct.state = "active" => scr.direct.state = "active"
  <2>1. scr \in Screens
    BY ScreenFields
  <2>2. CASE CallPeer
    <3>1. scr'.direct = [id |-> 0, state |-> "requesting"] /\ scr'.incoming = scr.incoming
      BY <2>1, <2>2 DEF CallPeer, Screens
    <3> QED BY <3>1
  <2>3. CASE Reject
    <3>1. scr'.direct = scr.direct /\ scr'.incoming = 0
      BY <2>1, <2>3 DEF Reject, Screens
    <3> QED BY <3>1
  <2>4. CASE HangUp
    <3>1. scr'.direct = NoDirect /\ scr'.incoming = scr.incoming
      BY <2>1, <2>4 DEF HangUp, Screens
    <3> QED BY <3>1 DEF NoDirect
  <2> QED BY <2>2, <2>3, <2>4 DEF CallLocal
<1> SUFFICES ASSUME Unheard' PROVE BlankInv'
  BY DEF BlankInv
<1>4. page' \in {0, Other}
  BY <1>1, <1>2, BlankPage
<1> QED BY <1>1, <1>2, <1>3, <1>4, SameBlank DEF SameView

LEMMA StepBlank == ScreenInv /\ BlankInv /\ [Next]_vars => BlankInv'
<1> SUFFICES ASSUME ScreenInv, BlankInv, [Next]_vars PROVE BlankInv'
  OBVIOUS
<1>0. ~FirstSocket' => BlankInv'
  BY DEF BlankInv, Unheard
<1>00. ASSUME Unheard' => Unheard, UNCHANGED <<serverState, scr>> PROVE BlankInv'
  <2> SUFFICES ASSUME Unheard' PROVE BlankInv'
    BY DEF BlankInv
  <2>1. page' \in {0, Other} /\ UNCHANGED <<srv, call>>
    BY <1>00, BlankPage DEF serverState
  <2> QED BY <1>00, <2>1, SameBlank
<1>1. CASE SignIn
  <2>1. PICK k \in Logins, s \in Fresh :
           /\ OpenSocket(k, s, "connecting") /\ login = 0 /\ login' = k /\ UNCHANGED <<serverState, scr>>
    BY <1>1, SignInOpens
  <2>2. SocketOf = 0
    BY <2>1 DEF SocketOf
  <2>3. FirstSocket' => Unheard
    BY <2>1, <2>2, OpensFirst
  <2> QED BY <1>00, <2>1, <2>3 DEF Unheard
<1>2. CASE AskSignOut
  BY <1>2, AskSignOutBlank
<1>3. CASE WebSignOut \/ MobileSignOut
  <2>1. /\ login # 0 /\ Disconnect(login) /\ login' = 0
    BY <1>3 DEF WebSignOut, MobileSignOut, Leave, ScreenInv, ConsoleInv, SocketsOwned
  <2> QED BY <1>0, <2>1, GivesUpShape, GivesUpFirst
<1>4. CASE Operator /\ ~SignIn /\ ~AskSignOut /\ ~WebSignOut /\ ~MobileSignOut
  BY <1>4, OperatorLocal, OperatorCall, LocalBlank
<1>5. CASE Server
  <2>1. UNCHANGED scr
    BY <1>5 DEF Server
  <2>2. ASSUME NEW s \in Sockets, SocketEnds(s) PROVE BlankInv'
    <3>1. FirstSocket' => SocketOf' = SocketOf /\ SocketOf \in Sockets /\ wire'[SocketOf].server = "gone"
      BY <2>2, SocketEndsHeard
    <3>2. ~Unheard'
      BY <3>1, SocketParts DEF Unheard
    <3> QED BY <3>2 DEF BlankInv
  <2> QED BY <1>5, <2>1, <2>2, ReadBlank, OthersBlank DEF Server
<1>6. CASE Link
  <2>1. login # 0 /\ (HandleOpen(login, Greets) \/ Reconnect(login)) /\ UNCHANGED <<serverState, scr>>
    BY <1>6, LinkOpens DEF Link, sessionVars
  <2>2. CASE HandleOpen(login, Greets)
    <3>1. /\ SocketOf' = SocketOf /\ wire[SocketOf].server = "none"
          /\ \A r \in Sockets \ {SocketOf} : wire'[r] = wire[r]
      BY <2>1, <2>2, HandleOpenShape
    <3>2. Unheard' => Unheard
      BY <3>1 DEF Unheard, FirstSocket
    <3> QED BY <1>00, <2>1, <3>2
  <2>3. CASE Reconnect(login)
    <3>1. PICK s \in Fresh : OpenSocket(login, s, "reconnecting")
      BY <2>1, <2>3, ReconnectOpens
    <3>2. login \in Logins /\ SocketOf = 0 /\ login' = login
      BY <2>1, <2>3, ReconnectOpens
    <3>3. FirstSocket' => Unheard
      BY <3>1, <3>2, OpensFirst
    <3> QED BY <1>00, <2>1, <3>3 DEF Unheard
  <2> QED BY <2>1, <2>2, <2>3
<1>7. CASE LinkLost
  BY <1>0, <1>7, LostShape, GivesUpFirst
<1>8. CASE LinkLostInVoice
  BY <1>0, <1>8, LostInVoiceShape, GivesUpFirst
<1>9. CASE WebAudioReady \/ MobileAudioReady
  <2>1. /\ UNCHANGED <<login, client, wire, srv, call, page>> /\ scr' = [scr EXCEPT !.ready = TRUE]
    BY <1>9 DEF WebAudioReady, MobileAudioReady, BecomesReady, linkVars, sessionVars, serverState
  <2>2. /\ scr'.known = scr.known /\ scr'.page = scr.page /\ scr'.restored = scr.restored
        /\ scr'.incoming = scr.incoming /\ scr'.direct = scr.direct
    BY <2>1, ScreenFields DEF Screens
  <2>3. Unheard' <=> Unheard
    BY <2>1, SameLive DEF Unheard, FirstSocket
  <2> SUFFICES ASSUME Unheard' PROVE BlankInv'
    BY DEF BlankInv
  <2>4. page' \in {0, Other}
    BY <2>1, <2>3, BlankPage
  <2> QED BY <2>1, <2>2, <2>3, <2>4, SameBlank
<1>10. CASE WebReceives \/ MobileReceives
  <2>1. CanSend /\ SocketOf \in Sockets /\ down[SocketOf] # <<>> /\ UNCHANGED <<login, client, wire>>
    BY <1>10, ReceivesShape
  <2>2. wire[SocketOf].server \notin {"none", "new"}
    BY <2>1 DEF ScreenInv, SocketsUsed
  <2>3. ~Unheard'
    BY <2>1, <2>2, SameLive, SocketParts DEF Unheard
  <2> QED BY <2>3 DEF BlankInv
<1>11. CASE UNCHANGED vars
  <2>1. UNCHANGED <<login, client, wire, serverState, scr>>
    BY <1>11 DEF vars, linkVars, sessionVars
  <2>2. Unheard' <=> Unheard
    BY <2>1, SameLive DEF Unheard, FirstSocket
  <2> QED BY <1>00, <2>1, <2>2
<1> QED BY <1>1, <1>2, <1>3, <1>4, <1>5, <1>6, <1>7, <1>8, <1>9, <1>10, <1>11 DEF Next

LEMMA InitBlank == Init => BlankInv
<1> SUFFICES ASSUME Init PROVE BlankInv
  OBVIOUS
<1>1. /\ srv = [k \in Logins |-> NoSession] /\ call = NoCall /\ page = 0
      /\ \E L \in Storages \cup {{}} : scr = Blank(L)
  BY DEF Init, SessionInit
<1>2. /\ scr.page = "none" /\ scr.direct = NoDirect /\ scr.incoming = 0
      /\ scr.known = FALSE /\ scr.restored = 0
  BY <1>1, BlankShape
<1> QED BY <1>1, <1>2 DEF BlankInv, NoDirect

-----------------------------------------------------------------------------
(* The mobile app shuts what it opened *)

On(m, c) == (m.kind = "talk" /\ m.on /\ c \in m.of) \/ (m.kind = "page" /\ m.on)
Off(m, c) == m.kind = "talk" /\ ~m.on /\ c \in m.of

\* The commands q shut channel c of a session that talks on T.
Stopped(q, T, c) ==
  /\ c \in T => \E i \in DOMAIN q : Off(q[i], c)
  /\ \A i \in DOMAIN q : On(q[i], c) => \E j \in DOMAIN q : j > i /\ Off(q[j], c)

\* A button or voice opened channel c and neither holds it open any more.
Idle(c) == (opener[c] = "press" /\ scr.held[c] = "no") \/ (opener[c] = "voice" /\ ~vox.on)

ShutInv ==
  ~Web /\ FirstSocket =>
    \A c \in Channels :
      /\ opener[c] = "press" => c \notin scr.latch /\ (scr.held[c] # "no" => scr.ready)
      /\ opener[c] \in {"press", "voice"} => CanSend
      /\ Idle(c) => Stopped(up[SocketOf], srv[login].talk, c)

LEMMA StoppedThen ==
  ASSUME NEW q \in Seq(Commands), NEW T, NEW c, Stopped(q, T, c), NEW r \in Seq(Commands),
         \A i \in DOMAIN r : ~On(r[i], c)
  PROVE  Stopped(q \o r, T, c)
<1> DEFINE z == q \o r
           n == Len(q)
<1>1. /\ n \in Nat
      /\ \A i \in DOMAIN q : i \in Nat /\ i <= n /\ i \in DOMAIN z /\ z[i] = q[i]
      /\ \A j \in DOMAIN r : j \in Nat /\ j >= 1 /\ n + j \in DOMAIN z /\ z[n + j] = r[j]
      /\ \A i \in DOMAIN z : i \in DOMAIN q \/ \E j \in DOMAIN r : i = n + j
  BY ConcatFacts
<1> HIDE DEF z, n
<1>2. c \in T => \E i \in DOMAIN z : Off(z[i], c)
  BY <1>1 DEF Stopped
<1>3. ASSUME NEW i \in DOMAIN z, On(z[i], c) PROVE \E j \in DOMAIN z : j > i /\ Off(z[j], c)
  <2>1. i \in DOMAIN q
    BY <1>1, <1>3
  <2>2. PICK j \in DOMAIN q : j > i /\ Off(q[j], c)
    BY <1>1, <1>3, <2>1 DEF Stopped
  <2> QED BY <1>1, <2>2
<1> QED BY <1>2, <1>3 DEF Stopped, z

LEMMA StopStops ==
  ASSUME NEW q \in Seq(Commands), NEW T, NEW c, NEW m \in Commands, Off(m, c)
  PROVE  Stopped(q \o <<m>>, T, c)
<1> DEFINE r == <<m>>
           z == q \o r
           n == Len(q)
<1>1. r \in Seq(Commands) /\ DOMAIN r = {1} /\ r[1] = m
  BY OneCommand
<1> HIDE DEF r
<1>2. /\ n \in Nat
      /\ \A i \in DOMAIN q : i \in Nat /\ i <= n
      /\ \A j \in DOMAIN r : j \in Nat /\ j >= 1 /\ n + j \in DOMAIN z /\ z[n + j] = r[j]
      /\ \A i \in DOMAIN z : i \in DOMAIN q \/ \E j \in DOMAIN r : i = n + j
  BY <1>1, ConcatFacts
<1> HIDE DEF z, n
<1>3. n + 1 \in DOMAIN z /\ z[n + 1] = m
  BY <1>1, <1>2
<1>4. ~On(m, c)
  BY DEF On, Off
<1>5. ASSUME NEW i \in DOMAIN z, On(z[i], c) PROVE n + 1 > i
  <2>1. i # n + 1
    BY <1>3, <1>4, <1>5
  <2> QED BY <1>1, <1>2, <2>1
<1> QED BY <1>3, <1>5 DEF Stopped, z, r

\* The server takes the first command.
LEMMA StoppedTail ==
  ASSUME NEW q \in Seq(Commands), q # <<>>, NEW T, NEW U, NEW c, Stopped(q, T, c),
         c \in U => On(Head(q), c) \/ (c \in T /\ ~Off(Head(q), c))
  PROVE  Stopped(Tail(q), U, c)
<1> DEFINE t == Tail(q)
           h == Head(q)
<1>1. /\ 1 \in DOMAIN q /\ h = q[1]
      /\ \A i \in DOMAIN q : i \in Nat /\ i >= 1
      /\ \A i \in DOMAIN t : i \in Nat /\ i >= 1 /\ i + 1 \in DOMAIN q /\ t[i] = q[i + 1]
      /\ \A i \in DOMAIN q : i # 1 => i - 1 \in DOMAIN t /\ t[i - 1] = q[i]
  BY TailFacts
<1>2. c \in U => On(h, c) \/ (c \in T /\ ~Off(h, c))
  OBVIOUS
<1> HIDE DEF t, h
<1>3. ASSUME c \in U PROVE \E i \in DOMAIN t : Off(t[i], c)
  <2>1. PICK j \in DOMAIN q : Off(q[j], c) /\ j # 1
    BY <1>1, <1>2, <1>3 DEF Stopped
  <2> QED BY <1>1, <2>1
<1>4. ASSUME NEW i \in DOMAIN t, On(t[i], c) PROVE \E j \in DOMAIN t : j > i /\ Off(t[j], c)
  <2>1. i \in Nat /\ i + 1 \in DOMAIN q /\ q[i + 1] = t[i]
    BY <1>1
  <2>2. PICK j \in DOMAIN q : j > i + 1 /\ Off(q[j], c)
    BY <1>4, <2>1 DEF Stopped
  <2>3. j \in Nat /\ j # 1 /\ j - 1 > i
    BY <1>1, <2>1, <2>2
  <2> QED BY <1>1, <2>2, <2>3
<1> QED BY <1>3, <1>4 DEF Stopped, t

LEMMA StoppedLess ==
  ASSUME NEW q, NEW T, NEW U, NEW c, Stopped(q, T, c), c \in U => c \in T
  PROVE  Stopped(q, U, c)
BY DEF Stopped

LEMMA StoppedRest == ASSUME NEW T, NEW c PROVE Stopped(<<>>, T, c) <=> c \notin T
<1>1. DOMAIN <<>> = {}
  OBVIOUS
<1> QED BY <1>1 DEF Stopped

\* One command, or none, is sent.
LEMMA SentOne ==
  ASSUME ScreenInv, CanSend, NEW m \in Commands, Sent(<<m>>), UNCHANGED <<login, client>>
  PROVE  up'[SocketOf'] = up[SocketOf] \o <<m>>
<1>1. <<m>> \in Seq(Commands)
  OBVIOUS
<1> QED BY <1>1, SameLive, SentShape

LEMMA SentNone ==
  ASSUME ScreenInv, CanSend, Sent(<<>>), UNCHANGED <<login, client>>
  PROVE  up'[SocketOf'] = up[SocketOf]
<1>1. <<>> \in Seq(Commands)
  OBVIOUS
<1>2. up[SocketOf] \in Seq(Commands)
  BY ScreenInvParts, SocketParts
<1>3. up[SocketOf] \o <<>> = up[SocketOf]
  BY <1>2, ConcatEmptySeq
<1> QED BY <1>1, <1>3, SameLive, SentShape

\* Channel c stays as it was while the operator sends m, or nothing.
LEMMA SentMeanwhile ==
  ASSUME ScreenInv, CanSend, NEW c, NEW T, Stopped(up[SocketOf], T, c), UNCHANGED <<login, client>>,
         \/ Sent(<<>>) \/ UNCHANGED up
         \/ \E m \in Commands : Sent(<<m>>) /\ ~On(m, c)
  PROVE  Stopped(up'[SocketOf'], T, c)
<1>1. up[SocketOf] \in Seq(Commands)
  BY ScreenInvParts, SocketParts
<1>2. CASE Sent(<<>>) \/ UNCHANGED up
  BY <1>2, SentNone, SameLive
<1>3. ASSUME NEW m \in Commands, Sent(<<m>>), ~On(m, c) PROVE Stopped(up'[SocketOf'], T, c)
  <2>1. <<m>> \in Seq(Commands) /\ \A i \in DOMAIN <<m>> : <<m>>[i] = m
    BY OneCommand
  <2>2. Stopped(up[SocketOf] \o <<m>>, T, c)
    BY <1>1, <1>3, <2>1, StoppedThen
  <2> QED BY <1>3, <2>2, SentOne
<1> QED BY <1>2, <1>3

\* Commands that neither open nor shut.
LEMMA QuietCommands ==
  ASSUME NEW m, NEW c
  PROVE  /\ m.kind \notin {"talk", "page"} => ~On(m, c)
         /\ m.kind # "talk" => ~Off(m, c)
BY DEF On, Off

LEMMA TalkOnOff ==
  ASSUME NEW C \in SUBSET Channels, NEW on \in BOOLEAN, NEW c
  PROVE  /\ On(Talk(on, C), c) <=> on /\ c \in C
         /\ Off(Talk(on, C), c) <=> ~on /\ c \in C
BY CommandFacts DEF On, Off

\* Channel c is as well shut after the step as before.
StaysShut(c) ==
  \/ opener'[c] \notin {"press", "voice"}
  \/ /\ opener'[c] = opener[c] /\ (c \in scr'.latch => c \in scr.latch)
     /\ scr'.held[c] # "no" => scr.held[c] # "no"
     /\ \/ /\ Idle(c)' => Idle(c)
           /\ Sent(<<>>) \/ UNCHANGED up \/ \E m \in Commands : Sent(<<m>>) /\ ~On(m, c)
        \/ \E m \in Commands : Sent(<<m>>) /\ Off(m, c)
  \/ scr.ready /\ c \notin scr'.latch /\ ~Idle(c)'
  \/ scr.ready /\ opener'[c] = "voice" /\ ~Idle(c)'

LEMMA ShutLocal ==
  ASSUME ScreenInv, ShutInv, Local, \A c \in Channels : ~Web /\ FirstSocket => StaysShut(c)
  PROVE  ShutInv'
<1>1. /\ UNCHANGED <<device, login, client, wire, srv>>
      /\ scr'.ready = scr.ready \/ \A c \in Channels : scr'.held[c] = "no"
      /\ SocketOf' = SocketOf /\ (Web' <=> Web)
  BY SameLive DEF Local, SameView, serverState, Web
<1>2. (FirstSocket' <=> FirstSocket) /\ (CanSend' <=> CanSend)
  BY <1>1 DEF FirstSocket, CanSend
<1> SUFFICES ASSUME ~Web, FirstSocket, NEW c \in Channels
             PROVE  /\ opener'[c] = "press" => c \notin scr'.latch /\ (scr'.held[c] # "no" => scr'.ready)
                    /\ opener'[c] \in {"press", "voice"} => CanSend
                    /\ Idle(c)' => Stopped(up'[SocketOf'], srv[login].talk, c)
  <2>1. ~Web' /\ FirstSocket' => ~Web /\ FirstSocket
    BY <1>1, <1>2
  <2> QED BY <1>1, <1>2, <2>1 DEF ShutInv
<1>3. /\ opener[c] = "press" => c \notin scr.latch /\ (scr.held[c] # "no" => scr.ready)
      /\ opener[c] \in {"press", "voice"} => CanSend
      /\ Idle(c) => Stopped(up[SocketOf], srv[login].talk, c)
  BY DEF ShutInv
<1>4. Idle(c)' => opener'[c] \in {"press", "voice"}
  BY DEF Idle
<1>5. StaysShut(c)
  OBVIOUS
<1>6. CASE opener'[c] \notin {"press", "voice"}
  BY <1>4, <1>6
<1>7. CASE /\ opener'[c] = opener[c] /\ (c \in scr'.latch => c \in scr.latch)
           /\ opener'[c] \in {"press", "voice"} /\ (scr'.held[c] # "no" => scr.held[c] # "no")
           /\ Idle(c)' => Idle(c)
           /\ Sent(<<>>) \/ UNCHANGED up \/ \E m \in Commands : Sent(<<m>>) /\ ~On(m, c)
  <2>1. Idle(c) => Stopped(up'[SocketOf'], srv[login].talk, c)
    BY <1>1, <1>3, <1>7, SentMeanwhile
  <2> QED BY <1>1, <1>3, <1>7, <2>1
<1>8. ASSUME opener'[c] = opener[c], c \in scr'.latch => c \in scr.latch,
             opener'[c] \in {"press", "voice"}, scr'.held[c] # "no" => scr.held[c] # "no",
             NEW m \in Commands, Sent(<<m>>), Off(m, c)
      PROVE  /\ opener'[c] = "press" => c \notin scr'.latch /\ (scr'.held[c] # "no" => scr'.ready)
             /\ opener'[c] \in {"press", "voice"} => CanSend
             /\ Idle(c)' => Stopped(up'[SocketOf'], srv[login].talk, c)
  <2>1. CanSend
    BY <1>3, <1>8
  <2>2. up[SocketOf] \in Seq(Commands)
    BY <2>1, ScreenInvParts, SocketParts
  <2>3. Stopped(up[SocketOf] \o <<m>>, srv[login].talk, c)
    BY <1>8, <2>2, StopStops
  <2>4. Stopped(up'[SocketOf'], srv[login].talk, c)
    BY <1>1, <1>8, <2>1, <2>3, SentOne
  <2> QED BY <1>1, <1>3, <1>8, <2>4
<1>9. scr.ready => CanSend
  BY SocketParts DEF ScreenInv, ClientsUsed
<1>10. CASE scr.ready /\ c \notin scr'.latch /\ ~Idle(c)'
  BY <1>1, <1>9, <1>10
<1>11. CASE scr.ready /\ opener'[c] = "voice" /\ ~Idle(c)'
  BY <1>1, <1>9, <1>11
<1> QED BY <1>5, <1>6, <1>7, <1>8, <1>10, <1>11 DEF StaysShut

LEMMA PressShut ==
  ASSUME ScreenInv, NEW d \in Channels, MobilePress(d), NEW c \in Channels PROVE StaysShut(c)
<1>1. /\ scr.ready /\ d \notin scr.latch /\ Sent(<<Talk(TRUE, {d})>>) /\ UNCHANGED vox
      /\ scr' = [scr EXCEPT !.held[d] = "button"] /\ Opens({d}, "press")
  BY DEF MobilePress, Controls, Holds
<1>2. opener' = [b \in Channels |-> IF b \in {d} THEN "press" ELSE opener[b]]
  BY <1>1 DEF Opens
<1>3. scr'.latch = scr.latch /\ scr'.held = [scr.held EXCEPT ![d] = "button"]
      /\ scr.held \in [Channels -> {"no", "button", "key"}]
  BY <1>1, ScreenFields DEF Screens
<1>4. CASE c = d
  <2>1. opener'[c] = "press" /\ scr'.held[c] = "button" /\ c \notin scr'.latch
    BY <1>1, <1>2, <1>3, <1>4
  <2>2. ~Idle(c)'
    BY <2>1 DEF Idle
  <2> QED BY <1>1, <2>1, <2>2 DEF StaysShut
<1>5. CASE c # d
  <2>1. opener'[c] = opener[c] /\ scr'.held[c] = scr.held[c] /\ vox' = vox
    BY <1>1, <1>2, <1>3, <1>5
  <2>2. Idle(c)' => Idle(c)
    BY <2>1 DEF Idle
  <2>3. Talk(TRUE, {d}) \in Commands /\ ~On(Talk(TRUE, {d}), c)
    BY <1>5, CommandFacts, TalkOnOff
  <2> QED BY <1>1, <1>3, <2>1, <2>2, <2>3 DEF StaysShut
<1> QED BY <1>4, <1>5

LEMMA ReleaseShut ==
  ASSUME ScreenInv, ShutInv, ~Web, FirstSocket, NEW d \in Channels, Release(d), NEW c \in Channels
  PROVE  StaysShut(c)
<1> DEFINE m == Talk(FALSE, {d})
<1>1. /\ scr.held[d] # "no" /\ scr' = [scr EXCEPT !.held[d] = "no"] /\ UNCHANGED <<vox, opener>>
      /\ Sent(IF Controls /\ d \notin scr.latch THEN <<m>> ELSE <<>>)
  BY DEF Release, ReleaseSends, MobileReleases
<1>2. scr'.latch = scr.latch /\ scr'.held = [scr.held EXCEPT ![d] = "no"]
      /\ scr.held \in [Channels -> {"no", "button", "key"}]
  BY <1>1, ScreenFields DEF Screens
<1>3. m \in Commands /\ (\A b : ~On(m, b)) /\ Off(m, d)
  BY CommandFacts, TalkOnOff
<1> HIDE DEF m
<1>4. CASE c = d /\ opener[c] = "press"
  <2>1. c \notin scr.latch /\ scr.ready /\ CanSend
    BY <1>1, <1>4 DEF ShutInv
  <2>2. Controls
    BY <2>1, SocketParts DEF Controls
  <2>3. Sent(<<m>>)
    BY <1>1, <1>4, <2>1, <2>2
  <2> QED BY <1>1, <1>2, <1>3, <1>4, <2>3 DEF StaysShut
<1>5. CASE ~(c = d /\ opener[c] = "press")
  <2>1. Idle(c)' => Idle(c)
    BY <1>1, <1>2, <1>5 DEF Idle
  <2>2. Sent(<<>>) \/ \E n \in Commands : Sent(<<n>>) /\ ~On(n, c)
    BY <1>1, <1>3
  <2> QED BY <1>1, <1>2, <2>1, <2>2 DEF StaysShut
<1> QED BY <1>4, <1>5

\* What moves no button and sends nothing that opens c.
LEMMA OtherShut ==
  ASSUME ScreenInv, UNCHANGED <<vox, opener>>, scr'.latch = scr.latch, scr'.held = scr.held,
         NEW m \in Commands, Sent(<<m>>), NEW c \in Channels, ~On(m, c)
  PROVE  StaysShut(c)
<1>1. Idle(c)' => Idle(c)
  BY DEF Idle
<1> QED BY <1>1 DEF StaysShut

LEMMA OpensShut ==
  ASSUME NEW C, NEW how \in {"tap", "page"}, Opens(C, how), NEW c \in Channels, c \in C
  PROVE  StaysShut(c)
BY DEF Opens, StaysShut

LEMMA TapShut ==
  ASSUME ScreenInv, ShutInv, ~Web, FirstSocket, NEW d \in Channels, MobileTap(d), NEW c \in Channels
  PROVE  StaysShut(c)
<1> DEFINE m == Talk(d \notin scr.talk, {d})
<1>1. /\ Sent(<<m>>) /\ UNCHANGED <<scr, vox>> /\ d \in scr.latch
      /\ IF d \in scr.talk THEN UNCHANGED opener ELSE Opens({d}, "tap")
  BY DEF MobileTap, Taps
<1>2. m \in Commands /\ (On(m, c) => c = d /\ d \notin scr.talk)
  BY CommandFacts, TalkOnOff
<1> HIDE DEF m
<1>3. CASE d \in scr.talk
  BY <1>1, <1>2, <1>3, OtherShut
<1>4. CASE d \notin scr.talk /\ c = d
  BY <1>1, <1>4, OpensShut
<1>5. CASE d \notin scr.talk /\ c # d
  <2>1. opener'[c] = opener[c]
    BY <1>1, <1>5 DEF Opens
  <2>2. Idle(c)' => Idle(c)
    BY <1>1, <2>1 DEF Idle
  <2> QED BY <1>1, <1>2, <1>5, <2>1, <2>2 DEF StaysShut
<1> QED BY <1>3, <1>4, <1>5

LEMMA WidgetShut ==
  ASSUME ScreenInv, Widget, NEW c \in Channels PROVE StaysShut(c)
<1> DEFINE m == Talk(scr.talk = {}, Channels)
<1>1. /\ Sent(<<m>>) /\ UNCHANGED <<scr, vox>>
      /\ IF scr.talk = {} THEN Opens(Channels, "tap") ELSE UNCHANGED opener
  BY DEF Widget
<1>2. m \in Commands /\ (On(m, c) => scr.talk = {})
  <2>1. Channels \in SUBSET Channels
    OBVIOUS
  <2> QED BY <2>1, CommandFacts, TalkOnOff
<1> HIDE DEF m
<1> QED BY <1>1, <1>2, OtherShut, OpensShut

LEMMA SwitchShut ==
  ASSUME ScreenInv, ShutInv, ~Web, FirstSocket, LatchSwitch \/ VoxSwitch \/ Disarm, NEW c \in Channels
  PROVE  StaysShut(c)
<1>1. CASE LatchSwitch
  BY <1>1, OpensShut DEF LatchSwitch
<1>2. CASE VoxSwitch \/ Disarm
  <2> DEFINE m == Talk(FALSE, Channels)
  <2>1. /\ scr' \in {[scr EXCEPT !.voxed = Channels \ scr.voxed], [scr EXCEPT !.ready = FALSE]}
        /\ vox' = [vox EXCEPT !.on = FALSE] /\ Sent(IF vox.on THEN <<m>> ELSE <<>>)
        /\ UNCHANGED opener
    BY <1>2 DEF VoxSwitch, Disarm
  <2>2. m \in Commands /\ Off(m, c)
    <3>1. Channels \in SUBSET Channels
      OBVIOUS
    <3> QED BY <3>1, CommandFacts, TalkOnOff
  <2> HIDE DEF m
  <2>3. scr'.latch = scr.latch /\ scr'.held = scr.held
    BY <2>1, ScreenFields DEF Screens
  <2>4. CASE vox.on
    BY <2>1, <2>2, <2>3, <2>4 DEF StaysShut
  <2>5. CASE ~vox.on
    <3>1. Idle(c)' => Idle(c)
      BY <2>1, <2>3, <2>5 DEF Idle
    <3> QED BY <2>1, <2>3, <2>5, <3>1 DEF StaysShut
  <2> QED BY <2>4, <2>5
<1> QED BY <1>1, <1>2

LEMMA VoiceShut ==
  ASSUME ScreenInv, MobileVoice \/ MobileSilence, NEW c \in Channels
  PROVE  StaysShut(c)
<1>1. CASE MobileVoice
  <2>1. scr.ready /\ vox' = [vox EXCEPT !.on = TRUE] /\ Opens(Channels, "voice")
    BY <1>1 DEF MobileVoice, Voice
  <2>2. opener'[c] = "voice"
    BY <2>1 DEF Opens
  <2>3. vox'.on
    BY <2>1, ScreenFields DEF Detectors
  <2>4. ~Idle(c)'
    BY <2>2, <2>3 DEF Idle
  <2> QED BY <2>1, <2>2, <2>4 DEF StaysShut
<1>2. CASE MobileSilence
  <2> DEFINE m == Talk(FALSE, Channels)
  <2>1. UNCHANGED <<opener, scr>> /\ Sent(<<m>>)
    BY <1>2 DEF MobileSilence, Silence
  <2>2. m \in Commands /\ Off(m, c)
    <3>1. Channels \in SUBSET Channels
      OBVIOUS
    <3> QED BY <3>1, CommandFacts, TalkOnOff
  <2> HIDE DEF m
  <2> QED BY <2>1, <2>2 DEF StaysShut
<1> QED BY <1>1, <1>2

LEMMA RestShut ==
  ASSUME ScreenInv, NEW c \in Channels,
         \/ MobilePageButton \/ CallPeer \/ Accept \/ Reject \/ HangUp
         \/ \E d \in Channels : MobileListen(d)
  PROVE  StaysShut(c)
<1>1. CASE MobilePageButton
  BY <1>1, OpensShut DEF MobilePageButton, Pages
<1>2. CASE CallPeer \/ Accept \/ Reject \/ HangUp
  <2>1. UNCHANGED <<vox, opener>>
    BY <1>2 DEF CallPeer, Accept, Reject, HangUp
  <2>2. scr'.latch = scr.latch /\ scr'.held = scr.held
    BY <1>2, ScreenFields DEF Screens, CallPeer, Accept, Reject, HangUp
  <2>3. PICK m \in Commands : Sent(<<m>>) /\ m.kind \notin {"talk", "page"}
    <3>1. /\ [kind |-> "call"] \in Commands
          /\ [kind |-> "accept", id |-> scr.incoming] \in Commands
          /\ [kind |-> "reject", id |-> scr.incoming] \in Commands
          /\ [kind |-> "end", id |-> scr.direct.id] \in Commands
      BY CommandFacts, ScreenFields
    <3>2. \/ Sent(<<[kind |-> "call"]>>) \/ Sent(<<[kind |-> "accept", id |-> scr.incoming]>>)
          \/ Sent(<<[kind |-> "reject", id |-> scr.incoming]>>)
          \/ Sent(<<[kind |-> "end", id |-> scr.direct.id]>>)
      BY <1>2 DEF CallPeer, Accept, Reject, HangUp
    <3> QED BY <3>1, <3>2
  <2> QED BY <2>1, <2>2, <2>3, QuietCommands, OtherShut
<1>3. ASSUME NEW d \in Channels, MobileListen(d) PROVE StaysShut(c)
  <2> DEFINE m == Listen(d \notin scr.listen, {d})
  <2>1. Sent(<<m>>) /\ UNCHANGED <<scr, vox, opener>>
    BY <1>3 DEF MobileListen, Listens
  <2>2. m \in Commands /\ m.kind = "listen"
    BY CommandFacts
  <2> HIDE DEF m
  <2> QED BY <2>1, <2>2, QuietCommands, OtherShut
<1> QED BY <1>1, <1>2, <1>3

LEMMA OperatorShut ==
  ASSUME ScreenInv, ShutInv, ~Web, FirstSocket, NEW c \in Channels,
         Operator, ~SignIn, ~AskSignOut, ~WebSignOut, ~MobileSignOut
  PROVE  StaysShut(c)
<1>1. ~Escape /\ ~WebVoice /\ ~WebSilence /\ ~WebPageButton
  BY DEF Escape, WebVoice, WebSilence, WebPageButton
<1>2. \A d \in Channels : ~WebPress(d) /\ ~KeyPress(d) /\ ~WebTap(d) /\ ~ToggleLatchMode(d)
                          /\ ~ToggleVoxMode(d) /\ ~WebListen(d)
  BY DEF WebPress, KeyPress, WebTap, ToggleLatchMode, ToggleVoxMode, WebListen
<1>3. \/ Widget \/ LatchSwitch \/ VoxSwitch \/ Disarm \/ MobileVoice \/ MobileSilence
      \/ MobilePageButton \/ CallPeer \/ Accept \/ Reject \/ HangUp
      \/ \E d \in Channels : MobilePress(d) \/ Release(d) \/ MobileTap(d) \/ MobileListen(d)
  BY <1>1, <1>2 DEF Operator, Visible
<1>4. ASSUME NEW d \in Channels, MobilePress(d) \/ Release(d) \/ MobileTap(d) \/ MobileListen(d)
      PROVE  StaysShut(c)
  BY <1>4, PressShut, ReleaseShut, TapShut, RestShut
<1> QED BY <1>3, <1>4, WidgetShut, SwitchShut, VoiceShut, RestShut

\* No channel is opened by a button or by voice while nothing can be sent.
LEMMA OfflineShut ==
  ASSUME ShutInv, UNCHANGED <<device, opener>>, ~Web' /\ FirstSocket' => FirstSocket /\ ~CanSend
  PROVE  ShutInv'
<1> SUFFICES ASSUME ~Web', FirstSocket', NEW c \in Channels
             PROVE  opener'[c] \notin {"press", "voice"}
  BY DEF ShutInv, Idle
<1>1. ~Web /\ FirstSocket /\ ~CanSend
  BY DEF Web
<1> QED BY <1>1 DEF ShutInv

\* A step that no button takes part in.
LEMMA KeepsShut ==
  ASSUME ScreenInv, ShutInv, UNCHANGED <<device, login, client, opener, vox>>,
         scr'.latch = scr.latch, scr'.held = scr.held, scr.ready => scr'.ready,
         ~Web /\ FirstSocket' => FirstSocket /\ (CanSend => CanSend'),
         ~Web /\ FirstSocket' /\ CanSend =>
           \A c \in Channels : Stopped(up[SocketOf], srv[login].talk, c) =>
                                 Stopped(up'[SocketOf], srv'[login].talk, c)
  PROVE  ShutInv'
<1>1. SocketOf' = SocketOf /\ (Web' <=> Web)
  BY SameLive DEF Web
<1> SUFFICES ASSUME ~Web, FirstSocket', NEW c \in Channels
             PROVE  /\ opener[c] = "press" => c \notin scr.latch /\ (scr.held[c] # "no" => scr'.ready)
                    /\ opener[c] \in {"press", "voice"} => CanSend'
                    /\ Idle(c)' => Stopped(up'[SocketOf], srv'[login].talk, c)
  BY <1>1 DEF ShutInv
<1>2. /\ opener[c] = "press" => c \notin scr.latch /\ (scr.held[c] # "no" => scr.ready)
      /\ opener[c] \in {"press", "voice"} => CanSend
      /\ Idle(c) => Stopped(up[SocketOf], srv[login].talk, c)
  BY DEF ShutInv
<1>3. (Idle(c)' <=> Idle(c)) /\ (Idle(c) => opener[c] \in {"press", "voice"})
  BY DEF Idle
<1> HIDE DEF Stopped, Idle
<1> QED BY <1>2, <1>3

\* What a command of the operator leaves open.
LEMMA CommandTalk ==
  ASSUME ScreenInv, NEW k \in Attached, NEW m \in Commands, m.kind # "authenticate", Command(k, m),
         NEW c \in srv'[k].talk
  PROVE  On(m, c) \/ (c \in srv[k].talk /\ ~Off(m, c))
<1>0. k \in Logins /\ k \in Nat
  BY SocketParts DEF Attached
<1>1. CASE m.kind = "talk"
  <2>1. TalkCommand(k, m)
    BY <1>1 DEF Command
  <2>2. CASE m.on /\ UNCHANGED srv
    BY <2>2 DEF Off
  <2>3. CASE Changed(k, WithTalk(k, m))
    <3>1. srv'[k] = WithTalk(k, m)
      BY <1>0, <1>1, <2>3, WithShapes, ChangedShape
    <3>2. srv'[k].talk = IF m.on THEN srv[k].talk \cup m.of ELSE srv[k].talk \ m.of
      BY <1>0, <1>1, <3>1, WithShapes
    <3> QED BY <1>1, <3>2 DEF On, Off
  <2> QED BY <2>1, <2>2, <2>3 DEF TalkCommand, WithTalk
<1>2. CASE m.kind = "listen"
  <2>1. Changed(k, WithListen(k, m))
    BY <1>2 DEF Command, ListenCommand, WithListen
  <2>2. srv'[k] = WithListen(k, m)
    BY <1>0, <1>2, <2>1, WithShapes, ChangedShape
  <2>3. srv'[k].talk = srv[k].talk
    BY <1>0, <1>2, <2>2, WithShapes
  <2> QED BY <1>2, <2>3, QuietCommands
<1>3. CASE m.kind = "page"
  <2>1. \/ m.on /\ PageStarts(k)
        \/ PageStops
        \/ UNCHANGED srv
    BY <1>3 DEF Command, PageCommand
  <2>2. CASE m.on
    BY <1>3, <2>2 DEF On
  <2>3. CASE PageStops
    <3>1. srv'[k] = Unpaged(Attached, k)
      BY <1>0, <2>3, StopsShape
    <3>2. c \in srv[k].talk
      BY <1>0, <3>1, UnpagedShape
    <3> QED BY <1>3, <3>2, QuietCommands
  <2>4. CASE UNCHANGED srv
    BY <1>3, <2>4, QuietCommands
  <2> QED BY <2>1, <2>2, <2>3, <2>4
<1>4. CASE m.kind \in {"call", "accept", "reject", "end"}
  <2>1. UNCHANGED srv
    BY <1>4 DEF Command, CallCommand, AnswerCommand
  <2> QED BY <1>4, <2>1, QuietCommands
<1> QED BY <1>1, <1>2, <1>3, <1>4, CommandKinds

LEMMA ReadShut ==
  ASSUME ScreenInv, BlankInv, ShutInv, NEW s \in Sockets, Read(s), UNCHANGED <<scr, vox, opener>>
  PROVE  ShutInv'
<1>1. PICK m \in Commands :
           /\ m = Head(up[s]) /\ up[s] # <<>> /\ up[s] \in Seq(Commands)
           /\ wire[s].server \in {"new", "up"} /\ wire[s].by \in Logins
           /\ up'[s] = Tail(up[s])
           /\ UNCHANGED <<device, login, client>>
           /\ \/ m.kind = "authenticate" /\ Authenticated(s, wire[s].by)
              \/ m.kind # "authenticate" /\ wire[s].server = "up" /\ wire[s].by \in Attached
                 /\ Command(wire[s].by, m) /\ UNCHANGED wire
              \/ m.kind # "authenticate" /\ wire[s].server = "new" /\ UNCHANGED <<wire, serverState, down>>
  BY ReadShape
<1>2. \A r \in Sockets : wire'[r].by = wire[r].by /\ wire'[r].client = wire[r].client
  <2>1. CASE UNCHANGED wire
    BY <2>1
  <2>2. CASE Authenticated(s, wire[s].by) /\ ~UNCHANGED <<wire, serverState, down>>
    <3>1. /\ wire'[s].by = wire[s].by /\ wire'[s].client = wire[s].client
          /\ \A r \in Sockets \ {s} : wire'[r] = wire[r]
      BY <1>1, <2>2, AuthenticatedShape
    <3> QED BY <3>1
  <2> QED BY <1>1, <2>1, <2>2
<1>3. FirstSocket' => FirstSocket /\ SocketOf' = SocketOf
  BY <1>1, <1>2, FirstBack
<1>4. SocketOf' = SocketOf /\ (CanSend => CanSend')
  BY <1>1, <1>2, SameLive, SocketParts DEF CanSend
<1>5. ASSUME FirstSocket', CanSend, NEW c \in Channels, Stopped(up[SocketOf], srv[login].talk, c)
      PROVE  Stopped(up'[SocketOf], srv'[login].talk, c)
  <2>1. s = SocketOf /\ wire[s].by = login /\ FirstSocket /\ login \in Logins
    BY <1>1, <1>3, <1>5, FirstAlone, SocketParts
  <2>2. wire[s].server = "new" => srv[login].talk = {} /\ login \notin Attached
    <3>1. wire[s].server = "new" => Unheard
      BY <2>1 DEF Unheard
    <3>2. Unheard => srv = [k \in Logins |-> NoSession]
      BY DEF BlankInv
    <3>3. Unheard => Attached = {}
      BY <2>1, FirstAlone
    <3> HIDE DEF Unheard
    <3>4. Unheard => srv[login] = NoSession
      BY <2>1, <3>2
    <3> QED BY <3>1, <3>3, <3>4 DEF NoSession
  <2>3. wire[s].server = "up" => login \in Attached
    BY <1>1, <2>1, ReachesSockets
  <2>4. c \in srv'[login].talk => On(m, c) \/ (c \in srv[login].talk /\ ~Off(m, c))
    <3>1. CASE m.kind = "authenticate" /\ Authenticated(s, login)
      <4>1. c \in srv'[login].talk => c \in srv[login].talk
        BY <1>1, <2>1, <2>2, <2>3, <3>1, AuthenticatedShape DEF serverState
      <4> QED BY <3>1, <4>1, QuietCommands
    <3>2. CASE m.kind # "authenticate" /\ login \in Attached /\ Command(login, m)
      BY <3>2, CommandTalk
    <3>3. CASE wire[s].server = "new" /\ UNCHANGED serverState
      BY <2>2, <3>3 DEF serverState
    <3> QED BY <1>1, <2>1, <3>1, <3>2, <3>3
  <2>5. c \in srv'[login].talk => On(Head(up[s]), c) \/ (c \in srv[login].talk /\ ~Off(Head(up[s]), c))
    BY <1>1, <2>4
  <2>6. Stopped(up[s], srv[login].talk, c)
    BY <1>5, <2>1
  <2> HIDE DEF Stopped, On, Off
  <2>7. Stopped(Tail(up[s]), srv'[login].talk, c)
    BY <1>1, <2>5, <2>6, StoppedTail
  <2> QED BY <1>1, <2>1, <2>7
<1> QED BY <1>1, <1>3, <1>4, <1>5, KeepsShut

LEMMA SocketEndsShut ==
  ASSUME ScreenInv, BlankInv, ShutInv, NEW s \in Sockets, SocketEnds(s), UNCHANGED <<scr, vox, opener>>
  PROVE  ShutInv'
<1> DEFINE k == wire[s].by
<1>1. /\ wire[s].server \in {"new", "up"} /\ wire' = ServerEnds({s}) /\ up' = UpOf({s})
      /\ UNCHANGED <<device, login, client>>
      /\ \/ ServerSockets(k) = {s} /\ Detached(k, {srv[k].listen})
         \/ ServerSockets(k) # {s} /\ UNCHANGED <<serverState, down>>
  BY DEF SocketEnds
<1>2. k \in Logins
  BY <1>1, ReachesSockets
<1>3. \A r \in Sockets : wire'[r].client = wire[r].client
  BY <1>1, EndedShape
<1>4. SocketOf' = SocketOf /\ (CanSend => CanSend')
  BY <1>1, <1>3, SameLive, SocketParts DEF CanSend
<1>5. ASSUME FirstSocket' PROVE s = SocketOf /\ FirstSocket
  BY <1>5, SocketEndsHeard
<1>6. ASSUME FirstSocket', CanSend PROVE up'[SocketOf] = <<>> /\ srv'[login].talk = {}
  <2>1. s = SocketOf /\ k = login /\ FirstSocket /\ login \in Logins
    BY <1>5, <1>6, SocketParts
  <2>2. up'[SocketOf] = <<>>
    BY <1>1, <2>1, UpOfShape
  <2>3. CASE ServerSockets(k) = {s} /\ Detached(k, {srv[k].listen})
    <3>1. {srv[k].listen} \in SUBSET SUBSET Channels
      BY <1>2, ServerFields
    <3> HIDE DEF k
    <3>2. srv'[k] = [NoSession EXCEPT !.kept = {srv[k].listen}]
      BY <1>2, <2>3, <3>1, DetachedShape
    <3>3. srv'[k].talk = {}
      BY <3>2 DEF NoSession
    <3> QED BY <2>1, <2>2, <3>3
  <2>4. CASE ServerSockets(k) # {s} /\ UNCHANGED <<serverState, down>>
    <3>1. wire[s].server = "new"
      BY <1>1, <2>1, <2>4, FirstAlone, ReachesSockets
    <3>2. Unheard
      BY <2>1, <3>1 DEF Unheard
    <3>3. srv[login].talk = {}
      <4>1. srv = [j \in Logins |-> NoSession]
        BY <3>2 DEF BlankInv
      <4> QED BY <2>1, <4>1 DEF NoSession
    <3> QED BY <2>2, <2>4, <3>3 DEF serverState
  <2> QED BY <1>1, <2>3, <2>4
<1>7. ASSUME FirstSocket', CanSend, NEW c \in Channels
      PROVE  Stopped(up'[SocketOf], srv'[login].talk, c)
  <2> HIDE DEF Stopped
  <2> QED BY <1>6, <1>7, StoppedRest
<1> QED BY <1>1, <1>4, <1>5, <1>7, KeepsShut

LEMMA OthersShut ==
  ASSUME ScreenInv, ShutInv, OtherPeople, UNCHANGED <<scr, vox, opener>> PROVE ShutInv'
<1>1. UNCHANGED <<device, login, client, wire, up>>
  BY DEF OtherPeople, OtherPages, OtherPageEnds, Muted, PeerCalls, PeerAccepts, PeerEnds, Happens
<1>2. SocketOf' = SocketOf
  BY <1>1, SameLive
<1>3. ASSUME login \in Logins PROVE srv'[login].talk \subseteq srv[login].talk
  <2>1. CASE OtherPages
    <3>1. PageStarts(Other) /\ Other \in Nat /\ login # Other
      BY <1>3, <2>1, SocketParts DEF OtherPages
    <3>2. srv'[login] = Paged(Other, login)
      BY <1>3, <3>1, PageStartsShape
    <3> QED BY <1>3, <3>1, <3>2, PagedShape
  <2>2. CASE OtherPageEnds
    <3>1. srv'[login] = Unpaged(Attached, login)
      BY <1>3, <2>2, StopsShape DEF OtherPageEnds
    <3> QED BY <1>3, <3>1, UnpagedShape
  <2>3. CASE PeerAccepts \/ PeerEnds \/ \E j \in Logins : PeerCalls(j)
    BY <2>3 DEF PeerAccepts, PeerEnds, PeerCalls
  <2>4. ASSUME NEW j \in Logins, Muted(j) PROVE srv'[login].talk \subseteq srv[login].talk
    <3> DEFINE x == [srv[j] EXCEPT !.talk = {}]
    <3>1. x \in Sessions /\ x.talk = {}
      <4>1. srv[j] \in Sessions /\ {} \in SUBSET Channels
        BY ServerFields
      <4> QED BY <4>1 DEF Sessions
    <3>2. Changed(j, x)
      BY <2>4 DEF Muted
    <3> HIDE DEF x
    <3>3. srv'[j] = x /\ \A i \in Logins \ {j} : srv'[i] = srv[i]
      BY <3>1, <3>2, ChangedShape
    <3> QED BY <1>3, <3>1, <3>3
  <2> QED BY <2>1, <2>2, <2>3, <2>4 DEF OtherPeople
<1>4. (FirstSocket' <=> FirstSocket) /\ (CanSend' <=> CanSend)
  BY <1>1, <1>2 DEF FirstSocket, CanSend
<1>5. ASSUME CanSend, NEW c \in Channels, Stopped(up[SocketOf], srv[login].talk, c)
      PROVE  Stopped(up'[SocketOf], srv'[login].talk, c)
  <2>1. login \in Logins
    BY <1>5, SocketParts
  <2> HIDE DEF Stopped
  <2> QED BY <1>1, <1>3, <1>5, <2>1, StoppedLess
<1> QED BY <1>1, <1>4, <1>5, KeepsShut

LEMMA StepShut == ScreenInv /\ BlankInv /\ ShutInv /\ [Next]_vars => ShutInv'
<1> SUFFICES ASSUME ScreenInv, BlankInv, ShutInv, [Next]_vars PROVE ShutInv'
  OBVIOUS
<1>0. UNCHANGED device
  BY DeviceKept
<1>00. Web' \/ ~FirstSocket' => ShutInv'
  BY DEF ShutInv
<1>1. CASE SignIn
  <2>1. PICK k \in Logins, s \in Fresh :
           /\ OpenSocket(k, s, "connecting") /\ login = 0 /\ login' = k /\ UNCHANGED opener
    BY <1>1, SignInOpens
  <2>2. SocketOf = 0
    BY <2>1 DEF SocketOf
  <2>3. FirstSocket' => Unheard
    BY <2>1, <2>2, OpensFirst
  <2> QED BY <1>0, <2>1, <2>2, <2>3, OfflineShut DEF Unheard, CanSend
<1>2. CASE AskSignOut
  <2>1. Web'
    BY <1>0, <1>2 DEF AskSignOut, Web
  <2> QED BY <1>00, <2>1
<1>3. CASE WebSignOut \/ MobileSignOut
  <2>1. /\ login # 0 /\ Disconnect(login) /\ login' = 0
    BY <1>3 DEF WebSignOut, MobileSignOut, Leave, ScreenInv, ConsoleInv, SocketsOwned
  <2> QED BY <1>00, <2>1, GivesUpShape, GivesUpFirst
<1>4. CASE Operator /\ ~SignIn /\ ~AskSignOut /\ ~WebSignOut /\ ~MobileSignOut
  <2>1. Local
    BY <1>4, OperatorLocal
  <2>2. \A c \in Channels : ~Web /\ FirstSocket => StaysShut(c)
    BY <1>4, OperatorShut
  <2> HIDE DEF Local, StaysShut
  <2> QED BY <2>1, <2>2, ShutLocal
<1>5. CASE Server
  <2>1. UNCHANGED <<scr, vox, opener>>
    BY <1>5 DEF Server
  <2> QED BY <1>5, <2>1, ReadShut, SocketEndsShut, OthersShut DEF Server
<1>6. CASE Link
  <2>1. login # 0 /\ (HandleOpen(login, Greets) \/ Reconnect(login)) /\ UNCHANGED opener
    BY <1>6, LinkOpens DEF Link
  <2>2. CASE HandleOpen(login, Greets)
    <3>1. /\ SocketOf' = SocketOf /\ wire[SocketOf].client = "opening"
          /\ \A r \in Sockets \ {SocketOf} : wire'[r] = wire[r]
      BY <2>1, <2>2, HandleOpenShape
    <3>2. (FirstSocket' => FirstSocket) /\ ~CanSend
      BY <3>1 DEF FirstSocket, CanSend
    <3> QED BY <1>0, <2>1, <3>2, OfflineShut
  <2>3. CASE Reconnect(login)
    <3>1. PICK s \in Fresh : OpenSocket(login, s, "reconnecting")
      BY <2>1, <2>3, ReconnectOpens
    <3>2. login \in Logins /\ SocketOf = 0 /\ login' = login
      BY <2>1, <2>3, ReconnectOpens
    <3>3. FirstSocket' => Unheard
      BY <3>1, <3>2, OpensFirst
    <3> QED BY <1>0, <2>1, <3>2, <3>3, OfflineShut DEF Unheard, CanSend
  <2> QED BY <2>1, <2>2, <2>3
<1>7. CASE LinkLost
  BY <1>00, <1>7, LostShape, GivesUpFirst
<1>8. CASE LinkLostInVoice
  BY <1>00, <1>8, LostInVoiceShape, GivesUpFirst
<1>9. CASE WebAudioReady
  BY <1>0, <1>00, <1>9 DEF WebAudioReady, Web
<1>10. CASE MobileAudioReady
  <2>1. /\ UNCHANGED <<device, login, client, wire, up, srv, vox, opener>>
        /\ scr' = [scr EXCEPT !.ready = TRUE]
    BY <1>10 DEF MobileAudioReady, BecomesReady, linkVars, sessionVars, serverState
  <2>2. scr'.latch = scr.latch /\ scr'.held = scr.held /\ scr'.ready
    BY <2>1, ScreenFields DEF Screens
  <2>3. SocketOf' = SocketOf
    BY <2>1, SameLive
  <2>4. (FirstSocket' <=> FirstSocket) /\ (CanSend' <=> CanSend)
    BY <2>1, <2>3 DEF FirstSocket, CanSend
  <2> QED BY <2>1, <2>2, <2>4, KeepsShut
<1>11. CASE WebReceives
  BY <1>0, <1>00, <1>11 DEF WebReceives, Web
<1>12. CASE MobileReceives
  <2>2. PICK m \in Answers :
          /\ CanSend /\ UNCHANGED <<device, login, client, wire, sessionVars, vox, opener>>
          /\ UNCHANGED up \/ Sent(Replies(After(m)))
          /\ scr'.ready = scr.ready /\ scr'.latch = After(m).latch /\ scr'.held = After(m).held
    BY <1>12, ReceivesShape
  <2>6. After(m) \in Screens /\ After(m).latch = scr.latch /\ After(m).held = scr.held
    BY AfterShape DEF ShowsAfter
  <2>3. scr'.latch = scr.latch /\ scr'.held = scr.held
    BY <2>2, <2>6
  <2>4. SocketOf' = SocketOf /\ UNCHANGED srv
    BY <2>2, SameLive DEF sessionVars, serverState
  <2>5. (FirstSocket' <=> FirstSocket) /\ (CanSend' <=> CanSend)
    BY <2>2, <2>4 DEF FirstSocket, CanSend
  <2>7. ASSUME NEW c \in Channels, Stopped(up[SocketOf], srv[login].talk, c)
        PROVE  Stopped(up'[SocketOf'], srv'[login].talk, c)
    <3> DEFINE q == Replies(After(m))
    <3>1. q \in Seq(Commands) /\ \A i \in DOMAIN q : IsListen(q[i])
      BY <2>6, RepliesShape
    <3>2. up[SocketOf] \in Seq(Commands)
      BY <2>2, ScreenInvParts, SocketParts
    <3>3. \A i \in DOMAIN q : ~On(q[i], c)
      BY <3>1, QuietCommands DEF IsListen
    <3>4. Sent(q) => up'[SocketOf] = up[SocketOf] \o q
      BY <2>2, <3>1, SentShape
    <3> HIDE DEF q, Stopped
    <3>5. Stopped(up[SocketOf] \o q, srv[login].talk, c)
      BY <2>7, <3>1, <3>2, <3>3, StoppedThen
    <3> QED BY <2>2, <2>4, <2>7, <3>4, <3>5 DEF q
  <2> QED BY <2>2, <2>3, <2>4, <2>5, <2>7, KeepsShut
<1>13. CASE UNCHANGED vars
  <2>1. UNCHANGED <<device, login, client, wire, up, srv, scr, vox, opener>>
    BY <1>13 DEF vars, linkVars, sessionVars, serverState
  <2>2. SocketOf' = SocketOf
    BY <2>1, SameLive
  <2>3. (FirstSocket' <=> FirstSocket) /\ (CanSend' <=> CanSend)
    BY <2>1, <2>2 DEF FirstSocket, CanSend
  <2> QED BY <2>1, <2>3, KeepsShut
<1> QED BY <1>1, <1>2, <1>3, <1>4, <1>5, <1>6, <1>7, <1>8, <1>9, <1>10, <1>11, <1>12, <1>13 DEF Next

LEMMA InitShut == Init => ShutInv
BY DEF Init, ShutInv, Idle

\* On the connection on which a held button or voice opened a channel, once
\* nothing is under way the channel is shut when the button is released and the
\* voice is silent, whatever pages, mutes and other buttons came between: the
\* mobile app sends its stop whenever it can, whatever it shows
\* (handleTalkGesture, the VOX effect).
THEOREM MobileAlwaysShuts == Spec => []MobileShut
<1>1. Init => BlankInv /\ ShutInv
  BY InitBlank, InitShut
<1>2. ScreenInv /\ BlankInv /\ ShutInv /\ [Next]_vars => BlankInv' /\ ShutInv'
  BY StepBlank, StepShut
<1>3. ScreenInv /\ ShutInv => MobileShut
  <2> SUFFICES ASSUME ScreenInv, ShutInv, device = "mobile", Rest, FirstSocket,
                      NEW c \in srv[login].talk
               PROVE  ~Idle(c)
    BY DEF MobileShut, Shut, Idle
  <2>1. Live /\ ~Web
    BY DEF Rest, Live, Web
  <2>2. up[SocketOf] = <<>> /\ c \in Channels
    BY <2>1, LiveFacts, ServerFields DEF Rest
  <2>3. Idle(c) => Stopped(up[SocketOf], srv[login].talk, c)
    BY <2>1, <2>2 DEF ShutInv
  <2> HIDE DEF Stopped, Idle
  <2> QED BY <2>2, <2>3, StoppedRest
<1> QED BY <1>1, <1>2, <1>3, ScreenInvariant, PTL DEF Spec

-----------------------------------------------------------------------------
(* The lines on the screen *)

PageKinds == {"page"}
RingKinds == {"incoming", "active", "ended"}
CallKinds == {"active", "ended"}

\* The last message of the kinds K in q is one of G, or there is none and b.
Tells(q, K, G, b) ==
  /\ \A m \in Answers : Newest(q, K, m) => m \in G
  /\ None(q, K) => b

\* The screen has answered the call and the server is yet to read it.
Sends(kind) == \E i \in DOMAIN up[SocketOf] : up[SocketOf][i] = [kind |-> kind, id |-> call.id]

\* It is true that call n rings (0: none does), or that it is on, or none is.
Rings(n) ==
  IF call.phase = "ringing" /\ ~call.mine THEN n = call.id \/ Sends("reject") ELSE n = 0
Speaks(on, n) ==
  IF on THEN call.phase = "active" /\ call.id = n ELSE call.phase = "active" => Sends("end")

TruePages == {m \in Answers : m.who = Notice(page).who}
TrueRings == {m \in Answers : Rings(IF m.kind = "incoming" THEN m.id ELSE 0)}
TrueCalls == {m \in Answers : Speaks(m.kind = "active", m.id)}

\* The screen will show the page and the call once it took the messages under way.
LineInv ==
  Live /\ FirstSocket =>
    /\ Tells(down[SocketOf], PageKinds, TruePages, scr.page = Notice(page).who)
    /\ Tells(down[SocketOf], RingKinds, TrueRings, Rings(scr.incoming))
    /\ Tells(down[SocketOf], CallKinds, TrueCalls,
             Speaks(scr.direct.state = "active", scr.direct.id))

\* What is true of the call stays true.
RingStays == \A n : Rings(n) => Rings(n)'
CallStays == \A on \in BOOLEAN : \A n : Speaks(on, n) => Speaks(on, n)'

LEMMA TellsMore ==
  ASSUME NEW q \in Seq(Answers), NEW r \in Seq(Answers), NEW K, NEW G, NEW H,
         NEW b \in BOOLEAN, NEW d \in BOOLEAN, Tells(q, K, G, b),
         \A m \in Answers : Newest(r, K, m) => m \in H,
         None(r, K) => (\A m \in Answers : Newest(q, K, m) /\ m \in G => m \in H) /\ (b => d)
  PROVE  Tells(q \o r, K, H, d)
<1>1. /\ None(q \o r, K) <=> None(q, K) /\ None(r, K)
      /\ \A m : Newest(q \o r, K, m) => Newest(r, K, m) \/ (None(r, K) /\ Newest(q, K, m))
  BY LastOfConcat
<1> HIDE DEF Newest, None
<1> QED BY <1>1 DEF Tells

LEMMA TellsRest ==
  ASSUME NEW q \in Seq(Answers), q # <<>>, NEW K, NEW G, NEW b \in BOOLEAN, NEW d \in BOOLEAN,
         Tells(q, K, G, b), NEW m, m = Head(q),
         m.kind \in K => (m \in G => d), m.kind \notin K => (b => d)
  PROVE  Tells(Tail(q), K, G, d)
<1>1. /\ \A x : Newest(Tail(q), K, x) => Newest(q, K, x)
      /\ None(Tail(q), K) => None(q, K) \/ Newest(q, K, m)
  BY LastOfTail
<1>2. 1 \in DOMAIN q /\ q[1] = m /\ m \in Answers
  BY TailFacts
<1>3. None(q, K) => m.kind \notin K
  BY <1>2 DEF None
<1>4. Newest(q, K, m) => m.kind \in K
  BY DEF Newest
<1> HIDE DEF Newest, None
<1> QED BY <1>1, <1>2, <1>3, <1>4 DEF Tells

\* The messages r tell what the step does to the page and the call.
Announces(r) ==
  /\ r \in Seq(Answers)
  /\ \A m \in Answers : Newest(r, PageKinds, m) => m \in TruePages'
  /\ \A m \in Answers : Newest(r, RingKinds, m) => m \in TrueRings'
  /\ \A m \in Answers : Newest(r, CallKinds, m) => m \in TrueCalls'
  /\ None(r, PageKinds) => page' = page
  /\ None(r, RingKinds) => RingStays
  /\ None(r, CallKinds) => CallStays

Announced == \E r : Announces(r) /\ down'[SocketOf] = down[SocketOf] \o r

LEMMA AnnouncedKept ==
  ASSUME ScreenInv, LineInv, Live, FirstSocket, SocketOf' = SocketOf, UNCHANGED scr, Announced
  PROVE  LineInv'
<1> DEFINE q == down[SocketOf]
           b == scr.page = Notice(page).who
           c == Rings(scr.incoming)
           e == Speaks(scr.direct.state = "active", scr.direct.id)
<1>1. PICK r : Announces(r) /\ down'[SocketOf] = q \o r
  BY DEF Announced
<1>2. q \in Seq(Answers) /\ r \in Seq(Answers)
  BY <1>1, LiveFacts DEF Announces
<1>3. /\ Tells(q, PageKinds, TruePages, b) /\ Tells(q, RingKinds, TrueRings, c)
      /\ Tells(q, CallKinds, TrueCalls, e)
  BY DEF LineInv
<1> HIDE DEF q
<1>4. Tells(q \o r, PageKinds, TruePages', b')
  <2>1. /\ \A m \in Answers : Newest(r, PageKinds, m) => m \in TruePages'
        /\ None(r, PageKinds) => page' = page
    BY <1>1 DEF Announces
  <2>2. page' = page => (\A m \in Answers : m \in TruePages => m \in TruePages') /\ (b => b')
    BY DEF TruePages
  <2>3. b \in BOOLEAN /\ b' \in BOOLEAN
    OBVIOUS
  <2> HIDE DEF b
  <2> QED BY <1>2, <1>3, <2>1, <2>2, <2>3, TellsMore
<1>5. Tells(q \o r, RingKinds, TrueRings', c')
  <2>1. /\ \A m \in Answers : Newest(r, RingKinds, m) => m \in TrueRings'
        /\ None(r, RingKinds) => RingStays
    BY <1>1 DEF Announces
  <2>2. RingStays => (\A m \in Answers : m \in TrueRings => m \in TrueRings') /\ (c => c')
    BY DEF TrueRings, RingStays
  <2>3. c \in BOOLEAN /\ c' \in BOOLEAN
    BY DEF Rings
  <2> HIDE DEF c
  <2> QED BY <1>2, <1>3, <2>1, <2>2, <2>3, TellsMore
<1>6. Tells(q \o r, CallKinds, TrueCalls', e')
  <2>1. /\ \A m \in Answers : Newest(r, CallKinds, m) => m \in TrueCalls'
        /\ None(r, CallKinds) => CallStays
    BY <1>1 DEF Announces
  <2>2. CallStays => (\A m \in Answers : m \in TrueCalls => m \in TrueCalls') /\ (e => e')
    <3>1. ASSUME CallStays, NEW m \in Answers, m \in TrueCalls PROVE m \in TrueCalls'
      BY <3>1 DEF TrueCalls, CallStays
    <3>2. ASSUME CallStays, e PROVE e'
      BY <3>2 DEF CallStays
    <3> QED BY <3>1, <3>2
  <2>3. e \in BOOLEAN /\ e' \in BOOLEAN
    BY DEF Speaks
  <2> HIDE DEF e
  <2> QED BY <1>2, <1>3, <2>1, <2>2, <2>3, TellsMore
<1>7. down'[SocketOf'] = q \o r
  BY <1>1
<1> HIDE DEF Tells, TruePages, TrueRings, TrueCalls, Rings, Speaks
<1> QED BY <1>4, <1>5, <1>6, <1>7 DEF LineInv

LEMMA AnnouncesNothing ==
  ASSUME ScreenInv, Live, down'[SocketOf] = down[SocketOf], UNCHANGED page, RingStays, CallStays
  PROVE  Announced
<1>1. down[SocketOf] \in Seq(Answers) /\ <<>> \in Seq(Answers)
  BY LiveFacts
<1>2. down[SocketOf] \o <<>> = down[SocketOf]
  BY <1>1, ConcatEmptySeq
<1> HIDE DEF RingStays, CallStays
<1>3. Announces(<<>>)
  BY <1>1, LastOfNothing DEF Announces
<1> QED BY <1>2, <1>3 DEF Announced

LEMMA AnnouncesOne ==
  ASSUME ScreenInv, NEW m \in Answers, down'[SocketOf] = down[SocketOf] \o <<m>>, UNCHANGED page,
         m.kind \notin PageKinds,
         IF m.kind \in RingKinds THEN m \in TrueRings' ELSE RingStays,
         IF m.kind \in CallKinds THEN m \in TrueCalls' ELSE CallStays
  PROVE  Announced
<1>1. <<m>> \in Seq(Answers)
  OBVIOUS
<1> HIDE DEF RingStays, CallStays, PageKinds, RingKinds, CallKinds
<1>2. \A K : /\ None(<<m>>, K) <=> m.kind \notin K
             /\ \A x : Newest(<<m>>, K, x) => x = m /\ m.kind \in K
  BY LastOfOne
<1> HIDE DEF None, Newest, TruePages, TrueRings, TrueCalls
<1>3. /\ \A x \in Answers : Newest(<<m>>, PageKinds, x) => x \in TruePages'
      /\ None(<<m>>, PageKinds) => page' = page
  BY <1>2
<1>4. /\ \A x \in Answers : Newest(<<m>>, RingKinds, x) => x \in TrueRings'
      /\ None(<<m>>, RingKinds) => RingStays
  BY <1>2
<1>5. /\ \A x \in Answers : Newest(<<m>>, CallKinds, x) => x \in TrueCalls'
      /\ None(<<m>>, CallKinds) => CallStays
  BY <1>2
<1>6. Announces(<<m>>)
  BY <1>1, <1>3, <1>4, <1>5 DEF Announces
<1> QED BY <1>6 DEF Announced

\* The page changes, and nothing else.
LEMMA AnnouncesPage ==
  ASSUME NEW r \in Seq(Answers), down'[SocketOf] = down[SocketOf] \o r,
         None(r, RingKinds), ~None(r, PageKinds) \/ UNCHANGED page,
         \A m : Newest(r, PageKinds, m) => m = Notice(page'), RingStays, CallStays
  PROVE  Announced
<1>1. None(r, CallKinds)
  BY DEF None, RingKinds, CallKinds
<1>2. \A m : ~Newest(r, RingKinds, m) /\ ~Newest(r, CallKinds, m)
  BY <1>1 DEF None, Newest
<1>3. \A m \in Answers : Newest(r, PageKinds, m) => m \in TruePages'
  BY DEF TruePages, Notice
<1> HIDE DEF None, Newest, RingStays, CallStays, PageKinds, RingKinds, CallKinds
<1>4. Announces(r)
  BY <1>1, <1>2, <1>3 DEF Announces
<1> QED BY <1>4 DEF Announced

LEMMA LineStays ==
  ASSUME UNCHANGED call,
         call.phase = "ringing" /\ ~call.mine => (Sends("reject") => Sends("reject")'),
         call.phase = "active" => (Sends("end") => Sends("end")')
  PROVE  RingStays /\ CallStays
<1>1. ASSUME NEW n, Rings(n) PROVE Rings(n)'
  BY <1>1 DEF Rings
<1>2. ASSUME NEW on \in BOOLEAN, NEW n, Speaks(on, n) PROVE Speaks(on, n)'
  BY <1>2 DEF Speaks
<1> QED BY <1>1, <1>2 DEF RingStays, CallStays

LEMMA SendsKept ==
  ASSUME UNCHANGED call, SocketOf' = SocketOf, up'[SocketOf] = up[SocketOf]
  PROVE  \A kind : Sends(kind) => Sends(kind)'
BY DEF Sends

LEMMA SendsMore ==
  ASSUME ScreenInv, UNCHANGED call, SocketOf' = SocketOf, SocketOf \in Sockets,
         NEW r \in Seq(Commands), up'[SocketOf] = up[SocketOf] \o r
  PROVE  \A kind : Sends(kind) => Sends(kind)'
<1> DEFINE q == up[SocketOf]
<1>1. q \in Seq(Commands)
  BY ScreenInvParts
<1>2. \A i \in DOMAIN q : i \in DOMAIN (q \o r) /\ (q \o r)[i] = q[i]
  BY <1>1, ConcatFacts
<1> SUFFICES ASSUME NEW kind, Sends(kind) PROVE Sends(kind)'
  OBVIOUS
<1> DEFINE x == [kind |-> kind, id |-> call.id]
<1>3. PICK i \in DOMAIN q : q[i] = x
  BY DEF Sends
<1>4. up'[SocketOf'] = q \o r /\ x' = x
  OBVIOUS
<1> HIDE DEF q
<1>5. i \in DOMAIN up'[SocketOf'] /\ up'[SocketOf'][i] = x
  BY <1>2, <1>3, <1>4
<1> QED BY <1>5 DEF Sends

LEMMA ReadSends ==
  ASSUME ScreenInv, UNCHANGED call, SocketOf' = SocketOf, SocketOf \in Sockets,
         up[SocketOf] # <<>>, up'[SocketOf] = Tail(up[SocketOf]), NEW kind,
         Head(up[SocketOf]) # [kind |-> kind, id |-> call.id], Sends(kind)
  PROVE  Sends(kind)'
<1> DEFINE q == up[SocketOf]
           x == [kind |-> kind, id |-> call.id]
<1>1. q \in Seq(Commands)
  BY ScreenInvParts
<1>2. Head(q) = q[1] /\ \A i \in DOMAIN q : i # 1 => i - 1 \in DOMAIN Tail(q) /\ Tail(q)[i - 1] = q[i]
  BY <1>1, TailFacts
<1>3. PICK i \in DOMAIN q : q[i] = x
  BY DEF Sends
<1>4. up'[SocketOf'] = Tail(q) /\ x' = x /\ q[1] # x
  BY <1>2
<1> HIDE DEF q
<1>5. i - 1 \in DOMAIN up'[SocketOf'] /\ up'[SocketOf'][i - 1] = x
  BY <1>2, <1>3, <1>4
<1> QED BY <1>5 DEF Sends

LEMMA NotificationKinds ==
  /\ "state" \notin PageKinds /\ "state" \notin RingKinds /\ "state" \notin CallKinds
  /\ "page" \in PageKinds /\ "page" \notin RingKinds /\ "page" \notin CallKinds
  /\ "incoming" \notin PageKinds /\ "incoming" \in RingKinds /\ "incoming" \notin CallKinds
  /\ "active" \notin PageKinds /\ "active" \in RingKinds /\ "active" \in CallKinds
  /\ "ended" \notin PageKinds /\ "ended" \in RingKinds /\ "ended" \in CallKinds
BY DEF PageKinds, RingKinds, CallKinds

\* What the server tells of a call.
LEMMA EndAnnounced ==
  ASSUME ScreenInv, Live, Line(login, Ended), UNCHANGED page, call' = NoCall
  PROVE  Announced
<1>1. Ended \in Answers /\ Ended.kind = "ended"
  BY AnswerFacts
<1>2. down'[SocketOf] = down[SocketOf] \o <<Ended>>
  BY <1>1, LineShape
<1>3. call'.phase = "none"
  BY DEF NoCall
<1>4. Ended \in TrueRings' /\ Ended \in TrueCalls'
  BY <1>1, <1>3 DEF TrueRings, TrueCalls, Rings, Speaks, Ended
<1> HIDE DEF TrueRings, TrueCalls
<1> QED BY <1>1, <1>2, <1>4, NotificationKinds, AnnouncesOne

LEMMA ActiveAnnounced ==
  ASSUME ScreenInv, Live, NEW n \in Nat, Line(login, [kind |-> "active", id |-> n]), UNCHANGED page,
         call'.phase = "active", call'.id = n
  PROVE  Announced
<1> DEFINE m == [kind |-> "active", id |-> n]
<1>1. m \in Answers /\ m.kind = "active" /\ m.id = n
  BY AnswerFacts
<1>2. down'[SocketOf] = down[SocketOf] \o <<m>>
  BY <1>1, LineShape
<1> HIDE DEF m
<1>3. m \in TrueRings'
  BY <1>1 DEF TrueRings, Rings
<1>4. m \in TrueCalls'
  BY <1>1 DEF TrueCalls, Speaks
<1> HIDE DEF TrueRings, TrueCalls
<1> QED BY <1>1, <1>2, <1>3, <1>4, NotificationKinds, AnnouncesOne

LEMMA IncomingAnnounced ==
  ASSUME ScreenInv, Live, NEW n \in Nat, Line(login, [kind |-> "incoming", id |-> n]), UNCHANGED page,
         call = NoCall, call'.phase = "ringing", ~call'.mine, call'.id = n
  PROVE  Announced
<1> DEFINE m == [kind |-> "incoming", id |-> n]
<1>1. m \in Answers /\ m.kind = "incoming" /\ m.id = n
  BY AnswerFacts
<1>2. down'[SocketOf] = down[SocketOf] \o <<m>>
  BY <1>1, LineShape
<1> HIDE DEF m
<1>3. m \in TrueRings'
  BY <1>1 DEF TrueRings, Rings
<1>4. call.phase = "none"
  BY DEF NoCall
<1>5. CallStays
  BY <1>4 DEF CallStays, Speaks
<1> HIDE DEF TrueRings, TrueCalls, CallStays
<1> QED BY <1>1, <1>2, <1>3, <1>5, NotificationKinds, AnnouncesOne

LEMMA StateAnnounced ==
  ASSUME ScreenInv, Live, NEW x \in Sessions, Changed(login, x), UNCHANGED page, RingStays, CallStays
  PROVE  Announced
<1> DEFINE m == State(srv'[login])
<1>1. login \in Logins
  BY LiveFacts
<1>2. srv' \in [Logins -> Sessions] /\ down'[SocketOf] = down[SocketOf] \o <<m>>
  BY <1>1, ChangedShape
<1>3. m \in Answers /\ m.kind = "state"
  BY <1>1, <1>2, AnswerFacts
<1> HIDE DEF m, RingStays, CallStays
<1> QED BY <1>2, <1>3, NotificationKinds, AnnouncesOne

LEMMA StopsAnnounced ==
  ASSUME ScreenInv, Live, PageStops, RingStays, CallStays PROVE Announced
<1> DEFINE m == State(srv'[login])
           n == Notice(0)
<1>1. /\ page' = 0 /\ srv' \in [Logins -> Sessions]
      /\ down'[SocketOf] = down[SocketOf] \o <<m, n>>
  BY StopsShape
<1>2. login \in Logins
  BY LiveFacts
<1>3. m \in Answers /\ m.kind = "state" /\ n \in Answers /\ n.kind = "page" /\ n = Notice(page')
  BY <1>1, <1>2, AnswerFacts
<1> HIDE DEF m, n, RingStays, CallStays
<1>4. <<m, n>> \in Seq(Answers) /\ DOMAIN <<m, n>> = {1, 2} /\ <<m, n>>[1] = m /\ <<m, n>>[2] = n
  BY <1>3, TwoAnswers
<1>5. None(<<m, n>>, RingKinds) /\ ~None(<<m, n>>, PageKinds)
  BY <1>3, <1>4, NotificationKinds DEF None
<1>6. \A x : Newest(<<m, n>>, PageKinds, x) => x = n
  BY <1>3, <1>4, NotificationKinds DEF Newest
<1> HIDE DEF None, Newest
<1> QED BY <1>1, <1>3, <1>4, <1>5, <1>6, AnnouncesPage

LEMMA StartsAnnounced ==
  ASSUME ScreenInv, Live, NEW p \in Attached \cup {Other}, PageStarts(p), RingStays, CallStays
  PROVE  Announced
<1>1. p \in Nat
  BY SocketParts DEF Attached
<1> DEFINE m == State(Muting)
           h == IF srv[login].talk # srv'[login].talk THEN <<m>> ELSE <<>>
           n == Notice(p)
<1>2. /\ page' = p /\ srv' \in [Logins -> Sessions]
      /\ down'[SocketOf] = down[SocketOf] \o (h \o <<n>>)
  BY <1>1, PageStartsShape
<1>3. login \in Logins
  BY LiveFacts
<1>11. srv[login].listen \in SUBSET Channels /\ srv'[login].talk \in SUBSET Channels
  BY <1>2, <1>3, ServerFields DEF Sessions
<1>4. m \in Answers /\ m.kind = "state" /\ n \in Answers /\ n.kind = "page" /\ n = Notice(page')
  BY <1>1, <1>2, <1>11, AnswerFacts DEF Muting
<1> HIDE DEF m, n, RingStays, CallStays
<1>5. h \in Seq(Answers) /\ <<n>> \in Seq(Answers)
  BY <1>4, OneAnswer
<1>6. None(h, RingKinds)
  BY <1>4, LastOfOne, LastOfNothing, NotificationKinds
<1> HIDE DEF h
<1>7. /\ None(<<n>>, RingKinds) /\ ~None(<<n>>, PageKinds)
      /\ \A x : Newest(<<n>>, PageKinds, x) => x = n
  BY <1>4, LastOfOne, NotificationKinds
<1>8. h \o <<n>> \in Seq(Answers)
  BY <1>5, ConcatFacts
<1>9. None(h \o <<n>>, RingKinds) /\ ~None(h \o <<n>>, PageKinds)
  BY <1>5, <1>6, <1>7, LastOfConcat
<1>10. \A x : Newest(h \o <<n>>, PageKinds, x) => x = n
  BY <1>5, <1>7, LastOfConcat
<1> HIDE DEF None, Newest
<1> QED BY <1>2, <1>4, <1>8, <1>9, <1>10, AnnouncesPage

\* On the first connection a call is a call of the session on the screen.
LEMMA CallHere ==
  ASSUME ScreenInv, FirstSocket, call # NoCall PROVE call.by = login
BY FirstAlone DEF ScreenInv, LinesHeld

LEMMA CommandAnnounced ==
  ASSUME ScreenInv, Live, FirstSocket, NEW m \in Commands, m.kind # "authenticate", Command(login, m),
         m = Head(up[SocketOf]), up[SocketOf] # <<>>, up'[SocketOf] = Tail(up[SocketOf]),
         SocketOf' = SocketOf
  PROVE  Announced
<1>1. SocketOf \in Sockets /\ login \in Logins /\ login \in Attached
  BY LiveFacts
<1>2. ASSUME UNCHANGED call,
             call.phase = "ringing" /\ ~call.mine => m # [kind |-> "reject", id |-> call.id],
             call.phase = "active" => m # [kind |-> "end", id |-> call.id]
      PROVE  RingStays /\ CallStays
  <2>1. call.phase = "ringing" /\ ~call.mine => (Sends("reject") => Sends("reject")')
    BY <1>1, <1>2, ReadSends
  <2>2. call.phase = "active" => (Sends("end") => Sends("end")')
    BY <1>1, <1>2, ReadSends
  <2> HIDE DEF Sends, RingStays, CallStays
  <2> QED BY <1>2, <2>1, <2>2, LineStays
<1>3. ASSUME UNCHANGED call, m.kind \notin {"reject", "end"} PROVE RingStays /\ CallStays
  <2>1. /\ m # [kind |-> "reject", id |-> call.id]
        /\ m # [kind |-> "end", id |-> call.id]
    BY <1>3
  <2> HIDE DEF RingStays, CallStays
  <2> QED BY <1>2, <1>3, <2>1
<1>4. ASSUME UNCHANGED <<page, down>>, RingStays, CallStays PROVE Announced
  <2> HIDE DEF RingStays, CallStays, Announced
  <2> QED BY <1>4, AnnouncesNothing
<1> HIDE DEF RingStays, CallStays, Announced
<1>5. CASE m.kind \in {"talk", "listen"}
  <2>1. TalkCommand(login, m) \/ ListenCommand(login, m)
    BY <1>5 DEF Command
  <2>2. \/ UNCHANGED <<srv, down>>
        \/ Changed(login, WithTalk(login, m)) \/ Changed(login, WithListen(login, m))
    BY <2>1 DEF TalkCommand, ListenCommand, WithTalk, WithListen
  <2>3. UNCHANGED <<page, call>>
    BY <2>1 DEF TalkCommand, ListenCommand
  <2>4. WithTalk(login, m) \in Sessions /\ WithListen(login, m) \in Sessions
    BY <1>1, <1>5, WithShapes
  <2>5. RingStays /\ CallStays
    BY <1>3, <1>5, <2>3
  <2> QED BY <1>4, <2>2, <2>3, <2>4, <2>5, StateAnnounced
<1>6. CASE m.kind = "page"
  <2>1. PageStarts(login) \/ PageStops \/ UNCHANGED <<page, down>>
    BY <1>6 DEF Command, PageCommand
  <2>2. UNCHANGED call
    BY <1>6 DEF Command, PageCommand
  <2>3. RingStays /\ CallStays
    BY <1>3, <1>6, <2>2
  <2> QED BY <1>1, <1>4, <2>1, <2>3, StartsAnnounced, StopsAnnounced
<1>7. CASE m.kind = "call"
  <2>1. CallCommand(login)
    BY <1>7 DEF Command
  <2>2. UNCHANGED page
    BY <2>1 DEF CallCommand
  <2>3. CASE UNCHANGED <<call, down>>
    BY <1>3, <1>4, <1>7, <2>2, <2>3
  <2>4. CASE call.by # login /\ Line(login, Ended) /\ UNCHANGED call
    <3>1. call = NoCall
      BY <2>4, CallHere
    <3> QED BY <2>2, <2>4, <3>1, EndAnnounced
  <2>5. CASE /\ call = NoCall /\ UNCHANGED down
             /\ call' = [id |-> calls + 1, by |-> login, phase |-> "ringing", mine |-> TRUE]
    <3>1. call.phase = "none" /\ call'.phase = "ringing" /\ call'.mine = TRUE
      BY <2>5 DEF NoCall
    <3>2. RingStays /\ CallStays
      BY <3>1 DEF RingStays, CallStays, Rings, Speaks
    <3> QED BY <1>4, <2>2, <2>5, <3>2
  <2> QED BY <2>1, <2>3, <2>4, <2>5 DEF CallCommand
<1>8. CASE m.kind \in {"accept", "reject", "end"}
  <2> DEFINE rings == call.id = m.id /\ call.by = login /\ call.phase = "ringing" /\ ~call.mine
             ends == \/ m.kind = "reject" /\ rings
                     \/ m.kind = "end" /\ call.id = m.id /\ call.by = login
  <2>1. AnswerCommand(login, m)
    BY <1>8 DEF Command
  <2>2. UNCHANGED page
    BY <2>1 DEF AnswerCommand
  <2>3. \/ /\ m.kind = "accept" /\ rings /\ call' = [call EXCEPT !.phase = "active"]
           /\ Line(login, [kind |-> "active", id |-> m.id])
        \/ call' = NoCall /\ Line(login, Ended)
        \/ ~ends /\ UNCHANGED <<call, down>>
    BY <2>1 DEF AnswerCommand
  <2>4. CASE /\ m.kind = "accept" /\ rings /\ call' = [call EXCEPT !.phase = "active"]
             /\ Line(login, [kind |-> "active", id |-> m.id])
    <3>1. call'.phase = "active" /\ call'.id = m.id /\ m.id \in Nat
      BY <2>4, CallParts
    <3> QED BY <2>2, <2>4, <3>1, ActiveAnnounced
  <2>5. CASE call' = NoCall /\ Line(login, Ended)
    BY <2>2, <2>5, EndAnnounced
  <2>6. CASE ~ends /\ UNCHANGED <<call, down>>
    <3>1. call.phase \in {"ringing", "active"} => call.by = login
      <4>1. call.phase \in {"ringing", "active"} => call # NoCall
        BY DEF NoCall
      <4> QED BY <4>1, CallHere
    <3>2. call.phase = "ringing" /\ ~call.mine => m # [kind |-> "reject", id |-> call.id]
      BY <2>6, <3>1
    <3>3. call.phase = "active" => m # [kind |-> "end", id |-> call.id]
      BY <2>6, <3>1
    <3>4. RingStays /\ CallStays
      BY <1>2, <2>6, <3>2, <3>3
    <3> QED BY <1>4, <2>2, <2>6, <3>4
  <2> QED BY <2>3, <2>4, <2>5, <2>6
<1> QED BY <1>5, <1>6, <1>7, <1>8, CommandKinds

LEMMA OthersAnnounced ==
  ASSUME ScreenInv, Live, FirstSocket, OtherPeople, SocketOf' = SocketOf PROVE Announced
<1>1. up' = up
  BY DEF OtherPeople, OtherPages, OtherPageEnds, Muted, PeerCalls, PeerAccepts, PeerEnds, Happens
<1>2. ASSUME UNCHANGED call PROVE RingStays /\ CallStays
  <2>1. (Sends("reject") => Sends("reject")') /\ (Sends("end") => Sends("end")')
    BY <1>1, <1>2, SendsKept
  <2> HIDE DEF Sends, RingStays, CallStays
  <2> QED BY <1>2, <2>1, LineStays
<1>3. login \in Logins
  BY LiveFacts
<1> HIDE DEF RingStays, CallStays, Announced
<1>4. CASE OtherPages \/ OtherPageEnds
  <2>1. RingStays /\ CallStays
    BY <1>2, <1>4 DEF OtherPages, OtherPageEnds
  <2> QED BY <1>4, <2>1, StartsAnnounced, StopsAnnounced DEF OtherPages, OtherPageEnds
<1>5. ASSUME NEW k \in Attached PROVE k = login
  BY FirstAlone
<1>6. ASSUME NEW k \in Logins, Muted(k) PROVE Announced
  <2> DEFINE x == [srv[k] EXCEPT !.talk = {}]
  <2>1. Changed(k, x) /\ UNCHANGED <<page, call>> /\ k = login
    BY <1>5, <1>6 DEF Muted
  <2>2. x \in Sessions
    <3>1. srv[k] \in Sessions /\ {} \in SUBSET Channels
      BY ServerFields
    <3> QED BY <3>1, SessionsParts
  <2> HIDE DEF x
  <2> QED BY <1>2, <2>1, <2>2, StateAnnounced
<1>7. ASSUME NEW k \in Logins, PeerCalls(k) PROVE Announced
  <2> DEFINE c == [id |-> calls + 1, by |-> k, phase |-> "ringing", mine |-> FALSE]
  <2>1. /\ Line(k, [kind |-> "incoming", id |-> calls + 1]) /\ UNCHANGED page /\ k = login
        /\ call = NoCall /\ call' = c
    BY <1>5, <1>7 DEF PeerCalls
  <2>2. c.phase = "ringing" /\ ~c.mine /\ c.id = calls + 1 /\ calls + 1 \in Nat
    BY ServerFields
  <2> HIDE DEF c
  <2> QED BY <2>1, <2>2, IncomingAnnounced
<1>8. CASE PeerAccepts
  <2>1. /\ Line(call.by, [kind |-> "active", id |-> call.id]) /\ UNCHANGED page
        /\ call' = [call EXCEPT !.phase = "active"] /\ call.phase = "ringing"
    BY <1>8 DEF PeerAccepts
  <2>2. call.by = login
    BY <2>1, CallHere DEF NoCall
  <2>3. call'.phase = "active" /\ call'.id = call.id /\ call.id \in Nat
    BY <2>1, CallParts
  <2> QED BY <2>1, <2>2, <2>3, ActiveAnnounced
<1>9. CASE PeerEnds
  <2>1. Line(call.by, Ended) /\ UNCHANGED page /\ call' = NoCall /\ call.by = login
    BY <1>9, CallHere DEF PeerEnds
  <2> QED BY <2>1, EndAnnounced
<1> QED BY <1>4, <1>6, <1>7, <1>8, <1>9 DEF OtherPeople

\* What a socket is told when it authenticates.
LEMMA WelcomeShape ==
  ASSUME ScreenInv, NEW q \in Seq(Answers), NEW x \in Sessions
  PROVE  \E r \in Seq(Answers) :
           /\ (q \o <<State(x)>>) \o (IF page = 0 THEN <<>> ELSE <<Notice(page)>>) = q \o r
           /\ None(r, RingKinds) /\ (~None(r, PageKinds) \/ page = 0)
           /\ \A m : Newest(r, PageKinds, m) => m = Notice(page)
<1> DEFINE m == State(x)
           p == Notice(page)
           n == IF page = 0 THEN <<>> ELSE <<p>>
<1>1. m \in Answers /\ m.kind = "state" /\ p \in Answers /\ p.kind = "page"
  BY ServerFields, AnswerFacts
<1> HIDE DEF m, p
<1>2. <<m>> \in Seq(Answers) /\ <<p>> \in Seq(Answers) /\ <<>> \in Seq(Answers)
  BY <1>1
<1>3. n \in Seq(Answers)
  BY <1>2
<1>4. /\ None(n, RingKinds) /\ (~None(n, PageKinds) \/ page = 0)
      /\ \A y : Newest(n, PageKinds, y) => y = p
  <2>1. CASE page = 0
    <3>1. n = <<>>
      BY <2>1
    <3> QED BY <2>1, <3>1, LastOfNothing
  <2>2. CASE page # 0
    <3>1. n = <<p>>
      BY <2>2
    <3> QED BY <1>1, <3>1, LastOfOne, NotificationKinds
  <2> QED BY <2>1, <2>2
<1>5. /\ None(<<m>>, RingKinds) /\ \A y : ~Newest(<<m>>, PageKinds, y)
  BY <1>1, LastOfOne, NotificationKinds
<1> HIDE DEF n
<1> DEFINE r == <<m>> \o n
<1>6. r \in Seq(Answers)
  BY <1>2, <1>3, ConcatFacts
<1>7. (q \o <<m>>) \o n = q \o r
  BY <1>2, <1>3, ConcatAssociative
<1>8. None(r, RingKinds) /\ (~None(r, PageKinds) \/ page = 0)
  BY <1>2, <1>3, <1>4, <1>5, LastOfConcat
<1>9. \A y : Newest(r, PageKinds, y) => y = p
  BY <1>2, <1>3, <1>4, <1>5, LastOfConcat
<1> HIDE DEF r, None, Newest
<1> QED BY <1>6, <1>7, <1>8, <1>9 DEF m, n, p

\* The first connection authenticates: there is no call yet.
LEMMA WelcomeLines ==
  ASSUME BlankInv, Unheard, UNCHANGED <<page, call, scr>>, NEW r \in Seq(Answers),
         down'[SocketOf'] = r, None(r, RingKinds), ~None(r, PageKinds) \/ page = 0,
         \A m : Newest(r, PageKinds, m) => m = Notice(page)
  PROVE  LineInv'
<1>1. /\ call' = NoCall /\ scr'.page = "none" /\ scr'.direct.state # "active" /\ scr'.incoming = 0
  BY DEF BlankInv
<1>2. call'.phase = "none" /\ Notice(0).who = "none"
  BY <1>1 DEF NoCall, Notice
<1>3. None(r, CallKinds)
  BY DEF None, RingKinds, CallKinds
<1>4. \A m : ~Newest(r, RingKinds, m) /\ ~Newest(r, CallKinds, m)
  BY <1>3 DEF None, Newest
<1> HIDE DEF None, Newest
<1>5. \A m \in Answers : Newest(r, PageKinds, m) => m \in TruePages'
  BY DEF TruePages, Notice
<1>6. None(r, PageKinds) => scr'.page = Notice(page').who
  BY <1>1, <1>2
<1>7. Rings(scr.incoming)'
  BY <1>1, <1>2 DEF Rings
<1>8. Speaks(scr.direct.state = "active", scr.direct.id)'
  BY <1>1, <1>2 DEF Speaks
<1> DEFINE b == (scr.page = Notice(page).who)'
           c == Rings(scr.incoming)'
           e == Speaks(scr.direct.state = "active", scr.direct.id)'
<1>9. Tells(r, PageKinds, TruePages', b) /\ Tells(r, RingKinds, TrueRings', c) /\ Tells(r, CallKinds, TrueCalls', e)
  BY <1>4, <1>5, <1>6, <1>7, <1>8 DEF Tells
<1> HIDE DEF Tells, TruePages, TrueRings, TrueCalls, Rings, Speaks
<1> QED BY <1>9 DEF LineInv

LEMMA AuthenticatedLines ==
  ASSUME ScreenInv, BlankInv, LineInv, Authenticated(SocketOf, login), UNCHANGED <<login, client, scr>>,
         SocketOf # 0, wire[SocketOf].server \in {"new", "up"}, FirstSocket, SocketOf' = SocketOf,
         up[SocketOf] # <<>>, up'[SocketOf] = Tail(up[SocketOf]), Head(up[SocketOf]).kind = "authenticate",
         Live'
  PROVE  LineInv'
<1>1. SocketOf \in Sockets /\ wire[SocketOf].by = login /\ login \in Logins
  BY SocketParts
<1>2. UNCHANGED <<page, call>>
  BY <1>1, AuthenticatedShape
<1>3. RingStays /\ CallStays
  <2>1. /\ Head(up[SocketOf]) # [kind |-> "reject", id |-> call.id]
        /\ Head(up[SocketOf]) # [kind |-> "end", id |-> call.id]
    OBVIOUS
  <2>2. (Sends("reject") => Sends("reject")') /\ (Sends("end") => Sends("end")')
    BY <1>1, <1>2, <2>1, ReadSends
  <2> HIDE DEF Sends, RingStays, CallStays
  <2> QED BY <1>2, <2>2, LineStays
<1> HIDE DEF RingStays, CallStays, Announced
<1>4. CASE UNCHANGED <<wire, serverState, down>>
  <2>1. Live
    BY <1>4, SameLive
  <2>2. Announced
    BY <1>2, <1>3, <1>4, <2>1, AnnouncesNothing
  <2> QED BY <2>1, <2>2, AnnouncedKept
<1>5. CASE ~UNCHANGED <<wire, serverState, down>>
  <2>1. /\ srv' \in [Logins -> Sessions]
        /\ wire'[SocketOf].client = wire[SocketOf].client
        /\ wire[SocketOf].client = "open" =>
             down'[SocketOf] = (down[SocketOf] \o <<State(srv'[login])>>)
                                 \o (IF page = 0 THEN <<>> ELSE <<Notice(page)>>)
    BY <1>1, <1>5, AuthenticatedShape
  <2>2. wire'[SocketOf].client = "open" /\ down[SocketOf] \in Seq(Answers) /\ srv'[login] \in Sessions
    BY <1>1, <2>1, ScreenInvParts DEF Live, CanSend
  <2>3. PICK r \in Seq(Answers) :
          /\ down'[SocketOf] = down[SocketOf] \o r
          /\ None(r, RingKinds) /\ (~None(r, PageKinds) \/ page = 0)
          /\ \A m : Newest(r, PageKinds, m) => m = Notice(page)
    BY <2>1, <2>2, WelcomeShape
  <2> HIDE DEF None, Newest
  <2>4. CASE wire[SocketOf].server = "up"
    <3>1. Live
      BY <2>1, <2>2, <2>4 DEF Live, CanSend
    <3>2. Announced
      BY <1>2, <1>3, <2>3, AnnouncesPage
    <3> QED BY <3>1, <3>2, AnnouncedKept
  <2>5. CASE wire[SocketOf].server = "new"
    <3>1. Unheard
      BY <2>5 DEF Unheard
    <3>2. down[SocketOf] = <<>>
      BY <1>1, <2>5 DEF ScreenInv, SocketsUsed
    <3>3. down'[SocketOf'] = r
      BY <2>3, <3>2, ConcatEmptySeq
    <3> QED BY <1>2, <2>3, <3>1, <3>3, WelcomeLines
  <2> QED BY <2>4, <2>5
<1> QED BY <1>4, <1>5

LEMMA ReadLines ==
  ASSUME ScreenInv, BlankInv, LineInv, NEW s \in Sockets, Read(s), UNCHANGED scr
  PROVE  LineInv'
<1>1. PICK m \in Commands :
           /\ m = Head(up[s]) /\ up[s] # <<>> /\ up'[s] = Tail(up[s])
           /\ wire[s].server \in {"new", "up"} /\ wire[s].by \in Logins
           /\ UNCHANGED <<login, client>>
           /\ \/ m.kind = "authenticate" /\ Authenticated(s, wire[s].by)
              \/ m.kind # "authenticate" /\ wire[s].server = "up" /\ wire[s].by \in Attached
                 /\ Command(wire[s].by, m) /\ UNCHANGED wire
              \/ m.kind # "authenticate" /\ wire[s].server = "new" /\ UNCHANGED <<wire, serverState, down>>
  BY ReadShape
<1> SUFFICES ASSUME Live', FirstSocket' PROVE LineInv'
  BY DEF LineInv
<1>2. \A r \in Sockets : wire'[r].by = wire[r].by
  <2>1. CASE UNCHANGED wire
    BY <2>1
  <2>2. CASE Authenticated(s, wire[s].by) /\ ~UNCHANGED <<wire, serverState, down>>
    <3>1. wire'[s].by = wire[s].by /\ \A r \in Sockets \ {s} : wire'[r] = wire[r]
      BY <1>1, <2>2, AuthenticatedShape
    <3> QED BY <3>1
  <2> QED BY <1>1, <2>1, <2>2
<1>3. FirstSocket /\ SocketOf' = SocketOf
  BY <1>1, <1>2, FirstBack
<1>4. s = SocketOf /\ SocketOf # 0
  BY <1>1, <1>3, FirstAlone, SocketParts
<1>5. wire[SocketOf].by = login
  BY <1>4, SocketParts
<1>6. CASE m.kind = "authenticate" /\ Authenticated(s, wire[s].by)
  BY <1>1, <1>3, <1>4, <1>5, <1>6, AuthenticatedLines
<1>7. CASE m.kind # "authenticate" /\ Command(wire[s].by, m) /\ UNCHANGED wire
  <2>1. Live
    BY <1>1, <1>7, SameLive
  <2>2. Announced
    BY <1>1, <1>3, <1>4, <1>5, <1>7, <2>1, CommandAnnounced
  <2> QED BY <1>3, <2>1, <2>2, AnnouncedKept
<1>8. CASE wire[s].server = "new" /\ UNCHANGED wire
  <2>1. wire'[SocketOf'].server = "new"
    BY <1>3, <1>4, <1>8
  <2> QED BY <2>1 DEF Live
<1> QED BY <1>1, <1>6, <1>7, <1>8

LEMMA SocketEndsLines ==
  ASSUME ScreenInv, NEW s \in Sockets, SocketEnds(s) PROVE LineInv'
<1>1. FirstSocket' => SocketOf' = SocketOf /\ wire'[SocketOf].server = "gone"
  BY SocketEndsHeard
<1>2. ~(Live' /\ FirstSocket')
  BY <1>1 DEF Live
<1> QED BY <1>2 DEF LineInv

LEMMA AskSignOutLines == ASSUME ScreenInv, LineInv, AskSignOut PROVE LineInv'
<1>1. /\ login # 0 /\ UNCHANGED <<login, client, scr>>
      /\ \/ UNCHANGED <<wire, up, serverState, down>>
         \/ wire' = ServerEnds({s \in Sockets : wire[s].by = login})
  BY DEF AskSignOut, SessionDeleted
<1>2. SocketOf' = SocketOf
  BY <1>1, SameLive
<1> SUFFICES ASSUME Live', FirstSocket' PROVE LineInv'
  BY DEF LineInv
<1>3. CASE UNCHANGED <<wire, up, serverState, down>>
  <2>1. Live /\ FirstSocket
    BY <1>1, <1>2, <1>3, SameLive DEF FirstSocket
  <2>2. UNCHANGED <<page, call>>
    BY <1>3 DEF serverState
  <2>3. (Sends("reject") => Sends("reject")') /\ (Sends("end") => Sends("end")')
    BY <1>2, <1>3, <2>2, SendsKept
  <2> HIDE DEF Sends, RingStays, CallStays, Announced
  <2>4. RingStays /\ CallStays
    BY <2>2, <2>3, LineStays
  <2>5. Announced
    BY <1>3, <2>1, <2>2, <2>4, AnnouncesNothing
  <2> QED BY <1>1, <1>2, <2>1, <2>5, AnnouncedKept
<1>4. CASE wire' = ServerEnds({s \in Sockets : wire[s].by = login})
  <2>1. SocketOf \in Sockets /\ wire[SocketOf].by = login /\ wire'[SocketOf].server = "up"
    BY <1>2, SocketParts DEF Live, CanSend
  <2>2. SocketOf \in {s \in Sockets : wire[s].by = login}
    BY <2>1
  <2>3. wire'[SocketOf].server \in {"none", "gone"}
    BY <1>4, <2>1, <2>2, EndedShape
  <2> QED BY <2>1, <2>3
<1> QED BY <1>1, <1>3, <1>4

LEMMA TellsLess ==
  ASSUME NEW q, NEW K, NEW G, NEW H, NEW b \in BOOLEAN, NEW d \in BOOLEAN, Tells(q, K, G, b),
         \A m \in Answers : m \in G => m \in H, b => d
  PROVE  Tells(q, K, H, d)
BY DEF Tells

\* What is on its way stays true, and so is what the screen shows.
LEMMA LinesKept ==
  ASSUME NEW q, SocketOf' = SocketOf, UNCHANGED page, down'[SocketOf] = q, RingStays, CallStays,
         Tells(q, PageKinds, TruePages, scr'.page = Notice(page).who),
         Tells(q, RingKinds, TrueRings, Rings(scr'.incoming)),
         Tells(q, CallKinds, TrueCalls, Speaks(scr'.direct.state = "active", scr'.direct.id))
  PROVE  LineInv'
<1> DEFINE b == scr'.page = Notice(page).who
           c == Rings(scr'.incoming)
           e == Speaks(scr'.direct.state = "active", scr'.direct.id)
           c2 == Rings(scr.incoming)'
           e2 == Speaks(scr.direct.state = "active", scr.direct.id)'
<1>1. b \in BOOLEAN /\ c \in BOOLEAN /\ e \in BOOLEAN /\ c2 \in BOOLEAN /\ e2 \in BOOLEAN
  BY DEF Rings, Speaks
<1>2. (\A m \in Answers : m \in TrueRings => m \in TrueRings') /\ (c => c2)
  BY DEF TrueRings, RingStays
<1>3. (\A m \in Answers : m \in TrueCalls => m \in TrueCalls') /\ (e => e2)
  <2>1. ASSUME NEW m \in Answers, m \in TrueCalls PROVE m \in TrueCalls'
    BY <2>1 DEF TrueCalls, CallStays
  <2>2. e => e2
    BY DEF CallStays
  <2> QED BY <2>1, <2>2
<1>4. TruePages' = TruePages /\ b = (scr.page = Notice(page).who)'
  BY DEF TruePages, Notice
<1>5. Tells(q, RingKinds, TrueRings, c) /\ Tells(q, CallKinds, TrueCalls, e)
  OBVIOUS
<1> HIDE DEF c, e, c2, e2
<1>6. Tells(q, RingKinds, TrueRings', c2) /\ Tells(q, CallKinds, TrueCalls', e2)
  BY <1>1, <1>2, <1>3, <1>5, TellsLess
<1>7. Tells(q, PageKinds, TruePages', b)
  BY <1>4
<1>8. down'[SocketOf'] = q
  OBVIOUS
<1> HIDE DEF Tells, TruePages, TrueRings, TrueCalls, Rings, Speaks
<1>9. Tells(q, PageKinds, TruePages', (scr.page = Notice(page).who)')
  BY <1>4, <1>7
<1> QED BY <1>6, <1>8, <1>9 DEF LineInv, c2, e2

LEMMA ReceivesLines ==
  ASSUME ScreenInv, LineInv, WebReceives \/ MobileReceives PROVE LineInv'
<1>1. PICK m \in Answers :
           /\ CanSend /\ SocketOf \in Sockets /\ down[SocketOf] # <<>> /\ m = Head(down[SocketOf])
           /\ down' = [down EXCEPT ![SocketOf] = Tail(down[SocketOf])]
           /\ UNCHANGED <<login, client, wire, sessionVars>>
           /\ UNCHANGED up \/ Sent(Replies(After(m)))
           /\ scr'.page = After(m).page /\ scr'.direct = After(m).direct
           /\ scr'.incoming = After(m).incoming
  BY ReceivesShape
<1> DEFINE q == down[SocketOf]
<1>2. SocketOf' = SocketOf /\ (Live' <=> Live) /\ (FirstSocket' <=> FirstSocket)
  <2>1. SocketOf' = SocketOf /\ (Live' <=> Live)
    BY <1>1, SameLive
  <2> QED BY <1>1, <2>1 DEF FirstSocket
<1> SUFFICES ASSUME Live, FirstSocket PROVE LineInv'
  BY <1>2 DEF LineInv
<1>3. q \in Seq(Answers) /\ q # <<>> /\ down'[SocketOf] = Tail(q) /\ m = Head(q)
  BY <1>1, ScreenInvParts
<1>4. UNCHANGED <<page, call>>
  BY <1>1 DEF sessionVars, serverState
<1> DEFINE x == After(m)
<1>5. ShowsAfter(x, m)
  BY AfterShape
<1> HIDE DEF x
<1>6. x \in Screens /\ login \in Nat
  BY <1>5, SocketParts DEF ShowsAfter
<1>7. scr'.page = x.page /\ scr'.direct = x.direct /\ scr'.incoming = x.incoming
  BY <1>1 DEF x
<1>8. RingStays /\ CallStays
  <2>1. CASE UNCHANGED up
    <3>1. (Sends("reject") => Sends("reject")') /\ (Sends("end") => Sends("end")')
      BY <1>2, <1>4, <2>1, SendsKept
    <3> HIDE DEF Sends, RingStays, CallStays
    <3> QED BY <1>4, <3>1, LineStays
  <2>2. CASE Sent(Replies(After(m)))
    <3>1. Replies(x) \in Seq(Commands)
      BY <1>6, RepliesShape
    <3>2. up'[SocketOf] = up[SocketOf] \o Replies(x)
      BY <1>1, <2>2, <3>1, SentShape DEF x
    <3>3. (Sends("reject") => Sends("reject")') /\ (Sends("end") => Sends("end")')
      BY <1>1, <1>2, <1>4, <3>1, <3>2, SendsMore
    <3> HIDE DEF Sends, RingStays, CallStays
    <3> QED BY <1>4, <3>3, LineStays
  <2> QED BY <1>1, <2>1, <2>2
<1> DEFINE b == scr.page = Notice(page).who
           c == Rings(scr.incoming)
           e == Speaks(scr.direct.state = "active", scr.direct.id)
           b2 == scr'.page = Notice(page).who
           c2 == Rings(scr'.incoming)
           e2 == Speaks(scr'.direct.state = "active", scr'.direct.id)
<1>9. /\ Tells(q, PageKinds, TruePages, b) /\ Tells(q, RingKinds, TrueRings, c)
      /\ Tells(q, CallKinds, TrueCalls, e)
  BY DEF LineInv
<1>10. /\ b \in BOOLEAN /\ c \in BOOLEAN /\ e \in BOOLEAN
       /\ b2 \in BOOLEAN /\ c2 \in BOOLEAN /\ e2 \in BOOLEAN
  BY DEF Rings, Speaks
<1>11. (m.kind \in PageKinds => (m \in TruePages => b2)) /\ (m.kind \notin PageKinds => (b => b2))
  BY <1>5, <1>7 DEF ShowsAfter, PageKinds, TruePages
<1>12. m.kind \in RingKinds => (m \in TrueRings => c2)
  BY <1>5, <1>7 DEF ShowsAfter, RingKinds, TrueRings
<1>13. m.kind \notin RingKinds => (c => c2)
  BY <1>5, <1>7 DEF ShowsAfter, RingKinds
<1>14. m.kind \in CallKinds => (m \in TrueCalls => e2)
  <2>1. CASE m.kind = "active"
    <3>1. scr'.direct = [id |-> m.id, state |-> "active"]
      BY <1>5, <1>7, <2>1 DEF ShowsAfter
    <3>2. scr'.direct.state = "active" /\ scr'.direct.id = m.id
      BY <3>1
    <3> QED BY <2>1, <3>2 DEF TrueCalls
  <2>2. CASE m.kind = "ended"
    <3>1. scr'.direct = NoDirect
      BY <1>5, <1>7, <2>2 DEF ShowsAfter
    <3>2. scr'.direct.state = "none"
      BY <3>1 DEF NoDirect
    <3> QED BY <2>2, <3>2 DEF TrueCalls, Speaks
  <2> QED BY <2>1, <2>2 DEF CallKinds
<1>15. m.kind \notin CallKinds => (e => e2)
  <2>1. m.kind \notin CallKinds => scr'.direct = scr.direct
    BY <1>5, <1>7, AnswerKinds DEF ShowsAfter, CallKinds
  <2> QED BY <2>1
<1> HIDE DEF b, c, e, b2, c2, e2, q
<1>16. Tells(Tail(q), PageKinds, TruePages, b2)
  BY <1>3, <1>9, <1>10, <1>11, TellsRest
<1>17. Tells(Tail(q), RingKinds, TrueRings, c2)
  BY <1>3, <1>9, <1>10, <1>12, <1>13, TellsRest
<1>18. Tells(Tail(q), CallKinds, TrueCalls, e2)
  BY <1>3, <1>9, <1>10, <1>14, <1>15, TellsRest
<1> HIDE DEF RingStays, CallStays
<1> QED BY <1>2, <1>3, <1>4, <1>8, <1>16, <1>17, <1>18, LinesKept DEF b2, c2, e2

\* What is sent on the socket of the screen is added to what is on its way.
LEMMA SentKeeps ==
  ASSUME ScreenInv, UNCHANGED call, SocketOf' = SocketOf, SocketOf \in Sockets, CanSend,
         NEW r \in Seq(Commands), Sent(r)
  PROVE  /\ \A kind : Sends(kind) => Sends(kind)'
         /\ RingStays /\ CallStays
<1>1. up'[SocketOf] = up[SocketOf] \o r
  BY SentShape
<1>2. \A kind : Sends(kind) => Sends(kind)'
  BY <1>1, SendsMore
<1> HIDE DEF Sends, RingStays, CallStays
<1> QED BY <1>2, LineStays

LEMMA SentSends ==
  ASSUME ScreenInv, UNCHANGED call, SocketOf' = SocketOf, SocketOf \in Sockets, CanSend,
         NEW kind \in {"reject", "end"}, Sent(<<[kind |-> kind, id |-> call.id]>>)
  PROVE  Sends(kind)'
<1> DEFINE q == up[SocketOf]
           x == [kind |-> kind, id |-> call.id]
<1>1. x \in Commands
  BY CallParts, CommandFacts
<1>2. x' = x
  OBVIOUS
<1> HIDE DEF x
<1>3. <<x>> \in Seq(Commands) /\ 1 \in DOMAIN <<x>> /\ <<x>>[1] = x
  BY <1>1
<1>4. up'[SocketOf] = q \o <<x>> /\ q \in Seq(Commands)
  BY <1>3, SentShape, ScreenInvParts DEF x
<1> HIDE DEF q
<1>5. Len(q) + 1 \in DOMAIN (q \o <<x>>) /\ (q \o <<x>>)[Len(q) + 1] = x
  BY <1>3, <1>4, ConcatFacts
<1>6. up'[SocketOf'] = q \o <<x>>
  BY <1>4
<1>7. \E i \in DOMAIN up'[SocketOf'] : up'[SocketOf'][i] = x'
  BY <1>2, <1>5, <1>6
<1> QED BY <1>7 DEF Sends, x

LEMMA LocalLines == ASSUME ScreenInv, LineInv, Local, CallLocal PROVE LineInv'
<1>1. /\ UNCHANGED <<login, client, wire, down, page, call>> /\ SameView(scr, scr')
      /\ \E msgs \in Seq(Commands) : Sent(msgs)
  BY DEF Local, serverState
<1>2. SocketOf' = SocketOf /\ (Live' <=> Live) /\ (FirstSocket' <=> FirstSocket)
  <2>1. SocketOf' = SocketOf /\ (Live' <=> Live)
    BY <1>1, SameLive
  <2> QED BY <1>1, <2>1 DEF FirstSocket
<1> SUFFICES ASSUME Live, FirstSocket PROVE LineInv'
  BY <1>2 DEF LineInv
<1>3. SocketOf \in Sockets /\ CanSend
  BY LiveFacts DEF Live
<1>4. RingStays /\ CallStays /\ \A kind : Sends(kind) => Sends(kind)'
  BY <1>1, <1>2, <1>3, SentKeeps
<1>5. scr \in Screens
  BY ScreenFields
<1> DEFINE q == down[SocketOf]
           b == scr.page = Notice(page).who
           c == Rings(scr.incoming)
           e == Speaks(scr.direct.state = "active", scr.direct.id)
<1>6. /\ Tells(q, PageKinds, TruePages, b) /\ Tells(q, RingKinds, TrueRings, c)
      /\ Tells(q, CallKinds, TrueCalls, e)
  BY DEF LineInv
<1>7. c => c'
  <2>1. CASE Reject
    <3>1. scr'.incoming = 0
      BY <1>5, <2>1 DEF Reject, Screens
    <3>2. CASE call.phase = "ringing" /\ ~call.mine
      <4>1. c => scr.incoming = call.id \/ Sends("reject")
        BY <3>2 DEF Rings
      <4>2. scr.incoming = call.id => Sent(<<[kind |-> "reject", id |-> call.id]>>)
        BY <2>1 DEF Reject
      <4>3. scr.incoming = call.id => Sends("reject")'
        BY <1>1, <1>2, <1>3, <4>2, SentSends
      <4> HIDE DEF Sends
      <4>4. c => Sends("reject")'
        BY <1>4, <4>1, <4>3
      <4> QED BY <1>1, <3>2, <4>4 DEF Rings
    <3>3. CASE ~(call.phase = "ringing" /\ ~call.mine)
      BY <1>1, <3>1, <3>3 DEF Rings
    <3> QED BY <3>2, <3>3
  <2>2. CASE CallPeer \/ HangUp
    <3>1. scr'.incoming = scr.incoming
      BY <1>5, <2>2 DEF CallPeer, HangUp, Screens
    <3> QED BY <1>4, <3>1 DEF RingStays
  <2>3. CASE scr'.incoming = scr.incoming
    BY <1>4, <2>3 DEF RingStays
  <2> QED BY <2>1, <2>2, <2>3 DEF CallLocal
<1>8. e => e'
  <2>1. CASE HangUp
    <3>1. scr'.direct = NoDirect
      BY <1>5, <2>1 DEF HangUp, Screens
    <3>2. scr'.direct.state # "active"
      BY <3>1 DEF NoDirect
    <3>3. call.phase = "active" /\ e => scr.direct.id = call.id \/ Sends("end")
      BY DEF Speaks
    <3>4. scr.direct.id = call.id => Sent(<<[kind |-> "end", id |-> call.id]>>)
      BY <2>1 DEF HangUp
    <3>5. scr.direct.id = call.id => Sends("end")'
      BY <1>1, <1>2, <1>3, <3>4, SentSends
    <3> HIDE DEF Sends, e
    <3>6. call.phase = "active" /\ e => Sends("end")'
      BY <1>4, <3>3, <3>5
    <3> QED BY <1>1, <3>2, <3>6 DEF Speaks, e
  <2>2. CASE CallPeer
    <3>1. scr'.direct = [id |-> 0, state |-> "requesting"] /\ scr.direct = NoDirect
      BY <1>5, <2>2 DEF CallPeer, Screens
    <3>2. scr'.direct.state # "active" /\ scr.direct.state # "active"
      BY <3>1 DEF NoDirect
    <3> QED BY <1>4, <3>2 DEF CallStays, Speaks
  <2>3. CASE Reject
    <3>1. scr'.direct = scr.direct
      BY <1>5, <2>3 DEF Reject, Screens
    <3> QED BY <1>4, <3>1 DEF CallStays
  <2>4. CASE scr'.direct = scr.direct
    BY <1>4, <2>4 DEF CallStays
  <2> QED BY <2>1, <2>2, <2>3, <2>4 DEF CallLocal
<1>9. TruePages' = TruePages /\ (b => b')
  BY <1>1 DEF TruePages, Notice, SameView
<1>10. \A m \in Answers : m \in TrueRings => m \in TrueRings'
  BY <1>4 DEF TrueRings, RingStays
<1>11. \A m \in Answers : m \in TrueCalls => m \in TrueCalls'
  <2> SUFFICES ASSUME NEW m \in Answers, m \in TrueCalls PROVE m \in TrueCalls'
    OBVIOUS
  <2> QED BY <1>4 DEF TrueCalls, CallStays
<1>12. /\ b \in BOOLEAN /\ c \in BOOLEAN /\ e \in BOOLEAN
       /\ b' \in BOOLEAN /\ c' \in BOOLEAN /\ e' \in BOOLEAN
  BY DEF Rings, Speaks
<1>13. down'[SocketOf'] = q
  BY <1>1, <1>2
<1> HIDE DEF b, c, e, q, Tells, TruePages, TrueRings, TrueCalls
<1>14. /\ Tells(q, PageKinds, TruePages', b') /\ Tells(q, RingKinds, TrueRings', c')
       /\ Tells(q, CallKinds, TrueCalls', e')
  BY <1>6, <1>7, <1>8, <1>9, <1>10, <1>11, <1>12, TellsLess
<1> QED BY <1>13, <1>14 DEF LineInv, b, c, e

\* What leaves the line, the socket and the screen's view of them alone.
LEMMA SameLines ==
  ASSUME ScreenInv, LineInv, UNCHANGED <<login, client, wire, up, down, page, call>>,
         scr'.page = scr.page, scr'.direct = scr.direct, scr'.incoming = scr.incoming
  PROVE  LineInv'
<1>1. SocketOf' = SocketOf /\ (Live' <=> Live) /\ (FirstSocket' <=> FirstSocket)
  <2>1. SocketOf' = SocketOf /\ (Live' <=> Live)
    BY SameLive
  <2> QED BY <2>1 DEF FirstSocket
<1> SUFFICES ASSUME Live, FirstSocket PROVE LineInv'
  BY <1>1 DEF LineInv
<1>2. (Sends("reject") => Sends("reject")') /\ (Sends("end") => Sends("end")')
  BY <1>1, SendsKept
<1> HIDE DEF Sends, RingStays, CallStays
<1>3. RingStays /\ CallStays
  BY <1>2, LineStays
<1>4. /\ Tells(down[SocketOf], PageKinds, TruePages, scr'.page = Notice(page).who)
      /\ Tells(down[SocketOf], RingKinds, TrueRings, Rings(scr'.incoming))
      /\ Tells(down[SocketOf], CallKinds, TrueCalls,
               Speaks(scr'.direct.state = "active", scr'.direct.id))
  BY DEF LineInv
<1> HIDE DEF Tells
<1> QED BY <1>1, <1>3, <1>4, LinesKept

LEMMA StepLines == ScreenInv /\ BlankInv /\ LineInv /\ [Next]_vars => LineInv'
<1> SUFFICES ASSUME ScreenInv, BlankInv, LineInv, [Next]_vars PROVE LineInv'
  OBVIOUS
<1>0. ~Live' => LineInv'
  BY DEF LineInv
<1>1. CASE SignIn
  BY <1>0, <1>1, SignInOpens, OpensOffline
<1>2. CASE AskSignOut
  BY <1>2, AskSignOutLines
<1>3. CASE WebSignOut \/ MobileSignOut
  <2>1. /\ login # 0 /\ Disconnect(login) /\ login' = 0
    BY <1>3 DEF WebSignOut, MobileSignOut, Leave, ScreenInv, ConsoleInv, SocketsOwned
  <2> QED BY <1>0, <2>1, GivesUpShape, GivesUpOffline
<1>4. CASE Operator /\ ~SignIn /\ ~AskSignOut /\ ~WebSignOut /\ ~MobileSignOut
  BY <1>4, OperatorLocal, OperatorCall, LocalLines
<1>5. CASE Server
  <2>1. UNCHANGED scr
    BY <1>5 DEF Server
  <2>2. CASE OtherPeople
    <3>1. UNCHANGED <<login, client, wire>>
      BY <2>2 DEF OtherPeople, OtherPages, OtherPageEnds, Muted, PeerCalls, PeerAccepts, PeerEnds, Happens
    <3>2. SocketOf' = SocketOf /\ (Live' <=> Live)
      BY <3>1, SameLive
    <3>3. FirstSocket' <=> FirstSocket
      BY <3>1, <3>2 DEF FirstSocket
    <3> HIDE DEF Announced
    <3>4. Live /\ FirstSocket => LineInv'
      BY <2>1, <2>2, <3>2, OthersAnnounced, AnnouncedKept
    <3> QED BY <3>2, <3>3, <3>4 DEF LineInv
  <2> QED BY <1>5, <2>1, <2>2, ReadLines, SocketEndsLines DEF Server
<1>6. CASE Link
  <2>1. login # 0 /\ (HandleOpen(login, Greets) \/ Reconnect(login))
    BY <1>6, LinkOpens DEF Link
  <2>2. CASE HandleOpen(login, Greets)
    <3>1. SocketOf' = SocketOf /\ wire'[SocketOf].server = "new"
      BY <2>1, <2>2, HandleOpenShape
    <3>2. ~Live'
      BY <3>1 DEF Live
    <3> QED BY <1>0, <3>2
  <2>3. CASE Reconnect(login)
    BY <1>0, <2>1, <2>3, ReconnectOpens, OpensOffline
  <2> QED BY <2>1, <2>2, <2>3
<1>7. CASE LinkLost
  BY <1>0, <1>7, LostShape, GivesUpOffline
<1>8. CASE LinkLostInVoice
  BY <1>0, <1>8, LostInVoiceShape, GivesUpOffline
<1>9. CASE WebAudioReady \/ MobileAudioReady
  <2>1. /\ UNCHANGED <<login, client, wire, up, down, page, call>> /\ scr' = [scr EXCEPT !.ready = TRUE]
    BY <1>9 DEF WebAudioReady, MobileAudioReady, BecomesReady, linkVars, sessionVars, serverState
  <2>2. scr'.page = scr.page /\ scr'.direct = scr.direct /\ scr'.incoming = scr.incoming
    BY <2>1, ScreenFields, ScreenParts
  <2> QED BY <2>1, <2>2, SameLines
<1>10. CASE WebReceives \/ MobileReceives
  BY <1>10, ReceivesLines
<1>11. CASE UNCHANGED vars
  BY <1>11, SameLines DEF vars, linkVars, sessionVars, serverState
<1> QED BY <1>1, <1>2, <1>3, <1>4, <1>5, <1>6, <1>7, <1>8, <1>9, <1>10, <1>11 DEF Next

LEMMA InitLines == Init => LineInv
<1> SUFFICES ASSUME Init PROVE LineInv
  OBVIOUS
<1>1. SocketOf = 0
  BY DEF Init, LinkInit, SocketOf
<1> QED BY <1>1 DEF LineInv, Live, CanSend

\* On the first connection, once nothing is under way, the screen shows the page
\* and the call that there are and no call that is over, whoever called, answered
\* or hung up meanwhile, also when both sides did at once (direct:* and allpage:*).
THEOREM LinesAlwaysShown == Spec => []LinesShown
<1>1. Init => BlankInv /\ LineInv
  BY InitBlank, InitLines
<1>2. ScreenInv /\ BlankInv /\ LineInv /\ [Next]_vars => BlankInv' /\ LineInv'
  BY StepBlank, StepLines
<1>3. ScreenInv /\ LineInv => LinesShown
  <2> SUFFICES ASSUME ScreenInv, LineInv, Rest, FirstSocket
               PROVE  /\ scr.page = Notice(page).who
                      /\ scr.direct.state = "active" <=> call.phase = "active"
                      /\ scr.direct.state = "active" => scr.direct.id = call.id
                      /\ scr.incoming # 0 <=> call.phase = "ringing" /\ ~call.mine
    BY DEF LinesShown
  <2>1. Live /\ down[SocketOf] = <<>>
    BY DEF Rest, Live
  <2>2. up[SocketOf] = <<>>
    BY <2>1, LiveFacts DEF Rest
  <2>3. \A kind : ~Sends(kind)
    <3>1. DOMAIN <<>> = {}
      OBVIOUS
    <3> QED BY <2>2, <3>1 DEF Sends
  <2>4. \A K : None(<<>>, K)
    BY LastOfNothing
  <2>5. /\ scr.page = Notice(page).who /\ Rings(scr.incoming)
        /\ Speaks(scr.direct.state = "active", scr.direct.id)
    BY <2>1, <2>4 DEF LineInv, Tells
  <2>6. call.phase = "ringing" => call.id # 0
    BY DEF ScreenInv, LinesHeld, NoCall
  <2> HIDE DEF Sends
  <2> QED BY <2>3, <2>5, <2>6 DEF Rings, Speaks
<1> QED BY <1>1, <1>2, <1>3, ScreenInvariant, PTL DEF Spec

-----------------------------------------------------------------------------
(* The listen selection of the web client *)

Listening == {"listen"}
Asks(m, c) == m.kind = "listen" /\ c \in m.of

\* The commands q bring channel c, which is heard or not, to what is wanted.
Settles(q, c, want, has) ==
  /\ (\A i \in DOMAIN q : ~Asks(q[i], c)) => (has <=> want)
  /\ \A i \in DOMAIN q :
       Asks(q[i], c) /\ (q[i].on <=> ~want) => \E j \in DOMAIN q : j > i /\ Asks(q[j], c)

\* The states among the messages r have the selection L.
Carry(r, L) == \A i \in DOMAIN r : r[i].kind = "state" => r[i].listen = L

\* Before the first state comes the web client asks for nothing; then it has
\* asked for all that it prefers.  Confidence channels are not the operator's choice.
Selected ==
  IF scr.restored = login
  THEN \A c \in Visible : Settles(up[SocketOf], c, c \in scr.prefer, c \in srv[login].listen)
  ELSE ~scr.known /\ Carry(down[SocketOf], srv[login].listen)

ListenInv ==
  Web /\ scr.stored # {} /\ FirstSocket =>
    /\ CanSend /\ ~scr.known => None(up[SocketOf], Listening)
    /\ Live /\ ~paged => Selected

\* Who pages from elsewhere has paged.
PagedInv == page = Other => paged

LEMMA Positions ==
  ASSUME NEW q \in Seq(Commands), NEW r \in Seq(Commands)
  PROVE  /\ Len(q) \in Nat
         /\ \A i \in DOMAIN q : /\ i \in Nat /\ i <= Len(q)
                                /\ i \in DOMAIN (q \o r) /\ (q \o r)[i] = q[i]
         /\ \A j \in DOMAIN r : /\ j \in Nat /\ j >= 1
                                /\ Len(q) + j \in DOMAIN (q \o r) /\ (q \o r)[Len(q) + j] = r[j]
         /\ \A i \in DOMAIN (q \o r) : i \in DOMAIN q \/ \E j \in DOMAIN r : i = Len(q) + j
BY ConcatFacts

LEMMA SettlesThen ==
  ASSUME NEW q \in Seq(Commands), NEW r \in Seq(Commands), NEW c, NEW want \in BOOLEAN, NEW has \in BOOLEAN,
         Settles(q, c, want, has), \A i \in DOMAIN r : ~Asks(r[i], c)
  PROVE  Settles(q \o r, c, want, has)
<1> DEFINE z == q \o r
           n == Len(q)
<1>1. /\ n \in Nat
      /\ \A i \in DOMAIN q : i \in Nat /\ i <= n /\ i \in DOMAIN z /\ z[i] = q[i]
      /\ \A j \in DOMAIN r : j \in Nat /\ j >= 1 /\ n + j \in DOMAIN z /\ z[n + j] = r[j]
      /\ \A i \in DOMAIN z : i \in DOMAIN q \/ \E j \in DOMAIN r : i = n + j
  BY Positions
<1> HIDE DEF z, n
<1>2. (\A i \in DOMAIN z : ~Asks(z[i], c)) => (has <=> want)
  <2>1. (\A i \in DOMAIN z : ~Asks(z[i], c)) => \A i \in DOMAIN q : ~Asks(q[i], c)
    BY <1>1
  <2> QED BY <2>1 DEF Settles
<1>3. ASSUME NEW i \in DOMAIN z, Asks(z[i], c), z[i].on <=> ~want
      PROVE  \E j \in DOMAIN z : j > i /\ Asks(z[j], c)
  <2>1. i \in DOMAIN q /\ z[i] = q[i]
    BY <1>1, <1>3
  <2>2. PICK j \in DOMAIN q : j > i /\ Asks(q[j], c)
    BY <1>3, <2>1 DEF Settles
  <2> QED BY <1>1, <2>2
<1> QED BY <1>2, <1>3 DEF Settles, z

LEMMA SettlesNow ==
  ASSUME NEW q \in Seq(Commands), NEW r \in Seq(Commands), NEW c, NEW want \in BOOLEAN, NEW has \in BOOLEAN,
         NEW l \in DOMAIN r, Asks(r[l], c),
         \A i \in DOMAIN r : Asks(r[i], c) => (r[i].on <=> want)
  PROVE  Settles(q \o r, c, want, has)
<1> DEFINE z == q \o r
           n == Len(q)
<1>1. /\ n \in Nat
      /\ \A i \in DOMAIN q : i \in Nat /\ i <= n /\ i \in DOMAIN z /\ z[i] = q[i]
      /\ \A j \in DOMAIN r : j \in Nat /\ j >= 1 /\ n + j \in DOMAIN z /\ z[n + j] = r[j]
      /\ \A i \in DOMAIN z : i \in DOMAIN q \/ \E j \in DOMAIN r : i = n + j
  BY Positions
<1> HIDE DEF z, n
<1>2. n + l \in DOMAIN z /\ Asks(z[n + l], c)
  BY <1>1
<1>3. ASSUME NEW i \in DOMAIN z, Asks(z[i], c), z[i].on <=> ~want
      PROVE  n + l > i
  <2>1. ASSUME NEW j \in DOMAIN r, i = n + j PROVE FALSE
    <3>1. z[i] = r[j]
      BY <1>1, <2>1
    <3> QED BY <1>3, <3>1
  <2>2. i \in DOMAIN q
    BY <1>1, <2>1
  <2> QED BY <1>1, <2>2
<1> QED BY <1>2, <1>3 DEF Settles, z

\* The server takes the first command.
LEMMA SettlesTail ==
  ASSUME NEW q \in Seq(Commands), q # <<>>, NEW c, NEW want \in BOOLEAN, NEW has \in BOOLEAN,
         NEW has2 \in BOOLEAN, Settles(q, c, want, has),
         Asks(Head(q), c) => (has2 <=> Head(q).on), ~Asks(Head(q), c) => (has2 <=> has)
  PROVE  Settles(Tail(q), c, want, has2)
<1> DEFINE t == Tail(q)
           h == Head(q)
<1>1. /\ 1 \in DOMAIN q /\ h = q[1]
      /\ \A i \in DOMAIN q : i \in Nat /\ i >= 1
      /\ \A i \in DOMAIN t : i \in Nat /\ i >= 1 /\ i + 1 \in DOMAIN q /\ t[i] = q[i + 1]
      /\ \A i \in DOMAIN q : i # 1 => i - 1 \in DOMAIN t /\ t[i - 1] = q[i]
  BY TailFacts
<1>2. (Asks(h, c) => (has2 <=> h.on)) /\ (~Asks(h, c) => (has2 <=> has))
  OBVIOUS
<1> HIDE DEF t, h
<1>3. ASSUME \A i \in DOMAIN t : ~Asks(t[i], c) PROVE has2 <=> want
  <2>1. \A i \in DOMAIN q : i # 1 => ~Asks(q[i], c)
    BY <1>1, <1>3
  <2>2. CASE Asks(h, c)
    <3>1. ~(h.on <=> ~want)
      BY <1>1, <2>1, <2>2 DEF Settles
    <3> QED BY <1>2, <2>2, <3>1
  <2>3. CASE ~Asks(h, c)
    <3>1. \A i \in DOMAIN q : ~Asks(q[i], c)
      BY <1>1, <2>1, <2>3
    <3> QED BY <1>2, <2>3, <3>1 DEF Settles
  <2> QED BY <2>2, <2>3
<1>4. ASSUME NEW i \in DOMAIN t, Asks(t[i], c), t[i].on <=> ~want
      PROVE  \E j \in DOMAIN t : j > i /\ Asks(t[j], c)
  <2>1. i \in Nat /\ i + 1 \in DOMAIN q /\ q[i + 1] = t[i]
    BY <1>1
  <2>2. PICK j \in DOMAIN q : j > i + 1 /\ Asks(q[j], c)
    BY <1>4, <2>1 DEF Settles
  <2>3. j \in Nat /\ j # 1 /\ j - 1 > i
    BY <1>1, <2>1, <2>2
  <2> QED BY <1>1, <2>2, <2>3
<1> QED BY <1>3, <1>4 DEF Settles, t

LEMMA SettlesRest ==
  ASSUME NEW c, NEW want, NEW has, Settles(<<>>, c, want, has) PROVE has <=> want
<1>1. DOMAIN <<>> = {}
  OBVIOUS
<1> QED BY <1>1 DEF Settles

LEMMA AsksFacts ==
  ASSUME NEW c
  PROVE  /\ \A C \in SUBSET Channels : \A on \in BOOLEAN :
              /\ Asks(Listen(on, C), c) <=> c \in C
              /\ Listen(on, C).on = on
         /\ \A m : m.kind # "listen" => ~Asks(m, c)
BY CommandFacts DEF Asks

\* The web client asks for the stored selection as a whole.
LEMMA RestoresSettle ==
  ASSUME NEW q \in Seq(Commands), None(q, Listening), NEW x \in Screens, NEW c \in Channels
  PROVE  Settles(q \o Restores(x), c, c \in x.prefer, c \in x.listen)
<1> DEFINE a == ListenEach(TRUE, x.prefer \ x.listen)
           b == ListenEach(FALSE, x.listen \ x.prefer)
           r == Restores(x)
<1>1. x.prefer \in SUBSET Channels /\ x.listen \in SUBSET Channels
  BY DEF Screens
<1>2. x.prefer \ x.listen \in SUBSET Channels /\ x.listen \ x.prefer \in SUBSET Channels
  BY <1>1
<1>3. /\ a \in Seq(Commands) /\ b \in Seq(Commands)
      /\ \A i \in DOMAIN a : \E d \in x.prefer \ x.listen : a[i] = Listen(TRUE, {d})
      /\ \A d \in x.prefer \ x.listen : \E i \in DOMAIN a : a[i] = Listen(TRUE, {d})
      /\ \A i \in DOMAIN b : \E d \in x.listen \ x.prefer : b[i] = Listen(FALSE, {d})
      /\ \A d \in x.listen \ x.prefer : \E i \in DOMAIN b : b[i] = Listen(FALSE, {d})
  BY <1>2, EachFacts
<1>4. r = a \o b
  BY DEF Restores
<1> HIDE DEF a, b, r
<1>5. r \in Seq(Commands)
  BY <1>3, <1>4, ConcatFacts
<1>6. \A d \in Channels : \A on \in BOOLEAN : (Asks(Listen(on, {d}), c) <=> c = d) /\ Listen(on, {d}).on = on
  BY AsksFacts
<1>7. /\ \A i \in DOMAIN a : Asks(a[i], c) => c \in x.prefer \ x.listen /\ a[i].on = TRUE
      /\ c \in x.prefer \ x.listen => \E i \in DOMAIN a : Asks(a[i], c)
      /\ \A i \in DOMAIN b : Asks(b[i], c) => c \in x.listen \ x.prefer /\ b[i].on = FALSE
      /\ c \in x.listen \ x.prefer => \E i \in DOMAIN b : Asks(b[i], c)
  <2> HIDE DEF Asks
  <2>1. \A d \in x.prefer \ x.listen : d \in Channels
    BY <1>1
  <2>2. \A d \in x.listen \ x.prefer : d \in Channels
    BY <1>1
  <2>3. ASSUME NEW i \in DOMAIN a, Asks(a[i], c) PROVE c \in x.prefer \ x.listen /\ a[i].on = TRUE
    <3>1. PICK d \in x.prefer \ x.listen : a[i] = Listen(TRUE, {d})
      BY <1>3
    <3>2. d \in Channels
      BY <2>1
    <3>3. (Asks(a[i], c) <=> c = d) /\ a[i].on = TRUE
      BY <1>6, <3>1, <3>2
    <3> QED BY <2>3, <3>3
  <2>4. ASSUME NEW i \in DOMAIN b, Asks(b[i], c) PROVE c \in x.listen \ x.prefer /\ b[i].on = FALSE
    <3>1. PICK d \in x.listen \ x.prefer : b[i] = Listen(FALSE, {d})
      BY <1>3
    <3>2. d \in Channels
      BY <2>2
    <3>3. (Asks(b[i], c) <=> c = d) /\ b[i].on = FALSE
      BY <1>6, <3>1, <3>2
    <3> QED BY <2>4, <3>3
  <2>5. c \in x.prefer \ x.listen => \E i \in DOMAIN a : Asks(a[i], c)
    BY <1>3, <1>6
  <2>6. c \in x.listen \ x.prefer => \E i \in DOMAIN b : Asks(b[i], c)
    BY <1>3, <1>6
  <2> QED BY <2>3, <2>4, <2>5, <2>6
<1>8. a \in Seq(Commands) /\ b \in Seq(Commands)
  BY <1>3
<1>9. /\ \A i \in DOMAIN a : i \in DOMAIN (a \o b) /\ (a \o b)[i] = a[i]
      /\ \A j \in DOMAIN b : Len(a) + j \in DOMAIN (a \o b) /\ (a \o b)[Len(a) + j] = b[j]
      /\ \A i \in DOMAIN (a \o b) : i \in DOMAIN a \/ \E j \in DOMAIN b : i = Len(a) + j
  BY <1>8, Positions
<1>10. \A i \in DOMAIN r : (\E j \in DOMAIN a : r[i] = a[j]) \/ (\E j \in DOMAIN b : r[i] = b[j])
  BY <1>4, <1>9
<1>11. \A i \in DOMAIN r : Asks(r[i], c) => (r[i].on <=> c \in x.prefer) /\ (c \in x.prefer <=> c \notin x.listen)
  BY <1>7, <1>10
<1>12. c \in x.prefer \ x.listen \/ c \in x.listen \ x.prefer => \E i \in DOMAIN r : Asks(r[i], c)
  BY <1>4, <1>7, <1>9
<1>13. CASE \E i \in DOMAIN r : Asks(r[i], c)
  <2>1. PICK l \in DOMAIN r : Asks(r[l], c)
    BY <1>13
  <2> DEFINE want == c \in x.prefer
             has == c \in x.listen
  <2>2. want \in BOOLEAN /\ has \in BOOLEAN /\ \A i \in DOMAIN r : Asks(r[i], c) => (r[i].on <=> want)
    BY <1>11
  <2> HIDE DEF want, has
  <2>3. Settles(q \o r, c, want, has)
    BY <1>5, <2>1, <2>2, SettlesNow
  <2> QED BY <2>3 DEF want, has, r
<1>14. CASE \A i \in DOMAIN r : ~Asks(r[i], c)
  <2> DEFINE want == c \in x.prefer
             has == c \in x.listen
  <2>1. want \in BOOLEAN /\ has \in BOOLEAN /\ (has <=> want)
    BY <1>12, <1>14
  <2>2. \A i \in DOMAIN q : ~Asks(q[i], c)
    BY DEF None, Listening, Asks
  <2>3. Settles(q, c, want, has)
    BY <2>1, <2>2 DEF Settles
  <2> HIDE DEF want, has
  <2>4. Settles(q \o r, c, want, has)
    BY <1>5, <1>14, <2>1, <2>3, SettlesThen
  <2> QED BY <2>4 DEF want, has, r
<1> QED BY <1>13, <1>14

\* The commands that turn confidence channels on ask for nothing else.
LEMMA MonitorsAside ==
  ASSUME NEW x \in Screens
  PROVE  /\ Monitors(x) \in Seq(Commands)
         /\ \A c \in Visible : \A i \in DOMAIN Monitors(x) : ~Asks(Monitors(x)[i], c)
         /\ None(Monitors(x), Listening) => Confidence \subseteq x.listen
<1> DEFINE C == Confidence \ x.listen
           r == Monitors(x)
<1>1. C \in SUBSET Channels /\ \A d \in C : d \in Channels /\ d \notin Visible
  BY OperatorScreenAssumption DEF Visible
<1>2. r = ListenEach(TRUE, C)
  BY DEF Monitors
<1>3. /\ r \in Seq(Commands)
      /\ \A i \in DOMAIN r : \E d \in C : r[i] = Listen(TRUE, {d})
      /\ \A d \in C : \E i \in DOMAIN r : r[i] = Listen(TRUE, {d})
  <2> HIDE DEF C, r
  <2>1. ASSUME NEW on \in BOOLEAN
        PROVE  /\ ListenEach(on, C) \in Seq(Commands)
               /\ \A i \in DOMAIN ListenEach(on, C) : \E d \in C : ListenEach(on, C)[i] = Listen(on, {d})
               /\ \A d \in C : \E i \in DOMAIN ListenEach(on, C) : ListenEach(on, C)[i] = Listen(on, {d})
    BY <1>1, EachFacts
  <2> HIDE DEF ListenEach, Listen
  <2> QED BY <1>2, <2>1
<1> HIDE DEF r
<1>4. ASSUME NEW c \in Visible, NEW i \in DOMAIN r PROVE ~Asks(r[i], c)
  <2>1. PICK d \in C : r[i] = Listen(TRUE, {d})
    BY <1>3
  <2>2. d # c /\ {d} \in SUBSET Channels
    BY <1>1
  <2>3. Asks(Listen(TRUE, {d}), c) <=> c \in {d}
    BY <2>2, AsksFacts
  <2> QED BY <2>1, <2>2, <2>3
<1>5. ASSUME None(r, Listening) PROVE C = {}
  <2>1. \A d : Listen(TRUE, {d}).kind = "listen"
    BY DEF Listen
  <2> HIDE DEF C
  <2>2. ASSUME NEW d \in C PROVE FALSE
    <3>1. PICK i \in DOMAIN r : r[i] = Listen(TRUE, {d})
      BY <1>3
    <3> QED BY <1>5, <2>1, <3>1 DEF None, Listening
  <2> QED BY <2>2
<1>6. None(r, Listening) => Confidence \subseteq x.listen
  BY <1>5
<1> QED BY <1>3, <1>4, <1>6 DEF r

LEMMA CommandPage ==
  ASSUME ScreenInv, NEW k, NEW m \in Commands, m.kind # "authenticate", Command(k, m)
  PROVE  page' \in {page, 0, k}
<1>1. CASE m.kind \in {"talk", "listen"}
  BY <1>1 DEF Command, TalkCommand, ListenCommand
<1>2. CASE m.kind = "page"
  <2>1. PageStarts(k) \/ PageStops \/ UNCHANGED page
    BY <1>2 DEF Command, PageCommand
  <2> QED BY <2>1 DEF PageStarts, PageStops
<1>3. CASE m.kind \in {"call", "accept", "reject", "end"}
  BY <1>3 DEF Command, CallCommand, AnswerCommand
<1> QED BY <1>1, <1>2, <1>3, CommandKinds

LEMMA StepPaged == ScreenInv /\ PagedInv /\ [Next]_vars => PagedInv'
<1> SUFFICES ASSUME ScreenInv, PagedInv, [Next]_vars PROVE PagedInv'
  OBVIOUS
<1>0. 0 # Other /\ Other \notin Logins
  BY SocketParts
<1>1. UNCHANGED paged /\ page' \in {page, 0} \cup Logins => PagedInv'
  <2> SUFFICES ASSUME paged' = paged, page' \in {page, 0} \cup Logins, page' = Other PROVE paged'
    BY DEF PagedInv, Other
  <2>1. page = Other
    BY <1>0
  <2> QED BY <2>1 DEF PagedInv
<1>12. paged' => PagedInv'
  BY DEF PagedInv
<1>2. UNCHANGED <<page, paged>> => PagedInv'
  BY DEF PagedInv, Other
<1>3. ASSUME NEW k \in Logins, NEW kept, kept \in SUBSET SUBSET Channels, Detached(k, kept), UNCHANGED paged
      PROVE  PagedInv'
  BY <1>1, <1>3, DetachedShape
<1>4. CASE SignIn \/ Link \/ LinkLost \/ LinkLostInVoice
  <2>1. UNCHANGED <<page, paged>>
    BY <1>4 DEF SignIn, Link, LinkLost, LinkLostInVoice, Closes, sessionVars, serverState
  <2> QED BY <1>2, <2>1
<1>5. CASE AskSignOut
  <2>1. login \in Logins /\ UNCHANGED paged /\ (Detached(login, {}) \/ UNCHANGED page)
    BY <1>5, SocketParts DEF AskSignOut, serverState
  <2> QED BY <1>2, <1>3, <2>1
<1>6. CASE WebSignOut \/ MobileSignOut
  <2>1. UNCHANGED <<page, paged>>
    BY <1>6 DEF WebSignOut, MobileSignOut, Leave, sessionVars, serverState
  <2> QED BY <1>2, <2>1
<1>7. CASE Operator /\ ~SignIn /\ ~AskSignOut /\ ~WebSignOut /\ ~MobileSignOut
  <2>1. Local
    BY <1>7, OperatorLocal
  <2>2. UNCHANGED <<page, paged>>
    BY <2>1 DEF Local, serverState
  <2> QED BY <1>2, <2>2
<1>8. ASSUME NEW s \in Sockets, Read(s) PROVE PagedInv'
  <2>1. PICK m \in Commands :
           /\ wire[s].server \in {"new", "up"} /\ UNCHANGED paged
           /\ \/ m.kind = "authenticate" /\ Authenticated(s, wire[s].by)
              \/ m.kind # "authenticate" /\ wire[s].server = "up" /\ wire[s].by \in Attached
                 /\ Command(wire[s].by, m) /\ UNCHANGED wire
              \/ m.kind # "authenticate" /\ wire[s].server = "new" /\ UNCHANGED <<wire, serverState, down>>
    BY <1>8, ReadShape
  <2>2. CASE Authenticated(s, wire[s].by)
    <3>1. UNCHANGED page
      BY <2>1, <2>2, AuthenticatedShape
    <3> QED BY <1>2, <2>1, <3>1
  <2>3. CASE m.kind # "authenticate" /\ wire[s].by \in Attached /\ Command(wire[s].by, m)
    <3>1. wire[s].by \in Logins
      BY <2>3 DEF Attached
    <3>2. page' \in {page, 0, wire[s].by}
      BY <2>1, <2>3, CommandPage
    <3> QED BY <1>1, <2>1, <3>1, <3>2
  <2>4. CASE UNCHANGED serverState
    BY <1>2, <2>1, <2>4 DEF serverState
  <2> QED BY <2>1, <2>2, <2>3, <2>4
<1>9. ASSUME NEW s \in Sockets, SocketEnds(s) PROVE PagedInv'
  <2> DEFINE k == wire[s].by
  <2>1. wire[s].server \in {"new", "up"} /\ UNCHANGED paged /\ (Detached(k, {srv[k].listen}) \/ UNCHANGED page)
    BY <1>9 DEF SocketEnds, serverState
  <2>2. k \in Logins
    BY <2>1, ReachesSockets
  <2>3. {srv[k].listen} \in SUBSET SUBSET Channels
    BY <2>2, ServerFields
  <2> HIDE DEF k
  <2> QED BY <1>2, <1>3, <2>1, <2>2, <2>3
<1>10. CASE OtherPeople
  <2>1. \/ paged' = TRUE
        \/ page' = 0 /\ UNCHANGED paged
        \/ UNCHANGED <<page, paged>>
    BY <1>10 DEF OtherPeople, OtherPages, OtherPageEnds, PageStops, Muted, PeerCalls, PeerAccepts, PeerEnds
  <2> QED BY <1>1, <1>2, <1>12, <2>1
<1>11. CASE \/ WebAudioReady \/ MobileAudioReady \/ WebReceives \/ MobileReceives
            \/ UNCHANGED vars
  <2>1. UNCHANGED sessionVars
    BY <1>11 DEF WebAudioReady, MobileAudioReady, BecomesReady, WebReceives, MobileReceives,
              ReceivesNext, Receives, vars
  <2> QED BY <1>2, <2>1 DEF sessionVars, serverState
<1> QED BY <1>4, <1>5, <1>6, <1>7, <1>8, <1>9, <1>10, <1>11 DEF Next, Server

LEMMA CarryFacts ==
  ASSUME NEW L
  PROVE  /\ Carry(<<>>, L)
         /\ \A m : Carry(<<m>>, L) <=> (m.kind = "state" => m.listen = L)
         /\ \A q, r \in Seq(Answers) : Carry(q \o r, L) <=> Carry(q, L) /\ Carry(r, L)
         /\ \A q \in Seq(Answers) : q # <<>> /\ Carry(q, L) =>
              Carry(Tail(q), L) /\ (Head(q).kind = "state" => Head(q).listen = L)
<1>1. Carry(<<>>, L)
  <2>1. DOMAIN <<>> = {}
    OBVIOUS
  <2> QED BY <2>1 DEF Carry
<1>2. ASSUME NEW m PROVE Carry(<<m>>, L) <=> (m.kind = "state" => m.listen = L)
  <2>1. DOMAIN <<m>> = {1} /\ <<m>>[1] = m
    OBVIOUS
  <2> QED BY <2>1 DEF Carry
<1>3. ASSUME NEW q \in Seq(Answers), NEW r \in Seq(Answers)
      PROVE  Carry(q \o r, L) <=> Carry(q, L) /\ Carry(r, L)
  <2>1. /\ \A i \in DOMAIN q : i \in DOMAIN (q \o r) /\ (q \o r)[i] = q[i]
        /\ \A j \in DOMAIN r : Len(q) + j \in DOMAIN (q \o r) /\ (q \o r)[Len(q) + j] = r[j]
        /\ \A i \in DOMAIN (q \o r) : i \in DOMAIN q \/ \E j \in DOMAIN r : i = Len(q) + j
    BY ConcatFacts
  <2>2. ASSUME Carry(q \o r, L) PROVE Carry(q, L) /\ Carry(r, L)
    <3>1. Carry(q, L)
      BY <2>1, <2>2 DEF Carry
    <3>2. ASSUME NEW j \in DOMAIN r, r[j].kind = "state" PROVE r[j].listen = L
      BY <2>1, <2>2, <3>2 DEF Carry
    <3> QED BY <3>1, <3>2 DEF Carry
  <2>3. ASSUME Carry(q, L), Carry(r, L), NEW i \in DOMAIN (q \o r), (q \o r)[i].kind = "state"
        PROVE  (q \o r)[i].listen = L
    <3> DEFINE z == q \o r
    <3>1. (\E j \in DOMAIN q : z[i] = q[j]) \/ (\E j \in DOMAIN r : z[i] = r[j])
      BY <2>1
    <3> QED BY <2>3, <3>1 DEF Carry
  <2> QED BY <2>2, <2>3 DEF Carry
<1>4. ASSUME NEW q \in Seq(Answers), q # <<>>, Carry(q, L)
      PROVE  Carry(Tail(q), L) /\ (Head(q).kind = "state" => Head(q).listen = L)
  <2>1. /\ 1 \in DOMAIN q /\ Head(q) = q[1]
        /\ \A i \in DOMAIN Tail(q) : i + 1 \in DOMAIN q /\ Tail(q)[i] = q[i + 1]
    BY <1>4, TailFacts
  <2> QED BY <1>4, <2>1 DEF Carry
<1> QED BY <1>1, <1>2, <1>3, <1>4

LEMMA NoneFacts ==
  ASSUME NEW q \in Seq(Commands), NEW K
  PROVE  /\ q # <<>> /\ None(q, K) => None(Tail(q), K) /\ Head(q).kind \notin K
         /\ \A r \in Seq(Commands) : None(q, K) /\ None(r, K) => None(q \o r, K)
<1>1. ASSUME q # <<>>, None(q, K) PROVE None(Tail(q), K) /\ Head(q).kind \notin K
  <2>1. /\ 1 \in DOMAIN q /\ Head(q) = q[1]
        /\ \A i \in DOMAIN Tail(q) : i + 1 \in DOMAIN q /\ Tail(q)[i] = q[i + 1]
    BY <1>1, TailFacts
  <2> QED BY <1>1, <2>1 DEF None
<1>2. ASSUME NEW r \in Seq(Commands) PROVE None(q \o r, K) <=> None(q, K) /\ None(r, K)
  BY LastOfConcat
<1> QED BY <1>1, <1>2

\* What the server tells the screen has the selection that it has.
Updates ==
  \E r \in Seq(Answers) : down'[SocketOf] = down[SocketOf] \o r /\ Carry(r, srv'[login].listen)

\* A command changes the selection as it says.
Heeds(m) ==
  \A c \in Channels : c \in srv'[login].listen <=> IF Asks(m, c) THEN m.on ELSE c \in srv[login].listen

LEMMA UpdatesFacts ==
  ASSUME ScreenInv, Live, NEW L, L = srv'[login].listen
  PROVE  /\ down'[SocketOf] = down[SocketOf] => Updates
         /\ \A m \in Answers : down'[SocketOf] = down[SocketOf] \o <<m>> /\ (m.kind = "state" => m.listen = L)
              => Updates
         /\ \A r \in Seq(Answers) : down'[SocketOf] = down[SocketOf] \o r /\ Carry(r, L) => Updates
<1>1. down[SocketOf] \in Seq(Answers)
  BY LiveFacts
<1>2. <<>> \in Seq(Answers) /\ down[SocketOf] \o <<>> = down[SocketOf]
  BY <1>1, ConcatEmptySeq
<1>3. \A m \in Answers : <<m>> \in Seq(Answers)
  BY OneAnswer
<1>4. ASSUME NEW r \in Seq(Answers), down'[SocketOf] = down[SocketOf] \o r, Carry(r, L)
      PROVE  Updates
  BY <1>4 DEF Updates
<1>5. ASSUME down'[SocketOf] = down[SocketOf] PROVE Updates
  <2>1. Carry(<<>>, L) /\ down'[SocketOf] = down[SocketOf] \o <<>>
    BY <1>2, <1>5, CarryFacts
  <2> HIDE DEF Carry
  <2> QED BY <1>2, <1>4, <2>1
<1>6. ASSUME NEW m \in Answers, down'[SocketOf] = down[SocketOf] \o <<m>>, m.kind = "state" => m.listen = L
      PROVE  Updates
  <2>1. Carry(<<m>>, L) /\ <<m>> \in Seq(Answers)
    BY <1>3, <1>6, CarryFacts
  <2> HIDE DEF Carry
  <2> QED BY <1>4, <1>6, <2>1
<1> HIDE DEF Updates, Carry
<1> QED BY <1>4, <1>5, <1>6

LEMMA ChangedUpdates ==
  ASSUME ScreenInv, Live, NEW x \in Sessions, Changed(login, x)
  PROVE  Updates /\ srv'[login] = x
<1>1. login \in Logins
  BY LiveFacts
<1>2. srv'[login] = x /\ down'[SocketOf] = down[SocketOf] \o <<State(x)>>
  BY <1>1, ChangedShape
<1>3. State(x) \in Answers /\ State(x).listen = x.listen
  BY AnswerFacts
<1> HIDE DEF Updates
<1> QED BY <1>2, <1>3, UpdatesFacts

LEMMA LineUpdates ==
  ASSUME ScreenInv, Live, NEW k, NEW m \in Answers, m.kind # "state", Line(k, m)
  PROVE  Updates
<1>1. down'[SocketOf] = down[SocketOf] \o <<m>> \/ down'[SocketOf] = down[SocketOf]
  BY LineShape
<1> HIDE DEF Updates
<1> QED BY <1>1, UpdatesFacts

\* The page button keeps the operator's own selection.
LEMMA PageUpdates ==
  ASSUME ScreenInv, Live, PageStarts(login) \/ PageStops
  PROVE  Updates /\ (PageStarts(login) \/ page = login => srv'[login].listen = srv[login].listen)
<1>1. login \in Logins /\ login \in Nat /\ Logins \subseteq Nat
  BY LiveFacts, SocketParts
<1>2. CASE PageStarts(login)
  <2> DEFINE x == srv'[login]
             n == Notice(login)
             m == State(Muting)
             r == (IF srv[login].talk # x.talk THEN <<m>> ELSE <<>>) \o <<n>>
  <2>1. /\ x \in Sessions /\ x = Paged(login, login) /\ down'[SocketOf] = down[SocketOf] \o r
    BY <1>1, <1>2, PageStartsShape
  <2>2. x.listen = srv[login].listen
    BY <1>1, <2>1, PagedShape
  <2>3. /\ n \in Answers /\ n.kind # "state" /\ m \in Answers /\ m.listen = x.listen
    <3>1. x.talk \in SUBSET Channels /\ srv[login].listen \in SUBSET Channels
      BY <1>1, <2>1, ServerFields DEF Sessions
    <3>2. m \in Answers /\ m.listen = srv[login].listen
      BY <3>1, AnswerFacts DEF Muting
    <3> QED BY <1>1, <2>2, <3>2, AnswerFacts
  <2> DEFINE L == x.listen
             a == IF srv[login].talk # x.talk THEN <<m>> ELSE <<>>
  <2> HIDE DEF m
  <2>4. a \in Seq(Answers) /\ Carry(a, L)
    <3>1. <<m>> \in Seq(Answers) /\ <<>> \in Seq(Answers)
      BY <2>3
    <3>2. Carry(<<m>>, L) /\ Carry(<<>>, L)
      BY <2>3, CarryFacts
    <3> QED BY <3>1, <3>2
  <2>5. <<n>> \in Seq(Answers) /\ Carry(<<n>>, L)
    <3>1. <<n>> \in Seq(Answers)
      BY <2>3
    <3> QED BY <2>3, <3>1, CarryFacts
  <2>6. r = a \o <<n>>
    OBVIOUS
  <2> HIDE DEF a, r, n
  <2>7. r \in Seq(Answers) /\ Carry(r, L)
    BY <2>4, <2>5, <2>6, CarryFacts, ConcatFacts
  <2> HIDE DEF Updates, Carry
  <2> QED BY <2>1, <2>2, <2>7, UpdatesFacts
<1>3. CASE PageStops /\ ~PageStarts(login)
  <2> DEFINE x == srv'[login]
             n == Notice(0)
  <2>1. /\ x \in Sessions /\ x = Unpaged(Attached, login)
        /\ down'[SocketOf] = down[SocketOf] \o <<State(x), n>>
    BY <1>1, <1>3, StopsShape
  <2>2. login = page => x.listen = srv[login].listen
    BY <1>1, <2>1, UnpagedShape
  <2>3. /\ n \in Answers /\ n.kind # "state" /\ State(x) \in Answers /\ State(x).listen = x.listen
    BY <1>1, <2>1, AnswerFacts
  <2>4. <<State(x), n>> \in Seq(Answers) /\ Carry(<<State(x), n>>, x.listen)
    <3> DEFINE y == State(x)
    <3> HIDE DEF y, n
    <3>1. /\ <<y, n>> \in Seq(Answers) /\ DOMAIN <<y, n>> = {1, 2}
          /\ <<y, n>>[1] = y /\ <<y, n>>[2] = n
      BY <2>3, TwoAnswers DEF y
    <3> QED BY <2>3, <3>1 DEF Carry, y
  <2> HIDE DEF Updates, Carry, n
  <2> QED BY <1>3, <2>1, <2>2, <2>4, UpdatesFacts
<1> QED BY <1>2, <1>3

LEMMA UnaskedHeeds ==
  ASSUME NEW m, m.kind # "listen", srv'[login].listen = srv[login].listen PROVE Heeds(m)
BY DEF Heeds, Asks

LEMMA CommandHeeds ==
  ASSUME ScreenInv, Live, NEW m \in Commands, m.kind # "authenticate", Command(login, m)
  PROVE  Updates /\ Heeds(m)
<1>0. login \in Logins /\ login \in Nat /\ 0 \notin Logins
  BY LiveFacts, SocketParts
<1>1. ASSUME UNCHANGED <<srv, down>>, m.kind # "listen" PROVE Updates /\ Heeds(m)
  <2>1. srv'[login].listen = srv[login].listen /\ down'[SocketOf] = down[SocketOf]
    BY <1>1
  <2> HIDE DEF Updates, Heeds
  <2> QED BY <1>1, <2>1, UpdatesFacts, UnaskedHeeds
<1>2. CASE m.kind = "talk"
  <2>1. UNCHANGED <<srv, down>> \/ Changed(login, WithTalk(login, m))
    BY <1>2 DEF Command, TalkCommand, WithTalk
  <2>2. CASE Changed(login, WithTalk(login, m))
    <3>1. WithTalk(login, m) \in Sessions /\ WithTalk(login, m).listen = srv[login].listen
      BY <1>0, <1>2, WithShapes
    <3>2. Updates /\ srv'[login].listen = srv[login].listen
      BY <2>2, <3>1, ChangedUpdates
    <3> HIDE DEF Updates, Heeds
    <3> QED BY <1>2, <3>2, UnaskedHeeds
  <2> HIDE DEF Updates, Heeds
  <2> QED BY <1>1, <1>2, <2>1, <2>2
<1>3. CASE m.kind = "listen"
  <2>1. Changed(login, WithListen(login, m))
    BY <1>3 DEF Command, ListenCommand, WithListen
  <2>2. /\ WithListen(login, m) \in Sessions
        /\ WithListen(login, m).listen = IF m.on THEN srv[login].listen \cup m.of ELSE srv[login].listen \ m.of
    BY <1>0, <1>3, WithShapes
  <2>3. Updates /\ srv'[login] = WithListen(login, m)
    BY <2>1, <2>2, ChangedUpdates
  <2>4. m.on \in BOOLEAN
    BY <1>3, CommandKinds
  <2>5. srv'[login].listen = IF m.on THEN srv[login].listen \cup m.of ELSE srv[login].listen \ m.of
    BY <2>2, <2>3
  <2>6. Heeds(m)
    BY <1>3, <2>4, <2>5 DEF Heeds, Asks
  <2> QED BY <2>3, <2>6
<1>4. CASE m.kind = "page"
  <2>1. \/ PageStarts(login)
        \/ page = login /\ PageStops
        \/ UNCHANGED <<srv, down>>
    BY <1>4 DEF Command, PageCommand
  <2>2. CASE PageStarts(login) \/ (page = login /\ PageStops)
    <3>1. Updates /\ srv'[login].listen = srv[login].listen
      BY <2>2, PageUpdates
    <3> HIDE DEF Updates, Heeds
    <3> QED BY <1>4, <3>1, UnaskedHeeds
  <2> HIDE DEF Updates, Heeds
  <2> QED BY <1>1, <1>4, <2>1, <2>2
<1>5. CASE m.kind \in {"call", "accept", "reject", "end"}
  <2>1. UNCHANGED srv /\ (UNCHANGED down \/ \E n \in Answers : n.kind # "state" /\ Line(login, n))
    <3>1. CASE m.kind = "call"
      BY <3>1, AnswerFacts DEF Command, CallCommand
    <3>2. CASE m.kind \in {"accept", "reject", "end"}
      <4>1. m.id \in Nat
        BY <3>2, CommandKinds
      <4>2. [kind |-> "active", id |-> m.id] \in Answers /\ Ended \in Answers /\ Ended.kind = "ended"
        BY <4>1, AnswerFacts
      <4>3. /\ UNCHANGED srv
            /\ UNCHANGED down \/ Line(login, Ended) \/ Line(login, [kind |-> "active", id |-> m.id])
        BY <3>2 DEF Command, AnswerCommand
      <4> QED BY <4>2, <4>3
    <3> QED BY <1>5, <3>1, <3>2
  <2>2. CASE \E n \in Answers : n.kind # "state" /\ Line(login, n)
    <3>1. PICK n \in Answers : n.kind # "state" /\ Line(login, n)
      BY <2>2
    <3>2. Updates
      BY <3>1, LineUpdates
    <3> HIDE DEF Updates, Heeds
    <3> QED BY <1>5, <2>1, <3>2, UnaskedHeeds
  <2> HIDE DEF Updates, Heeds
  <2> QED BY <1>1, <1>5, <2>1, <2>2
<1> QED BY <1>2, <1>3, <1>4, <1>5, CommandKinds

\* The server reads the next command of the screen.
LEMMA SelectedRead ==
  ASSUME ScreenInv, ScreenInv', Live, Selected, ~scr.known => None(up[SocketOf], Listening),
         up[SocketOf] # <<>>, up'[SocketOf] = Tail(up[SocketOf]), Heeds(Head(up[SocketOf])), Updates,
         SocketOf' = SocketOf, UNCHANGED <<login, scr>>
  PROVE  Selected'
<1> DEFINE q == up[SocketOf]
           h == Head(q)
<1>1. q \in Seq(Commands) /\ q # <<>> /\ login \in Logins /\ down[SocketOf] \in Seq(Answers)
  BY LiveFacts
<1>2. srv[login].listen \in SUBSET Channels /\ srv'[login].listen \in SUBSET Channels
  <2>1. srv' \in [Logins -> Sessions]
    BY ScreenInvParts DEF ScreenInv, SessionShapes, ServerShapes
  <2>2. srv'[login] \in Sessions
    BY <1>1, <2>1
  <2> QED BY <1>1, <2>2, ServerFields DEF Sessions
<1>3. CASE scr.restored = login
  <2>1. ASSUME NEW c \in Visible
        PROVE  Settles(up'[SocketOf], c, c \in scr.prefer, c \in srv'[login].listen)
    <3> DEFINE want == c \in scr.prefer
               has == c \in srv[login].listen
               has2 == c \in srv'[login].listen
    <3>1. want \in BOOLEAN /\ has \in BOOLEAN /\ has2 \in BOOLEAN
      OBVIOUS
    <3>2. Settles(q, c, want, has)
      BY <1>3 DEF Selected
    <3>3. (Asks(h, c) => (has2 <=> h.on)) /\ (~Asks(h, c) => (has2 <=> has))
      BY DEF Heeds, Visible
    <3> HIDE DEF want, has, has2, q, Settles, Asks
    <3>4. Settles(Tail(q), c, want, has2)
      BY <1>1, <3>1, <3>2, <3>3, SettlesTail
    <3> QED BY <3>4 DEF want, has2, q
  <2> HIDE DEF Settles
  <2> QED BY <1>3, <2>1 DEF Selected
<1>4. CASE scr.restored # login
  <2>1. ~scr.known /\ Carry(down[SocketOf], srv[login].listen)
    BY <1>4 DEF Selected
  <2>2. h.kind # "listen"
    BY <1>1, <2>1, NoneFacts DEF Listening
  <2>3. srv'[login].listen = srv[login].listen
    BY <1>2, <2>2 DEF Heeds, Asks
  <2>4. PICK r \in Seq(Answers) : down'[SocketOf] = down[SocketOf] \o r /\ Carry(r, srv'[login].listen)
    BY DEF Updates
  <2> DEFINE d == down[SocketOf]
             L == srv[login].listen
  <2>5. d \in Seq(Answers) /\ r \in Seq(Answers) /\ Carry(d, L) /\ Carry(r, L)
    BY <1>1, <2>1, <2>3, <2>4
  <2> HIDE DEF Carry, d, L
  <2>6. Carry(d \o r, L)
    BY <2>5, CarryFacts
  <2>7. down'[SocketOf'] = d \o r /\ srv'[login'].listen = L
    BY <2>3, <2>4 DEF d, L
  <2>8. Carry(down'[SocketOf'], srv'[login'].listen)
    BY <2>6, <2>7
  <2> QED BY <1>4, <2>1, <2>8 DEF Selected, Carry
<1> QED BY <1>3, <1>4

\* The server tells the screen something of its own.
LEMMA SelectedTold ==
  ASSUME ScreenInv, Live, Selected, up'[SocketOf] = up[SocketOf], Updates,
         srv'[login].listen = srv[login].listen, SocketOf' = SocketOf, UNCHANGED <<login, scr>>
  PROVE  Selected'
<1>1. CASE scr.restored = login
  BY <1>1 DEF Selected, Settles
<1>2. CASE scr.restored # login
  <2>1. ~scr.known /\ Carry(down[SocketOf], srv[login].listen)
    BY <1>2 DEF Selected
  <2>2. PICK r \in Seq(Answers) : down'[SocketOf] = down[SocketOf] \o r /\ Carry(r, srv'[login].listen)
    BY DEF Updates
  <2> DEFINE d == down[SocketOf]
             L == srv[login].listen
  <2>3. d \in Seq(Answers) /\ Carry(d, L) /\ Carry(r, L)
    BY <2>1, <2>2, LiveFacts
  <2> HIDE DEF Carry, d, L
  <2>4. Carry(d \o r, L)
    BY <2>3, CarryFacts
  <2>5. down'[SocketOf'] = d \o r /\ srv'[login'].listen = L
    BY <2>2 DEF d, L
  <2>6. Carry(down'[SocketOf'], srv'[login'].listen)
    BY <2>4, <2>5
  <2> QED BY <1>2, <2>1, <2>6 DEF Selected, Carry
<1> QED BY <1>1, <1>2

\* What a socket is told when it authenticates carries the selection.
LEMMA WelcomeCarries ==
  ASSUME ScreenInv, NEW q \in Seq(Answers), NEW x \in Sessions
  PROVE  \E r \in Seq(Answers) :
           /\ (q \o <<State(x)>>) \o (IF page = 0 THEN <<>> ELSE <<Notice(page)>>) = q \o r
           /\ Carry(r, x.listen)
<1> DEFINE m == State(x)
           p == Notice(page)
           n == IF page = 0 THEN <<>> ELSE <<p>>
           L == x.listen
<1>1. m \in Answers /\ m.listen = L /\ p \in Answers /\ p.kind = "page"
  BY ServerFields, AnswerFacts
<1> HIDE DEF m, p, L
<1>2. <<m>> \in Seq(Answers) /\ <<p>> \in Seq(Answers) /\ <<>> \in Seq(Answers)
  BY <1>1
<1>3. Carry(<<m>>, L) /\ Carry(<<p>>, L) /\ Carry(<<>>, L)
  BY <1>1, CarryFacts
<1>4. n \in Seq(Answers) /\ Carry(n, L)
  BY <1>2, <1>3
<1> HIDE DEF n, Carry
<1>5. <<m>> \o n \in Seq(Answers) /\ Carry(<<m>> \o n, L)
  BY <1>2, <1>3, <1>4, CarryFacts, ConcatFacts
<1>6. (q \o <<m>>) \o n = q \o (<<m>> \o n)
  BY <1>2, <1>4, ConcatAssociative
<1> QED BY <1>5, <1>6 DEF m, n, p, L

LEMMA AuthenticatedWelcomes ==
  ASSUME ScreenInv, NEW s \in Sockets, wire[s].server \in {"new", "up"},
         NEW k, k = wire[s].by, Authenticated(s, k), ~UNCHANGED <<wire, serverState, down>>
  PROVE  /\ srv' \in [Logins -> Sessions]
         /\ wire'[s].client = wire[s].client
         /\ k \in Attached => srv'[k] = srv[k]
         /\ wire[s].client = "open" =>
              down'[s] = (down[s] \o <<State(srv'[k])>>)
                           \o (IF page = 0 THEN <<>> ELSE <<Notice(page)>>)
<1>1. /\ \A r \in Sockets \ {s} : wire'[r] = wire[r] /\ down'[r] = down[r]
      /\ srv' \in [Logins -> Sessions] /\ \A j \in Logins \ {k} : srv'[j] = srv[j]
      /\ k \in Attached => srv'[k] = srv[k]
      /\ wire'[s].client = wire[s].client
      /\ wire[s].client = "open" =>
           down'[s] = (down[s] \o <<State(srv'[k])>>)
                        \o (IF page = 0 THEN <<>> ELSE <<Notice(page)>>)
  BY AuthenticatedShape
<1> QED BY <1>1

LEMMA AuthenticatedSelected ==
  ASSUME ScreenInv, ScreenInv', BlankInv, ListenInv, Authenticated(SocketOf, login), UNCHANGED <<login, client, scr>>,
         SocketOf # 0, wire[SocketOf].server \in {"new", "up"}, Web, scr.stored # {}, FirstSocket, SocketOf' = SocketOf,
         up[SocketOf] # <<>>, up'[SocketOf] = Tail(up[SocketOf]), Head(up[SocketOf]).kind = "authenticate",
         Live', ~paged
  PROVE  Selected'
<1>1. SocketOf \in Sockets /\ wire[SocketOf].by = login /\ login \in Logins /\ 0 \notin Logins
  BY SocketParts
<1>2. Live => Selected /\ (~scr.known => None(up[SocketOf], Listening))
  BY DEF ListenInv, Live
<1> DEFINE h == Head(up[SocketOf])
<1>3. CASE UNCHANGED <<wire, serverState, down>>
  <2>1. Live
    BY <1>3, SameLive
  <2>2. srv'[login].listen = srv[login].listen /\ down'[SocketOf] = down[SocketOf]
    BY <1>3 DEF serverState
  <2> HIDE DEF Updates, Heeds, Selected, None
  <2>3. Updates /\ Heeds(h)
    BY <2>1, <2>2, UpdatesFacts, UnaskedHeeds
  <2> QED BY <1>2, <2>1, <2>3, SelectedRead
<1>4. CASE ~UNCHANGED <<wire, serverState, down>>
  <2>1. /\ srv' \in [Logins -> Sessions]
        /\ wire'[SocketOf].client = wire[SocketOf].client
        /\ login \in Attached => srv'[login] = srv[login]
        /\ wire[SocketOf].client = "open" =>
             down'[SocketOf] = (down[SocketOf] \o <<State(srv'[login])>>)
                                 \o (IF page = 0 THEN <<>> ELSE <<Notice(page)>>)
    <3>1. SocketOf \in Sockets /\ login = wire[SocketOf].by
      BY <1>1
    <3> QED BY <1>4, <3>1, AuthenticatedWelcomes
  <2>2. wire'[SocketOf].client = "open" /\ down[SocketOf] \in Seq(Answers) /\ srv'[login] \in Sessions
    BY <1>1, <2>1, ScreenInvParts DEF Live, CanSend
  <2>3. PICK r \in Seq(Answers) : down'[SocketOf] = down[SocketOf] \o r /\ Carry(r, srv'[login].listen)
    BY <2>1, <2>2, WelcomeCarries
  <2>4. CASE wire[SocketOf].server = "up"
    <3>1. Live
      BY <2>1, <2>2, <2>4 DEF Live, CanSend
    <3>2. srv'[login] = srv[login]
      BY <2>1, <3>1, LiveFacts
    <3>3. Updates
      BY <2>3 DEF Updates
    <3> HIDE DEF Updates, Heeds, Selected, None
    <3>4. Heeds(h)
      BY <3>2, UnaskedHeeds
    <3> QED BY <1>2, <3>1, <3>3, <3>4, SelectedRead
  <2>5. CASE wire[SocketOf].server = "new"
    <3>1. Unheard
      BY <2>5 DEF Unheard
    <3>2. ~scr.known /\ scr.restored # login
      BY <1>1, <3>1 DEF BlankInv
    <3>3. down[SocketOf] = <<>>
      BY <1>1, <2>5 DEF ScreenInv, SocketsUsed
    <3>4. down'[SocketOf'] = r
      BY <2>3, <3>3, ConcatEmptySeq
    <3>5. Carry(down'[SocketOf'], srv'[login'].listen)
      BY <2>3, <3>4 DEF Carry
    <3> QED BY <3>2, <3>5 DEF Selected, Carry
  <2> QED BY <2>4, <2>5
<1> QED BY <1>3, <1>4

LEMMA ReadListen ==
  ASSUME ScreenInv, ScreenInv', BlankInv, ListenInv, NEW s \in Sockets, Read(s), UNCHANGED scr
  PROVE  ListenInv'
<1>1. PICK m \in Commands :
           /\ m = Head(up[s]) /\ up[s] # <<>> /\ up[s] \in Seq(Commands) /\ up'[s] = Tail(up[s])
           /\ wire[s].server \in {"new", "up"} /\ wire[s].by \in Logins
           /\ UNCHANGED <<device, login, client, paged>>
           /\ \/ m.kind = "authenticate" /\ Authenticated(s, wire[s].by)
              \/ m.kind # "authenticate" /\ wire[s].server = "up" /\ wire[s].by \in Attached
                 /\ Command(wire[s].by, m) /\ UNCHANGED wire
              \/ m.kind # "authenticate" /\ wire[s].server = "new" /\ UNCHANGED <<wire, serverState, down>>
  BY ReadShape
<1> SUFFICES ASSUME Web', scr.stored # {}, FirstSocket'
             PROVE  /\ CanSend' /\ ~scr.known => None(up'[SocketOf'], Listening)
                    /\ Live' /\ ~paged => Selected'
  BY <1>1 DEF ListenInv, None
<1>2. \A r \in Sockets : wire'[r].by = wire[r].by /\ wire'[r].client = wire[r].client
  <2>1. CASE UNCHANGED wire
    BY <2>1
  <2>2. CASE Authenticated(s, wire[s].by) /\ ~UNCHANGED <<wire, serverState, down>>
    <3>1. /\ wire'[s].by = wire[s].by /\ wire'[s].client = wire[s].client
          /\ \A r \in Sockets \ {s} : wire'[r] = wire[r]
      BY <1>1, <2>2, AuthenticatedShape
    <3> QED BY <3>1
  <2> QED BY <1>1, <2>1, <2>2
<1>3. FirstSocket /\ SocketOf' = SocketOf
  BY <1>1, <1>2, FirstBack
<1>4. s = SocketOf /\ SocketOf # 0
  BY <1>1, <1>3, FirstAlone, SocketParts
<1>5. wire[SocketOf].by = login /\ Web
  BY <1>1, <1>4, SocketParts DEF Web
<1>6. CanSend' => CanSend
  BY <1>2, <1>3, <1>4 DEF CanSend
<1>7. ASSUME CanSend', ~scr.known PROVE None(up'[SocketOf'], Listening)
  <2>1. None(up[s], Listening)
    BY <1>3, <1>4, <1>5, <1>6, <1>7 DEF ListenInv
  <2> HIDE DEF None
  <2>2. None(Tail(up[s]), Listening)
    BY <1>1, <2>1, NoneFacts
  <2>3. up'[SocketOf'] = Tail(up[s])
    BY <1>1, <1>3, <1>4
  <2> QED BY <2>2, <2>3
<1>8. ASSUME Live', ~paged PROVE Selected'
  <2>1. CASE m.kind = "authenticate" /\ Authenticated(s, wire[s].by)
    BY <1>1, <1>3, <1>4, <1>5, <1>8, <2>1, AuthenticatedSelected
  <2>2. CASE m.kind # "authenticate" /\ Command(wire[s].by, m) /\ UNCHANGED wire
    <3>1. Live
      BY <1>1, <1>8, <2>2, SameLive
    <3>2. Updates /\ Heeds(m)
      BY <1>4, <1>5, <2>2, <3>1, CommandHeeds
    <3>3. Selected /\ (~scr.known => None(up[SocketOf], Listening))
      BY <1>3, <1>5, <1>8, <3>1 DEF ListenInv, Live
    <3> HIDE DEF Updates, Heeds, Selected, None, ListenInv
    <3> QED BY <1>1, <1>3, <1>4, <3>1, <3>2, <3>3, SelectedRead
  <2>3. CASE wire[s].server = "new" /\ UNCHANGED wire
    <3>1. wire'[SocketOf'].server = "new"
      BY <1>3, <1>4, <2>3
    <3> QED BY <1>8, <3>1 DEF Live
  <2> QED BY <1>1, <2>1, <2>2, <2>3
<1> QED BY <1>7, <1>8

\* Nothing is said of a connection that is not open.
LEMMA OfflineListen == ASSUME ~CanSend' PROVE ListenInv'
BY DEF ListenInv, Live

LEMMA QuietListen ==
  ASSUME ScreenInv, SocketOf' = SocketOf, ~Live', up'[SocketOf] = <<>> \/ ~CanSend'
  PROVE  ListenInv'
<1>1. up'[SocketOf'] = <<>> => None(up[SocketOf], Listening)'
  <2>1. DOMAIN <<>> = {}
    OBVIOUS
  <2> QED BY <2>1 DEF None
<1> HIDE DEF None, Selected
<1>2. CanSend' => None(up[SocketOf], Listening)'
  BY <1>1
<1> QED BY <1>2 DEF ListenInv

\* What leaves the line and the selection alone.
LEMMA SameListen ==
  ASSUME ScreenInv, ListenInv, UNCHANGED <<device, login, client, wire, up, down, srv, paged>>,
         scr'.known = scr.known, scr'.prefer = scr.prefer, scr'.restored = scr.restored,
         scr'.stored = scr.stored
  PROVE  ListenInv'
<1>1. SocketOf' = SocketOf /\ (Live' <=> Live)
  BY SameLive
<1>2. (FirstSocket' <=> FirstSocket) /\ (Web' <=> Web) /\ (CanSend' <=> CanSend)
  BY <1>1 DEF FirstSocket, Web, CanSend
<1>3. (None(up[SocketOf], Listening) => None(up[SocketOf], Listening)') /\ (Selected => Selected')
  <2>1. None(up[SocketOf], Listening) => None(up[SocketOf], Listening)'
    BY <1>1 DEF None, Listening
  <2>2. Selected => Selected'
    BY <1>1 DEF Selected, Settles, Carry
  <2> QED BY <2>1, <2>2
<1> HIDE DEF None, Selected, Live, FirstSocket, CanSend, Web
<1> QED BY <1>1, <1>2, <1>3 DEF ListenInv

LEMMA SocketEndsListen ==
  ASSUME ScreenInv, NEW s \in Sockets, SocketEnds(s) PROVE ListenInv'
<1>1. FirstSocket' => s = SocketOf /\ SocketOf' = SocketOf /\ wire'[SocketOf].server = "gone"
  BY SocketEndsHeard
<1>2. up' = UpOf({s})
  BY DEF SocketEnds
<1>3. up'[s] = <<>>
  BY <1>2, UpOfShape
<1>4. FirstSocket' => ~Live'
  BY <1>1 DEF Live
<1> HIDE DEF ListenInv
<1>5. FirstSocket' => ListenInv'
  BY <1>1, <1>3, <1>4, QuietListen
<1>6. ~FirstSocket' => ListenInv'
  BY DEF ListenInv
<1> QED BY <1>5, <1>6

LEMMA AskSignOutListen == ASSUME ScreenInv, ListenInv, AskSignOut PROVE ListenInv'
<1>1. /\ login # 0 /\ UNCHANGED <<device, login, client, paged, scr>>
      /\ \/ UNCHANGED <<wire, up, serverState, down>>
         \/ LET S == {s \in Sockets : wire[s].by = login} IN wire' = ServerEnds(S) /\ up' = UpOf(S)
  BY DEF AskSignOut, SessionDeleted
<1>2. SocketOf' = SocketOf
  BY <1>1, SameLive
<1>3. CASE UNCHANGED <<wire, up, serverState, down>>
  BY <1>1, <1>3, SameListen DEF serverState
<1>4. CASE ~UNCHANGED <<wire, up, serverState, down>> /\ CanSend'
  <2> DEFINE S == {s \in Sockets : wire[s].by = login}
  <2>1. wire' = ServerEnds(S) /\ up' = UpOf(S)
    BY <1>1, <1>4
  <2>2. SocketOf \in S
    BY <1>2, <1>4, SocketParts DEF CanSend
  <2> HIDE DEF S
  <2>3. SocketOf \in Sockets
    BY <1>2, <1>4, SocketParts DEF CanSend
  <2>4. wire'[SocketOf].server \in {"none", "gone"} /\ up'[SocketOf] = <<>>
    BY <2>1, <2>2, <2>3, EndedShape, UpOfShape
  <2>5. ~Live'
    BY <1>2, <2>4 DEF Live
  <2> QED BY <1>2, <2>4, <2>5, QuietListen
<1> QED BY <1>3, <1>4, OfflineListen

LEMMA OthersListen ==
  ASSUME ScreenInv, PagedInv, ListenInv, OtherPeople, UNCHANGED scr PROVE ListenInv'
<1>1. UNCHANGED <<device, login, client, wire, up>>
  BY DEF OtherPeople, OtherPages, OtherPageEnds, Muted, PeerCalls, PeerAccepts, PeerEnds, Happens
<1>2. SocketOf' = SocketOf /\ (Live' <=> Live)
  BY <1>1, SameLive
<1>3. (FirstSocket' <=> FirstSocket) /\ (Web' <=> Web) /\ (CanSend' <=> CanSend)
  BY <1>1, <1>2 DEF FirstSocket, Web, CanSend
<1>4. None(up[SocketOf], Listening) => None(up[SocketOf], Listening)'
  BY <1>1, <1>2 DEF None, Listening
<1>5. Live /\ ~paged' => ~paged /\ Updates /\ srv'[login].listen = srv[login].listen
  <2> SUFFICES ASSUME Live, ~paged' PROVE ~paged /\ Updates /\ srv'[login].listen = srv[login].listen
    OBVIOUS
  <2>0. login \in Logins
    BY LiveFacts
  <2>1. ~OtherPages /\ ~OtherPageEnds
    BY DEF OtherPages, OtherPageEnds, PagedInv
  <2>2. CASE PeerAccepts \/ PeerEnds \/ \E k \in Logins : PeerCalls(k)
    <3>1. /\ UNCHANGED <<srv, paged>>
          /\ \E k : \/ Line(k, Ended) \/ Line(k, [kind |-> "active", id |-> call.id])
                    \/ Line(k, [kind |-> "incoming", id |-> calls + 1])
      BY <2>2 DEF PeerAccepts, PeerEnds, PeerCalls
    <3>2. call.id \in Nat /\ calls + 1 \in Nat
      BY CallParts
    <3>3. /\ Ended \in Answers /\ Ended.kind = "ended" /\ [kind |-> "active", id |-> call.id] \in Answers
          /\ [kind |-> "incoming", id |-> calls + 1] \in Answers
      BY <3>2, AnswerFacts
    <3>4. \E k : \E m \in Answers : m.kind # "state" /\ Line(k, m)
      BY <3>1, <3>3
    <3>5. Updates
      BY <3>4, LineUpdates
    <3> QED BY <3>1, <3>5
  <2>3. ASSUME NEW k \in Logins, Muted(k)
        PROVE  ~paged /\ Updates /\ srv'[login].listen = srv[login].listen
    <3> DEFINE x == [srv[k] EXCEPT !.talk = {}]
    <3>1. x \in Sessions /\ x.listen = srv[k].listen
      <4>1. srv[k] \in Sessions /\ {} \in SUBSET Channels
        BY ServerFields
      <4> QED BY <4>1 DEF Sessions
    <3>2. Changed(k, x) /\ UNCHANGED paged
      BY <2>3 DEF Muted
    <3> HIDE DEF x
    <3>3. CASE k = login
      <4>1. Updates /\ srv'[login] = x
        BY <3>1, <3>2, <3>3, ChangedUpdates
      <4> QED BY <3>1, <3>2, <3>3, <4>1
    <3>4. CASE k # login
      <4>1. down'[SocketOf] = down[SocketOf] /\ srv'[login] = srv[login]
        BY <2>0, <3>1, <3>2, <3>4, ChangedShape
      <4> HIDE DEF Updates
      <4>2. Updates
        BY <4>1, UpdatesFacts
      <4> QED BY <3>2, <4>1, <4>2
    <3> QED BY <3>3, <3>4
  <2> QED BY <2>1, <2>2, <2>3 DEF OtherPeople
<1>6. Live /\ ~paged' /\ Selected => Selected'
  <2> HIDE DEF Selected, Updates
  <2> QED BY <1>1, <1>2, <1>5, SelectedTold
<1> HIDE DEF None, Selected, Live, FirstSocket, CanSend, Web
<1> QED BY <1>1, <1>2, <1>3, <1>4, <1>5, <1>6 DEF ListenInv

\* A step of the operator changes the stored selection with the command that
\* asks for it, or does neither.
Chooses ==
  \/ scr'.prefer = scr.prefer /\ \E r \in Seq(Commands) : None(r, Listening) /\ Sent(r)
  \/ \E c \in Visible : WebListen(c)

LEMMA NoListening ==
  /\ <<>> \in Seq(Commands) /\ None(<<>>, Listening)
  /\ \A m \in Commands : m.kind # "listen" => <<m>> \in Seq(Commands) /\ None(<<m>>, Listening)
  /\ \A on \in BOOLEAN : \A C \in SUBSET Channels :
       /\ TalkEach(on, C) \in Seq(Commands) /\ None(TalkEach(on, C), Listening)
       /\ <<Talk(on, C)>> \in Seq(Commands) /\ None(<<Talk(on, C)>>, Listening)
<1>1. <<>> \in Seq(Commands) /\ None(<<>>, Listening)
  BY OneCommand, LastOfNothing
<1>2. ASSUME NEW m \in Commands, m.kind # "listen" PROVE <<m>> \in Seq(Commands) /\ None(<<m>>, Listening)
  <2>1. None(<<m>>, Listening) <=> m.kind \notin Listening
    BY LastOfOne
  <2> QED BY <1>2, <2>1, OneCommand DEF Listening
<1>3. ASSUME NEW on \in BOOLEAN, NEW C \in SUBSET Channels
      PROVE  TalkEach(on, C) \in Seq(Commands) /\ None(TalkEach(on, C), Listening)
  <2>1. /\ TalkEach(on, C) \in Seq(Commands)
        /\ \A i \in DOMAIN TalkEach(on, C) : \E c \in C : TalkEach(on, C)[i] = Talk(on, {c})
    BY EachFacts
  <2>2. \A c \in C : Talk(on, {c}).kind = "talk"
    BY DEF Talk
  <2> QED BY <2>1, <2>2 DEF None, Listening
<1>4. ASSUME NEW on \in BOOLEAN, NEW C \in SUBSET Channels
      PROVE  <<Talk(on, C)>> \in Seq(Commands) /\ None(<<Talk(on, C)>>, Listening)
  <2>1. Talk(on, C) \in Commands /\ Talk(on, C).kind # "listen"
    BY CommandFacts
  <2> QED BY <1>2, <2>1
<1> HIDE DEF None
<1> QED BY <1>1, <1>2, <1>3, <1>4

LEMMA HoldsChooses ==
  ASSUME ScreenInv, NEW c \in Channels, WebPress(c) \/ KeyPress(c) \/ Release(c), Web
  PROVE  Chooses
<1>1. scr \in Screens /\ {c} \in SUBSET Channels
  BY ScreenFields
<1>2. \E h \in {"button", "key", "no"} : scr' = [scr EXCEPT !.held[c] = h]
  BY DEF WebPress, KeyPress, Release, Holds
<1>3. scr'.prefer = scr.prefer
  BY <1>1, <1>2 DEF Screens
<1>4. Sent(<<>>) \/ Sent(<<Talk(TRUE, {c})>>) \/ Sent(<<Talk(FALSE, {c})>>)
  BY DEF WebPress, KeyPress, Release, Holds, WebStarts, ReleaseSends, KeyReleases, ButtonReleases, WebStops
<1>5. \E r \in Seq(Commands) : None(r, Listening) /\ Sent(r)
  <2> HIDE DEF None, Sent, Talk
  <2> QED BY <1>1, <1>4, NoListening
<1> QED BY <1>3, <1>5 DEF Chooses

LEMMA TalksChoose ==
  ASSUME ScreenInv, UNCHANGED scr,
         \/ \E c \in Channels : WebTap(c)
         \/ Escape \/ WebVoice \/ WebSilence \/ WebPageButton \/ Accept
  PROVE  Chooses
<1>1. /\ scr.talk \in SUBSET Channels /\ vox.channels \in SUBSET Channels /\ vox.view \in SUBSET Channels
      /\ scr.incoming \in Nat
  BY ScreenFields
<1>2. ASSUME NEW r \in Seq(Commands), None(r, Listening), Sent(r) PROVE Chooses
  BY <1>2 DEF Chooses
<1>3. CASE \E c \in Channels : WebTap(c)
  <2>1. PICK c \in Channels : Sent(<<Talk(c \notin scr.talk, {c})>>)
    BY <1>3 DEF WebTap, Taps
  <2> DEFINE on == c \notin scr.talk
  <2>2. on \in BOOLEAN /\ {c} \in SUBSET Channels
    OBVIOUS
  <2> HIDE DEF on, None, Sent, Talk, Chooses
  <2>3. Sent(<<Talk(on, {c})>>)
    BY <2>1 DEF on
  <2> QED BY <1>2, <2>2, <2>3, NoListening
<1>4. CASE Escape
  <2>1. Sent(TalkEach(FALSE, scr.talk))
    BY <1>4 DEF Escape
  <2> HIDE DEF None, Sent, Chooses
  <2> QED BY <1>1, <1>2, <2>1, NoListening
<1>5. CASE WebVoice \/ WebSilence
  <2> DEFINE C == vox.channels \ vox.view
             D == vox.channels \cap vox.view
  <2>1. Sent(TalkEach(TRUE, C)) \/ Sent(TalkEach(FALSE, D)) \/ Sent(<<>>)
    BY <1>5 DEF WebVoice, WebSilence, Voice, Silence, DetectorStops
  <2>2. C \in SUBSET Channels /\ D \in SUBSET Channels
    BY <1>1
  <2> HIDE DEF C, D, None, Sent, Chooses
  <2> QED BY <1>2, <2>1, <2>2, NoListening
<1>6. CASE WebPageButton
  <2> DEFINE on == scr.page # "me"
             m == [kind |-> "page", on |-> on]
  <2>1. Sent(<<m>>)
    BY <1>6 DEF WebPageButton, Pages
  <2>2. m \in Commands /\ m.kind # "listen"
    BY CommandFacts
  <2> HIDE DEF m, None, Sent, Chooses
  <2> QED BY <1>2, <2>1, <2>2, NoListening
<1>7. CASE Accept
  <2> DEFINE m == [kind |-> "accept", id |-> scr.incoming]
  <2>1. Sent(<<m>>)
    BY <1>7 DEF Accept
  <2>2. m \in Commands /\ m.kind # "listen"
    BY <1>1, CommandFacts
  <2> HIDE DEF m, None, Sent, Chooses
  <2> QED BY <1>2, <2>1, <2>2, NoListening
<1> QED BY <1>3, <1>4, <1>5, <1>6, <1>7

LEMMA ModesChoose ==
  ASSUME ScreenInv, NEW c \in Channels, ToggleLatchMode(c) \/ ToggleVoxMode(c) PROVE Chooses
<1>1. scr \in Screens /\ vox.channels \cap vox.view \in SUBSET Channels
  BY ScreenFields
<1>2. (\E L, V : scr' = [scr EXCEPT !.latch = L, !.voxed = V]) /\ Sent(DetectorStops)
  BY DEF ToggleLatchMode, ToggleVoxMode, WebModes
<1>3. scr'.prefer = scr.prefer
  BY <1>1, <1>2 DEF Screens
<1> DEFINE D == vox.channels \cap vox.view
<1>4. DetectorStops \in {TalkEach(FALSE, D), <<>>}
  BY DEF DetectorStops
<1>5. D \in SUBSET Channels
  BY <1>1
<1> HIDE DEF None, Sent, DetectorStops, D
<1>6. DetectorStops \in Seq(Commands) /\ None(DetectorStops, Listening)
  BY <1>4, <1>5, NoListening
<1> QED BY <1>2, <1>3, <1>6 DEF Chooses

LEMMA CallsChoose == ASSUME ScreenInv, CallPeer \/ Reject \/ HangUp PROVE Chooses
<1>1. scr \in Screens /\ scr.incoming \in Nat /\ scr.direct.id \in Nat
  BY ScreenFields
<1>2. scr'.prefer = scr.prefer
  BY <1>1 DEF CallPeer, Reject, HangUp, Screens
<1>3. \E m \in Commands : m.kind # "listen" /\ Sent(<<m>>)
  <2>1. CASE CallPeer
    <3>1. [kind |-> "call"] \in Commands
      BY CommandFacts
    <3> QED BY <2>1, <3>1 DEF CallPeer
  <2>2. CASE Reject
    <3>1. [kind |-> "reject", id |-> scr.incoming] \in Commands
      BY <1>1, CommandFacts
    <3> QED BY <2>2, <3>1 DEF Reject
  <2>3. CASE HangUp
    <3>1. [kind |-> "end", id |-> scr.direct.id] \in Commands
      BY <1>1, CommandFacts
    <3> QED BY <2>3, <3>1 DEF HangUp
  <2> QED BY <2>1, <2>2, <2>3
<1> HIDE DEF None, Sent
<1>4. \E r \in Seq(Commands) : None(r, Listening) /\ Sent(r)
  BY <1>3, NoListening
<1> QED BY <1>2, <1>4 DEF Chooses

LEMMA OperatorChooses ==
  ASSUME ScreenInv, Web, Operator, ~SignIn, ~AskSignOut, ~WebSignOut, ~MobileSignOut PROVE Chooses
<1>1. /\ ~Widget /\ ~LatchSwitch /\ ~VoxSwitch /\ ~MobileVoice /\ ~MobileSilence /\ ~MobilePageButton /\ ~Disarm
      /\ \A c \in Channels : ~MobilePress(c) /\ ~MobileTap(c) /\ ~MobileListen(c)
  BY DEF Disarm, Widget, LatchSwitch, VoxSwitch, MobileVoice, MobileSilence, MobilePageButton, MobilePress,
         MobileTap, MobileListen
<1>2. Escape \/ WebVoice \/ WebSilence \/ WebPageButton \/ Accept => Chooses
  <2>1. Escape \/ WebVoice \/ WebSilence \/ WebPageButton \/ Accept => UNCHANGED scr
    BY DEF Escape, WebVoice, Voice, WebSilence, Silence, WebPageButton, Pages, Accept
  <2> QED BY <2>1, TalksChoose
<1>3. CallPeer \/ Reject \/ HangUp => Chooses
  BY CallsChoose
<1>4. ASSUME NEW c \in Visible
      PROVE  /\ WebPress(c) \/ KeyPress(c) \/ Release(c) \/ WebTap(c) => Chooses
             /\ ToggleLatchMode(c) \/ ToggleVoxMode(c) \/ WebListen(c) => Chooses
  <2>1. WebTap(c) => UNCHANGED scr
    BY DEF WebTap, Taps
  <2>2. WebListen(c) => Chooses
    BY DEF Chooses
  <2>3. c \in Channels
    BY DEF Visible
  <2> HIDE DEF Chooses
  <2> QED BY <2>1, <2>3, <2>2, HoldsChooses, TalksChoose, ModesChoose
<1> HIDE DEF Chooses
<1>5. Visible \subseteq Channels
  BY DEF Visible
<1> QED BY <1>1, <1>2, <1>3, <1>4, <1>5 DEF Operator

\* What is sent does not ask for the selection, nor does the stored one change.
LEMMA SelectedSent ==
  ASSUME ScreenInv, CanSend, Selected, Live, NEW r \in Seq(Commands), None(r, Listening),
         up'[SocketOf] = up[SocketOf] \o r, SocketOf' = SocketOf, UNCHANGED <<login, srv, down>>,
         scr'.prefer = scr.prefer, scr'.restored = scr.restored, scr'.known = scr.known
  PROVE  Selected'
<1>1. CASE scr.restored = login
  <2>1. ASSUME NEW c \in Visible
        PROVE  Settles(up'[SocketOf], c, c \in scr.prefer, c \in srv[login].listen)
    <3> DEFINE q == up[SocketOf]
               want == c \in scr.prefer
               has == c \in srv[login].listen
    <3>1. q \in Seq(Commands) /\ want \in BOOLEAN /\ has \in BOOLEAN
      BY LiveFacts
    <3>2. Settles(q, c, want, has)
      BY <1>1 DEF Selected
    <3>3. \A i \in DOMAIN r : ~Asks(r[i], c)
      BY DEF None, Listening, Asks
    <3> HIDE DEF q, want, has, Settles, Asks
    <3>4. Settles(q \o r, c, want, has)
      BY <3>1, <3>2, <3>3, SettlesThen
    <3> QED BY <3>4 DEF q, want, has
  <2> HIDE DEF Settles
  <2> QED BY <1>1, <2>1 DEF Selected
<1>2. CASE scr.restored # login
  BY <1>2 DEF Selected, Carry
<1> QED BY <1>1, <1>2

\* updateListen: the command says what is stored.
LEMMA SelectedChosen ==
  ASSUME ScreenInv, Selected, Live, NEW c \in Visible, WebListen(c), SocketOf' = SocketOf,
         UNCHANGED <<login, srv>>, scr'.restored = scr.restored
  PROVE  Selected'
<1> DEFINE on == c \notin scr.listen
           m == Listen(on, {c})
           q == up[SocketOf]
           r == <<m>>
<1>1. scr \in Screens /\ scr.known
  BY ScreenFields DEF WebListen, Controls
<1>2. scr.restored = login
  BY <1>1 DEF Selected
<1>3. /\ Sent(r) /\ scr' = [scr EXCEPT !.prefer = IF c \in scr.listen THEN @ \ {c} ELSE @ \cup {c}]
  BY DEF WebListen, Listens
<1>4. scr'.prefer = IF on THEN scr.prefer \cup {c} ELSE scr.prefer \ {c}
  BY <1>1, <1>3 DEF Screens
<1>5. on \in BOOLEAN /\ {c} \in SUBSET Channels
  BY DEF Visible
<1>6. m \in Commands
  BY <1>5, CommandFacts
<1>7. \A d : (Asks(m, d) <=> d = c) /\ m.on = on
  <2> HIDE DEF on, Asks
  <2> QED BY <1>5, AsksFacts
<1> HIDE DEF m, on
<1>8. r \in Seq(Commands) /\ DOMAIN r = {1} /\ r[1] = m
  BY <1>6
<1>9. q \in Seq(Commands) /\ up'[SocketOf] = q \o r
  BY <1>3, <1>8, LiveFacts, SentShape DEF Live
<1>10. ASSUME NEW d \in Visible
       PROVE  Settles(up'[SocketOf], d, d \in scr'.prefer, d \in srv[login].listen)
  <2> DEFINE want == d \in scr'.prefer
             has == d \in srv[login].listen
  <2>1. want \in BOOLEAN /\ has \in BOOLEAN
    OBVIOUS
  <2>2. CASE d = c
    <3>1. want <=> on
      BY <1>4, <2>2
    <3>2. 1 \in DOMAIN r /\ Asks(r[1], d) /\ \A i \in DOMAIN r : Asks(r[i], d) => (r[i].on <=> want)
      BY <1>7, <1>8, <2>2, <3>1
    <3> HIDE DEF want, has, Settles, Asks, q, r
    <3>3. Settles(q \o r, d, want, has)
      BY <1>8, <1>9, <2>1, <3>2, SettlesNow
    <3> QED BY <1>9, <3>3 DEF want, has
  <2>3. CASE d # c
    <3>1. want <=> d \in scr.prefer
      BY <1>4, <2>3
    <3>2. Settles(q, d, want, has)
      BY <1>2, <3>1 DEF Selected, Settles
    <3>3. \A i \in DOMAIN r : ~Asks(r[i], d)
      BY <1>7, <1>8, <2>3
    <3> HIDE DEF want, has, Settles, Asks, q, r
    <3>4. Settles(q \o r, d, want, has)
      BY <1>8, <1>9, <2>1, <3>2, <3>3, SettlesThen
    <3> QED BY <1>9, <3>4 DEF want, has
  <2> QED BY <2>2, <2>3
<1> HIDE DEF Settles
<1> QED BY <1>2, <1>10 DEF Selected

LEMMA LocalListen == ASSUME ScreenInv, ListenInv, Local, Web => Chooses PROVE ListenInv'
<1>1. /\ UNCHANGED <<device, login, client, wire, down, srv, paged>> /\ SameView(scr, scr')
  BY DEF Local, serverState
<1>2. SocketOf' = SocketOf /\ (Live' <=> Live)
  BY <1>1, SameLive
<1>3. (FirstSocket' <=> FirstSocket) /\ (Web' <=> Web) /\ (CanSend' <=> CanSend)
  BY <1>1, <1>2 DEF FirstSocket, Web, CanSend
<1>4. scr'.known = scr.known /\ scr'.restored = scr.restored /\ scr'.stored = scr.stored
  BY <1>1 DEF SameView
<1> SUFFICES ASSUME Web, scr.stored # {}, FirstSocket, CanSend PROVE ListenInv'
  BY <1>3, <1>4, OfflineListen DEF ListenInv
<1>5. /\ ~scr.known => None(up[SocketOf], Listening)
      /\ Live /\ ~paged => Selected
  BY DEF ListenInv
<1>6. CASE scr'.prefer = scr.prefer /\ \E r \in Seq(Commands) : None(r, Listening) /\ Sent(r)
  <2>1. PICK r \in Seq(Commands) : None(r, Listening) /\ Sent(r)
    BY <1>6
  <2>2. up'[SocketOf] = up[SocketOf] \o r /\ up[SocketOf] \in Seq(Commands)
    BY <2>1, SentShape, ScreenInvParts, SocketParts
  <2> HIDE DEF None, Selected, Sent
  <2>3. ~scr.known => None(up[SocketOf] \o r, Listening)
    BY <1>5, <2>1, <2>2, NoneFacts
  <2>4. up'[SocketOf'] = up[SocketOf] \o r
    BY <1>2, <2>2
  <2>5. ~scr.known => None(up'[SocketOf'], Listening)
    BY <2>3, <2>4
  <2>6. Live /\ ~paged => Selected'
    BY <1>1, <1>2, <1>4, <1>5, <1>6, <2>1, <2>2, SelectedSent
  <2>7. ~scr.known => None(up[SocketOf], Listening)'
    BY <2>5 DEF None, Listening
  <2> QED BY <1>1, <1>2, <1>4, <2>6, <2>7 DEF ListenInv
<1>7. CASE \E c \in Visible : WebListen(c)
  <2>1. PICK c \in Visible : WebListen(c)
    BY <1>7
  <2>2. scr.known
    BY <2>1 DEF WebListen, Controls
  <2>3. Live /\ ~paged => Selected'
    BY <1>1, <1>2, <1>4, <1>5, <2>1, SelectedChosen
  <2> HIDE DEF Selected, None
  <2> QED BY <1>1, <1>2, <1>4, <2>2, <2>3 DEF ListenInv
<1> QED BY <1>6, <1>7 DEF Chooses

LEMMA ReceivesListen ==
  ASSUME ScreenInv, ListenInv, WebReceives \/ MobileReceives PROVE ListenInv'
<1>1. PICK m \in Answers :
           /\ CanSend /\ SocketOf \in Sockets /\ down[SocketOf] # <<>> /\ m = Head(down[SocketOf])
           /\ down' = [down EXCEPT ![SocketOf] = Tail(down[SocketOf])]
           /\ UNCHANGED <<device, login, client, wire, sessionVars>>
           /\ m.kind = "state" => scr' = Prefers(After(m)) /\ Sent(Replies(After(m)))
           /\ m.kind # "state" => scr' = After(m) /\ UNCHANGED up
           /\ scr'.known = After(m).known /\ scr'.stored = scr.stored
  BY ReceivesShape
<1>2. SocketOf' = SocketOf /\ (Live' <=> Live) /\ UNCHANGED <<srv, paged>>
  BY <1>1, SameLive DEF sessionVars, serverState
<1>3. (FirstSocket' <=> FirstSocket) /\ (Web' <=> Web) /\ (CanSend' <=> CanSend)
  BY <1>1, <1>2 DEF FirstSocket, Web, CanSend
<1> SUFFICES ASSUME Web, scr.stored # {}, FirstSocket PROVE ListenInv'
  BY <1>1, <1>3 DEF ListenInv
<1>4. /\ ~scr.known => None(up[SocketOf], Listening)
      /\ Live /\ ~paged => Selected
  BY <1>1 DEF ListenInv
<1> DEFINE x == After(m)
           d == down[SocketOf]
           L == srv[login].listen
           q == up[SocketOf]
<1>5. ShowsAfter(x, m)
  BY AfterShape
<1>6. /\ x \in Screens /\ x.prefer = scr.prefer /\ x.restored = scr.restored /\ x.stored # {}
      /\ (m.kind = "state" => x.known /\ x.listen = m.listen) /\ (m.kind # "state" => x.known = scr.known)
      /\ login \in Nat /\ q \in Seq(Commands)
  BY <1>1, <1>5, SocketParts, ScreenInvParts DEF ShowsAfter
<1>7. Carry(d, L) => Carry(Tail(d), L) /\ (m.kind = "state" => m.listen = L)
  <2>1. d \in Seq(Answers) /\ d # <<>> /\ m = Head(d)
    BY <1>1, ScreenInvParts
  <2> HIDE DEF d, L, Carry
  <2> QED BY <2>1, CarryFacts
<1>8. down'[SocketOf'] = Tail(d) /\ login' = login /\ srv'[login] = srv[login]
  BY <1>1, <1>2, ScreenInvParts
<1>9. CASE m.kind # "state"
  <2>1. scr' = x /\ UNCHANGED up /\ x.known = scr.known
    BY <1>1, <1>6, <1>9
  <2> HIDE DEF x
  <2>2. ~scr'.known => None(up[SocketOf], Listening)'
    BY <1>2, <1>4, <2>1 DEF None, Listening
  <2>3. Live /\ ~paged => Selected'
    <3> SUFFICES ASSUME Live, ~paged PROVE Selected'
      OBVIOUS
    <3>1. Selected
      BY <1>4
    <3>2. CASE scr.restored = login
      BY <1>2, <1>6, <1>8, <2>1, <3>1, <3>2 DEF Selected, Settles
    <3>3. CASE scr.restored # login
      <4>1. Carry(Tail(d), L) /\ ~x.known
        BY <1>7, <2>1, <3>1, <3>3 DEF Selected
      <4> HIDE DEF d, Carry
      <4>2. Carry(down'[SocketOf'], srv'[login'].listen)
        BY <1>8, <4>1
      <4> QED BY <1>6, <1>8, <2>1, <3>3, <4>1, <4>2 DEF Selected, Carry
    <3> QED BY <3>2, <3>3
  <2> HIDE DEF Selected, None
  <2> QED BY <1>2, <2>2, <2>3 DEF ListenInv
<1>10. CASE m.kind = "state"
  <2> DEFINE y == Monitors(x)
             z == Restores(x)
  <2>1. /\ y \in Seq(Commands) /\ z \in Seq(Commands)
        /\ \A c \in Visible : \A i \in DOMAIN y : ~Asks(y[i], c)
    BY <1>6, MonitorsAside, RestoresShape
  <2>2. /\ scr' = [x EXCEPT !.restored = login] /\ x.known
        /\ Sent((IF scr.restored # login THEN z ELSE <<>>) \o y)
    <3>1. Prefers(x) = [x EXCEPT !.restored = login]
      BY <1>6 DEF Prefers
    <3>2. Replies(x) = (IF scr.restored # login THEN z ELSE <<>>) \o y
      BY <1>6 DEF Replies
    <3> HIDE DEF x, Sent, y, z
    <3> QED BY <1>1, <1>6, <1>10, <3>1, <3>2 DEF x
  <2> HIDE DEF x, y, z
  <2>3. scr'.known /\ scr'.prefer = scr.prefer /\ scr'.restored = login
    BY <1>6, <2>2 DEF Screens
  <2> HIDE DEF q, Settles, None, Selected, Sent, Asks
  <2>4. ASSUME Live, ~paged, scr.restored # login PROVE Selected'
    <3>1. ~scr.known /\ Carry(d, L)
      BY <1>4, <2>4 DEF Selected
    <3>2. x.listen = L
      BY <1>6, <1>7, <1>10, <3>1
    <3>3. None(q, Listening)
      BY <1>4, <3>1 DEF q
    <3>4. z \o y \in Seq(Commands) /\ Sent(z \o y)
      BY <2>1, <2>2, <2>4, ConcatFacts
    <3>5. up'[SocketOf] = q \o (z \o y)
      BY <1>1, <3>4, SentShape DEF q
    <3>6. q \o z \in Seq(Commands) /\ q \o (z \o y) = (q \o z) \o y
      <4>1. q \o z \in Seq(Commands)
        BY <1>6, <2>1, ConcatFacts
      <4>2. q \o (z \o y) = (q \o z) \o y
        BY <1>6, <2>1, ConcatAssociative
      <4> QED BY <4>1, <4>2
    <3>7. ASSUME NEW c \in Visible
          PROVE  Settles(up'[SocketOf'], c, c \in scr'.prefer, c \in srv'[login'].listen)
      <4> DEFINE want == c \in x.prefer
                 has == c \in x.listen
      <4>1. c \in Channels
        BY DEF Visible
      <4>2. Settles(q \o z, c, want, has)
        BY <1>6, <3>3, <4>1, RestoresSettle DEF z
      <4>3. want \in BOOLEAN /\ has \in BOOLEAN
        OBVIOUS
      <4> HIDE DEF want, has
      <4>4. Settles((q \o z) \o y, c, want, has)
        BY <2>1, <3>6, <4>2, <4>3, SettlesThen
      <4> QED BY <1>2, <1>6, <1>8, <2>3, <3>2, <3>5, <3>6, <4>4 DEF want, has
    <3> QED BY <1>8, <2>3, <3>7 DEF Selected, Settles
  <2>5. ASSUME Live, ~paged, scr.restored = login PROVE Selected'
    <3>1. <<>> \o y = y /\ Sent(<<>> \o y)
      BY <2>1, <2>2, <2>5, ConcatEmptySeq
    <3>2. Sent(y)
      BY <3>1
    <3>3. up'[SocketOf] = q \o y
      BY <1>1, <2>1, <3>2, SentShape DEF q
    <3>4. ASSUME NEW c \in Visible
          PROVE  Settles(up'[SocketOf'], c, c \in scr'.prefer, c \in srv'[login'].listen)
      <4> DEFINE want == c \in scr.prefer
                 has == c \in srv[login].listen
      <4>1. Settles(q, c, want, has)
        BY <1>4, <2>5 DEF Selected, q
      <4>2. want \in BOOLEAN /\ has \in BOOLEAN
        OBVIOUS
      <4> HIDE DEF want, has
      <4>3. Settles(q \o y, c, want, has)
        BY <1>6, <2>1, <4>1, <4>2, SettlesThen
      <4> QED BY <1>2, <1>8, <2>3, <3>3, <4>3 DEF want, has
    <3> QED BY <1>8, <2>3, <3>4 DEF Selected, Settles
  <2>6. Live /\ ~paged => Selected'
    BY <2>4, <2>5
  <2> QED BY <1>2, <2>3, <2>6 DEF ListenInv
<1> QED BY <1>9, <1>10

LEMMA StepListen ==
  ScreenInv /\ BlankInv /\ PagedInv /\ ListenInv /\ [Next]_vars => ListenInv'
<1> SUFFICES ASSUME ScreenInv, BlankInv, PagedInv, ListenInv, [Next]_vars PROVE ListenInv'
  OBVIOUS
<1>0. ScreenInv'
  BY StepScreen
<1>00. SocketOf' = 0 => ListenInv'
  BY OfflineListen DEF CanSend
<1>1. CASE SignIn
  <2>1. PICK k \in Logins, s \in Fresh : OpenSocket(k, s, "connecting") /\ login' = k
    BY <1>1, SignInOpens
  <2>2. SocketOf' = s /\ wire'[s].client = "opening"
    BY <2>1, OpensOffline
  <2> QED BY <2>2, OfflineListen DEF CanSend
<1>2. CASE AskSignOut
  BY <1>2, AskSignOutListen
<1>3. CASE WebSignOut \/ MobileSignOut
  <2>1. login # 0 /\ Disconnect(login) /\ login' = 0
    BY <1>3 DEF WebSignOut, MobileSignOut, Leave, ScreenInv, ConsoleInv, SocketsOwned
  <2> QED BY <1>00, <2>1, GivesUpShape, GivesUpOffline
<1>4. CASE Operator /\ ~SignIn /\ ~AskSignOut /\ ~WebSignOut /\ ~MobileSignOut
  <2> HIDE DEF Local, Chooses
  <2> QED BY <1>4, OperatorLocal, OperatorChooses, LocalListen
<1>5. CASE Server
  <2>1. UNCHANGED scr
    BY <1>5 DEF Server
  <2> QED BY <1>0, <1>5, <2>1, ReadListen, SocketEndsListen, OthersListen DEF Server
<1>6. CASE Link
  <2>1. login # 0 /\ (HandleOpen(login, Greets) \/ Reconnect(login)) /\ UNCHANGED <<sessionVars, scr>>
    BY <1>6, LinkOpens DEF Link
  <2>2. CASE HandleOpen(login, Greets)
    <3>1. /\ SocketOf' = SocketOf /\ wire'[SocketOf].server = "new"
          /\ up'[SocketOf] = <<[kind |-> "authenticate"]>> \o Greets
      BY <2>1, <2>2, HandleOpenShape
    <3>2. ~scr.known => up'[SocketOf] = <<[kind |-> "authenticate"]>>
      BY <3>1 DEF Greets
    <3>3. None(<<[kind |-> "authenticate"]>>, Listening)
      BY LastOfOne DEF Listening
    <3>4. ~scr'.known => None(up[SocketOf], Listening)'
      BY <2>1, <3>1, <3>2, <3>3 DEF None, Listening
    <3>5. ~Live'
      BY <3>1 DEF Live
    <3> HIDE DEF None, Selected
    <3> QED BY <3>4, <3>5 DEF ListenInv
  <2>3. CASE Reconnect(login)
    <3>1. PICK s \in Fresh : OpenSocket(login, s, "reconnecting")
      BY <2>1, <2>3, ReconnectOpens
    <3>2. login \in Logins /\ login' = login
      BY <2>1, <2>3, ReconnectOpens
    <3>3. SocketOf' = s /\ wire'[s].client = "opening"
      BY <3>1, <3>2, OpensOffline
    <3> QED BY <3>3, OfflineListen DEF CanSend
  <2> QED BY <2>1, <2>2, <2>3
<1>7. CASE LinkLost
  BY <1>00, <1>7, LostShape, GivesUpOffline
<1>8. CASE LinkLostInVoice
  BY <1>00, <1>8, LostInVoiceShape, GivesUpOffline
<1>9. CASE WebAudioReady \/ MobileAudioReady
  <2>1. UNCHANGED <<linkVars, sessionVars>> /\ scr' = [scr EXCEPT !.ready = TRUE]
    BY <1>9 DEF WebAudioReady, MobileAudioReady, BecomesReady
  <2>2. /\ scr'.known = scr.known /\ scr'.prefer = scr.prefer /\ scr'.restored = scr.restored
        /\ scr'.stored = scr.stored
    BY <2>1, ScreenFields DEF Screens
  <2> QED BY <2>1, <2>2, SameListen DEF linkVars, sessionVars, serverState
<1>10. CASE WebReceives \/ MobileReceives
  BY <1>10, ReceivesListen
<1>11. CASE UNCHANGED vars
  BY <1>11, SameListen DEF vars, linkVars, sessionVars, serverState
<1> QED BY <1>1, <1>2, <1>3, <1>4, <1>5, <1>6, <1>7, <1>8, <1>9, <1>10, <1>11 DEF Next

LEMMA InitListen == Init => PagedInv /\ ListenInv
<1> SUFFICES ASSUME Init PROVE PagedInv /\ ListenInv
  OBVIOUS
<1>1. SocketOf = 0 /\ page = 0
  BY DEF Init, LinkInit, SessionInit, SocketOf
<1>2. Other # 0
  BY RealtimeClientAssumption DEF Other
<1> QED BY <1>1, <1>2 DEF PagedInv, ListenInv, Live, CanSend

-----------------------------------------------------------------------------
(* Confidence channels, and a browser that had no selection stored *)

\* No state is on its way to the screen, and no change of the selection from it.
Settled == Live /\ None(down[SocketOf], States) /\ None(up[SocketOf], Listening)

\* Then the confidence channels are on; a browser without a stored selection prefers
\* the one it shows.
ChosenInv ==
  Settled => /\ Confidence \subseteq srv[login].listen
             /\ Web /\ scr.stored = {} => scr.prefer = scr.listen

LEMMA UnsettledChosen == ASSUME ~Live' PROVE ChosenInv'
BY DEF ChosenInv, Settled

\* The server does something, which the screen hears of.
LEMMA InformedChosen ==
  ASSUME ScreenInv, ChosenInv, Live, SocketOf' = SocketOf, UNCHANGED <<device, login, scr>>, Informed,
         None(up'[SocketOf], Listening) => None(up[SocketOf], Listening)
  PROVE  ChosenInv'
<1> DEFINE q == down[SocketOf]
<1>1. PICK r : Informs(r) /\ down'[SocketOf] = q \o r
  BY DEF Informed
<1>2. q \in Seq(Answers) /\ r \in Seq(Answers)
  BY <1>1, LiveFacts DEF Informs
<1>3. None(q \o r, States) <=> None(q, States) /\ None(r, States)
  BY <1>2, LastOfConcat
<1>4. None(r, States) => srv[login].listen \subseteq srv'[login].listen
  BY <1>1 DEF Informs, NoNews
<1> SUFFICES ASSUME Settled'
             PROVE  /\ Confidence \subseteq srv'[login].listen
                    /\ Web /\ scr.stored = {} => scr.prefer = scr.listen
  BY DEF ChosenInv, Web
<1>5. None(down'[SocketOf], States) /\ None(up'[SocketOf], Listening)
  BY DEF Settled, None
<1> HIDE DEF q, None
<1>6. None(q, States) /\ None(r, States) /\ None(up[SocketOf], Listening)
  BY <1>1, <1>3, <1>5
<1>7. Settled
  BY <1>6 DEF Settled, q
<1> QED BY <1>4, <1>6, <1>7 DEF ChosenInv

\* A connection that authenticates is told the state.
LEMMA AuthenticatedChosen ==
  ASSUME ScreenInv, ChosenInv, NEW s \in Sockets, wire[s].server \in {"new", "up"},
         Authenticated(s, wire[s].by), UNCHANGED <<device, login, client, scr>>,
         None(up'[SocketOf], Listening) => None(up[SocketOf], Listening)
  PROVE  ChosenInv'
<1>1. SocketOf' = SocketOf
  BY SameLive
<1>2. ASSUME Live, Informed PROVE ChosenInv'
  BY <1>1, <1>2, InformedChosen
<1>3. CASE UNCHANGED <<wire, serverState, down>>
  <2>1. (Live' <=> Live) /\ Informed
    BY <1>3, SameLive, AuthenticatedShape, SaysNothing DEF NoNews, serverState
  <2> QED BY <1>2, <2>1, UnsettledChosen
<1>4. CASE s # SocketOf
  <2>1. (Live' <=> Live) /\ Informed
    BY <1>4, AuthenticatedElsewhere
  <2> QED BY <1>2, <2>1, UnsettledChosen
<1>5. CASE s = SocketOf /\ ~UNCHANGED <<wire, serverState, down>> /\ Live'
  <2> DEFINE q == down[s]
             m == State(srv'[wire[s].by])
             n == IF page = 0 THEN <<>> ELSE <<Notice(page)>>
  <2>1. wire[s].by \in Logins
    BY ReachesSockets
  <2>2. srv' \in [Logins -> Sessions] /\ wire'[s].client = wire[s].client
        /\ (wire[s].client = "open" => down'[s] = (q \o <<m>>) \o n)
    BY <1>5, AuthenticatedShape
  <2>3. down'[s] = (q \o <<m>>) \o n
    BY <1>1, <1>5, <2>2 DEF Live, CanSend
  <2>4. m \in Answers /\ m.kind = "state"
    BY <2>1, <2>2, AnswerFacts
  <2>5. Notice(page) \in Answers
    BY ServerFields, AnswerFacts
  <2>6. n \in Seq(Answers)
    BY <2>5
  <2>7. q \in Seq(Answers)
    BY ScreenInvParts
  <2> HIDE DEF q, m, n, None
  <2>8. <<m>> \in Seq(Answers) /\ ~None(<<m>>, States)
    BY <2>4, LastOfOne DEF States
  <2>9. ~None(q \o <<m>>, States) /\ q \o <<m>> \in Seq(Answers)
    BY <2>7, <2>8, LastOfConcat, ConcatFacts
  <2>10. ~None((q \o <<m>>) \o n, States)
    BY <2>6, <2>9, LastOfConcat
  <2>11. ~None(down'[SocketOf'], States)
    BY <1>1, <1>5, <2>3, <2>10
  <2>12. ~Settled'
    BY <2>11 DEF Settled, None, States
  <2> QED BY <2>12 DEF ChosenInv
<1> QED BY <1>3, <1>4, <1>5, UnsettledChosen

LEMMA ReadChosen ==
  ASSUME ScreenInv, ChosenInv, NEW s \in Sockets, Read(s), UNCHANGED scr
  PROVE  ChosenInv'
<1>1. PICK m \in Commands :
           /\ m = Head(up[s]) /\ up[s] # <<>> /\ up[s] \in Seq(Commands) /\ up'[s] = Tail(up[s])
           /\ wire[s].server \in {"new", "up"} /\ wire[s].by \in Logins
           /\ UNCHANGED <<device, login, client, paged>>
           /\ \/ m.kind = "authenticate" /\ Authenticated(s, wire[s].by)
              \/ m.kind # "authenticate" /\ wire[s].server = "up" /\ wire[s].by \in Attached
                 /\ Command(wire[s].by, m) /\ UNCHANGED wire
              \/ m.kind # "authenticate" /\ wire[s].server = "new" /\ UNCHANGED <<wire, serverState, down>>
  BY ReadShape
<1>2. SocketOf' = SocketOf /\ (UNCHANGED wire => (Live' <=> Live))
  BY <1>1, SameLive
<1>3. m.kind # "listen" \/ s # SocketOf =>
        (None(up'[SocketOf], Listening) => None(up[SocketOf], Listening))
  <2>1. CASE s # SocketOf
    <3>1. up'[SocketOf] = up[SocketOf]
      BY <2>1 DEF Read
    <3> QED BY <3>1 DEF None
  <2>2. CASE s = SocketOf /\ m.kind # "listen"
    <3> DEFINE q == up[s]
    <3>1. q \in Seq(Commands) /\ q # <<>> /\ m = Head(q)
      BY <1>1
    <3> HIDE DEF q
    <3>2. None(Tail(q), Listening) => None(q, Listening) \/ Newest(q, Listening, m)
      BY <3>1, LastOfTail
    <3>3. ~Newest(q, Listening, m)
      BY <2>2 DEF Newest, Listening
    <3> HIDE DEF None, Newest
    <3> QED BY <1>1, <2>2, <3>2, <3>3 DEF q
  <2> QED BY <2>1, <2>2
<1>4. ASSUME Informed, UNCHANGED wire, m.kind # "listen" \/ s # SocketOf PROVE ChosenInv'
  <2> HIDE DEF None, ChosenInv, Live
  <2> QED BY <1>1, <1>2, <1>3, <1>4, InformedChosen, UnsettledChosen
<1>5. CASE m.kind = "authenticate" /\ Authenticated(s, wire[s].by)
  <2> HIDE DEF None, ChosenInv
  <2> QED BY <1>1, <1>3, <1>5, AuthenticatedChosen
<1>6. CASE wire[s].server = "new" /\ UNCHANGED <<wire, serverState, down>>
  <2>1. Informed
    BY <1>6, SaysNothing DEF NoNews, serverState
  <2>2. s = SocketOf => ~Live'
    BY <1>2, <1>6 DEF Live
  <2> QED BY <1>4, <1>6, <2>1, <2>2, UnsettledChosen
<1>7. CASE m.kind # "authenticate" /\ wire[s].by \in Attached /\ Command(wire[s].by, m) /\ UNCHANGED wire
  <2>1. Informed
    BY <1>7, CommandInforms
  <2>2. CASE m.kind # "listen" \/ s # SocketOf
    BY <1>4, <1>7, <2>1, <2>2
  <2>3. CASE m.kind = "listen" /\ s = SocketOf /\ Live'
    <3> DEFINE x == WithListen(login, m)
               q == down[SocketOf]
               n == State(srv'[login])
    <3>1. Live /\ login \in Logins /\ wire[s].by = login /\ q \in Seq(Answers)
      BY <1>2, <1>7, <2>3, LiveFacts
    <3>2. x \in Sessions
      BY <2>3, <3>1, WithShapes
    <3>3. Changed(login, x)
      BY <1>7, <2>3, <3>1 DEF Command, ListenCommand, WithListen
    <3>4. srv' \in [Logins -> Sessions] /\ down'[SocketOf] = q \o <<n>>
      BY <3>1, <3>2, <3>3, ChangedShape
    <3>5. n \in Answers /\ n.kind = "state"
      BY <3>1, <3>4, AnswerFacts
    <3> HIDE DEF q, n, None
    <3>6. <<n>> \in Seq(Answers) /\ ~None(<<n>>, States)
      BY <3>5, LastOfOne DEF States
    <3>7. ~None(q \o <<n>>, States)
      BY <3>1, <3>6, LastOfConcat
    <3>8. ~None(down'[SocketOf'], States)
      BY <1>2, <3>4, <3>7
    <3>9. ~Settled'
      BY <3>8 DEF Settled, None, States
    <3> QED BY <3>9 DEF ChosenInv
  <2> QED BY <2>2, <2>3, UnsettledChosen
<1> QED BY <1>1, <1>5, <1>6, <1>7

\* What the operator does keeps the line, but for a choice that it asks for.
LEMMA LocalChosen == ASSUME ScreenInv, ChosenInv, Local, Web => Chooses PROVE ChosenInv'
<1>1. /\ UNCHANGED <<device, login, client, wire, down, srv>> /\ SameView(scr, scr')
  BY DEF Local, serverState
<1>2. SocketOf' = SocketOf /\ (Live' <=> Live) /\ (Web' <=> Web)
  BY <1>1, SameLive DEF Web
<1>3. scr'.listen = scr.listen /\ scr'.stored = scr.stored
  BY <1>1 DEF SameView
<1> SUFFICES ASSUME Live PROVE ChosenInv'
  BY <1>2, UnsettledChosen
<1>4. CanSend /\ up[SocketOf] \in Seq(Commands)
  BY LiveFacts DEF Live
<1>5. PICK msgs \in Seq(Commands) : Sent(msgs)
  BY DEF Local
<1>6. up'[SocketOf] = up[SocketOf] \o msgs
  BY <1>4, <1>5, SentShape
<1>7. None(up'[SocketOf], Listening) => None(up[SocketOf], Listening)
  <2> HIDE DEF None
  <2> QED BY <1>4, <1>6, LastOfConcat
<1>8. Settled' => Settled /\ None(up'[SocketOf], Listening)
  <2>1. Settled' => None(up'[SocketOf], Listening) /\ None(down[SocketOf], States)
    BY <1>1, <1>2 DEF Settled, None
  <2> HIDE DEF None
  <2> QED BY <1>7, <2>1 DEF Settled
<1>9. CASE ~Web \/ scr'.prefer = scr.prefer
  BY <1>1, <1>2, <1>3, <1>8, <1>9 DEF ChosenInv
<1>10. CASE \E c \in Visible : WebListen(c)
  <2>1. PICK c \in Visible : Sent(<<Listen(c \notin scr.listen, {c})>>)
    BY <1>10 DEF WebListen, Listens
  <2> DEFINE on == c \notin scr.listen
             m == Listen(on, {c})
  <2>2. m \in Commands /\ m.kind = "listen"
    <3>1. on \in BOOLEAN /\ {c} \in SUBSET Channels
      BY DEF Visible
    <3> HIDE DEF on
    <3> QED BY <3>1, CommandFacts
  <2> HIDE DEF m, on, None, Sent
  <2>3. <<m>> \in Seq(Commands) /\ ~None(<<m>>, Listening)
    BY <2>2, LastOfOne DEF Listening
  <2>4. up'[SocketOf] = up[SocketOf] \o <<m>>
    BY <1>4, <2>1, <2>3, SentShape DEF m, on
  <2>5. ~None(up'[SocketOf], Listening)
    BY <1>4, <2>3, <2>4, LastOfConcat
  <2> QED BY <1>8, <2>5 DEF ChosenInv
<1> QED BY <1>9, <1>10 DEF Chooses

\* The screen takes a message; to a state it replies for the confidence channels.
LEMMA ReceivesChosen ==
  ASSUME ScreenInv, ChosenInv, MicInv', WebReceives \/ MobileReceives PROVE ChosenInv'
<1>1. PICK m \in Answers :
           /\ CanSend /\ SocketOf \in Sockets /\ down[SocketOf] # <<>> /\ m = Head(down[SocketOf])
           /\ down' = [down EXCEPT ![SocketOf] = Tail(down[SocketOf])]
           /\ UNCHANGED <<device, login, client, wire, sessionVars>>
           /\ m.kind = "state" => scr' = Prefers(After(m)) /\ Sent(Replies(After(m)))
           /\ m.kind # "state" => scr' = After(m) /\ UNCHANGED up
           /\ scr'.listen = After(m).listen /\ scr'.stored = scr.stored
  BY ReceivesShape
<1>2. SocketOf' = SocketOf /\ (Live' <=> Live) /\ (Web' <=> Web) /\ srv'[login'] = srv[login]
  BY <1>1, SameLive DEF sessionVars, serverState, Web
<1> SUFFICES ASSUME Settled', Live
             PROVE  /\ Confidence \subseteq srv[login].listen
                    /\ Web /\ scr.stored = {} => scr'.prefer = scr'.listen
  BY <1>1, <1>2, UnsettledChosen DEF ChosenInv
<1> DEFINE x == After(m)
           d == down[SocketOf]
           q == up[SocketOf]
<1>3. ShowsAfter(x, m)
  BY AfterShape
<1>4. /\ d \in Seq(Answers) /\ d # <<>> /\ m = Head(d) /\ q \in Seq(Commands)
      /\ down'[SocketOf'] = Tail(d)
  BY <1>1, <1>2, ScreenInvParts
<1>5. None(down'[SocketOf'], States) /\ None(up'[SocketOf], Listening) /\ Live'
  BY <1>2 DEF Settled, None, States, Listening
<1>6. CASE m.kind # "state"
  <2>1. None(Tail(d), States) => None(d, States) \/ Newest(d, States, m)
    <3> HIDE DEF d
    <3> QED BY <1>4, LastOfTail
  <2>2. ~Newest(d, States, m)
    BY <1>6 DEF Newest, States
  <2> HIDE DEF None, Newest
  <2>3. None(d, States) /\ None(q, Listening)
    BY <1>1, <1>4, <1>5, <1>6, <2>1, <2>2
  <2>4. Settled
    BY <2>3 DEF Settled
  <2>5. scr'.prefer = scr.prefer /\ scr'.listen = scr.listen
    BY <1>1, <1>3, <1>6 DEF ShowsAfter
  <2> QED BY <2>4, <2>5 DEF ChosenInv
<1>7. CASE m.kind = "state"
  <2> DEFINE r == Replies(x)
             y == Monitors(x)
             z == IF Web /\ scr.stored # {} /\ scr.restored # login THEN Restores(x) ELSE <<>>
  <2>1. x \in Screens /\ x.stored = scr.stored /\ x.restored = scr.restored
    BY <1>3 DEF ShowsAfter
  <2>2. /\ y \in Seq(Commands) /\ z \in Seq(Commands) /\ r = z \o y
        /\ None(y, Listening) => Confidence \subseteq x.listen
    <3>1. Restores(x) \in Seq(Commands) /\ <<>> \in Seq(Commands)
      BY <2>1, RestoresShape, OneCommand
    <3>2. r = z \o y
      BY <2>1 DEF Replies
    <3> HIDE DEF x, None
    <3> QED BY <2>1, <3>1, <3>2, MonitorsAside
  <2>3. Sent(r) /\ r \in Seq(Commands)
    BY <1>1, <1>7, <2>1, RepliesShape
  <2> HIDE DEF x, r, y, z, d, q, None, Sent
  <2>4. up'[SocketOf] = q \o r
    BY <1>1, <2>3, SentShape DEF q
  <2>5. None(r, Listening)
    BY <1>4, <1>5, <2>3, <2>4, LastOfConcat
  <2>6. Confidence \subseteq x.listen
    BY <2>2, <2>5, LastOfConcat
  <2>7. scr'.listen \subseteq srv'[login'].listen
    BY <1>5 DEF MicInv, Shown, None, States
  <2>8. Web /\ scr.stored = {} => scr'.prefer = x.listen
    <3>1. scr' = Prefers(x)
      BY <1>1, <1>7 DEF x
    <3> QED BY <2>1, <3>1 DEF Prefers, Screens
  <2> QED BY <1>1, <1>2, <2>6, <2>7, <2>8 DEF x
<1> QED BY <1>6, <1>7

\* What leaves the line and the selection alone.
LEMMA SameChosen ==
  ASSUME ScreenInv, ChosenInv, UNCHANGED <<device, login, client, wire, up, down, srv>>,
         scr'.listen = scr.listen, scr'.prefer = scr.prefer, scr'.stored = scr.stored
  PROVE  ChosenInv'
<1>1. SocketOf' = SocketOf /\ (Live' <=> Live) /\ (Web' <=> Web)
  BY SameLive DEF Web
<1>2. Settled' => Settled
  BY <1>1 DEF Settled, None, States, Listening
<1> QED BY <1>1, <1>2 DEF ChosenInv

LEMMA StepChosen ==
  ScreenInv /\ MicInv' /\ ChosenInv /\ [Next]_vars => ChosenInv'
<1> SUFFICES ASSUME ScreenInv, MicInv', ChosenInv, [Next]_vars PROVE ChosenInv'
  OBVIOUS
<1>1. CASE SignIn
  BY <1>1, SignInOpens, OpensOffline, UnsettledChosen
<1>2. CASE AskSignOut
  <2>1. CASE UNCHANGED <<wire, up, serverState, down>>
    BY <1>2, <2>1, AskSignOutEnds, SameChosen DEF serverState
  <2> QED BY <1>2, <2>1, AskSignOutEnds, UnsettledChosen
<1>3. CASE WebSignOut \/ MobileSignOut
  <2>1. login # 0 /\ Disconnect(login) /\ login' = 0
    BY <1>3 DEF WebSignOut, MobileSignOut, Leave, ScreenInv, ConsoleInv, SocketsOwned
  <2> QED BY <2>1, GivesUpShape, GivesUpOffline, UnsettledChosen
<1>4. CASE Operator /\ ~SignIn /\ ~AskSignOut /\ ~WebSignOut /\ ~MobileSignOut
  <2> HIDE DEF Local, Chooses
  <2> QED BY <1>4, OperatorLocal, OperatorChooses, LocalChosen
<1>5. CASE Server
  <2>1. UNCHANGED scr
    BY <1>5 DEF Server
  <2>2. CASE OtherPeople
    <3>1. UNCHANGED <<device, login, client, wire, up>>
      BY <2>2 DEF OtherPeople, OtherPages, OtherPageEnds, Muted, PeerCalls, PeerAccepts, PeerEnds, Happens
    <3>2. SocketOf' = SocketOf /\ (Live' <=> Live)
      BY <3>1, SameLive
    <3>3. None(up'[SocketOf], Listening) => None(up[SocketOf], Listening)
      BY <3>1
    <3> HIDE DEF None, Live
    <3> QED BY <2>1, <2>2, <3>1, <3>2, <3>3, OthersInform, InformedChosen, UnsettledChosen
  <2>3. ASSUME NEW s \in Sockets, SocketEnds(s), Live' PROVE ChosenInv'
    <3>1. s # SocketOf /\ SocketOf' = SocketOf /\ Live /\ Informed
      BY <2>3, SocketEndsInforms
    <3>2. up' = UpOf({s}) /\ UNCHANGED <<device, login>>
      BY <2>3 DEF SocketEnds
    <3>3. up'[SocketOf] = up[SocketOf]
      BY <3>1, <3>2, LiveFacts DEF UpOf
    <3>4. None(up'[SocketOf], Listening) => None(up[SocketOf], Listening)
      BY <3>3
    <3> HIDE DEF None, Live
    <3> QED BY <2>1, <3>1, <3>2, <3>4, InformedChosen
  <2> QED BY <1>5, <2>1, <2>2, <2>3, ReadChosen, UnsettledChosen DEF Server
<1>6. CASE Link
  <2>1. login # 0 /\ (HandleOpen(login, Greets) \/ Reconnect(login))
    BY <1>6, LinkOpens DEF Link
  <2>2. CASE HandleOpen(login, Greets)
    <3>1. SocketOf' = SocketOf /\ wire'[SocketOf].server = "new"
      BY <2>1, <2>2, HandleOpenShape
    <3>2. ~Live'
      BY <3>1 DEF Live
    <3> QED BY <3>2, UnsettledChosen
  <2>3. CASE Reconnect(login)
    BY <2>1, <2>3, ReconnectOpens, OpensOffline, UnsettledChosen
  <2> QED BY <2>1, <2>2, <2>3
<1>7. CASE LinkLost
  BY <1>7, LostShape, GivesUpOffline, UnsettledChosen
<1>8. CASE LinkLostInVoice
  BY <1>8, LostInVoiceShape, GivesUpOffline, UnsettledChosen
<1>9. CASE WebAudioReady \/ MobileAudioReady
  <2>1. UNCHANGED <<linkVars, sessionVars>> /\ scr' = [scr EXCEPT !.ready = TRUE]
    BY <1>9 DEF WebAudioReady, MobileAudioReady, BecomesReady
  <2>2. scr'.listen = scr.listen /\ scr'.prefer = scr.prefer /\ scr'.stored = scr.stored
    BY <2>1, ScreenFields DEF Screens
  <2> QED BY <2>1, <2>2, SameChosen DEF linkVars, sessionVars, serverState
<1>10. CASE WebReceives \/ MobileReceives
  BY <1>10, ReceivesChosen
<1>11. CASE UNCHANGED vars
  BY <1>11, SameChosen DEF vars, linkVars, sessionVars, serverState
<1> QED BY <1>1, <1>2, <1>3, <1>4, <1>5, <1>6, <1>7, <1>8, <1>9, <1>10, <1>11 DEF Next

LEMMA InitChosen == Init => ChosenInv
<1> SUFFICES ASSUME Init PROVE ChosenInv
  OBVIOUS
<1>1. SocketOf = 0
  BY DEF Init, LinkInit, SocketOf
<1> QED BY <1>1 DEF ChosenInv, Settled, Live, CanSend

\* At rest there is nothing to settle.
LEMMA RestSettled ==
  ASSUME ScreenInv, Rest
  PROVE  Settled /\ up[SocketOf] = <<>> /\ login \in Logins
<1>1. Live /\ down[SocketOf] = <<>>
  BY DEF Rest, Live
<1>2. up[SocketOf] = <<>> /\ login \in Logins
  BY <1>1, LiveFacts DEF Rest
<1>3. None(<<>>, States) /\ None(<<>>, Listening)
  BY LastOfNothing
<1> QED BY <1>1, <1>2, <1>3 DEF Settled

\* Whatever drops, pages, restored selections and commands of the operator cross,
\* once nothing is under way every confidence channel is on: the screen asks for it
\* after each state that lacks it (the effect for confidence channels of both clients).
THEOREM ConfidenceAlwaysHeard == Spec => []ConfidenceHeard
<1>1. Init => MicInv /\ ChosenInv
  BY InitMic, InitChosen
<1>2. ScreenInv /\ MicInv /\ ChosenInv /\ [Next]_vars => MicInv' /\ ChosenInv'
  BY StepMic, StepChosen
<1>3. ScreenInv /\ ChosenInv => ConfidenceHeard
  BY RestSettled DEF ConfidenceHeard, ChosenInv
<1> QED BY <1>1, <1>2, <1>3, ScreenInvariant, PTL DEF Spec

\* Once nothing is under way the web client is heard on just the channels that it
\* will store and the confidence channels.  With a selection in the storage it has
\* sent the preferred one when the first state came, and what the operator changed
\* since in that order, however quick the changes; with none it prefers what the last
\* state said (the effects of a state, updateListen).
THEOREM SelectionAlwaysRestored == Spec => []SelectionRestored
<1>1. Init => BlankInv /\ PagedInv /\ ListenInv /\ MicInv /\ ChosenInv
  BY InitBlank, InitListen, InitMic, InitChosen
<1>2. ScreenInv /\ BlankInv /\ PagedInv /\ ListenInv /\ MicInv /\ ChosenInv /\ [Next]_vars
        => BlankInv' /\ PagedInv' /\ ListenInv' /\ MicInv' /\ ChosenInv'
  BY StepBlank, StepPaged, StepListen, StepMic, StepChosen
<1>3. ScreenInv /\ MicInv /\ ListenInv /\ ChosenInv => SelectionRestored
  <2> SUFFICES ASSUME ScreenInv, MicInv, ListenInv, ChosenInv, Web, Rest,
                      IF scr.stored = {} THEN page \in {0, login} ELSE FirstSocket /\ ~paged
               PROVE  srv[login].listen = scr.prefer \cup Confidence
    BY DEF SelectionRestored
  <2>1. Settled /\ up[SocketOf] = <<>> /\ login \in Logins
    BY RestSettled
  <2>2. Confidence \subseteq srv[login].listen
    BY <2>1 DEF ChosenInv
  <2>3. Live /\ scr.known /\ Shown(scr, srv[login], page)
    BY <2>1 DEF MicInv, Settled
  <2>4. CASE scr.stored = {}
    <3>1. scr.prefer = srv[login].listen
      BY <2>1, <2>3, <2>4 DEF ChosenInv, Shown
    <3> QED BY <2>2, <3>1
  <2>5. CASE scr.stored # {}
    <3>1. scr.restored = login /\ \A c \in Visible : Settles(<<>>, c, c \in scr.prefer, c \in srv[login].listen)
      BY <2>1, <2>3, <2>5 DEF ListenInv, Selected
    <3>2. ASSUME NEW c \in Visible PROVE c \in srv[login].listen <=> c \in scr.prefer
      <4> DEFINE want == c \in scr.prefer
                 has == c \in srv[login].listen
      <4>1. Settles(<<>>, c, want, has)
        BY <3>1
      <4> HIDE DEF Settles, want, has
      <4>2. has <=> want
        BY <4>1, SettlesRest
      <4> QED BY <4>2 DEF want, has
    <3>3. /\ srv[login].listen \in SUBSET Channels /\ scr.prefer \in SUBSET Channels
          /\ Channels = Visible \cup Confidence
      BY <2>1, ServerFields, ScreenFields, OperatorScreenAssumption DEF Visible
    <3> QED BY <2>2, <3>2, <3>3
  <2> QED BY <2>4, <2>5
<1> QED BY <1>1, <1>2, <1>3, ScreenInvariant, PTL DEF Spec
=============================================================================
