-------------------------- MODULE CoordinationProofs --------------------------
(***************************************************************************)
(* What holds of the coordination for every set of users, channels, tokens *)
(* and grants: the state stays well typed, sessions stay within their      *)
(* grants, an all-page silences everybody else, and microphones follow the *)
(* floor discipline of IntercomFloor.                                      *)
(***************************************************************************)
EXTENDS Coordination, TLAPS

-----------------------------------------------------------------------------
(* The types of the parts that several actions change *)

Selections == [Tokens -> SUBSET Channels]
Calls == [CallIds -> Phase({"unused", "ringing", "active", "over"})]
Feeds == [director : Tokens \cup {None}, target : Tokens \cup {None}]
Rules == [Channels -> Sources \cup {Gone}]
Signals == [SignalIds -> [from : Users \cup {None}, to : Users \cup {None},
                          phase : {"unused", "active", "cleared"}]]
Timers == [CallIds \cup SignalIds -> {"off", "armed", "fired"}]
States == [Tokens -> [talk : SUBSET Channels, listen : SUBSET Channels]]
Contexts == [Tokens -> [talk : SUBSET Channels, listen : SUBSET Channels,
                        line : Tokens \cup {None}, cue : Tokens \cup {None}]]

\* What the clients are told is well typed when the selections are.
LEMMA ToldType ==
  ASSUME TypeOK, NEW S, Tell(S) \/ TellSoFar(S, listen),
         talk' \in Selections, listen' \in Selections
  PROVE  told' \in States
<1>1. \A L \in Selections : TellSoFar(S, L) => told' \in States
  BY DEF TypeOK, TellSoFar, Selections, States, Silent
<1>2. listen \in Selections
  BY DEF TypeOK, Selections
<1> QED BY <1>1, <1>2 DEF Tell

\* The peer of a session's call is a token or None.
LEMMA LineType ==
  ASSUME call' \in Calls, NEW t \in Tokens
  PROVE  Line(t)' \in Tokens \cup {None}
<1>1. CASE \E k \in CallsOf(t)' : call'[k].phase = "active"
  <2> DEFINE k == CHOOSE k \in CallsOf(t)' : call'[k].phase = "active"
  <2>1. k \in CallIds
    BY <1>1 DEF CallsOf
  <2>2. call'[k].from \in Tokens \cup {None} /\ call'[k].to \in Tokens \cup {None}
    BY <2>1 DEF Calls, Phase
  <2> QED BY <1>1, <2>2 DEF Line
<1>2. CASE ~ \E k \in CallsOf(t)' : call'[k].phase = "active"
  BY <1>2 DEF Line
<1> QED BY <1>1, <1>2

\* What the media service is given is well typed when the state it copies is.
LEMMA RoutedType ==
  ASSUME TypeOK, NEW S, Route(S), call' \in Calls, ifb' \in Feeds,
         talk' \in Selections, listen' \in Selections
  PROVE  routed' \in Contexts
<1>1. \A t \in Tokens : Context(t)' \in [talk : SUBSET Channels, listen : SUBSET Channels,
                                 line : Tokens \cup {None}, cue : Tokens \cup {None}]
  BY LineType DEF Context, Selections, Feeds
<1> QED BY <1>1 DEF TypeOK, Route, Unrouted, Contexts

\* The grant of an account that exists.
LEMMA AccountType ==
  ASSUME TypeOK, NEW t \in Tokens, accounts[Owner[t]] # None
  PROVE  accounts[Owner[t]] \in Grant
<1>1. Owner[t] \in Users
  BY CoordinationAssumption
<1> QED BY <1>1 DEF TypeOK

\* The members of a grant, and of the grants of sessions.
LEMMA GrantParts ==
  ASSUME NEW g \in Grant
  PROVE  g.talk \in SUBSET Channels /\ g.listen \in SUBSET Channels /\ g # None
BY CoordinationAssumption DEF Grant

LEMMA GrantedParts ==
  ASSUME TypeOK, NEW t \in Tokens
  PROVE  grant[t].talk \in SUBSET Channels /\ grant[t].listen \in SUBSET Channels
BY GrantParts DEF TypeOK

\* Stopping timers leaves them timers.
LEMMA StopType ==
  ASSUME TypeOK, NEW K PROVE Stop(K) \in Timers
BY DEF TypeOK, Stop, Timers

-----------------------------------------------------------------------------
(* Typing, action by action *)

LEMMA TypeInit == Init => TypeOK
<1> SUFFICES ASSUME Init PROVE TypeOK
  OBVIOUS
<1>1. accounts \in [Users -> {None} \cup Grant]
  BY CoordinationAssumption DEF Init
<1>2. OpenRule \in Rules
  BY CoordinationAssumption DEF OpenRule, Rules
<1>3. NoGrant \in Grant
  BY DEF NoGrant, Grant, Roles
<1>4. page \in Tokens \cup {None} /\ previous \in [Tokens -> {None} \cup SUBSET Channels]
  BY DEF Init
<1>5. call \in Calls /\ ifb \in Feeds /\ signal \in Signals /\ timer \in Timers
  BY DEF Init, Calls, Feeds, Signals, Timers, Phase, NoCall, NoIfb, NoSignal
<1>6. told \in States /\ routed \in Contexts
  BY DEF Init, States, Contexts, Silent, Unrouted
<1> QED
  BY <1>1, <1>2, <1>3, <1>4, <1>5, <1>6
  DEF Init, TypeOK, Rules, Calls, Feeds, Signals, Timers, States, Contexts

LEMMA AttachType == ASSUME TypeOK, NEW t \in Tokens, Attach(t) PROVE TypeOK'
<1>1. accounts[Owner[t]] \in Grant
  BY AccountType DEF Attach
<1>2. listen' \in Selections /\ talk' \in Selections
  BY <1>1, GrantParts DEF TypeOK, Attach, FirstListen, Selections
<1>3. call' \in Calls /\ ifb' \in Feeds
  BY DEF TypeOK, Attach, Calls, Feeds, lines
<1>4. told' \in States /\ routed' \in Contexts
  BY <1>2, <1>3, ToldType, RoutedType DEF Attach
<1>5. attached' \subseteq Tokens /\ older' \in [Tokens -> SUBSET Tokens]
  BY DEF TypeOK, Attach
<1>6. grant' \in [Tokens -> Grant] /\ rule' \in [Tokens -> Rules]
  BY <1>1 DEF TypeOK, Rules, Attach
<1>7. retained' \in [Tokens -> {None} \cup SUBSET Channels]
  BY DEF TypeOK, Attach
<1> QED
  BY <1>2, <1>4, <1>5, <1>6, <1>7
  DEF TypeOK, Attach, Selections, Rules, States, Contexts, database, lines

LEMMA ReattachType == ASSUME TypeOK, NEW t \in Tokens, Reattach(t) PROVE TypeOK'
<1>1. listen' \in Selections /\ talk' \in Selections
  BY DEF TypeOK, Reattach, Selections, session
<1>2. told' \in States
  BY <1>1, ToldType DEF Reattach
<1> QED
  BY <1>2 DEF TypeOK, Reattach, States, database, presence, session, lines

LEMMA RestoredType ==
  ASSUME TypeOK, NEW s \in Tokens PROVE Restored(s) \in SUBSET Channels
BY GrantedParts DEF TypeOK, Restored

LEMMA DetachType ==
  ASSUME TypeOK, NEW t \in Tokens, NEW reason, Detach(t, reason) PROVE TypeOK'
<1>1. talk' \in Selections /\ listen' \in Selections
  BY RestoredType DEF TypeOK, Detach, Selections
<1>2. ifb' \in Feeds
  BY DEF TypeOK, Detach, Feeds, NoIfb
<1>3. PICK ended \in FirstOf(CallsOf(t)) :
        /\ call' = [k \in CallIds |-> IF k \in ended THEN Over ELSE call[k]]
        /\ timer' = Stop(ended \cup SignalsOf(Owner[t]))
        /\ \E S : Route(S)
  BY DEF Detach
<1>4. call' \in Calls
  BY <1>3 DEF TypeOK, Calls, Phase, Over
<1>5. timer' \in Timers
  BY <1>3, StopType
<1>6. told' \in States
  BY <1>1, ToldType DEF Detach
<1>7. routed' \in Contexts
  BY <1>1, <1>2, <1>3, <1>4, RoutedType
<1>8. signal' \in Signals
  BY DEF TypeOK, Detach, Signals, Cleared
<1>9. attached' \subseteq Tokens /\ older' \in [Tokens -> SUBSET Tokens]
  BY DEF TypeOK, Detach
<1>10. grant' \in [Tokens -> Grant] /\ rule' \in [Tokens -> Rules]
  BY CoordinationAssumption
  DEF TypeOK, Rules, Detach, Grant, Roles, NoGrant, OpenRule
<1>11. retained' \in [Tokens -> {None} \cup SUBSET Channels]
  BY DEF TypeOK, Detach
<1>12. page' \in Tokens \cup {None} /\ previous' \in [Tokens -> {None} \cup SUBSET Channels]
  BY DEF TypeOK, Detach, NothingSaved
<1>13. UNCHANGED database
  BY DEF Detach
<1> QED
  BY <1>1, <1>2, <1>4, <1>5, <1>6, <1>7, <1>8, <1>9, <1>10, <1>11, <1>12, <1>13
  DEF TypeOK, Selections, Rules, Feeds, Calls, Timers, States, Contexts, Signals, database

\* The operations that change talk or listen selections and nothing else.
LEMMA SelectionType ==
  ASSUME TypeOK, NEW S, NEW R, Tell(S) \/ TellSoFar(S, listen), Route(R), talk' \in Selections, listen' \in Selections,
         UNCHANGED <<database, presence, grant, rule, retained, lines>>,
         page' \in Tokens \cup {None}, previous' \in [Tokens -> {None} \cup SUBSET Channels]
  PROVE  TypeOK'
<1>1. call' \in Calls /\ ifb' \in Feeds
  BY DEF TypeOK, Calls, Feeds, lines
<1>2. told' \in States /\ routed' \in Contexts
  BY <1>1, ToldType, RoutedType
<1> QED
  BY <1>2 DEF TypeOK, Selections, States, Contexts, database, presence, lines

LEMMA ListenSetType ==
  ASSUME TypeOK, NEW t \in Tokens, NEW c \in Channels, NEW on, ListenSet(t, c, on) PROVE TypeOK'
<1>1. talk' \in Selections /\ listen' \in Selections
  BY DEF TypeOK, ListenSet, Selections
<1>2. page' \in Tokens \cup {None} /\ previous' \in [Tokens -> {None} \cup SUBSET Channels]
  BY DEF TypeOK, ListenSet
<1> QED BY <1>1, <1>2, SelectionType DEF ListenSet

LEMMA TalkStartType ==
  ASSUME TypeOK, NEW t \in Tokens, NEW C \in SUBSET Channels, TalkStart(t, C) PROVE TypeOK'
<1>1. talk' \in Selections /\ listen' \in Selections
  BY DEF TypeOK, TalkStart, Selections
<1>2. page' \in Tokens \cup {None} /\ previous' \in [Tokens -> {None} \cup SUBSET Channels]
  BY DEF TypeOK, TalkStart
<1> QED BY <1>1, <1>2, SelectionType DEF TalkStart

LEMMA TalkStopType ==
  ASSUME TypeOK, NEW t \in Tokens, NEW C \in SUBSET Channels, TalkStop(t, C) PROVE TypeOK'
<1>1. talk' \in Selections /\ listen' \in Selections
  BY DEF TypeOK, TalkStop, Selections
<1>2. page' \in Tokens \cup {None} /\ previous' \in [Tokens -> {None} \cup SUBSET Channels]
  BY DEF TypeOK, TalkStop
<1> QED BY <1>1, <1>2, SelectionType DEF TalkStop

LEMMA ForceMuteType == ASSUME TypeOK, NEW u, ForceMute(u) PROVE TypeOK'
<1>1. talk' \in Selections /\ listen' \in Selections
  BY DEF TypeOK, ForceMute, Selections
<1>2. page' \in Tokens \cup {None} /\ previous' \in [Tokens -> {None} \cup SUBSET Channels]
  BY DEF TypeOK, ForceMute
<1> QED BY <1>1, <1>2, SelectionType DEF ForceMute

LEMMA UnlatchType == ASSUME TypeOK, NEW c, Unlatch(c) PROVE TypeOK'
<1>1. talk' \in Selections /\ listen' \in Selections
  BY DEF TypeOK, Unlatch, Selections
<1>2. page' \in Tokens \cup {None} /\ previous' \in [Tokens -> {None} \cup SUBSET Channels]
  BY DEF TypeOK, Unlatch
<1> QED BY <1>1, <1>2, SelectionType DEF Unlatch

LEMMA AllPageStartType == ASSUME TypeOK, NEW t \in Tokens, AllPageStart(t) PROVE TypeOK'
<1>1. talk' \in Selections /\ listen' \in Selections
  BY GrantedParts DEF TypeOK, AllPageStart, Selections
<1>2. page' \in Tokens \cup {None} /\ previous' \in [Tokens -> {None} \cup SUBSET Channels]
  BY DEF TypeOK, AllPageStart
<1> QED BY <1>1, <1>2, SelectionType DEF AllPageStart

LEMMA AllPageStopType == ASSUME TypeOK, NEW t \in Tokens, AllPageStop(t) PROVE TypeOK'
<1>1. talk' \in Selections /\ listen' \in Selections
  BY RestoredType DEF TypeOK, AllPageStop, Selections
<1>2. page' \in Tokens \cup {None} /\ previous' \in [Tokens -> {None} \cup SUBSET Channels]
  BY DEF TypeOK, AllPageStop, NothingSaved
<1> QED BY <1>1, <1>2, SelectionType DEF AllPageStop

\* The operations on calls, IFB feeds, signals and their timers.
LEMMA LinesType ==
  ASSUME TypeOK, UNCHANGED <<database, presence, session, retained, page, previous, told>>,
         call' \in Calls, ifb' \in Feeds, signal' \in Signals, timer' \in Timers,
         UNCHANGED routed \/ \E S : Route(S)
  PROVE  TypeOK'
<1>1. talk' \in Selections /\ listen' \in Selections
  BY DEF TypeOK, Selections, session
<1>2. routed' \in Contexts
  BY <1>1, RoutedType DEF TypeOK, Contexts
<1> QED
  BY <1>2 DEF TypeOK, Calls, Feeds, Signals, Timers, Contexts, database, presence, session

LEMMA CallRequestType ==
  ASSUME TypeOK, NEW t \in Tokens, NEW u \in Users, CallRequest(t, u) PROVE TypeOK'
<1>1. PICK s \in Tokens, k \in CallIds :
        /\ call' = [call EXCEPT ![k] = [from |-> t, to |-> s, phase |-> "ringing"]]
        /\ timer' = [timer EXCEPT ![k] = "armed"]
  BY DEF CallRequest
<1>2. call' \in Calls
  BY <1>1 DEF TypeOK, Calls, Phase
<1>3. timer' \in Timers
  BY <1>1 DEF TypeOK, Timers
<1>4. ifb' \in Feeds /\ signal' \in Signals
  BY DEF TypeOK, Feeds, Signals, CallRequest
<1> QED BY <1>2, <1>3, <1>4, LinesType DEF CallRequest, outside

LEMMA CallAcceptType ==
  ASSUME TypeOK, NEW t \in Tokens, NEW k \in CallIds, CallAccept(t, k) PROVE TypeOK'
<1>1. call' \in Calls
  <2> DEFINE P == Phase({"unused", "ringing", "active", "over"})
  <2>1. \A c \in P : [c EXCEPT !.phase = "active"] \in P
    BY DEF Phase
  <2>2. call \in [CallIds -> P] /\ call' = [call EXCEPT ![k].phase = "active"]
    BY DEF TypeOK, CallAccept
  <2>3. [call[k] EXCEPT !.phase = "active"] \in P
    BY <2>1, <2>2
  <2> HIDE DEF P
  <2>4. call' \in [CallIds -> P]
    BY <2>2, <2>3
  <2> QED BY <2>4 DEF P, Calls
<1>2. timer' \in Timers
  BY StopType DEF CallAccept
<1>3. ifb' \in Feeds /\ signal' \in Signals
  BY DEF TypeOK, Feeds, Signals, CallAccept
<1> QED BY <1>1, <1>2, <1>3, LinesType DEF CallAccept

LEMMA EndCallType ==
  ASSUME TypeOK, NEW k \in CallIds, EndCall(k), timer' \in Timers PROVE TypeOK'
<1>1. Over \in Phase({"unused", "ringing", "active", "over"})
  BY DEF Over, Phase
<1>2. call' \in Calls
  BY <1>1 DEF TypeOK, Calls, EndCall
<1>3. ifb' \in Feeds /\ signal' \in Signals
  BY DEF TypeOK, Feeds, Signals, EndCall
<1> QED BY <1>2, <1>3, LinesType DEF EndCall

LEMMA HangUpType ==
  ASSUME TypeOK, NEW t \in Tokens, NEW k \in CallIds, CallReject(t, k) \/ CallEnd(t, k)
  PROVE  TypeOK'
<1>1. timer' \in Timers
  BY StopType DEF CallReject, CallEnd
<1> QED BY <1>1, EndCallType DEF CallReject, CallEnd

LEMMA CallTimeoutType == ASSUME TypeOK, NEW k \in CallIds, CallTimeout(k) PROVE TypeOK'
<1>1. timer' \in Timers
  BY DEF TypeOK, Timers, CallTimeout
<1>2. CASE call[k].phase = "ringing"
  BY <1>1, <1>2, EndCallType DEF CallTimeout
<1>3. CASE call[k].phase # "ringing"
  <2>1. UNCHANGED <<database, presence, session, retained, page, previous,
                    call, ifb, signal, outside>>
    BY <1>3 DEF CallTimeout
  <2>2. call' \in Calls /\ ifb' \in Feeds /\ signal' \in Signals
    BY <2>1 DEF TypeOK, Calls, Feeds, Signals
  <2> QED BY <1>1, <2>1, <2>2, LinesType DEF outside
<1> QED BY <1>2, <1>3

LEMMA IfbStartType ==
  ASSUME TypeOK, NEW t \in Tokens, NEW u \in Users, IfbStart(t, u) PROVE TypeOK'
<1>1. PICK s \in Tokens : ifb' = [director |-> t, target |-> s] /\ Route({t, s})
  BY DEF IfbStart
<1>2. ifb' \in Feeds
  BY <1>1 DEF Feeds
<1>3. UNCHANGED <<database, presence, session, retained, page, previous, told, call, signal, timer>>
  BY DEF IfbStart
<1>4. call' \in Calls /\ signal' \in Signals /\ timer' \in Timers
  BY <1>3 DEF TypeOK, Calls, Signals, Timers
<1> QED BY <1>1, <1>2, <1>3, <1>4, LinesType

LEMMA IfbStopType == ASSUME TypeOK, NEW t \in Tokens, IfbStop(t) PROVE TypeOK'
<1>1. ifb' \in Feeds
  BY DEF Feeds, IfbStop, NoIfb
<1>2. call' \in Calls /\ signal' \in Signals /\ timer' \in Timers
  BY DEF IfbStop, TypeOK, Calls, Signals, Timers
<1> QED BY <1>1, <1>2, LinesType DEF IfbStop

LEMMA SignalSendType ==
  ASSUME TypeOK, NEW t \in Tokens, NEW to \in Users \cup {None}, NEW k \in SignalIds,
         SignalSend(t, to, k)
  PROVE  TypeOK'
<1>1. Owner[t] \in Users
  BY CoordinationAssumption
<1>2. signal' \in Signals
  BY <1>1 DEF TypeOK, Signals, SignalSend
<1>3. timer' \in Timers
  BY DEF TypeOK, Timers, SignalSend
<1>4. call' \in Calls /\ ifb' \in Feeds
  BY DEF TypeOK, Calls, Feeds, SignalSend
<1> QED BY <1>2, <1>3, <1>4, LinesType DEF SignalSend, outside

LEMMA SignalAckType ==
  ASSUME TypeOK, NEW t \in Tokens, NEW k \in SignalIds, SignalAck(t, k) PROVE TypeOK'
<1>1. signal' \in Signals
  BY DEF TypeOK, Signals, Cleared, SignalAck
<1>2. timer' \in Timers
  BY StopType DEF SignalAck
<1>3. call' \in Calls /\ ifb' \in Feeds
  BY DEF TypeOK, Calls, Feeds, SignalAck
<1> QED BY <1>1, <1>2, <1>3, LinesType DEF SignalAck, outside

LEMMA SignalExpireType ==
  ASSUME TypeOK, NEW k \in SignalIds, SignalExpire(k) PROVE TypeOK'
<1>1. signal' \in Signals
  BY DEF TypeOK, Signals, Cleared, SignalExpire
<1>2. timer' \in Timers
  BY DEF TypeOK, Timers, SignalExpire
<1>3. call' \in Calls /\ ifb' \in Feeds
  BY DEF TypeOK, Calls, Feeds, SignalExpire
<1> QED BY <1>1, <1>2, <1>3, LinesType DEF SignalExpire, outside

LEMMA TimerFiresType ==
  ASSUME TypeOK, NEW k \in CallIds \cup SignalIds, TimerFires(k) PROVE TypeOK'
BY DEF TypeOK, TimerFires, database, presence, session, outside

\* What an admin does to the database only.
LEMMA DatabaseType ==
  ASSUME TypeOK, UNCHANGED <<presence, session, retained, page, previous, lines, outside>>,
         accounts' \in [Users -> {None} \cup Grant], source' \in Rules,
         dueUsers' \subseteq Users, dueAll' \in BOOLEAN
  PROVE  TypeOK'
BY DEF TypeOK, Rules, presence, session, lines, outside

LEMMA ChosenType == ASSUME NEW g \in Grant PROVE Chosen(g) \in Grant
BY DEF Chosen, Grant

LEMMA UpdateUserType ==
  ASSUME TypeOK, NEW u \in Users, NEW g \in Grants, UpdateUser(u, g) PROVE TypeOK'
<1>1. accounts' \in [Users -> {None} \cup Grant]
  BY CoordinationAssumption, ChosenType DEF TypeOK, UpdateUser
<1>2. source' \in Rules /\ dueUsers' \subseteq Users /\ dueAll' \in BOOLEAN
  BY DEF TypeOK, UpdateUser, Rules
<1> QED BY <1>1, <1>2, DatabaseType DEF UpdateUser

LEMMA UpdateUserFailsType ==
  ASSUME TypeOK, NEW u \in Users, NEW g \in Grants, UpdateUserFails(u, g) PROVE TypeOK'
<1>1. g \in Grant /\ accounts[u] \in Grant
  BY CoordinationAssumption DEF TypeOK, UpdateUserFails
<1>2. [accounts[u] EXCEPT !.role = g.role] \in Grant
  BY <1>1 DEF Grant
<1>3. PICK stored \in Grant : accounts' = [accounts EXCEPT ![u] = stored]
  BY <1>1, <1>2, ChosenType DEF UpdateUserFails
<1>4. accounts' \in [Users -> {None} \cup Grant]
  BY <1>3 DEF TypeOK
<1>5. source' \in Rules /\ dueUsers' \subseteq Users /\ dueAll' \in BOOLEAN
  BY DEF TypeOK, UpdateUserFails, Rules
<1> QED BY <1>4, <1>5, DatabaseType DEF UpdateUserFails

LEMMA DeleteUserType == ASSUME TypeOK, NEW u \in Users, DeleteUser(u) PROVE TypeOK'
<1>1. accounts' \in [Users -> {None} \cup Grant]
  BY DEF TypeOK, DeleteUser
<1>2. source' \in Rules /\ dueUsers' \subseteq Users /\ dueAll' \in BOOLEAN
  BY DEF TypeOK, DeleteUser, Rules
<1> QED BY <1>1, <1>2, DatabaseType DEF DeleteUser

LEMMA UpdateChannelType ==
  ASSUME TypeOK, NEW c \in Channels, NEW r \in Sources, UpdateChannel(c, r) PROVE TypeOK'
<1>1. source' \in Rules
  BY DEF TypeOK, UpdateChannel, Rules
<1>2. accounts' \in [Users -> {None} \cup Grant] /\ dueUsers' \subseteq Users /\ dueAll' \in BOOLEAN
  BY DEF TypeOK, UpdateChannel
<1> QED BY <1>1, <1>2, DatabaseType DEF UpdateChannel

LEMMA DeleteChannelType == ASSUME TypeOK, NEW c \in Channels, DeleteChannel(c) PROVE TypeOK'
<1>1. \A g \in Grant : [g EXCEPT !.talk = @ \ {c}, !.listen = @ \ {c}] \in Grant
  BY DEF Grant
<1>2. accounts' \in [Users -> {None} \cup Grant]
  BY <1>1 DEF TypeOK, DeleteChannel
<1>3. source' \in Rules /\ dueUsers' \subseteq Users /\ dueAll' \in BOOLEAN
  BY DEF TypeOK, DeleteChannel, Rules
<1> QED BY <1>2, <1>3, DatabaseType DEF DeleteChannel

LEMMA RefreshType ==
  ASSUME TypeOK, NEW S, Refresh(S), dueUsers' \subseteq Users, dueAll' \in BOOLEAN
  PROVE  TypeOK'
<1> DEFINE R == {t \in S \cap attached : accounts[Owner[t]] # None}
           g == [t \in Tokens |-> IF t \in R THEN accounts[Owner[t]] ELSE grant[t]]
<1>1. g \in [Tokens -> Grant]
  BY AccountType DEF TypeOK
<1>2. grant' = g /\ rule' = [t \in Tokens |-> IF t \in R THEN source ELSE rule[t]]
  BY DEF Refresh
<1>3. rule' \in [Tokens -> Rules]
  BY <1>2 DEF TypeOK, Rules
<1>4. talk' \in Selections /\ listen' \in Selections
  BY DEF TypeOK, Refresh, Selections
<1>5. UNCHANGED <<accounts, source, presence, retained, page, previous, lines>>
  BY DEF Refresh
<1>6. call' \in Calls /\ ifb' \in Feeds
  BY <1>5 DEF TypeOK, Calls, Feeds, lines
<1>7. Tell(R) /\ Route(R)
  BY DEF Refresh
<1>8. told' \in States /\ routed' \in Contexts
  BY <1>4, <1>6, <1>7, ToldType, RoutedType
<1> QED
  BY <1>1, <1>2, <1>3, <1>4, <1>5, <1>8
  DEF TypeOK, Selections, Rules, States, Contexts, presence, lines

LEMMA AdminType ==
  ASSUME TypeOK, AdminStep PROVE TypeOK'
<1>1. ASSUME NEW u \in Users, RefreshUser(u) PROVE TypeOK'
  BY <1>1, RefreshType DEF RefreshUser, TypeOK
<1>2. ASSUME RefreshAll PROVE TypeOK'
  BY <1>2, RefreshType DEF RefreshAll, TypeOK
<1> QED
  BY <1>1, <1>2, ForceMuteType, UnlatchType, UpdateUserType, UpdateUserFailsType, DeleteUserType,
     UpdateChannelType, DeleteChannelType
  DEF AdminStep

LEMMA SessionType == ASSUME TypeOK, NEW t \in Tokens, SessionStep(t) PROVE TypeOK'
BY AttachType, ReattachType, DetachType, ListenSetType, TalkStartType, TalkStopType,
   AllPageStartType, AllPageStopType, CallRequestType, CallAcceptType, HangUpType,
   IfbStartType, IfbStopType, SignalSendType, SignalAckType
DEF SessionStep

LEMMA TimerType == ASSUME TypeOK, TimerStep PROVE TypeOK'
BY TimerFiresType, CallTimeoutType, SignalExpireType DEF TimerStep

\* The state stays well typed: nothing a session, a timer or an admin does puts
\* a value of the wrong kind anywhere, whatever order the operations run in.
THEOREM TypeCorrect == Spec => []TypeOK
<1>1. TypeOK /\ [Next]_vars => TypeOK'
  <2>1. TypeOK /\ Next => TypeOK'
    BY SessionType, TimerType, AdminType DEF Next
  <2>2. TypeOK /\ UNCHANGED vars => TypeOK'
    BY DEF TypeOK, vars, database, presence, session, lines, outside
  <2> QED BY <2>1, <2>2
<1> QED BY <1>1, TypeInit, PTL DEF Spec

-----------------------------------------------------------------------------
(* Sessions, permissions and the floor *)

\* A token without an attached session keeps no microphone and no monitor open.
OfflineSilent == \A t \in Tokens \ attached : talk[t] = {} /\ listen[t] = {}

\* The invariant that is inductive together with TypeOK.  OfflineSilent is what
\* PageSilencesOthers needs when a page starts: the code mutes the attached
\* sessions only, so nobody who is not attached may have an open microphone.
FloorInv == PermissionsRespected /\ PageSilencesOthers /\ OfflineSilent

LEMMA FloorInit == Init => FloorInv
BY DEF Init, FloorInv, PermissionsRespected, PageSilencesOthers, OfflineSilent, NoGrant

\* Lines, timers and database operations leave what the invariant reads alone.
LEMMA FloorUntouched ==
  ASSUME FloorInv, UNCHANGED <<presence, session, page>> PROVE FloorInv'
BY DEF FloorInv, PermissionsRespected, PageSilencesOthers, OfflineSilent, presence, session

LEMMA FloorAttach ==
  ASSUME TypeOK, FloorInv, NEW t \in Tokens, Attach(t) PROVE FloorInv'
<1>1. PermissionsRespected'
  BY DEF TypeOK, FloorInv, PermissionsRespected, OfflineSilent, Attach, FirstListen
<1>2. PageSilencesOthers'
  BY DEF TypeOK, FloorInv, PageSilencesOthers, OfflineSilent, Attach
<1>3. OfflineSilent'
  BY DEF TypeOK, FloorInv, OfflineSilent, Attach
<1> QED BY <1>1, <1>2, <1>3 DEF FloorInv

LEMMA FloorDetach ==
  ASSUME TypeOK, FloorInv, NEW t \in Tokens, NEW reason, Detach(t, reason) PROVE FloorInv'
<1>1. PermissionsRespected'
  BY DEF TypeOK, FloorInv, PermissionsRespected, Detach, Restored, NoGrant
<1>2. PageSilencesOthers'
  BY DEF TypeOK, FloorInv, PageSilencesOthers, Detach
<1>3. OfflineSilent'
  BY DEF TypeOK, FloorInv, OfflineSilent, Detach
<1> QED BY <1>1, <1>2, <1>3 DEF FloorInv

LEMMA FloorListenSet ==
  ASSUME TypeOK, FloorInv, NEW t \in Tokens, NEW c \in Channels, NEW on \in BOOLEAN,
         ListenSet(t, c, on)
  PROVE  FloorInv'
BY DEF TypeOK, FloorInv, PermissionsRespected, PageSilencesOthers, OfflineSilent,
       ListenSet, presence

LEMMA FloorTalkStart ==
  ASSUME TypeOK, FloorInv, NEW t \in Tokens, NEW C \in SUBSET Channels, TalkStart(t, C)
  PROVE  FloorInv'
BY DEF TypeOK, FloorInv, PermissionsRespected, PageSilencesOthers, OfflineSilent,
       TalkStart, BlocksTalkFor, MaySpeak, presence

\* Operations that only close microphones.
LEMMA FloorQuieter ==
  ASSUME TypeOK, FloorInv, UNCHANGED <<presence, grant, listen, page>>,
         talk' \in Selections, \A t \in Tokens : talk'[t] \subseteq talk[t]
  PROVE  FloorInv'
BY DEF TypeOK, FloorInv, PermissionsRespected, PageSilencesOthers, OfflineSilent,
       Selections, presence

LEMMA FloorTalkStop ==
  ASSUME TypeOK, FloorInv, NEW t \in Tokens, NEW C \in SUBSET Channels, TalkStop(t, C)
  PROVE  FloorInv'
BY FloorQuieter DEF TypeOK, TalkStop, Selections

LEMMA FloorForceMute == ASSUME TypeOK, FloorInv, NEW u, ForceMute(u) PROVE FloorInv'
BY FloorQuieter DEF TypeOK, ForceMute, Selections

LEMMA FloorUnlatch == ASSUME TypeOK, FloorInv, NEW c, Unlatch(c) PROVE FloorInv'
BY FloorQuieter DEF TypeOK, Unlatch, Selections

LEMMA FloorAllPageStart ==
  ASSUME TypeOK, FloorInv, NEW t \in Tokens, AllPageStart(t) PROVE FloorInv'
<1>1. PermissionsRespected'
  BY DEF TypeOK, FloorInv, PermissionsRespected, AllPageStart
<1>2. PageSilencesOthers'
  BY DEF TypeOK, FloorInv, PageSilencesOthers, OfflineSilent, AllPageStart, presence
<1>3. OfflineSilent'
  BY DEF TypeOK, FloorInv, OfflineSilent, AllPageStart, presence
<1> QED BY <1>1, <1>2, <1>3 DEF FloorInv

LEMMA FloorAllPageStop ==
  ASSUME TypeOK, FloorInv, NEW t \in Tokens, AllPageStop(t) PROVE FloorInv'
<1>1. PermissionsRespected'
  BY DEF TypeOK, FloorInv, PermissionsRespected, AllPageStop, Restored
<1>2. PageSilencesOthers'
  BY CoordinationAssumption DEF PageSilencesOthers, AllPageStop
<1>3. OfflineSilent'
  BY DEF TypeOK, FloorInv, OfflineSilent, AllPageStop, presence
<1> QED BY <1>1, <1>2, <1>3 DEF FloorInv

LEMMA FloorRefresh ==
  ASSUME TypeOK, FloorInv, NEW S, Refresh(S) PROVE FloorInv'
<1>1. PermissionsRespected'
  BY DEF TypeOK, FloorInv, PermissionsRespected, Refresh
<1>2. PageSilencesOthers'
  BY DEF TypeOK, FloorInv, PageSilencesOthers, Refresh, presence
<1>3. OfflineSilent'
  BY DEF TypeOK, FloorInv, OfflineSilent, Refresh, presence
<1> QED BY <1>1, <1>2, <1>3 DEF FloorInv

\* Calls, IFB, signals and timers.
LEMMA LinesUntouched ==
  ASSUME NEW t, NEW u, NEW k, NEW to,
         \/ Reattach(t) \/ CallRequest(t, u) \/ CallAccept(t, k) \/ CallReject(t, k)
         \/ CallEnd(t, k) \/ IfbStart(t, u) \/ IfbStop(t) \/ SignalSend(t, to, k)
         \/ SignalAck(t, k) \/ TimerFires(k) \/ CallTimeout(k) \/ SignalExpire(k)
  PROVE  UNCHANGED <<presence, session, page>>
BY DEF Reattach, CallRequest, CallAccept, CallReject, CallEnd, EndCall, IfbStart, IfbStop,
       SignalSend, SignalAck, TimerFires, CallTimeout, SignalExpire

LEMMA DatabaseUntouched ==
  ASSUME NEW u, NEW g, NEW c, NEW r,
         \/ UpdateUser(u, g) \/ UpdateUserFails(u, g) \/ DeleteUser(u)
         \/ UpdateChannel(c, r) \/ DeleteChannel(c)
  PROVE  UNCHANGED <<presence, session, page>>
BY DEF UpdateUser, UpdateUserFails, DeleteUser, UpdateChannel, DeleteChannel

LEMMA FloorStep ==
  ASSUME TypeOK, FloorInv, [Next]_vars PROVE FloorInv'
<1>1. ASSUME NEW t \in Tokens, SessionStep(t) PROVE FloorInv'
  BY <1>1, FloorAttach, FloorDetach, FloorListenSet, FloorTalkStart, FloorTalkStop,
     FloorAllPageStart, FloorAllPageStop, LinesUntouched, FloorUntouched
  DEF SessionStep
<1>2. ASSUME TimerStep PROVE FloorInv'
  BY <1>2, LinesUntouched, FloorUntouched DEF TimerStep
<1>3. ASSUME AdminStep PROVE FloorInv'
  BY <1>3, FloorForceMute, FloorUnlatch, FloorRefresh, DatabaseUntouched, FloorUntouched
  DEF AdminStep, RefreshUser, RefreshAll
<1>4. ASSUME UNCHANGED vars PROVE FloorInv'
  BY <1>4, FloorUntouched DEF vars
<1> QED BY <1>1, <1>2, <1>3, <1>4 DEF Next

LEMMA FloorInvariant == Spec => [](TypeOK /\ FloorInv)
<1>1. TypeOK /\ FloorInv /\ [Next]_vars => FloorInv'
  BY FloorStep
<1> QED BY <1>1, FloorInit, TypeCorrect, PTL DEF Spec

\* Sessions never talk or listen beyond the grant they were last given, however
\* attaches, refreshes, all-pages and retained selections interleave.
THEOREM PermissionsAlwaysRespected == Spec => []PermissionsRespected
BY FloorInvariant, PTL DEF FloorInv

\* While one session has the all-page floor, no other microphone is open.
THEOREM PageAlwaysSilences == Spec => []PageSilencesOthers
BY FloorInvariant, PTL DEF FloorInv

-----------------------------------------------------------------------------
(* The floor discipline *)

LEMMA RefineInit == Init => Floor!Init
BY DEF Init, Floor!Init

\* Steps that leave sessions and floor alone stutter in IntercomFloor.
LEMMA RefineUntouched ==
  ASSUME UNCHANGED <<presence, session, page>> PROVE UNCHANGED Floor!vars
BY DEF Floor!vars, presence, session

\* Operations that only close microphones.
LEMMA RefineHush ==
  ASSUME attached' = attached, page' = page, \A t \in Tokens : talk'[t] \subseteq talk[t]
  PROVE  Floor!Hush
BY DEF Floor!Hush, Floor!Quiet

LEMMA RefineAttach ==
  ASSUME TypeOK, FloorInv, NEW t \in Tokens, Attach(t) PROVE Floor!Join(t)
<1>1. talk' = talk
  BY DEF TypeOK, FloorInv, OfflineSilent, Attach
<1> QED BY <1>1 DEF Attach, Floor!Join

LEMMA RefineDetach ==
  ASSUME TypeOK, FloorInv, NEW t \in Tokens, NEW reason, Detach(t, reason) PROVE Floor!Leave(t)
<1>1. talk'[t] = {} /\ Floor!Quiet(Tokens)
  BY DEF Detach, TypeOK, Floor!Quiet
<1>2. CASE page = t
  BY <1>1, <1>2 DEF Detach, Floor!Leave
<1>3. CASE page # t
  BY <1>1, <1>3 DEF Detach, TypeOK, Floor!Leave
<1> QED BY <1>2, <1>3

LEMMA RefineTalkStart ==
  ASSUME TypeOK, NEW t \in Tokens, NEW C \in SUBSET Channels, TalkStart(t, C)
  PROVE  Floor!Speak(t, C)
BY DEF TalkStart, BlocksTalkFor, Floor!Speak, presence

LEMMA RefineAllPageStart ==
  ASSUME TypeOK, FloorInv, NEW t \in Tokens, AllPageStart(t) PROVE Floor!Take(t)
BY DEF TypeOK, FloorInv, OfflineSilent, AllPageStart, Floor!Take, presence

LEMMA RefineAllPageStop ==
  ASSUME TypeOK, NEW t \in Tokens, AllPageStop(t) PROVE Floor!Yield
<1>1. page \in Tokens
  BY DEF TypeOK, AllPageStop
<1>2. talk'[page] = {} /\ \A s \in Tokens : talk'[s] \subseteq talk[s]
  BY <1>1 DEF AllPageStop
<1> QED BY <1>2 DEF AllPageStop, Floor!Yield, Floor!Quiet, presence

LEMMA RefineListenSet == ASSUME TypeOK, NEW t, NEW c, NEW on, ListenSet(t, c, on) PROVE Floor!Hush
<1>1. \A s \in Tokens : talk'[s] \subseteq talk[s]
  BY DEF TypeOK, ListenSet
<1> QED BY <1>1, RefineHush DEF ListenSet, presence

LEMMA RefineTalkStop == ASSUME TypeOK, NEW t, NEW C, TalkStop(t, C) PROVE Floor!Hush
<1>1. \A s \in Tokens : talk'[s] \subseteq talk[s]
  BY DEF TypeOK, TalkStop
<1> QED BY <1>1, RefineHush DEF TalkStop, presence

LEMMA RefineForceMute == ASSUME TypeOK, NEW u, ForceMute(u) PROVE Floor!Hush
<1>1. \A s \in Tokens : talk'[s] \subseteq talk[s]
  BY DEF TypeOK, ForceMute
<1> QED BY <1>1, RefineHush DEF ForceMute, presence

LEMMA RefineUnlatch == ASSUME TypeOK, NEW c, Unlatch(c) PROVE Floor!Hush
<1>1. \A s \in Tokens : talk'[s] \subseteq talk[s]
  BY DEF TypeOK, Unlatch
<1> QED BY <1>1, RefineHush DEF Unlatch, presence

LEMMA RefineRefresh == ASSUME TypeOK, NEW S, Refresh(S) PROVE Floor!Hush
<1>1. \A s \in Tokens : talk'[s] \subseteq talk[s]
  BY DEF TypeOK, Refresh
<1> QED BY <1>1, RefineHush DEF Refresh, presence

LEMMA RefineStep ==
  ASSUME TypeOK, FloorInv, [Next]_vars PROVE [Floor!Next]_(Floor!vars)
<1>1. ASSUME NEW t \in Tokens, SessionStep(t) PROVE [Floor!Next]_(Floor!vars)
  BY <1>1, RefineAttach, RefineDetach, RefineListenSet, RefineTalkStart, RefineTalkStop,
     RefineAllPageStart, RefineAllPageStop, LinesUntouched, RefineUntouched
  DEF SessionStep, Floor!Next
<1>2. ASSUME TimerStep PROVE [Floor!Next]_(Floor!vars)
  BY <1>2, LinesUntouched, RefineUntouched DEF TimerStep
<1>3. ASSUME AdminStep PROVE [Floor!Next]_(Floor!vars)
  BY <1>3, RefineForceMute, RefineUnlatch, RefineRefresh, DatabaseUntouched, RefineUntouched
  DEF AdminStep, RefreshUser, RefreshAll, Floor!Next
<1>4. ASSUME UNCHANGED vars PROVE UNCHANGED Floor!vars
  BY <1>4, RefineUntouched DEF vars
<1> QED BY <1>1, <1>2, <1>3, <1>4 DEF Next

\* The coordination implements the floor discipline: a step opens at most one
\* session's microphone, never against somebody else's all-page, and reconnects,
\* refreshes and the end of an all-page open none.
THEOREM FloorDisciplineHolds == Spec => FloorDiscipline
<1>1. TypeOK /\ FloorInv /\ [Next]_vars => [Floor!Next]_(Floor!vars)
  BY RefineStep
<1> QED BY <1>1, RefineInit, FloorInvariant, PTL DEF Spec, FloorDiscipline, Floor!Spec
=============================================================================
