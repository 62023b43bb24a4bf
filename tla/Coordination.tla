----------------------------- MODULE Coordination -----------------------------
(***************************************************************************)
(* Operator-session coordination of the CueCommX server: the one authority *)
(* on who is attached, who talks and listens on which channel, who holds   *)
(* the all-page floor, which direct calls, IFB feeds and call signals are  *)
(* up.  The realtime service runs its operations one at a time (a promise  *)
(* queue), and an operation changes the whole coordination state before    *)
(* its steps - messages, timers, media routing - are applied, so each      *)
(* operation is one action here.  A command the code rejects changes       *)
(* nothing and is a stuttering step.                                       *)
(*                                                                         *)
(* The order between operations is left open: any queued refresh, timer or *)
(* disconnect may run before or after any command.                         *)
(***************************************************************************)
EXTENDS Naturals, FiniteSets

CONSTANTS
  Users,      \* accounts of the database
  Channels,
  Tokens,     \* session tokens; a user may be logged in under several
  Owner,      \* the user a token was issued to
  Grants,     \* the roles and channel permissions an admin may store
  Sources,    \* the talk rules an admin may give a channel
  CallIds,    \* direct calls; an id is used once, their number is the bound
  SignalIds,  \* call signals; likewise
  MaxUsers,   \* session limit of the server, 0 for none
  RequestsMayFail,  \* whether an update of a user may fail half-way
  Anyone,     \* talk rule of an intercom or confidence channel
  Gone,       \* talk rule of a deleted channel
  None

Roles == {"admin", "operator", "user"}
Grant == [role : Roles, talk : SUBSET Channels, listen : SUBSET Channels]
NoGrant == [role |-> "user", talk |-> {}, listen |-> {}]

\* What the constants must satisfy: tokens have owners, a channel's rule is
\* Anyone or the one user who feeds a program channel, and ids are distinct.
ASSUME CoordinationAssumption ==
  /\ Owner \in [Tokens -> Users]
  /\ Grants \subseteq Grant
  /\ Sources \subseteq Users \cup {Anyone, None}
  /\ Anyone \in Sources
  /\ Gone \notin Users \cup {Anyone, None}
  /\ MaxUsers \in Nat
  /\ RequestsMayFail \in BOOLEAN
  /\ None \notin Tokens \cup Users
  /\ \A g \in Grant : g # None
  /\ \A C \in SUBSET Channels : C # None
  /\ CallIds \cap SignalIds = {}

VARIABLES
  \* the database and the refreshes its REST handlers have queued
  accounts,   \* user -> stored grant, None once deleted
  source,     \* channel -> talk rule: Anyone, the designated source, or Gone
  dueUsers,   \* users whose sessions still have to be refreshed
  dueAll,     \* whether a refresh of all sessions is queued
  \* one operator session per attached token
  attached,
  older,      \* attached sessions of the same user that attached earlier
  grant,      \* the grant read when the session was built or refreshed
  rule,       \* the talk rules read at the same time
  talk,
  listen,
  retained,   \* listen selection kept for a dropped connection, or None
  \* the features that sessions share
  page,       \* token that holds the all-page floor, or None
  previous,   \* listen selection saved when the page began, or None
  call,
  ifb,
  signal,
  timer,      \* timeout of a call or signal: "off", "armed" or "fired"
  \* what the steps of the operations have brought outside
  told,       \* operator state last sent to a session's clients
  routed      \* routing context the media service was last given

database == <<accounts, source, dueUsers, dueAll>>
presence == <<attached, older>>
session  == <<grant, rule, talk, listen>>
lines    == <<call, ifb, signal, timer>>
outside  == <<told, routed>>
vars == <<database, presence, session, retained, page, previous, lines, outside>>

-----------------------------------------------------------------------------
NoCall   == [from |-> None, to |-> None, phase |-> "unused"]
Over     == [from |-> None, to |-> None, phase |-> "over"]
NoIfb    == [director |-> None, target |-> None]
NoSignal == [from |-> None, to |-> None, phase |-> "unused"]
Cleared  == [from |-> None, to |-> None, phase |-> "cleared"]
Silent   == [talk |-> {}, listen |-> {}]
Unrouted == [talk |-> {}, listen |-> {}, line |-> None, cue |-> None]
OpenRule == [c \in Channels |-> Anyone]

\* Admins and operators have the intercom's stronger commands.
Privileged(t) == grant[t].role \in {"admin", "operator"}

\* The session findSessionByUserId returns: sessions are kept in the order
\* they attached, and the first one of the user is taken.
IsFirstOf(s, u) == s \in attached /\ Owner[s] = u /\ older[s] = {}

\* Slip: only the caller counts as a party.
CallsFrom(t) == {k \in CallIds : t = call[k].from}
CallsOf(t) == {k \in CallIds : t \in {call[k].from, call[k].to}}
\* Slip: the signals a user sent are forgotten.
SignalsTo(u) == {k \in SignalIds : u = signal[k].to}
SignalsOf(u) == {k \in SignalIds : u \in {signal[k].from, signal[k].to}}

\* The other end of the session's call once it has been answered.
Line(t) ==
  IF \E k \in CallsOf(t) : call[k].phase = "active"
    THEN LET c == call[CHOOSE k \in CallsOf(t) : call[k].phase = "active"]
         IN  IF c.from = t THEN c.to ELSE c.from
    ELSE None

\* Slip: the feed is routed from the director's account, not from the session.
ContextOfUser(t) ==
  [talk |-> talk[t], listen |-> listen[t], line |-> Line(t),
   cue |-> IF ifb.target = t THEN Owner[ifb.director] ELSE None]

\* What the media service is told of a session when its routing is refreshed.
Context(t) ==
  [talk |-> talk[t], listen |-> listen[t], line |-> Line(t),
   cue |-> IF ifb.target = t THEN ifb.director ELSE None]

\* Slip: a client is told only when its microphone changes.
TellTalkers(S) ==
  LET changed == {t \in S \cap attached' : talk'[t] # talk[t]}
  IN  told' = [t \in Tokens |-> IF t \in changed
                                   THEN [talk |-> talk'[t], listen |-> listen'[t]]
                                 ELSE IF t \in attached' THEN told[t] ELSE Silent]

\* operator-state or session:ready steps for the sessions of S, which listen as in L
\* at that point of the operation.
TellSoFar(S, L) ==
  told' = [t \in Tokens |-> IF t \in S \cap attached'
                              THEN [talk |-> talk'[t], listen |-> L[t]]
                            ELSE IF t \in attached' THEN told[t] ELSE Silent]

Tell(S) == TellSoFar(S, listen')

\* Slip: the context is read before the operation changes it.
RouteStale(S) ==
  routed' = [t \in Tokens |-> IF t \in S \cap attached' THEN Context(t)
                              ELSE IF t \in attached' THEN routed[t] ELSE Unrouted]

\* media-routing steps for the sessions of S; a detached session is unregistered.
Route(S) ==
  routed' = [t \in Tokens |-> IF t \in S \cap attached' THEN Context(t)'
                              ELSE IF t \in attached' THEN routed[t] ELSE Unrouted]

\* Slip: one call's end stops every timer.
StopAll(K) == [k \in CallIds \cup SignalIds |->
                 IF K # {} /\ timer[k] = "armed" THEN "off" ELSE timer[k]]

Stop(K) == [k \in CallIds \cup SignalIds |->
              IF k \in K /\ timer[k] = "armed" THEN "off" ELSE timer[k]]

-----------------------------------------------------------------------------
Init ==
  /\ accounts \in [Users -> Grants]
  /\ \E u \in Users : accounts[u].role = "admin"
  /\ source = OpenRule
  /\ dueUsers = {}
  /\ dueAll = FALSE
  /\ attached = {}
  /\ older = [t \in Tokens |-> {}]
  /\ grant = [t \in Tokens |-> NoGrant]
  /\ rule = [t \in Tokens |-> OpenRule]
  /\ talk = [t \in Tokens |-> {}]
  /\ listen = [t \in Tokens |-> {}]
  /\ retained = [t \in Tokens |-> None]
  /\ page = None
  /\ previous = [t \in Tokens |-> None]
  /\ call = [k \in CallIds |-> NoCall]
  /\ ifb = NoIfb
  /\ signal = [k \in SignalIds |-> NoSignal]
  /\ timer = [k \in CallIds \cup SignalIds |-> "off"]
  /\ told = [t \in Tokens |-> Silent]
  /\ routed = [t \in Tokens |-> Unrouted]

-----------------------------------------------------------------------------
(* Sessions come and go *)

\* Slip: off by one.
HasRoomForOneMore == MaxUsers > 0 => Cardinality(attached) <= MaxUsers

HasRoom == MaxUsers > 0 => Cardinality(attached) < MaxUsers

\* Slip: a kept selection is not checked against the permissions of today.
FirstListenUnchecked(t) ==
  IF retained[t] = None THEN accounts[Owner[t]].listen ELSE retained[t]

\* What a new session listens to: the selection kept from a dropped connection,
\* within what the user may hear now, or else everything.
FirstListen(t) ==
  IF retained[t] = None THEN accounts[Owner[t]].listen
                        ELSE retained[t] \cap accounts[Owner[t]].listen

\* A connection authenticates with the token of a session that is not attached.
Attach(t) ==
  /\ t \notin attached
  /\ accounts[Owner[t]] # None
  /\ HasRoom
  /\ attached' = attached \cup {t}
  /\ older' = [older EXCEPT ![t] = {s \in attached : Owner[s] = Owner[t]}]
  /\ grant' = [grant EXCEPT ![t] = accounts[Owner[t]]]
  /\ rule' = [rule EXCEPT ![t] = source]
  /\ talk' = [talk EXCEPT ![t] = {}]
  /\ listen' = [listen EXCEPT ![t] = FirstListen(t)]
  /\ retained' = [retained EXCEPT ![t] = None]
  /\ UNCHANGED <<database, page, previous, lines>>
  /\ Tell({t})
  /\ Route({t})

\* Another connection authenticates with the token: it gets session:ready only.
Reattach(t) ==
  /\ t \in attached
  /\ UNCHANGED <<database, presence, session, retained, page, previous, lines, routed>>
  /\ Tell({t})

\* Slip: the saved selection is not checked against the permissions of now.
RestoredUnchecked(s) == IF previous[s] = None THEN listen[s] ELSE previous[s]

\* Talk and listen of the listeners in S when the all-page ends: the selection
\* saved at its start, within what the listener may hear now.
Restored(s) ==
  (IF previous[s] = None THEN listen[s] ELSE previous[s]) \cap grant[s].listen

NothingSaved == [t \in Tokens |-> None]

\* endForSession ends one call of the session, the first one it finds.
FirstOf(K) == IF K = {} THEN {{}} ELSE {{k} : k \in K}

\* Slip: only the caller's side is torn down.
AnsweredByCaller(k) == IF call[k].phase = "active" THEN {call[k].from} ELSE {}

\* The parties whose routing changes when the call ends.
Answered(k) == IF call[k].phase = "active" THEN {call[k].from, call[k].to} ELSE {}

\* The last socket of the session is gone, or the server closed it.  Only a
\* dropped connection keeps its listen selection for a later attach.
Detach(t, reason) ==
  LET others  == IF page = t THEN attached \ {t} ELSE {}
      cleared == SignalsOf(Owner[t])
      onIfb   == t \in {ifb.director, ifb.target}
  IN
  /\ t \in attached
  /\ attached' = attached \ {t}
  /\ older' = [s \in Tokens |-> IF s = t THEN {} ELSE older[s] \ {t}]
  /\ grant' = [grant EXCEPT ![t] = NoGrant]
  /\ rule' = [rule EXCEPT ![t] = OpenRule]
  /\ talk' = [s \in Tokens |-> IF s = t THEN {}
                               ELSE IF s \in others THEN talk[s] \cap grant[s].talk
                               ELSE talk[s]]
  /\ listen' = [s \in Tokens |-> IF s = t THEN {}
                                 ELSE IF s \in others THEN Restored(s)
                                 ELSE listen[s]]
  /\ retained' = [retained EXCEPT ![t] = IF reason = "disconnect" THEN listen[t] ELSE None]
  /\ page' = IF page = t THEN None ELSE page
  /\ previous' = IF page = t THEN NothingSaved ELSE previous
  /\ ifb' = IF onIfb THEN NoIfb ELSE ifb
  /\ signal' = [k \in SignalIds |-> IF k \in cleared THEN Cleared ELSE signal[k]]
  /\ \E ended \in FirstOf(CallsOf(t)) :
       /\ call' = [k \in CallIds |-> IF k \in ended THEN Over ELSE call[k]]
       /\ timer' = Stop(ended \cup cleared)
       /\ Route(others \cup (IF onIfb THEN {ifb.director, ifb.target} ELSE {})
                 \cup UNION {Answered(k) : k \in ended})
  /\ UNCHANGED database
  /\ Tell(others)

-----------------------------------------------------------------------------
(* Talk and listen *)

ListenSet(t, c, on) ==
  /\ t \in attached
  /\ IF on THEN c \in grant[t].listen ELSE c \in grant[t].talk \cup grant[t].listen
  /\ listen' = [listen EXCEPT ![t] = IF on THEN @ \cup {c} ELSE @ \ {c}]
  /\ UNCHANGED <<database, presence, grant, rule, talk, retained, page, previous, lines>>
  /\ Tell({t})
  /\ Route({t})

\* Slips: operators are exempt, or nobody is blocked by name.
BlocksOnlyUsers(t) == page \notin {None, t} /\ ~Privileged(t)
BlocksOnlyPager(t) == page = t

BlocksTalkFor(t) == page \notin {None, t}

MaySpeak(t, c) == c \in grant[t].talk /\ rule[t][c] \in {Anyone, Owner[t]}

TalkStart(t, C) ==
  /\ t \in attached
  /\ ~BlocksTalkFor(t)
  /\ \A c \in C : MaySpeak(t, c)
  /\ talk' = [talk EXCEPT ![t] = @ \cup C]
  /\ UNCHANGED <<database, presence, grant, rule, listen, retained, page, previous, lines>>
  /\ Tell({t})
  /\ Route({t})

TalkStop(t, C) ==
  /\ t \in attached
  /\ C \subseteq grant[t].talk
  /\ talk' = [talk EXCEPT ![t] = @ \ C]
  /\ UNCHANGED <<database, presence, grant, rule, listen, retained, page, previous, lines>>
  /\ Tell({t})
  /\ Route({t})

\* An admin mutes every session of a user (also from OSC and the StreamDeck).
ForceMute(u) ==
  LET S == {t \in attached : Owner[t] = u /\ talk[t] # {}} IN
  /\ S # {}
  /\ talk' = [t \in Tokens |-> IF t \in S THEN {} ELSE talk[t]]
  /\ UNCHANGED <<database, presence, grant, rule, listen, retained, page, previous, lines>>
  /\ Tell(S)
  /\ Route(S)

\* An admin takes everybody off a channel.
Unlatch(c) ==
  LET S == {t \in attached : c \in talk[t]} IN
  /\ S # {}
  /\ talk' = [t \in Tokens |-> IF t \in S THEN talk[t] \ {c} ELSE talk[t]]
  /\ UNCHANGED <<database, presence, grant, rule, listen, retained, page, previous, lines>>
  /\ Tell(S)
  /\ Route(S)

-----------------------------------------------------------------------------
(* All-page *)

\* Everyone else is muted and made to listen to all it may hear; only the
\* sessions whose talk changed are sent their operator state, and that before
\* the listen sets are widened.
AllPageStart(t) ==
  LET others == attached \ {t}
      muted  == {s \in others : talk[s] # {}}
      opened == IF talk[t] = grant[t].talk THEN {} ELSE {t}
      heard(s) == listen[s] \cup grant[s].listen
  IN
  /\ t \in attached
  /\ Privileged(t)
  /\ page = None
  /\ page' = t
  /\ talk' = [s \in Tokens |-> IF s = t THEN grant[t].talk
                               ELSE IF s \in others THEN {} ELSE talk[s]]
  /\ previous' = [s \in Tokens |-> IF s \in others THEN listen[s] ELSE None]
  /\ listen' = [s \in Tokens |-> IF s \in others THEN heard(s) ELSE listen[s]]
  /\ UNCHANGED <<database, presence, grant, rule, retained, lines>>
  /\ TellSoFar(muted \cup opened, listen)
  /\ Route(muted \cup opened \cup {s \in others : heard(s) # listen[s]})

AllPageStop(t) ==
  /\ t \in attached
  /\ page # None
  /\ t = page \/ grant[t].role = "admin"
  /\ page' = None
  /\ previous' = NothingSaved
  /\ talk' = [s \in Tokens |-> IF s = page THEN {} ELSE talk[s] \cap grant[s].talk]
  /\ listen' = [s \in Tokens |-> IF s \in attached \ {page} THEN Restored(s) ELSE listen[s]]
  /\ UNCHANGED <<database, presence, grant, rule, retained, lines>>
  /\ Tell(attached)
  /\ Route(attached)

-----------------------------------------------------------------------------
(* Direct calls *)

CallRequest(t, u) ==
  /\ t \in attached
  /\ u # Owner[t]
  /\ CallsOf(t) = {}
  /\ \E s \in Tokens, k \in CallIds :
       /\ IsFirstOf(s, u)
       /\ CallsOf(s) = {}
       /\ call[k] = NoCall
       /\ call' = [call EXCEPT ![k] = [from |-> t, to |-> s, phase |-> "ringing"]]
       /\ timer' = [timer EXCEPT ![k] = "armed"]
  /\ UNCHANGED <<database, presence, session, retained, page, previous, ifb, signal, outside>>

CallAccept(t, k) ==
  /\ t \in attached
  /\ call[k].phase = "ringing"
  /\ call[k].to = t
  /\ call' = [call EXCEPT ![k].phase = "active"]
  /\ timer' = Stop({k})
  /\ UNCHANGED <<database, presence, session, retained, page, previous, ifb, signal, told>>
  /\ Route({call[k].from, t})

\* The common tail of hanging up, rejecting and timing out.
EndCall(k) ==
  /\ call' = [call EXCEPT ![k] = Over]
  /\ UNCHANGED <<database, presence, session, retained, page, previous, ifb, signal, told>>
  /\ Route(Answered(k))

CallReject(t, k) ==
  /\ t \in attached
  /\ call[k].phase = "ringing"
  /\ call[k].to = t
  /\ EndCall(k)
  /\ timer' = Stop({k})

CallEnd(t, k) ==
  /\ t \in attached
  /\ t \in {call[k].from, call[k].to}
  /\ EndCall(k)
  /\ timer' = Stop({k})

\* The 30 s timeout of a call or signal elapses; its handling is queued.
TimerFires(k) ==
  /\ timer[k] = "armed"
  /\ timer' = [timer EXCEPT ![k] = "fired"]
  /\ UNCHANGED <<database, presence, session, retained, page, previous, call, ifb, signal, outside>>

\* Slips: whether the call still rings is not checked, or checked upside down.
CallTimeoutUnchecked(k) ==
  /\ timer[k] = "fired"
  /\ timer' = [timer EXCEPT ![k] = "off"]
  /\ EndCall(k)

CallTimeoutReversed(k) ==
  /\ timer[k] = "fired"
  /\ timer' = [timer EXCEPT ![k] = "off"]
  /\ IF call[k].phase = "active"
       THEN EndCall(k)
       ELSE UNCHANGED <<database, presence, session, retained, page, previous,
                        call, ifb, signal, outside>>

CallTimeout(k) ==
  /\ timer[k] = "fired"
  /\ timer' = [timer EXCEPT ![k] = "off"]
  /\ IF call[k].phase = "ringing"
       THEN EndCall(k)
       ELSE UNCHANGED <<database, presence, session, retained, page, previous,
                        call, ifb, signal, outside>>

-----------------------------------------------------------------------------
(* IFB and call signals *)

IfbStart(t, u) ==
  /\ t \in attached
  /\ Privileged(t)
  /\ u # Owner[t]
  /\ ifb = NoIfb
  /\ \E s \in Tokens :
       /\ IsFirstOf(s, u)
       /\ ifb' = [director |-> t, target |-> s]
       /\ UNCHANGED <<database, presence, session, retained, page, previous, call, signal, timer, told>>
       /\ Route({t, s})

IfbStop(t) ==
  /\ t \in attached
  /\ ifb # NoIfb
  /\ t = ifb.director \/ grant[t].role = "admin"
  /\ ifb' = NoIfb
  /\ UNCHANGED <<database, presence, session, retained, page, previous, call, signal, timer, told>>
  /\ Route({ifb.director, ifb.target})

\* To a user, or (to = None) to a channel the sender may talk on.
SignalSend(t, to, k) ==
  /\ t \in attached
  /\ Privileged(t) \/ (to = None /\ grant[t].talk # {})
  /\ signal[k] = NoSignal
  /\ signal' = [signal EXCEPT ![k] = [from |-> Owner[t], to |-> to, phase |-> "active"]]
  /\ timer' = [timer EXCEPT ![k] = "armed"]
  /\ UNCHANGED <<database, presence, session, retained, page, previous, call, ifb, outside>>

\* Anyone attached may acknowledge a signal.
SignalAck(t, k) ==
  /\ t \in attached
  /\ signal[k].phase = "active"
  /\ signal' = [signal EXCEPT ![k] = Cleared]
  /\ timer' = Stop({k})
  /\ UNCHANGED <<database, presence, session, retained, page, previous, call, ifb, outside>>

SignalExpire(k) ==
  /\ timer[k] = "fired"
  /\ timer' = [timer EXCEPT ![k] = "off"]
  /\ signal' = IF signal[k].phase = "active" THEN [signal EXCEPT ![k] = Cleared] ELSE signal
  /\ UNCHANGED <<database, presence, session, retained, page, previous, call, ifb, outside>>

-----------------------------------------------------------------------------
(* Administration: a REST handler changes the database at once and queues   *)
(* the refresh of the sessions that cached what it changed.                 *)

OnlyAdmin(u) ==
  /\ accounts[u] # None /\ accounts[u].role = "admin"
  /\ \A v \in Users \ {u} : accounts[v] = None \/ accounts[v].role # "admin"

Existing == {c \in Channels : source[c] # Gone}

\* The admin chooses among the channels there are.
Chosen(g) == [g EXCEPT !.talk = @ \cap Existing, !.listen = @ \cap Existing]

UpdateUser(u, g) ==
  /\ accounts[u] # None
  /\ OnlyAdmin(u) => g.role = "admin"
  /\ accounts' = [accounts EXCEPT ![u] = Chosen(g)]
  /\ dueUsers' = dueUsers \cup {u}
  /\ UNCHANGED <<source, dueAll, presence, session, retained, page, previous, lines, outside>>

\* The request names a channel, or a group, that another admin has deleted: the
\* role, or the role and the permissions, are stored before the insert fails,
\* and the refresh is never reached.
UpdateUserFails(u, g) ==
  /\ RequestsMayFail
  /\ accounts[u] # None
  /\ OnlyAdmin(u) => g.role = "admin"
  /\ \E stored \in {Chosen(g), [accounts[u] EXCEPT !.role = g.role]} :
       accounts' = [accounts EXCEPT ![u] = stored]
  /\ UNCHANGED <<source, dueUsers, dueAll, presence, session, retained, page, previous, lines, outside>>

\* No refresh: the handler closes the sessions of the user, which detach later.
DeleteUser(u) ==
  /\ accounts[u] # None
  /\ ~OnlyAdmin(u)
  /\ accounts' = [accounts EXCEPT ![u] = None]
  /\ UNCHANGED <<source, dueUsers, dueAll, presence, session, retained, page, previous, lines, outside>>

\* Slip: a new talk rule is stored and no session is refreshed.
UpdateChannelQuietly(c, r) ==
  /\ c \in Existing
  /\ source' = [source EXCEPT ![c] = r]
  /\ UNCHANGED <<accounts, dueUsers, dueAll, presence, session, retained, page, previous, lines, outside>>

UpdateChannel(c, r) ==
  /\ c \in Existing
  /\ source' = [source EXCEPT ![c] = r]
  /\ dueAll' = TRUE
  /\ UNCHANGED <<accounts, dueUsers, presence, session, retained, page, previous, lines, outside>>

\* Slip: likewise for a deleted channel.
DeleteChannelQuietly(c) ==
  /\ c \in Existing
  /\ source' = [source EXCEPT ![c] = Gone]
  /\ accounts' = [u \in Users |-> IF accounts[u] = None THEN None
                                  ELSE [accounts[u] EXCEPT !.talk = @ \ {c}, !.listen = @ \ {c}]]
  /\ UNCHANGED <<dueUsers, dueAll, presence, session, retained, page, previous, lines, outside>>

\* Deleting a channel deletes every permission for it.
DeleteChannel(c) ==
  /\ c \in Existing
  /\ source' = [source EXCEPT ![c] = Gone]
  /\ accounts' = [u \in Users |-> IF accounts[u] = None THEN None
                                  ELSE [accounts[u] EXCEPT !.talk = @ \ {c}, !.listen = @ \ {c}]]
  /\ dueAll' = TRUE
  /\ UNCHANGED <<dueUsers, presence, session, retained, page, previous, lines, outside>>

\* Sessions whose user is gone are left as they are and told to disconnect.
Refresh(S) ==
  LET R == {t \in S \cap attached : accounts[Owner[t]] # None}
      g == [t \in Tokens |-> IF t \in R THEN accounts[Owner[t]] ELSE grant[t]]
  IN
  /\ grant' = g
  /\ rule' = [t \in Tokens |-> IF t \in R THEN source ELSE rule[t]]
  /\ talk' = [t \in Tokens |-> IF t \in R THEN talk[t] \cap g[t].talk ELSE talk[t]]
  /\ listen' = [t \in Tokens |-> IF t \in R THEN listen[t] \cap g[t].listen ELSE listen[t]]
  /\ UNCHANGED <<accounts, source, presence, retained, page, previous, lines>>
  /\ Tell(R)
  /\ Route(R)

\* Slip: only the first session of the user is refreshed.
RefreshFirstSession(u) ==
  /\ u \in dueUsers
  /\ dueUsers' = dueUsers \ {u}
  /\ Refresh({t \in Tokens : IsFirstOf(t, u)})
  /\ UNCHANGED dueAll

RefreshUser(u) ==
  /\ u \in dueUsers
  /\ dueUsers' = dueUsers \ {u}
  /\ Refresh({t \in Tokens : Owner[t] = u})
  /\ UNCHANGED dueAll

RefreshAll ==
  /\ dueAll
  /\ dueAll' = FALSE
  /\ Refresh(Tokens)
  /\ UNCHANGED dueUsers

-----------------------------------------------------------------------------
DetachReasons == {"disconnect", "logout", "revoked", "shutdown"}

SessionStep(t) ==
  \/ Attach(t) \/ Reattach(t)
  \/ \E reason \in DetachReasons : Detach(t, reason)
  \/ \E c \in Channels, on \in BOOLEAN : ListenSet(t, c, on)
  \/ \E C \in SUBSET Channels \ {{}} : TalkStart(t, C) \/ TalkStop(t, C)
  \/ AllPageStart(t) \/ AllPageStop(t)
  \/ \E u \in Users : CallRequest(t, u) \/ IfbStart(t, u)
  \/ \E k \in CallIds : CallAccept(t, k) \/ CallReject(t, k) \/ CallEnd(t, k)
  \/ IfbStop(t)
  \/ \E k \in SignalIds, to \in Users \cup {None} : SignalSend(t, to, k)
  \/ \E k \in SignalIds : SignalAck(t, k)

TimerStep ==
  \/ \E k \in CallIds \cup SignalIds : TimerFires(k)
  \/ \E k \in CallIds : CallTimeout(k)
  \/ \E k \in SignalIds : SignalExpire(k)

AdminStep ==
  \/ \E u \in Users : ForceMute(u) \/ DeleteUser(u) \/ RefreshUser(u)
  \/ \E c \in Channels : Unlatch(c) \/ DeleteChannel(c)
  \/ \E u \in Users, g \in Grants : UpdateUser(u, g) \/ UpdateUserFails(u, g)
  \/ \E c \in Channels, r \in Sources : UpdateChannel(c, r)
  \/ RefreshAll

Next == (\E t \in Tokens : SessionStep(t)) \/ TimerStep \/ AdminStep

Spec == Init /\ [][Next]_vars

\* Timers elapse and the outcome queue is always drained (service.ts runs every
\* queued operation, also after one that failed); deleting a user closes the
\* user's connections.  Nothing else has to happen.
Fairness ==
  /\ \A k \in CallIds \cup SignalIds : WF_vars(TimerFires(k))
  /\ \A k \in CallIds : WF_vars(CallTimeout(k))
  /\ \A k \in SignalIds : WF_vars(SignalExpire(k))
  /\ \A u \in Users : WF_vars(RefreshUser(u))
  /\ WF_vars(RefreshAll)
  /\ \A t \in Tokens : WF_vars(accounts[Owner[t]] = None /\ Detach(t, "revoked"))

FairSpec == Spec /\ Fairness

-----------------------------------------------------------------------------
(* Invariants *)

\* The records of calls, by their phase.
Phase(phases) == [from : Tokens \cup {None}, to : Tokens \cup {None}, phase : phases]

\* Every part of the state has its type: what the server keeps of sessions,
\* features and the database, and what it has told clients and the media service.
TypeOK ==
  /\ accounts \in [Users -> {None} \cup Grant]
  /\ source \in [Channels -> Sources \cup {Gone}]
  /\ dueUsers \subseteq Users
  /\ dueAll \in BOOLEAN
  /\ attached \subseteq Tokens
  /\ older \in [Tokens -> SUBSET Tokens]
  /\ grant \in [Tokens -> Grant]
  /\ rule \in [Tokens -> [Channels -> Sources \cup {Gone}]]
  /\ talk \in [Tokens -> SUBSET Channels]
  /\ listen \in [Tokens -> SUBSET Channels]
  /\ retained \in [Tokens -> {None} \cup SUBSET Channels]
  /\ page \in Tokens \cup {None}
  /\ previous \in [Tokens -> {None} \cup SUBSET Channels]
  /\ call \in [CallIds -> Phase({"unused", "ringing", "active", "over"})]
  /\ ifb \in [director : Tokens \cup {None}, target : Tokens \cup {None}]
  /\ signal \in [SignalIds -> [from : Users \cup {None}, to : Users \cup {None},
                               phase : {"unused", "active", "cleared"}]]
  /\ timer \in [CallIds \cup SignalIds -> {"off", "armed", "fired"}]
  /\ told \in [Tokens -> [talk : SUBSET Channels, listen : SUBSET Channels]]
  /\ routed \in [Tokens -> [talk : SUBSET Channels, listen : SUBSET Channels,
                            line : Tokens \cup {None}, cue : Tokens \cup {None}]]

\* A session talks and listens only where the grant it was last given lets it,
\* whatever attach, refresh, all-page and retained selections did in between.
PermissionsRespected ==
  \A t \in Tokens : talk[t] \subseteq grant[t].talk /\ listen[t] \subseteq grant[t].listen

\* While a session holds the all-page floor it is attached and nobody else has
\* an open microphone on any channel.
PageSilencesOthers ==
  page # None => page \in attached /\ \A t \in Tokens \ {page} : talk[t] = {}

\* A session is a party of at most one call, and a call or an IFB feed only
\* joins two different users' attached sessions.
LinesAreSound ==
  /\ \A t \in Tokens : Cardinality(CallsOf(t)) <= 1
  /\ \A k \in CallIds : call[k].phase \in {"ringing", "active"} =>
       /\ {call[k].from, call[k].to} \subseteq attached
       /\ Owner[call[k].from] # Owner[call[k].to]
  /\ ifb # NoIfb => /\ {ifb.director, ifb.target} \subseteq attached
                    /\ Owner[ifb.director] # Owner[ifb.target]

\* Every call that rings and every signal on display has a timeout under way or
\* queued, and an answered call has none left to elapse.
TimeoutsUnderWay ==
  /\ \A k \in CallIds : call[k].phase = "ringing" => timer[k] # "off"
  /\ \A k \in SignalIds : signal[k].phase = "active" => timer[k] # "off"
  /\ \A k \in CallIds : timer[k] = "armed" => call[k].phase = "ringing"

\* A signal on display was sent by a user who is still online: one who leaves
\* takes the signals along, whichever session they were sent from.
SignalSendersOnline ==
  \A k \in SignalIds : signal[k].phase = "active" =>
    \E t \in attached : Owner[t] = signal[k].from

\* The session limit holds, and no selection is kept for an attached session.
CapacityRespected ==
  /\ MaxUsers > 0 => Cardinality(attached) <= MaxUsers
  /\ \A t \in attached : retained[t] = None

\* With no refresh queued, every session of an existing user works with the
\* role, permissions and talk rules that are stored ("authoritative state of all
\* channels, users, subscriptions, permissions", 01-PRODUCT-DESIGN.md); only an
\* update that fails half-way breaks this.
CachesFresh ==
  \A t \in attached :
    (~dueAll /\ Owner[t] \notin dueUsers /\ accounts[Owner[t]] # None) =>
      grant[t] = accounts[Owner[t]] /\ rule[t] = source

\* A client always knows on which channels its microphone is open, and what it
\* listens to; during an all-page of another session that is what it listens to, or
\* the selection saved for it, which its holder's end brings back (all-page.ts).
ClientsInSync ==
  \A t \in attached : /\ told[t].talk = talk[t]
                      /\ \/ told[t].listen = listen[t]
                         \/ page \notin {None, t} /\ told[t].listen = previous[t]

\* The media service routes what the coordination state says: talk, listen, call
\* peer and IFB director of every session.
MediaInSync == \A t \in attached : routed[t] = Context(t)

-----------------------------------------------------------------------------
(* Action properties *)

\* The coordination implements the floor discipline of IntercomFloor: only a
\* session that stays attached opens a microphone, one session at a time and
\* never against another's all-page; a reconnect, a refresh or the end of an
\* all-page opens none, and an all-page closes every other one.
Floor == INSTANCE IntercomFloor
  WITH Desks <- Tokens, Nobody <- None, online <- attached, mics <- talk, floor <- page

FloorDiscipline == Floor!Spec

\* A timeout handled after its call was answered or hung up changes no call, and
\* an ended call never rings again.
LateTimeoutsHarmless ==
  [][\A k \in CallIds :
       /\ (timer[k] = "fired" /\ timer'[k] = "off" /\ call[k].phase # "ringing") => call'[k] = call[k]
       /\ call[k].phase = "over" => call'[k] = call[k]]_vars

-----------------------------------------------------------------------------
(* Liveness *)

\* No call rings for ever and no signal stays on display for ever.
RingingEnds ==
  /\ \A k \in CallIds : call[k].phase = "ringing" ~> call[k].phase # "ringing"
  /\ \A k \in SignalIds : signal[k].phase = "active" ~> signal[k].phase # "active"

\* A microphone open on a channel the user may no longer talk on is closed, or
\* the permission comes back.
RevokedTalkCloses ==
  \A t \in Tokens, c \in Channels :
    LET revoked == accounts[Owner[t]] = None \/ c \notin accounts[Owner[t]].talk
    IN  (c \in talk[t] /\ revoked) ~> (c \notin talk[t] \/ ~revoked)

-----------------------------------------------------------------------------
(* Promises of the tests that the code does not keep in every behaviour *)

\* app.test.ts "prevents non-source users from talking on program channels".
ProgramTalkIsSourceOnly ==
  \A t \in attached : \A c \in talk[t] : rule[t][c] \in {Anyone, Owner[t]}

\* regressions.test.ts "restores the operator listen selection when all-page
\* stops": also for a listener whose connection dropped during the all-page.
ListenSelectionRestored ==
  [][\A t \in Tokens : (page # None /\ page' = None /\ previous[t] # None) =>
       /\ t \in attached => listen'[t] = previous[t] \cap grant'[t].listen
       /\ retained[t] # None => retained'[t] = previous[t]]_vars
=============================================================================
