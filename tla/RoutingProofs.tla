----------------------------- MODULE RoutingProofs -----------------------------
(***************************************************************************)
(* What the coordination brings outside, and who hears whom, for every set *)
(* of users, channels, tokens, calls and grants: clients and the media     *)
(* service know the state they depend on, channel audio stays within the   *)
(* grants and private lines within their parties, the session limit holds  *)
(* and caches follow the database.                                         *)
(***************************************************************************)
EXTENDS LineProofs, AudioPath

-----------------------------------------------------------------------------
(* What clients are told *)

LEMMA ClientsInit == Init => ClientsInSync
BY DEF Init, ClientsInSync

\* Telling the sessions of S is enough when nothing that the others were told
\* has changed.
LEMMA ClientsTold ==
  ASSUME TypeOK, ClientsInSync, NEW S, Tell(S), attached' \subseteq Tokens,
         \A t \in attached' \ S :
           /\ t \in attached /\ talk'[t] = talk[t] /\ listen'[t] = listen[t]
           /\ page' = page /\ previous' = previous
  PROVE  ClientsInSync'
<1>1. \A t \in attached' :
        told'[t] = IF t \in S THEN [talk |-> talk'[t], listen |-> listen'[t]] ELSE told[t]
  BY DEF Tell, TellSoFar
<1>2. SUFFICES ASSUME NEW t \in attached'
               PROVE  /\ told'[t].talk = talk'[t]
                      /\ \/ told'[t].listen = listen'[t]
                         \/ page' \notin {None, t} /\ told'[t].listen = previous'[t]
  BY DEF ClientsInSync
<1>3. CASE t \in S
  <2>1. told'[t] = [talk |-> talk'[t], listen |-> listen'[t]]
    BY <1>1, <1>3
  <2> QED BY <2>1
<1>4. CASE t \notin S
  <2>1. told'[t] = told[t] /\ t \in attached
    BY <1>1, <1>4
  <2>2. /\ told[t].talk = talk[t]
        /\ told[t].listen = listen[t] \/ (page \notin {None, t} /\ told[t].listen = previous[t])
    BY <2>1 DEF ClientsInSync
  <2>3. talk'[t] = talk[t] /\ listen'[t] = listen[t] /\ page' = page /\ previous' = previous
    BY <1>4
  <2> QED BY <2>1, <2>2, <2>3
<1> QED BY <1>3, <1>4

LEMMA ClientsKept ==
  ASSUME ClientsInSync, UNCHANGED <<attached, talk, listen, page, previous, told>>
  PROVE  ClientsInSync'
BY DEF ClientsInSync

LEMMA ClientsAttach ==
  ASSUME TypeOK, ClientsInSync, NEW t \in Tokens, Attach(t) PROVE ClientsInSync'
<1>1. Tell({t}) /\ attached' = attached \cup {t} /\ page' = page /\ previous' = previous
  BY DEF Attach
<1>2. \A s \in attached : s # t => talk'[s] = talk[s] /\ listen'[s] = listen[s]
  BY DEF Attach, TypeOK
<1> QED BY <1>1, <1>2, ClientsTold DEF TypeOK

LEMMA ClientsReattach ==
  ASSUME TypeOK, ClientsInSync, NEW t \in Tokens, Reattach(t) PROVE ClientsInSync'
BY ClientsTold DEF Reattach, TypeOK, presence, session

\* The end of an all-page tells everybody who is left.
LEMMA ClientsDetach ==
  ASSUME TypeOK, ClientsInSync, NEW t \in Tokens, NEW reason, Detach(t, reason)
  PROVE  ClientsInSync'
<1>1. attached' = attached \ {t}
  BY DEF Detach
<1>2. CASE page = t
  <2>1. Tell(attached \ {t})
    BY <1>2 DEF Detach
  <2> QED BY <1>1, <2>1, ClientsTold DEF TypeOK
<1>3. CASE page # t
  <2>1. Tell({}) /\ page' = page /\ previous' = previous
    BY <1>3 DEF Detach
  <2>2. \A s \in attached \ {t} : talk'[s] = talk[s] /\ listen'[s] = listen[s]
    BY <1>3 DEF Detach, TypeOK
  <2> QED BY <1>1, <2>1, <2>2, ClientsTold DEF TypeOK
<1> QED BY <1>2, <1>3

\* A change of the selections of one session, or of the talk of some
LEMMA ClientsSelect ==
  ASSUME TypeOK, ClientsInSync, NEW t \in Tokens, NEW c, NEW C, NEW on,
         ListenSet(t, c, on) \/ TalkStart(t, C) \/ TalkStop(t, C)
  PROVE  ClientsInSync'
<1>1. Tell({t}) /\ attached' = attached /\ page' = page /\ previous' = previous
  BY DEF ListenSet, TalkStart, TalkStop, presence
<1>2. \A s \in Tokens \ {t} : talk'[s] = talk[s] /\ listen'[s] = listen[s]
  BY DEF ListenSet, TalkStart, TalkStop, TypeOK
<1> QED BY <1>1, <1>2, ClientsTold DEF TypeOK

LEMMA ClientsMute ==
  ASSUME TypeOK, ClientsInSync, NEW u, NEW c, ForceMute(u) \/ Unlatch(c)
  PROVE  ClientsInSync'
<1>1. PICK S : /\ Tell(S) /\ attached' = attached /\ listen' = listen
               /\ page' = page /\ previous' = previous
               /\ \A s \in Tokens \ S : talk'[s] = talk[s]
  <2>1. CASE ForceMute(u)
    BY <2>1 DEF ForceMute, presence
  <2>2. CASE Unlatch(c)
    BY <2>2 DEF Unlatch, presence
  <2> QED BY <2>1, <2>2
<1> QED BY <1>1, ClientsTold DEF TypeOK

\* Listeners of an all-page were told the selection that is saved for its end.
LEMMA ClientsAllPageStart ==
  ASSUME TypeOK, ClientsInSync, NEW t \in Tokens, AllPageStart(t) PROVE ClientsInSync'
<1> DEFINE muted == {s \in attached \ {t} : talk[s] # {}}
           opened == IF talk[t] = grant[t].talk THEN {} ELSE {t}
<1>1. TellSoFar(muted \cup opened, listen) /\ attached' = attached /\ page' = t /\ page = None
  BY DEF AllPageStart, presence
<1>2. /\ talk'[t] = grant[t].talk /\ listen'[t] = listen[t]
      /\ \A s \in attached \ {t} : talk'[s] = {} /\ previous'[s] = listen[s]
  BY DEF AllPageStart, TypeOK
<1>3. t # None
  BY CoordinationAssumption
<1> SUFFICES ASSUME NEW s \in attached
             PROVE  /\ told'[s].talk = talk'[s]
                    /\ \/ told'[s].listen = listen'[s]
                       \/ page' \notin {None, s} /\ told'[s].listen = previous'[s]
  BY <1>1 DEF ClientsInSync
<1>4. told'[s].talk = talk'[s] /\ told'[s].listen = listen[s]
  <2>1. CASE s \in muted \cup opened
    BY <1>1, <2>1 DEF TypeOK, TellSoFar
  <2>2. CASE s \notin muted \cup opened
    <3>1. talk'[s] = talk[s]
      BY <1>2, <2>2
    <3>2. told'[s] = told[s]
      BY <1>1, <2>2 DEF TypeOK, TellSoFar
    <3> QED BY <1>1, <3>1, <3>2 DEF ClientsInSync
  <2> QED BY <2>1, <2>2
<1>5. CASE s = t
  BY <1>2, <1>4, <1>5
<1>6. CASE s # t
  BY <1>1, <1>2, <1>3, <1>4, <1>6
<1> QED BY <1>5, <1>6

LEMMA ClientsAllPageStop ==
  ASSUME TypeOK, ClientsInSync, NEW t \in Tokens, AllPageStop(t) PROVE ClientsInSync'
<1>1. Tell(attached) /\ attached' = attached
  BY DEF AllPageStop, presence
<1> QED BY <1>1, ClientsTold DEF TypeOK

LEMMA ClientsRefresh ==
  ASSUME TypeOK, ClientsInSync, NEW S, Refresh(S) PROVE ClientsInSync'
<1> DEFINE R == {t \in S \cap attached : accounts[Owner[t]] # None}
<1>1. Tell(R) /\ attached' = attached /\ page' = page /\ previous' = previous
  BY DEF Refresh, presence
<1>2. \A s \in Tokens \ R : talk'[s] = talk[s] /\ listen'[s] = listen[s]
  BY DEF Refresh
<1> HIDE DEF R
<1> QED BY <1>1, <1>2, ClientsTold DEF TypeOK

\* Calls, feeds, signals and timers, and the handlers that only touch the
\* database, tell no client anything about its state.
LEMMA LinesUntold ==
  ASSUME NEW t, NEW u, NEW k, NEW to,
         \/ CallRequest(t, u) \/ CallAccept(t, k) \/ CallReject(t, k) \/ CallEnd(t, k)
         \/ IfbStart(t, u) \/ IfbStop(t) \/ SignalSend(t, to, k) \/ SignalAck(t, k)
         \/ TimerFires(k) \/ CallTimeout(k) \/ SignalExpire(k)
  PROVE  UNCHANGED <<attached, talk, listen, page, previous, told>>
BY DEF CallRequest, CallAccept, CallReject, CallEnd, EndCall, IfbStart, IfbStop, SignalSend,
       SignalAck, TimerFires, CallTimeout, SignalExpire, presence, session, outside

LEMMA DatabaseUntold ==
  ASSUME NEW u, NEW g, NEW c, NEW r,
         \/ UpdateUser(u, g) \/ UpdateUserFails(u, g) \/ DeleteUser(u)
         \/ UpdateChannel(c, r) \/ DeleteChannel(c)
  PROVE  UNCHANGED <<presence, session, page, previous, lines, outside>>
BY DEF UpdateUser, UpdateUserFails, DeleteUser, UpdateChannel, DeleteChannel

LEMMA ClientsStep ==
  ASSUME TypeOK, ClientsInSync, [Next]_vars PROVE ClientsInSync'
<1>1. ASSUME NEW t \in Tokens, SessionStep(t) PROVE ClientsInSync'
  BY <1>1, ClientsAttach, ClientsReattach, ClientsDetach, ClientsSelect, ClientsAllPageStart,
     ClientsAllPageStop, LinesUntold, ClientsKept
  DEF SessionStep
<1>2. ASSUME TimerStep PROVE ClientsInSync'
  BY <1>2, LinesUntold, ClientsKept DEF TimerStep
<1>3. ASSUME AdminStep PROVE ClientsInSync'
  BY <1>3, ClientsMute, ClientsRefresh, DatabaseUntold, ClientsKept
  DEF AdminStep, RefreshUser, RefreshAll, presence, session, outside
<1>4. ASSUME UNCHANGED vars PROVE ClientsInSync'
  BY <1>4, ClientsKept DEF vars, presence, session, outside
<1> QED BY <1>1, <1>2, <1>3, <1>4 DEF Next

\* A client always knows on which channels its microphone is open, and what it
\* listens to, or will again when another session's all-page ends.
THEOREM ClientsAlwaysInSync == Spec => []ClientsInSync
<1>1. TypeOK /\ ClientsInSync /\ [Next]_vars => ClientsInSync'
  BY ClientsStep
<1> QED BY <1>1, ClientsInit, TypeCorrect, PTL DEF Spec

-----------------------------------------------------------------------------
(* What the media service is told *)

\* The other end of a session's answered call, before and after a step.
LEMMA LineOfCall ==
  ASSUME OneCallEach, NEW t \in Tokens, NEW k \in CallsOf(t), call[k].phase = "active"
  PROVE  Line(t) = IF call[k].from = t THEN call[k].to ELSE call[k].from
<1> DEFINE j == CHOOSE j \in CallsOf(t) : call[j].phase = "active"
<1>1. j \in CallsOf(t) /\ call[j].phase = "active"
  OBVIOUS
<1>2. j = k
  BY <1>1 DEF OneCallEach
<1> QED BY <1>2 DEF Line

LEMMA LineOfCallNext ==
  ASSUME OneCallEach', NEW t \in Tokens, NEW k \in CallsOf(t)', call'[k].phase = "active"
  PROVE  Line(t)' = IF call'[k].from = t THEN call'[k].to ELSE call'[k].from
<1> DEFINE j == CHOOSE j \in CallsOf(t)' : call'[j].phase = "active"
<1>1. j \in CallsOf(t)' /\ call'[j].phase = "active"
  OBVIOUS
<1>2. j = k
  BY <1>1 DEF OneCallEach
<1> QED BY <1>2 DEF Line

\* A session's line is the same as long as its answered call is.
LEMMA LineSame ==
  ASSUME OneCallEach, OneCallEach', NEW t \in Tokens,
         \A k \in CallIds :
           (call[k].phase = "active" \/ call'[k].phase = "active") =>
             \/ call'[k] = call[k]
             \/ k \notin CallsOf(t) /\ k \notin CallsOf(t)'
  PROVE  Line(t)' = Line(t)
<1>1. CASE \E k \in CallsOf(t) : call[k].phase = "active"
  <2>1. PICK k \in CallsOf(t) : call[k].phase = "active"
    BY <1>1
  <2>2. k \in CallIds /\ call'[k] = call[k]
    BY <2>1 DEF CallsOf
  <2>3. k \in CallsOf(t)' /\ call'[k].phase = "active"
    BY <2>1, <2>2 DEF CallsOf
  <2> QED BY <2>1, <2>2, <2>3, LineOfCall, LineOfCallNext
<1>2. CASE ~ \E k \in CallsOf(t) : call[k].phase = "active"
  <2>1. ASSUME NEW k \in CallsOf(t)', call'[k].phase = "active" PROVE FALSE
    <3>1. k \in CallIds /\ call'[k] = call[k]
      BY <2>1 DEF CallsOf
    <3> QED BY <1>2, <2>1, <3>1 DEF CallsOf
  <2> QED BY <1>2, <2>1 DEF Line
<1> QED BY <1>1, <1>2

LEMMA LineKept == ASSUME NEW t, call' = call PROVE Line(t)' = Line(t)
<1>1. CallsOf(t)' = CallsOf(t)
  BY DEF CallsOf
<1> QED BY <1>1 DEF Line

LEMMA MediaInit == Init => MediaInSync
BY DEF Init, MediaInSync

\* Routing the sessions of S again is enough when the context of the others is
\* what it was.
LEMMA MediaRouted ==
  ASSUME TypeOK, MediaInSync, NEW S, Route(S), attached' \subseteq Tokens,
         \A t \in attached' \ S : t \in attached /\ Context(t)' = Context(t)
  PROVE  MediaInSync'
<1> SUFFICES ASSUME NEW t \in attached' PROVE routed'[t] = Context(t)'
  BY DEF MediaInSync
<1>1. CASE t \in S
  BY <1>1 DEF Route
<1>2. CASE t \notin S
  BY <1>2 DEF Route, MediaInSync
<1> QED BY <1>1, <1>2

LEMMA MediaSelect ==
  ASSUME TypeOK, MediaInSync, NEW S, Route(S), attached' \subseteq Tokens,
         UNCHANGED <<call, ifb>>,
         \A t \in attached' \ S : t \in attached /\ talk'[t] = talk[t] /\ listen'[t] = listen[t]
  PROVE  MediaInSync'
<1>1. \A t \in attached' \ S : Context(t)' = Context(t)
  BY LineKept DEF Context
<1> QED BY <1>1, MediaRouted

LEMMA MediaKept ==
  ASSUME TypeOK, MediaInSync, UNCHANGED <<attached, talk, listen, call, ifb, routed>>
  PROVE  MediaInSync'
BY LineKept DEF MediaInSync, Context

LEMMA MediaAttach ==
  ASSUME TypeOK, MediaInSync, NEW t \in Tokens, Attach(t) PROVE MediaInSync'
<1>1. Route({t}) /\ attached' = attached \cup {t} /\ UNCHANGED <<call, ifb>>
  BY DEF Attach, lines
<1>2. \A s \in attached : s # t => talk'[s] = talk[s] /\ listen'[s] = listen[s]
  BY DEF Attach, TypeOK
<1> QED BY <1>1, <1>2, MediaSelect DEF TypeOK

LEMMA MediaSelected ==
  ASSUME TypeOK, MediaInSync, NEW t \in Tokens, NEW c, NEW C, NEW on,
         ListenSet(t, c, on) \/ TalkStart(t, C) \/ TalkStop(t, C)
  PROVE  MediaInSync'
<1>1. Route({t}) /\ attached' = attached /\ UNCHANGED <<call, ifb>>
  BY DEF ListenSet, TalkStart, TalkStop, presence, lines
<1>2. \A s \in Tokens \ {t} : talk'[s] = talk[s] /\ listen'[s] = listen[s]
  BY DEF ListenSet, TalkStart, TalkStop, TypeOK
<1> QED BY <1>1, <1>2, MediaSelect DEF TypeOK

LEMMA MediaMute ==
  ASSUME TypeOK, MediaInSync, NEW u, NEW c, ForceMute(u) \/ Unlatch(c) PROVE MediaInSync'
<1>1. PICK S : /\ Route(S) /\ attached' = attached /\ listen' = listen
               /\ UNCHANGED <<call, ifb>>
               /\ \A s \in Tokens \ S : talk'[s] = talk[s]
  <2>1. CASE ForceMute(u)
    BY <2>1 DEF ForceMute, presence, lines
  <2>2. CASE Unlatch(c)
    BY <2>2 DEF Unlatch, presence, lines
  <2> QED BY <2>1, <2>2
<1> QED BY <1>1, MediaSelect DEF TypeOK

\* A session whose talk and listen stay as they were is not routed again.
LEMMA MediaAllPageStart ==
  ASSUME TypeOK, MediaInSync, NEW t \in Tokens, AllPageStart(t) PROVE MediaInSync'
<1> DEFINE muted == {s \in attached \ {t} : talk[s] # {}}
           opened == IF talk[t] = grant[t].talk THEN {} ELSE {t}
           widened == {s \in attached \ {t} : listen[s] \cup grant[s].listen # listen[s]}
<1>1. Route(muted \cup opened \cup widened) /\ attached' = attached /\ UNCHANGED <<call, ifb>>
  BY DEF AllPageStart, presence, lines
<1>2. /\ talk'[t] = grant[t].talk /\ listen'[t] = listen[t]
      /\ \A s \in attached \ {t} : talk'[s] = {} /\ listen'[s] = listen[s] \cup grant[s].listen
  BY DEF AllPageStart, TypeOK
<1>3. \A s \in attached \ (muted \cup opened \cup widened) :
        talk'[s] = talk[s] /\ listen'[s] = listen[s]
  BY <1>2
<1> HIDE DEF muted, opened, widened
<1> QED BY <1>1, <1>3, MediaSelect DEF TypeOK

LEMMA MediaAllPageStop ==
  ASSUME TypeOK, MediaInSync, NEW t \in Tokens, AllPageStop(t) PROVE MediaInSync'
<1>1. Route(attached) /\ attached' = attached /\ UNCHANGED <<call, ifb>>
  BY DEF AllPageStop, presence, lines
<1> QED BY <1>1, MediaSelect DEF TypeOK

LEMMA MediaRefresh ==
  ASSUME TypeOK, MediaInSync, NEW S, Refresh(S) PROVE MediaInSync'
<1> DEFINE R == {t \in S \cap attached : accounts[Owner[t]] # None}
<1>1. Route(R) /\ attached' = attached /\ UNCHANGED <<call, ifb>>
  BY DEF Refresh, presence, lines
<1>2. \A s \in Tokens \ R : talk'[s] = talk[s] /\ listen'[s] = listen[s]
  BY DEF Refresh
<1> HIDE DEF R
<1> QED BY <1>1, <1>2, MediaSelect DEF TypeOK

\* A feed changes the cue of its target only.
LEMMA MediaIfb ==
  ASSUME TypeOK, MediaInSync, NEW t \in Tokens, NEW u, IfbStart(t, u) \/ IfbStop(t)
  PROVE  MediaInSync'
<1>1. PICK S : Route(S) /\ {ifb.director, ifb.target, ifb'.director, ifb'.target} \subseteq S \cup {None}
  <2>1. CASE IfbStart(t, u)
    BY <2>1 DEF IfbStart, NoIfb
  <2>2. CASE IfbStop(t)
    BY <2>2 DEF IfbStop, NoIfb
  <2> QED BY <2>1, <2>2
<1>2. attached' = attached /\ UNCHANGED <<talk, listen, call>>
  BY DEF IfbStart, IfbStop, presence, session
<1>3. \A s \in attached \ S : Context(s)' = Context(s)
  BY <1>1, <1>2, LineKept, CoordinationAssumption DEF Context, TypeOK
<1> QED BY <1>1, <1>2, <1>3, MediaRouted DEF TypeOK

\* Nothing is routed while a call starts to ring.
LEMMA MediaCallRequest ==
  ASSUME TypeOK, LinesInv, LinesInv', MediaInSync, NEW t \in Tokens, NEW u \in Users,
         CallRequest(t, u)
  PROVE  MediaInSync'
<1>1. PICK s \in Tokens, k \in CallIds :
        call[k] = NoCall /\ call' = [call EXCEPT ![k] = [from |-> t, to |-> s, phase |-> "ringing"]]
  BY DEF CallRequest
<1>2. /\ call[k].phase # "active" /\ call'[k].phase # "active"
      /\ \A j \in CallIds \ {k} : call'[j] = call[j]
  BY <1>1 DEF TypeOK, NoCall
<1>3. \A x \in Tokens : Line(x)' = Line(x)
  BY <1>2, LineSame DEF LinesInv
<1> QED BY <1>3 DEF CallRequest, presence, session, outside, MediaInSync, Context, TypeOK

LEMMA MediaCallAccept ==
  ASSUME TypeOK, LinesInv, LinesInv', MediaInSync, NEW t \in Tokens, NEW k \in CallIds,
         CallAccept(t, k)
  PROVE  MediaInSync'
<1>1. /\ Route({call[k].from, t}) /\ call[k].to = t
      /\ UNCHANGED <<attached, talk, listen, ifb>>
  BY DEF CallAccept, presence, session
<1>2. /\ \A j \in CallIds \ {k} : call'[j] = call[j]
      /\ \A x : CallsOf(x)' = CallsOf(x)
  BY AcceptedCall
<1>3. \A x \in Tokens \ {call[k].from, t} : Line(x)' = Line(x)
  <2> SUFFICES ASSUME NEW x \in Tokens, x \notin {call[k].from, t} PROVE Line(x)' = Line(x)
    OBVIOUS
  <2>1. k \notin CallsOf(x) /\ k \notin CallsOf(x)'
    BY <1>1, <1>2 DEF CallsOf
  <2> QED BY <1>2, <2>1, LineSame DEF LinesInv
<1>4. \A x \in attached \ {call[k].from, t} : Context(x)' = Context(x)
  BY <1>1, <1>3 DEF Context, TypeOK
<1> QED BY <1>1, <1>4, MediaRouted DEF TypeOK

\* A call that only rang leaves every line as it was.
LEMMA MediaEndCall ==
  ASSUME TypeOK, LinesInv, LinesInv', MediaInSync, NEW k \in CallIds, EndCall(k)
  PROVE  MediaInSync'
<1>1. Route(Answered(k)) /\ UNCHANGED <<attached, talk, listen, ifb>>
  BY DEF EndCall, presence, session
<1>2. \A j \in CallIds : call'[j] = IF j = k THEN Over ELSE call[j]
  BY DEF EndCall, TypeOK
<1>3. \A x \in Tokens \ Answered(k) : Line(x)' = Line(x)
  <2> SUFFICES ASSUME NEW x \in Tokens, x \notin Answered(k) PROVE Line(x)' = Line(x)
    OBVIOUS
  <2>1. call[k].phase = "active" => k \notin CallsOf(x)
    BY DEF Answered, CallsOf
  <2>2. k \notin CallsOf(x)' /\ call'[k].phase # "active"
    BY <1>2, CoordinationAssumption DEF CallsOf, Over
  <2> QED BY <1>2, <2>1, <2>2, LineSame DEF LinesInv
<1>4. \A x \in attached \ Answered(k) : Context(x)' = Context(x)
  BY <1>1, <1>3 DEF Context, TypeOK
<1> QED BY <1>1, <1>4, MediaRouted DEF TypeOK

LEMMA MediaCallTimeout ==
  ASSUME TypeOK, LinesInv, LinesInv', MediaInSync, NEW k \in CallIds, CallTimeout(k)
  PROVE  MediaInSync'
<1>1. CASE call[k].phase = "ringing"
  BY <1>1, TimedOutCall, MediaEndCall
<1>2. CASE call[k].phase # "ringing"
  <2>1. UNCHANGED <<attached, talk, listen, call, ifb, routed>>
    BY <1>2 DEF CallTimeout, presence, session, outside
  <2> QED BY <2>1, MediaKept
<1> QED BY <1>1, <1>2

\* Whoever shared a call, a feed or the floor with the session is routed again.
LEMMA MediaDetach ==
  ASSUME TypeOK, LinesInv, LinesInv', MediaInSync, NEW t \in Tokens, NEW reason,
         Detach(t, reason)
  PROVE  MediaInSync'
<1> DEFINE others == IF page = t THEN attached \ {t} ELSE {}
           onIfb == t \in {ifb.director, ifb.target}
           S == others \cup (IF onIfb THEN {ifb.director, ifb.target} ELSE {})
                       \cup UNION {Answered(k) : k \in CallsOf(t)}
<1>1. attached' = attached \ {t} /\ ifb' = IF onIfb THEN NoIfb ELSE ifb
  BY DEF Detach
<1>2. /\ \A k \in CallIds : call'[k] = IF k \in CallsOf(t) THEN Over ELSE call[k]
      /\ Route(S)
  BY DetachEnds DEF Detach
<1>3. \A s \in attached' \ others : talk'[s] = talk[s] /\ listen'[s] = listen[s]
  BY DEF Detach, TypeOK
<1>4. ASSUME NEW x \in attached', x \notin S PROVE Line(x)' = Line(x)
  <2>1. x \in Tokens
    BY <1>1 DEF TypeOK
  <2>2. ASSUME NEW k \in CallsOf(t), call[k].phase = "active" PROVE k \notin CallsOf(x)
    <3>1. x \notin Answered(k)
      BY <1>4
    <3> QED BY <2>2, <3>1 DEF Answered, CallsOf
  <2>3. ASSUME NEW k \in CallsOf(t) PROVE k \notin CallsOf(x)' /\ call'[k].phase # "active"
    <3>1. call'[k] = Over
      BY <1>2 DEF CallsOf
    <3> QED BY <2>1, <3>1, CoordinationAssumption DEF CallsOf, Over
  <2> QED BY <1>2, <2>1, <2>2, <2>3, LineSame DEF LinesInv
<1>5. ASSUME NEW x \in attached', x \notin S
      PROVE  (IF ifb'.target = x THEN ifb'.director ELSE None) = IF ifb.target = x THEN ifb.director ELSE None
  BY <1>1, <1>5, CoordinationAssumption DEF NoIfb, TypeOK
<1>6. \A x \in attached' \ S : x \in attached /\ Context(x)' = Context(x)
  BY <1>1, <1>3, <1>4, <1>5 DEF Context
<1> HIDE DEF S, others, onIfb
<1> QED BY <1>1, <1>2, <1>6, MediaRouted DEF TypeOK

LEMMA MediaStep ==
  ASSUME TypeOK, LinesInv, LinesInv', MediaInSync, [Next]_vars PROVE MediaInSync'
<1>1. ASSUME NEW t \in Tokens, SessionStep(t) PROVE MediaInSync'
  <2>1. ASSUME NEW k, NEW to, Reattach(t) \/ SignalSend(t, to, k) \/ SignalAck(t, k)
        PROVE  UNCHANGED <<attached, talk, listen, call, ifb, routed>>
    BY <2>1 DEF Reattach, SignalSend, SignalAck, presence, session, lines, outside
  <2> QED
    BY <1>1, <2>1, MediaKept, MediaAttach, MediaDetach, MediaSelected, MediaAllPageStart,
       MediaAllPageStop, MediaIfb, MediaCallRequest, MediaCallAccept, EndedCall, MediaEndCall
    DEF SessionStep
<1>2. ASSUME TimerStep PROVE MediaInSync'
  <2>1. ASSUME NEW k, SignalExpire(k) \/ TimerFires(k)
        PROVE  UNCHANGED <<attached, talk, listen, call, ifb, routed>>
    BY <2>1 DEF SignalExpire, TimerFires, presence, session, outside
  <2> QED BY <1>2, <2>1, MediaKept, MediaCallTimeout DEF TimerStep
<1>3. ASSUME AdminStep PROVE MediaInSync'
  BY <1>3, MediaMute, MediaRefresh, DatabaseUntold, MediaKept
  DEF AdminStep, RefreshUser, RefreshAll, presence, session, lines, outside
<1>4. ASSUME UNCHANGED vars PROVE MediaInSync'
  BY <1>4, MediaKept DEF vars, presence, session, lines, outside
<1> QED BY <1>1, <1>2, <1>3, <1>4 DEF Next

LEMMA MediaInvariant == Spec => [](TypeOK /\ LinesInv /\ MediaInSync)
<1>1. TypeOK /\ LinesInv /\ LinesInv' /\ MediaInSync /\ [Next]_vars => MediaInSync'
  BY MediaStep
<1> QED BY <1>1, MediaInit, LinesInvariant, PTL DEF Spec

\* The media service routes what the coordination state says of every session,
\* whichever operation or late timeout changed it.
THEOREM MediaAlwaysInSync == Spec => []MediaInSync
BY MediaInvariant, PTL

-----------------------------------------------------------------------------
(* Who hears whom *)

\* What the consumers of attached sessions carry, in terms of the coordination.
LEMMA CarriedNow ==
  ASSUME TypeOK, MediaInSync, NEW l \in Tokens, NEW s \in Tokens
  PROVE  /\ \A c \in Channels : c \in Carried(l, s) =>
              l \in attached /\ s \in attached /\ c \in talk[s] /\ c \in listen[l]
         /\ DirectCall \in Carried(l, s) <=>
              l \in attached /\ s \in attached /\ Owner[l] # Owner[s] /\ Line(l) = s
         /\ Ifb \in Carried(l, s) <=>
              l \in attached /\ s \in attached /\ Owner[l] # Owner[s]
              /\ ifb.target = l /\ ifb.director = s
<1>1. CASE l \in attached /\ s \in attached /\ Owner[l] # Owner[s]
  <2>1. /\ routed[s].talk = talk[s] /\ routed[l].listen = listen[l] /\ routed[l].line = Line(l)
        /\ routed[l].cue = IF ifb.target = l THEN ifb.director ELSE None
    <3>1. routed[s] = Context(s) /\ routed[l] = Context(l)
      BY <1>1 DEF MediaInSync
    <3> QED BY <3>1 DEF Context
  <2>2. DirectCall \notin talk[s] /\ Ifb \notin talk[s] /\ DirectCall # Ifb
    BY AudioPathAssumption DEF TypeOK
  <2>3. s # None
    BY CoordinationAssumption
  <2>4. Carried(l, s) = (talk[s] \cap listen[l]) \cup (IF Line(l) = s THEN {DirectCall} ELSE {})
          \cup (IF ifb.target = l /\ ifb.director = s THEN {Ifb} ELSE {})
    BY <1>1, <2>1, <2>3 DEF Carried
  <2> QED BY <1>1, <2>2, <2>4, AudioPathAssumption
<1>2. CASE ~(l \in attached /\ s \in attached /\ Owner[l] # Owner[s])
  BY <1>2 DEF Carried
<1> QED BY <1>1, <1>2

\* A session's line leads to another session exactly when the two are the parties
\* of an answered call.
LEMMA LineIsCall ==
  ASSUME LinesInv, NEW l \in Tokens, NEW s \in Tokens
  PROVE  (l \in attached /\ s \in attached /\ Owner[l] # Owner[s] /\ Line(l) = s) <=>
           \E k \in CallIds : call[k].phase = "active" /\ {call[k].from, call[k].to} = {l, s}
<1>1. ASSUME Line(l) = s, l # s
      PROVE  \E k \in CallIds : call[k].phase = "active" /\ {call[k].from, call[k].to} = {l, s}
  <2>1. PICK k \in CallsOf(l) : call[k].phase = "active"
    BY <1>1, CoordinationAssumption DEF Line
  <2>2. s = IF call[k].from = l THEN call[k].to ELSE call[k].from
    BY <1>1, <2>1, LineOfCall DEF LinesInv
  <2> QED BY <1>1, <2>1, <2>2 DEF CallsOf
<1>2. ASSUME NEW k \in CallIds, call[k].phase = "active", {call[k].from, call[k].to} = {l, s}
      PROVE  l \in attached /\ s \in attached /\ Owner[l] # Owner[s] /\ Line(l) = s
  <2>1. /\ call[k].from \in attached /\ call[k].to \in attached
        /\ Owner[call[k].from] # Owner[call[k].to]
    BY <1>2 DEF LinesInv, PartiesPresent, Live
  <2>2. Line(l) = IF call[k].from = l THEN call[k].to ELSE call[k].from
    BY <1>2, LineOfCall DEF LinesInv, CallsOf
  <2> QED BY <1>2, <2>1, <2>2
<1> QED BY <1>1, <1>2

LEMMA PrivateNow ==
  ASSUME TypeOK, LinesInv, MediaInSync PROVE PrivateLinesPrivate
<1> SUFFICES ASSUME NEW l \in Tokens, NEW s \in Tokens
             PROVE  /\ DirectCall \in Carried(l, s) <=>
                         \E k \in CallIds : /\ call[k].phase = "active"
                                            /\ {call[k].from, call[k].to} = {l, s}
                    /\ Ifb \in Carried(l, s) <=> ifb = [director |-> s, target |-> l]
  BY DEF PrivateLinesPrivate
<1>1. DirectCall \in Carried(l, s) <=>
        \E k \in CallIds : call[k].phase = "active" /\ {call[k].from, call[k].to} = {l, s}
  BY CarriedNow, LineIsCall
<1>2. ifb = [director |-> s, target |-> l] <=> ifb.director = s /\ ifb.target = l
  BY DEF TypeOK
<1>3. ifb.director = s /\ ifb.target = l =>
        l \in attached /\ s \in attached /\ Owner[l] # Owner[s]
  BY CoordinationAssumption DEF LinesInv, FeedSound, NoIfb
<1>4. Ifb \in Carried(l, s) <=> ifb = [director |-> s, target |-> l]
  BY CarriedNow, <1>2, <1>3
<1> QED BY <1>1, <1>4

LEMMA PermittedNow ==
  ASSUME TypeOK, FloorInv, MediaInSync PROVE ChannelAudioPermitted
<1> SUFFICES ASSUME NEW l \in attached, NEW s \in attached,
                    NEW c \in Channels, c \in Carried(l, s)
             PROVE  c \in grant[l].listen /\ c \in grant[s].talk /\ page \in {None, s}
  BY DEF ChannelAudioPermitted
<1>1. l \in Tokens /\ s \in Tokens
  BY DEF TypeOK
<1>2. c \in talk[s] /\ c \in listen[l]
  BY <1>1, CarriedNow
<1> QED BY <1>1, <1>2 DEF FloorInv, PermissionsRespected, PageSilencesOthers

\* An answered call is carried between its two parties, a feed from its director
\* to its target, and no hang-up, drop or timeout leaves half of one behind.
THEOREM PrivateLinesAlwaysPrivate == Spec => []PrivateLinesPrivate
BY PrivateNow, MediaInvariant, PTL

\* Channel audio only passes between sessions that may talk and listen there,
\* and during an all-page comes from its holder alone.
THEOREM ChannelAudioAlwaysPermitted == Spec => []ChannelAudioPermitted
BY PermittedNow, MediaInvariant, FloorInvariant, PTL

-----------------------------------------------------------------------------
(* The session limit and the selections kept for dropped connections *)

\* The number of attached sessions is only defined while they are finitely many.
CapacityInv == IsFiniteSet(attached) /\ CapacityRespected

LEMMA CapacityInit == Init => CapacityInv
BY FS_EmptySet, CoordinationAssumption DEF Init, CapacityInv, CapacityRespected

LEMMA CapacityAttach ==
  ASSUME TypeOK, CapacityInv, NEW t \in Tokens, Attach(t) PROVE CapacityInv'
<1>1. attached' = attached \cup {t} /\ t \notin attached /\ HasRoom
  BY DEF Attach
<1>2. IsFiniteSet(attached') /\ Cardinality(attached') = Cardinality(attached) + 1
  BY <1>1, FS_AddElement DEF CapacityInv
<1>3. Cardinality(attached) \in Nat
  BY FS_CardinalityType DEF CapacityInv
<1>4. MaxUsers > 0 => Cardinality(attached') <= MaxUsers
  BY <1>1, <1>2, <1>3, CoordinationAssumption DEF HasRoom
<1>5. \A s \in attached' : retained'[s] = None
  BY <1>1 DEF Attach, TypeOK, CapacityInv, CapacityRespected
<1> QED BY <1>2, <1>4, <1>5 DEF CapacityInv, CapacityRespected

LEMMA CapacityDetach ==
  ASSUME TypeOK, CapacityInv, NEW t \in Tokens, NEW reason, Detach(t, reason)
  PROVE  CapacityInv'
<1>1. attached' = attached \ {t} /\ t \in attached
  BY DEF Detach
<1>2. IsFiniteSet(attached') /\ Cardinality(attached') = Cardinality(attached) - 1
  BY <1>1, FS_RemoveElement DEF CapacityInv
<1>3. Cardinality(attached) \in Nat
  BY FS_CardinalityType DEF CapacityInv
<1>4. MaxUsers > 0 => Cardinality(attached') <= MaxUsers
  BY <1>2, <1>3, CoordinationAssumption DEF CapacityInv, CapacityRespected
<1>5. \A s \in attached' : retained'[s] = None
  BY <1>1 DEF Detach, TypeOK, CapacityInv, CapacityRespected
<1> QED BY <1>2, <1>4, <1>5 DEF CapacityInv, CapacityRespected

LEMMA CapacityKept ==
  ASSUME CapacityInv, UNCHANGED <<attached, retained>> PROVE CapacityInv'
BY DEF CapacityInv, CapacityRespected

\* Nothing but an attach and a detach changes who is attached, what is cached of
\* the database, or what is kept for later.
LEMMA SessionKept ==
  ASSUME NEW t, NEW u, NEW c, NEW C, NEW on, NEW k, NEW to,
         \/ Reattach(t) \/ ListenSet(t, c, on) \/ TalkStart(t, C) \/ TalkStop(t, C)
         \/ AllPageStart(t) \/ AllPageStop(t) \/ ForceMute(u) \/ Unlatch(c)
         \/ CallRequest(t, u) \/ CallAccept(t, k) \/ CallReject(t, k) \/ CallEnd(t, k)
         \/ IfbStart(t, u) \/ IfbStop(t) \/ SignalSend(t, to, k) \/ SignalAck(t, k)
         \/ TimerFires(k) \/ CallTimeout(k) \/ SignalExpire(k)
  PROVE  UNCHANGED <<database, attached, retained, grant, rule>>
BY DEF Reattach, ListenSet, TalkStart, TalkStop, AllPageStart, AllPageStop, ForceMute, Unlatch,
       CallRequest, CallAccept, CallReject, CallEnd, EndCall, IfbStart, IfbStop, SignalSend,
       SignalAck, TimerFires, CallTimeout, SignalExpire, presence, session

LEMMA DatabaseKept ==
  ASSUME NEW u, NEW g, NEW c, NEW r,
         \/ UpdateUser(u, g) \/ UpdateUserFails(u, g) \/ DeleteUser(u)
         \/ UpdateChannel(c, r) \/ DeleteChannel(c)
  PROVE  UNCHANGED <<attached, retained, grant, rule>>
BY DEF UpdateUser, UpdateUserFails, DeleteUser, UpdateChannel, DeleteChannel, presence, session

LEMMA CapacityStep ==
  ASSUME TypeOK, CapacityInv, [Next]_vars PROVE CapacityInv'
<1>1. ASSUME NEW t \in Tokens, SessionStep(t) PROVE CapacityInv'
  BY <1>1, CapacityAttach, CapacityDetach, SessionKept, CapacityKept DEF SessionStep
<1>2. ASSUME TimerStep PROVE CapacityInv'
  BY <1>2, SessionKept, CapacityKept DEF TimerStep
<1>3. ASSUME AdminStep PROVE CapacityInv'
  BY <1>3, SessionKept, DatabaseKept, CapacityKept
  DEF AdminStep, RefreshUser, RefreshAll, Refresh, presence
<1>4. ASSUME UNCHANGED vars PROVE CapacityInv'
  BY <1>4, CapacityKept DEF vars, presence
<1> QED BY <1>1, <1>2, <1>3, <1>4 DEF Next

\* No more sessions are attached than the server admits, and an attached session
\* has no selection waiting from an earlier connection.
THEOREM CapacityAlwaysRespected == Spec => []CapacityRespected
<1>1. TypeOK /\ CapacityInv /\ [Next]_vars => CapacityInv'
  BY CapacityStep
<1>2. CapacityInv => CapacityRespected
  BY DEF CapacityInv
<1> QED BY <1>1, <1>2, CapacityInit, TypeCorrect, PTL DEF Spec

-----------------------------------------------------------------------------
(* Cached grants and talk rules *)

LEMMA CachesKept ==
  ASSUME CachesFresh, UNCHANGED <<database, attached, grant, rule>> PROVE CachesFresh'
BY DEF CachesFresh, database

LEMMA CachesAttach ==
  ASSUME TypeOK, CachesFresh, NEW t \in Tokens, Attach(t) PROVE CachesFresh'
BY DEF TypeOK, CachesFresh, Attach, database

LEMMA CachesDetach ==
  ASSUME TypeOK, CachesFresh, NEW t \in Tokens, NEW reason, Detach(t, reason)
  PROVE  CachesFresh'
<1>1. UNCHANGED database /\ attached' = attached \ {t}
  BY DEF Detach
<1>2. \A s \in attached \ {t} : grant'[s] = grant[s] /\ rule'[s] = rule[s]
  BY DEF Detach, TypeOK
<1> QED BY <1>1, <1>2 DEF CachesFresh, database

\* A session that is not refreshed belongs to a user who is gone, or to a user
\* whose refresh was not this one.
LEMMA CachesRefresh ==
  ASSUME TypeOK, CachesFresh, NEW S, Refresh(S),
         \A t \in attached \ S : (Owner[t] \in dueUsers \/ dueAll) => (Owner[t] \in dueUsers' \/ dueAll')
  PROVE  CachesFresh'
<1>1. UNCHANGED <<accounts, source, attached>>
  BY DEF Refresh, presence
<1>2. \A t \in attached \cap S : accounts[Owner[t]] # None =>
        grant'[t] = accounts[Owner[t]] /\ rule'[t] = source
  BY DEF Refresh, TypeOK
<1>3. \A t \in attached \ S : grant'[t] = grant[t] /\ rule'[t] = rule[t]
  BY DEF Refresh, TypeOK
<1> QED BY <1>1, <1>2, <1>3 DEF CachesFresh

LEMMA CachesUpdate ==
  ASSUME TypeOK, CachesFresh, NEW u, NEW g, NEW c, NEW r,
         UpdateUser(u, g) \/ DeleteUser(u) \/ UpdateChannel(c, r) \/ DeleteChannel(c)
  PROVE  CachesFresh'
<1>1. UNCHANGED <<attached, grant, rule>>
  BY DatabaseKept
<1>2. CASE UpdateUser(u, g)
  <2>1. /\ UNCHANGED <<source, dueAll>> /\ dueUsers' = dueUsers \cup {u}
        /\ \A v \in Users \ {u} : accounts'[v] = accounts[v]
    BY <1>2 DEF UpdateUser, TypeOK
  <2> QED BY <1>1, <2>1, CoordinationAssumption DEF CachesFresh, TypeOK
<1>3. CASE DeleteUser(u)
  <2>1. /\ UNCHANGED <<source, dueAll, dueUsers>>
        /\ \A v \in Users : accounts'[v] = IF v = u THEN None ELSE accounts[v]
    BY <1>3 DEF DeleteUser, TypeOK
  <2> QED BY <1>1, <2>1, CoordinationAssumption DEF CachesFresh, TypeOK
<1>4. CASE UpdateChannel(c, r) \/ DeleteChannel(c)
  BY <1>4 DEF UpdateChannel, DeleteChannel, CachesFresh
<1> QED BY <1>2, <1>3, <1>4

LEMMA CachesStep ==
  ASSUME RequestsMayFail = FALSE, TypeOK, CachesFresh, [Next]_vars PROVE CachesFresh'
<1>1. ASSUME NEW t \in Tokens, SessionStep(t) PROVE CachesFresh'
  BY <1>1, CachesAttach, CachesDetach, SessionKept, CachesKept DEF SessionStep
<1>2. ASSUME TimerStep PROVE CachesFresh'
  BY <1>2, SessionKept, CachesKept DEF TimerStep
<1>3. ASSUME AdminStep PROVE CachesFresh'
  <2>1. ASSUME NEW u \in Users, RefreshUser(u) PROVE CachesFresh'
    <3> DEFINE S == {t \in Tokens : Owner[t] = u}
    <3>1. Refresh(S) /\ dueUsers' = dueUsers \ {u} /\ dueAll' = dueAll
      BY <2>1 DEF RefreshUser
    <3>2. \A t \in attached \ S : Owner[t] # u
      BY DEF TypeOK
    <3> QED BY <3>1, <3>2, CachesRefresh
  <2>2. ASSUME RefreshAll PROVE CachesFresh'
    <3>1. Refresh(Tokens) /\ attached \ Tokens = {}
      BY <2>2 DEF RefreshAll, TypeOK
    <3> QED BY <3>1, CachesRefresh
  <2>3. \A u \in Users, g \in Grants : ~UpdateUserFails(u, g)
    BY DEF UpdateUserFails
  <2> QED
    BY <1>3, <2>1, <2>2, <2>3, CachesUpdate, SessionKept, CachesKept DEF AdminStep
<1>4. ASSUME UNCHANGED vars PROVE CachesFresh'
  BY <1>4, CachesKept DEF vars, presence, session
<1> QED BY <1>1, <1>2, <1>3, <1>4 DEF Next

\* As long as no update fails half-way, a session works with what the database
\* stores of its user and of the channels once no refresh is queued.
THEOREM CachesAlwaysFresh == ASSUME RequestsMayFail = FALSE PROVE Spec => []CachesFresh
<1>1. TypeOK /\ CachesFresh /\ [Next]_vars => CachesFresh'
  BY CachesStep
<1>2. Init => CachesFresh
  BY DEF Init, CachesFresh
<1> QED BY <1>1, <1>2, TypeCorrect, PTL DEF Spec
=============================================================================
