------------------------------ MODULE LineProofs ------------------------------
(***************************************************************************)
(* Direct calls, IFB feeds, call signals and their timeouts, for every set *)
(* of users, tokens, calls and signals: a line joins two attached sessions *)
(* of different users, a session is in one call at most, whatever rings or *)
(* shows has its timeout under way, and a late timeout changes nothing.    *)
(***************************************************************************)
EXTENDS CoordinationProofs, FiniteSetTheorems

-----------------------------------------------------------------------------
(* Lines *)

Live == {"ringing", "active"}

OneCallEach == \A t \in Tokens : \A j, k \in CallsOf(t) : j = k
PartiesPresent ==
  \A k \in CallIds : call[k].phase \in Live =>
    /\ call[k].from \in attached /\ call[k].to \in attached
    /\ Owner[call[k].from] # Owner[call[k].to]
\* A call that is unused or over names nobody, so that nobody is held by it.
QuietCalls ==
  \A k \in CallIds : call[k].phase \notin Live => call[k].from = None /\ call[k].to = None
FeedSound ==
  ifb # NoIfb => /\ ifb.director \in attached /\ ifb.target \in attached
                 /\ Owner[ifb.director] # Owner[ifb.target]

\* The invariant that is inductive together with TypeOK.
LinesInv == OneCallEach /\ PartiesPresent /\ QuietCalls /\ FeedSound

LEMMA LinesInit == Init => LinesInv
BY CoordinationAssumption
DEF Init, LinesInv, OneCallEach, PartiesPresent, QuietCalls, FeedSound, CallsOf, NoCall, Live

\* Operations on the database, on selections and on signals leave lines alone.
LEMMA LinesKept ==
  ASSUME LinesInv, UNCHANGED <<call, ifb>>, attached \subseteq attached' PROVE LinesInv'
BY DEF LinesInv, OneCallEach, PartiesPresent, QuietCalls, FeedSound, CallsOf

\* A call can be ended at any time.
LEMMA LinesEnd ==
  ASSUME TypeOK, LinesInv, NEW k \in CallIds, UNCHANGED <<attached, ifb>>,
         call' = [call EXCEPT ![k] = Over]
  PROVE  LinesInv'
<1>1. \A j \in CallIds : call'[j] = IF j = k THEN Over ELSE call[j]
  BY DEF TypeOK
<1>2. \A t \in Tokens : CallsOf(t)' \subseteq CallsOf(t)
  BY <1>1, CoordinationAssumption DEF CallsOf, Over
<1>3. OneCallEach'
  BY <1>2 DEF LinesInv, OneCallEach
<1>4. PartiesPresent' /\ QuietCalls'
  BY <1>1 DEF LinesInv, PartiesPresent, QuietCalls, Over, Live
<1>5. FeedSound'
  BY DEF LinesInv, FeedSound
<1> QED BY <1>3, <1>4, <1>5 DEF LinesInv

LEMMA LinesCallRequest ==
  ASSUME TypeOK, LinesInv, NEW t \in Tokens, NEW u \in Users, CallRequest(t, u)
  PROVE  LinesInv'
<1>1. PICK s \in Tokens, k \in CallIds :
        /\ IsFirstOf(s, u) /\ CallsOf(s) = {} /\ call[k] = NoCall
        /\ call' = [call EXCEPT ![k] = [from |-> t, to |-> s, phase |-> "ringing"]]
  BY DEF CallRequest
<1>2. t \in attached /\ s \in attached /\ Owner[t] # Owner[s] /\ CallsOf(t) = {}
  BY <1>1 DEF CallRequest, IsFirstOf
<1>3. \A j \in CallIds :
        call'[j] = IF j = k THEN [from |-> t, to |-> s, phase |-> "ringing"] ELSE call[j]
  BY <1>1 DEF TypeOK
<1>4. UNCHANGED <<attached, ifb>>
  BY DEF CallRequest, presence
<1>5. \A x \in Tokens : CallsOf(x)' = IF x \in {s, t} THEN {k} ELSE CallsOf(x)
  <2> SUFFICES ASSUME NEW x \in Tokens
               PROVE  CallsOf(x)' = IF x \in {s, t} THEN {k} ELSE CallsOf(x)
    OBVIOUS
  <2>1. CallsOf(x)' = {j \in CallIds : x \in {call'[j].from, call'[j].to}}
    BY DEF CallsOf
  <2>2. k \notin CallsOf(x)
    BY <1>1, CoordinationAssumption DEF CallsOf, NoCall
  <2>3. \A j \in CallIds \ {k} : j \in CallsOf(x)' <=> j \in CallsOf(x)
    BY <1>3, <2>1 DEF CallsOf
  <2>4. k \in CallsOf(x)' <=> x \in {s, t}
    BY <1>3, <2>1
  <2> QED BY <1>1, <1>2, <2>1, <2>2, <2>3, <2>4 DEF CallsOf
<1>6. OneCallEach'
  BY <1>5 DEF LinesInv, OneCallEach
<1>7. PartiesPresent'
  BY <1>2, <1>3, <1>4 DEF LinesInv, PartiesPresent
<1>8. QuietCalls'
  BY <1>3 DEF LinesInv, QuietCalls, Live
<1>9. FeedSound'
  BY <1>4 DEF LinesInv, FeedSound
<1> QED BY <1>6, <1>7, <1>8, <1>9 DEF LinesInv

\* What accepting a call does to the calls.
LEMMA AcceptedCall ==
  ASSUME TypeOK, NEW t, NEW k \in CallIds, CallAccept(t, k)
  PROVE  /\ call'[k].phase = "active" /\ call'[k].from = call[k].from /\ call'[k].to = call[k].to
         /\ \A j \in CallIds \ {k} : call'[j] = call[j]
         /\ \A x : CallsOf(x)' = CallsOf(x)
<1>1. call' = [call EXCEPT ![k].phase = "active"]
  BY DEF CallAccept
<1>2. call[k] \in Phase({"unused", "ringing", "active", "over"})
  BY DEF TypeOK
<1>3. call'[k] = [call[k] EXCEPT !.phase = "active"] /\ \A j \in CallIds \ {k} : call'[j] = call[j]
  BY <1>1 DEF TypeOK
<1>4. call'[k].phase = "active" /\ call'[k].from = call[k].from /\ call'[k].to = call[k].to
  BY <1>2, <1>3 DEF Phase
<1>5. \A x : CallsOf(x)' = CallsOf(x)
  BY <1>3, <1>4 DEF CallsOf
<1> QED BY <1>3, <1>4, <1>5

LEMMA LinesCallAccept ==
  ASSUME TypeOK, LinesInv, NEW t \in Tokens, NEW k \in CallIds, CallAccept(t, k)
  PROVE  LinesInv'
<1>1. UNCHANGED <<attached, ifb>> /\ call[k].phase = "ringing"
  BY DEF CallAccept, presence
<1>2. OneCallEach'
  BY AcceptedCall DEF LinesInv, OneCallEach
<1>3. PartiesPresent' /\ QuietCalls'
  BY <1>1, AcceptedCall DEF LinesInv, PartiesPresent, QuietCalls, Live
<1>4. FeedSound'
  BY <1>1 DEF LinesInv, FeedSound
<1> QED BY <1>2, <1>3, <1>4 DEF LinesInv

LEMMA LinesIfbStart ==
  ASSUME TypeOK, LinesInv, NEW t \in Tokens, NEW u \in Users, IfbStart(t, u)
  PROVE  LinesInv'
<1>1. PICK s \in Tokens : IsFirstOf(s, u) /\ ifb' = [director |-> t, target |-> s]
  BY DEF IfbStart
<1>2. UNCHANGED <<attached, call>>
  BY DEF IfbStart, presence
<1>3. FeedSound'
  BY <1>1, <1>2 DEF IfbStart, IsFirstOf, FeedSound
<1> QED BY <1>2, <1>3 DEF LinesInv, OneCallEach, PartiesPresent, QuietCalls, CallsOf

LEMMA LinesIfbStop ==
  ASSUME LinesInv, NEW t, IfbStop(t) PROVE LinesInv'
<1>1. UNCHANGED <<attached, call>> /\ ifb' = NoIfb
  BY DEF IfbStop, presence
<1> QED BY <1>1 DEF LinesInv, OneCallEach, PartiesPresent, QuietCalls, FeedSound, CallsOf

\* The session's only call, if it has one, ends with it.
LEMMA DetachEnds ==
  ASSUME LinesInv, NEW t \in Tokens, NEW ended \in FirstOf(CallsOf(t))
  PROVE  ended = CallsOf(t)
BY DEF LinesInv, OneCallEach, FirstOf

LEMMA LinesDetach ==
  ASSUME TypeOK, LinesInv, NEW t \in Tokens, NEW reason, Detach(t, reason)
  PROVE  LinesInv'
<1>1. \A k \in CallIds : call'[k] = IF k \in CallsOf(t) THEN Over ELSE call[k]
  BY DetachEnds DEF Detach
<1>2. attached' = attached \ {t}
  BY DEF Detach
<1>3. \A x \in Tokens : CallsOf(x)' \subseteq CallsOf(x)
  BY <1>1, CoordinationAssumption DEF CallsOf, Over
<1>4. OneCallEach'
  BY <1>3 DEF LinesInv, OneCallEach
<1>5. PartiesPresent'
  BY <1>1, <1>2 DEF LinesInv, PartiesPresent, CallsOf, Over, Live
<1>6. QuietCalls'
  BY <1>1 DEF LinesInv, QuietCalls, Over
<1>7. FeedSound'
  BY <1>2 DEF LinesInv, FeedSound, Detach, NoIfb
<1> QED BY <1>4, <1>5, <1>6, <1>7 DEF LinesInv

\* Operations that have nothing to do with lines.
LEMMA SessionsOnly ==
  ASSUME NEW t, NEW u, NEW c, NEW C, NEW on, NEW k, NEW to,
         \/ Reattach(t) \/ ListenSet(t, c, on) \/ TalkStart(t, C) \/ TalkStop(t, C)
         \/ ForceMute(u) \/ Unlatch(c) \/ AllPageStart(t) \/ AllPageStop(t)
  PROVE  UNCHANGED <<attached, call, ifb, signal, timer>>
BY DEF Reattach, ListenSet, TalkStart, TalkStop, ForceMute, Unlatch, AllPageStart, AllPageStop,
       presence, lines

LEMMA SignalsOnly ==
  ASSUME NEW t, NEW k, NEW to,
         SignalSend(t, to, k) \/ SignalAck(t, k) \/ SignalExpire(k) \/ TimerFires(k)
  PROVE  UNCHANGED <<attached, call, ifb>>
BY DEF SignalSend, SignalAck, SignalExpire, TimerFires, presence

LEMMA DatabaseOnly ==
  ASSUME NEW u, NEW g, NEW c, NEW r,
         \/ UpdateUser(u, g) \/ UpdateUserFails(u, g) \/ DeleteUser(u)
         \/ UpdateChannel(c, r) \/ DeleteChannel(c) \/ RefreshUser(u) \/ RefreshAll
  PROVE  UNCHANGED <<attached, call, ifb, signal, timer>>
BY DEF UpdateUser, UpdateUserFails, DeleteUser, UpdateChannel, DeleteChannel, RefreshUser,
       RefreshAll, Refresh, presence, lines

\* The three ways a call ends.
LEMMA EndedCall ==
  ASSUME NEW t, NEW k, CallReject(t, k) \/ CallEnd(t, k)
  PROVE  EndCall(k) /\ UNCHANGED <<attached, ifb, signal>> /\ call' = [call EXCEPT ![k] = Over]
BY DEF CallReject, CallEnd, EndCall, presence

LEMMA TimedOutCall ==
  ASSUME NEW k, CallTimeout(k), call[k].phase = "ringing"
  PROVE  EndCall(k) /\ UNCHANGED <<attached, ifb, signal>> /\ call' = [call EXCEPT ![k] = Over]
BY DEF CallTimeout, EndCall, presence

\* The handling of a timeout ends the call if it rings.
LEMMA CallTimedOut ==
  ASSUME TypeOK, NEW k \in CallIds, CallTimeout(k)
  PROVE  \A j \in CallIds :
           call'[j] = IF j = k /\ call[k].phase = "ringing" THEN Over ELSE call[j]
<1>1. CASE call[k].phase = "ringing"
  <2>1. call' = [call EXCEPT ![k] = Over]
    BY <1>1, TimedOutCall
  <2> QED BY <1>1, <2>1 DEF TypeOK
<1>2. CASE call[k].phase # "ringing"
  <2>1. call' = call
    BY <1>2 DEF CallTimeout
  <2> QED BY <1>2, <2>1
<1> QED BY <1>1, <1>2

LEMMA LinesCallTimeout ==
  ASSUME TypeOK, LinesInv, NEW k \in CallIds, CallTimeout(k) PROVE LinesInv'
<1>1. CASE call[k].phase = "ringing"
  BY <1>1, TimedOutCall, LinesEnd
<1>2. CASE call[k].phase # "ringing"
  <2>1. UNCHANGED <<call, ifb, attached>>
    BY <1>2 DEF CallTimeout, presence
  <2> QED BY <2>1, LinesKept
<1> QED BY <1>1, <1>2

LEMMA LinesStep ==
  ASSUME TypeOK, LinesInv, [Next]_vars PROVE LinesInv'
<1>1. ASSUME NEW t \in Tokens, SessionStep(t) PROVE LinesInv'
  <2>1. ASSUME Attach(t) PROVE LinesInv'
    <3>1. UNCHANGED <<call, ifb>> /\ attached \subseteq attached'
      BY <2>1 DEF Attach, lines
    <3> QED BY <3>1, LinesKept
  <2>2. ASSUME NEW k \in CallIds, CallReject(t, k) \/ CallEnd(t, k) PROVE LinesInv'
    BY <2>2, EndedCall, LinesEnd
  <2> QED
    BY <1>1, <2>1, <2>2, LinesDetach, LinesCallRequest, LinesCallAccept, LinesIfbStart,
       LinesIfbStop, SessionsOnly, SignalsOnly, LinesKept
    DEF SessionStep
<1>2. ASSUME TimerStep PROVE LinesInv'
  BY <1>2, LinesCallTimeout, SignalsOnly, LinesKept DEF TimerStep
<1>3. ASSUME AdminStep PROVE LinesInv'
  BY <1>3, SessionsOnly, DatabaseOnly, LinesKept DEF AdminStep
<1>4. ASSUME UNCHANGED vars PROVE LinesInv'
  BY <1>4, LinesKept DEF vars, presence, lines
<1> QED BY <1>1, <1>2, <1>3, <1>4 DEF Next

LEMMA LinesInvariant == Spec => [](TypeOK /\ LinesInv)
<1>1. TypeOK /\ LinesInv /\ [Next]_vars => LinesInv'
  BY LinesStep
<1> QED BY <1>1, LinesInit, TypeCorrect, PTL DEF Spec

\* A set of which any two members are equal has at most one.
LEMMA AtMostOne ==
  ASSUME NEW S, \A x, y \in S : x = y PROVE Cardinality(S) <= 1
<1>1. CASE S = {}
  BY <1>1, FS_EmptySet
<1>2. CASE S # {}
  <2>1. PICK x : S = {x}
    BY <1>2
  <2> QED BY <2>1, FS_Singleton
<1> QED BY <1>1, <1>2

\* A session is a party of at most one call, and calls and feeds join attached
\* sessions of two different users, whoever hangs up, drops or is timed out.
THEOREM LinesAlwaysSound == Spec => []LinesAreSound
<1>1. LinesInv => LinesAreSound
  BY AtMostOne DEF LinesInv, OneCallEach, PartiesPresent, FeedSound, LinesAreSound, Live
<1> QED BY <1>1, LinesInvariant, PTL

-----------------------------------------------------------------------------
(* Timeouts *)

LEMMA TimeoutsInit == Init => TimeoutsUnderWay
BY CoordinationAssumption DEF Init, TimeoutsUnderWay, NoCall, NoSignal

\* What stopping the timers of K leaves.
Stopping(K) ==
  \A k \in CallIds \cup SignalIds :
    timer'[k] = IF k \in K /\ timer[k] = "armed" THEN "off" ELSE timer[k]

LEMMA Stopped == ASSUME NEW K, timer' = Stop(K) PROVE Stopping(K)
BY DEF Stop, Stopping

LEMMA TimeoutsKept ==
  ASSUME TimeoutsUnderWay, UNCHANGED <<call, signal, timer>> PROVE TimeoutsUnderWay'
BY DEF TimeoutsUnderWay

LEMMA TimeoutsCallRequest ==
  ASSUME TypeOK, TimeoutsUnderWay, NEW t \in Tokens, NEW u \in Users, CallRequest(t, u)
  PROVE  TimeoutsUnderWay'
<1>1. PICK s \in Tokens, k \in CallIds :
        /\ call' = [call EXCEPT ![k] = [from |-> t, to |-> s, phase |-> "ringing"]]
        /\ timer' = [timer EXCEPT ![k] = "armed"]
  BY DEF CallRequest
<1>2. signal' = signal
  BY DEF CallRequest
<1> QED BY <1>1, <1>2, CoordinationAssumption DEF TypeOK, TimeoutsUnderWay

LEMMA TimeoutsCallAccept ==
  ASSUME TypeOK, TimeoutsUnderWay, NEW t \in Tokens, NEW k \in CallIds, CallAccept(t, k)
  PROVE  TimeoutsUnderWay'
<1>1. Stopping({k}) /\ signal' = signal
  BY Stopped DEF CallAccept
<1>2. \A j \in CallIds : call'[j].phase = IF j = k THEN "active" ELSE call[j].phase
  BY AcceptedCall
<1> QED BY <1>1, <1>2, CoordinationAssumption DEF TimeoutsUnderWay, Stopping

\* A call that was ended by one of its parties stops its timer.
LEMMA TimeoutsHangUp ==
  ASSUME TypeOK, TimeoutsUnderWay, NEW t \in Tokens, NEW k \in CallIds,
         CallReject(t, k) \/ CallEnd(t, k)
  PROVE  TimeoutsUnderWay'
<1>1. Stopping({k}) /\ signal' = signal /\ call' = [call EXCEPT ![k] = Over]
  BY EndedCall, Stopped DEF CallReject, CallEnd
<1>2. \A j \in CallIds : call'[j] = IF j = k THEN Over ELSE call[j]
  BY <1>1 DEF TypeOK
<1> QED BY <1>1, <1>2, CoordinationAssumption DEF TimeoutsUnderWay, Stopping, Over

LEMMA TimeoutsCallTimeout ==
  ASSUME TypeOK, TimeoutsUnderWay, NEW k \in CallIds, CallTimeout(k) PROVE TimeoutsUnderWay'
<1>1. timer' = [timer EXCEPT ![k] = "off"] /\ signal' = signal
  BY DEF CallTimeout, EndCall
<1>2. \A j \in CallIds \cup SignalIds : timer'[j] = IF j = k THEN "off" ELSE timer[j]
  BY <1>1 DEF TypeOK
<1> QED BY <1>1, <1>2, CallTimedOut, CoordinationAssumption DEF TimeoutsUnderWay, Over

LEMMA TimeoutsSignals ==
  ASSUME TypeOK, TimeoutsUnderWay, NEW t \in Tokens, NEW to \in Users \cup {None},
         NEW k \in SignalIds, SignalSend(t, to, k) \/ SignalAck(t, k) \/ SignalExpire(k)
  PROVE  TimeoutsUnderWay'
<1>1. call' = call
  BY DEF SignalSend, SignalAck, SignalExpire
<1>2. CASE SignalSend(t, to, k)
  BY <1>1, <1>2, CoordinationAssumption DEF TypeOK, TimeoutsUnderWay, SignalSend
<1>3. CASE SignalAck(t, k)
  <2>1. Stopping({k}) /\ \A j \in SignalIds : signal'[j] = IF j = k THEN Cleared ELSE signal[j]
    BY <1>3, Stopped DEF SignalAck, TypeOK
  <2> QED BY <1>1, <2>1, CoordinationAssumption DEF TimeoutsUnderWay, Stopping, Cleared
<1>4. CASE SignalExpire(k)
  BY <1>1, <1>4, CoordinationAssumption DEF TypeOK, TimeoutsUnderWay, SignalExpire, Cleared
<1> QED BY <1>2, <1>3, <1>4

LEMMA TimeoutsFire ==
  ASSUME TypeOK, TimeoutsUnderWay, NEW k \in CallIds \cup SignalIds, TimerFires(k)
  PROVE  TimeoutsUnderWay'
BY DEF TypeOK, TimeoutsUnderWay, TimerFires

LEMMA TimeoutsDetach ==
  ASSUME TypeOK, LinesInv, TimeoutsUnderWay, NEW t \in Tokens, NEW reason, Detach(t, reason)
  PROVE  TimeoutsUnderWay'
<1> DEFINE cleared == SignalsOf(Owner[t])
           ended == CallsOf(t)
<1>1. /\ \A k \in CallIds : call'[k] = IF k \in ended THEN Over ELSE call[k]
      /\ \A k \in SignalIds : signal'[k] = IF k \in cleared THEN Cleared ELSE signal[k]
      /\ Stopping(ended \cup cleared)
  BY DetachEnds, Stopped DEF Detach
<1>2. ended \subseteq CallIds /\ cleared \subseteq SignalIds
  BY DEF CallsOf, SignalsOf
<1> HIDE DEF ended, cleared
<1> QED
  BY <1>1, <1>2, CoordinationAssumption DEF TimeoutsUnderWay, Stopping, Over, Cleared

LEMMA TimeoutsStep ==
  ASSUME TypeOK, LinesInv, TimeoutsUnderWay, [Next]_vars PROVE TimeoutsUnderWay'
<1>1. ASSUME NEW t \in Tokens, SessionStep(t) PROVE TimeoutsUnderWay'
  <2>1. ASSUME Attach(t) \/ IfbStop(t) \/ (\E u \in Users : IfbStart(t, u)) PROVE TimeoutsUnderWay'
    BY <2>1, TimeoutsKept DEF Attach, IfbStart, IfbStop, lines
  <2> QED
    BY <1>1, <2>1, TimeoutsDetach, TimeoutsCallRequest, TimeoutsCallAccept, TimeoutsHangUp,
       TimeoutsSignals, SessionsOnly, TimeoutsKept
    DEF SessionStep
<1>2. ASSUME TimerStep PROVE TimeoutsUnderWay'
  <2>1. ASSUME NEW k \in SignalIds, SignalExpire(k) PROVE TimeoutsUnderWay'
    <3>1. timer' = [timer EXCEPT ![k] = "off"] /\ call' = call
      BY <2>1 DEF SignalExpire
    <3> QED
      BY <2>1, <3>1, CoordinationAssumption DEF TypeOK, TimeoutsUnderWay, SignalExpire, Cleared
  <2> QED BY <1>2, <2>1, TimeoutsFire, TimeoutsCallTimeout DEF TimerStep
<1>3. ASSUME AdminStep PROVE TimeoutsUnderWay'
  BY <1>3, SessionsOnly, DatabaseOnly, TimeoutsKept DEF AdminStep
<1>4. ASSUME UNCHANGED vars PROVE TimeoutsUnderWay'
  BY <1>4, TimeoutsKept DEF vars, lines
<1> QED BY <1>1, <1>2, <1>3, <1>4 DEF Next

\* A call that rings and a signal on display always have a timeout under way or
\* queued, and an answered or ended call none that could still elapse.
THEOREM TimeoutsAlwaysUnderWay == Spec => []TimeoutsUnderWay
<1>1. TypeOK /\ LinesInv /\ TimeoutsUnderWay /\ [Next]_vars => TimeoutsUnderWay'
  BY TimeoutsStep
<1> QED BY <1>1, TimeoutsInit, LinesInvariant, PTL DEF Spec

-----------------------------------------------------------------------------
(* Late timeouts *)

\* A step that handles a fired timer of a call that does not ring, or that finds
\* a call ended, leaves that call as it is.
LateHarmless ==
  \A k \in CallIds :
    /\ (timer[k] = "fired" /\ timer'[k] = "off" /\ call[k].phase # "ringing") => call'[k] = call[k]
    /\ call[k].phase = "over" => call'[k] = call[k]

LEMMA OverIsOver ==
  ASSUME TypeOK, LinesInv, NEW k \in CallIds, call[k].phase = "over" PROVE call[k] = Over
<1>1. call[k].from = None /\ call[k].to = None
  BY DEF LinesInv, QuietCalls, Live
<1>2. call[k] \in Phase({"unused", "ringing", "active", "over"})
  BY DEF TypeOK
<1>3. call[k] = [from |-> call[k].from, to |-> call[k].to, phase |-> call[k].phase]
  BY <1>2 DEF Phase
<1> QED BY <1>1, <1>3 DEF Over

LEMMA LateKept == ASSUME call' = call PROVE LateHarmless
BY DEF LateHarmless

LEMMA LateDetach ==
  ASSUME TypeOK, LinesInv, NEW t \in Tokens, NEW reason, Detach(t, reason) PROVE LateHarmless
<1>1. \A k \in CallIds : call'[k] = IF k \in CallsOf(t) THEN Over ELSE call[k]
  BY DetachEnds DEF Detach
<1>2. \A k \in CallIds : timer[k] = "fired" => timer'[k] = "fired"
  BY Stopped DEF Detach, Stopping
<1> QED BY <1>1, <1>2, OverIsOver DEF LateHarmless

LEMMA LateCallRequest ==
  ASSUME TypeOK, NEW t \in Tokens, NEW u \in Users, CallRequest(t, u) PROVE LateHarmless
<1>1. PICK k \in CallIds :
        /\ call[k] = NoCall
        /\ \E s : call' = [call EXCEPT ![k] = [from |-> t, to |-> s, phase |-> "ringing"]]
        /\ timer' = [timer EXCEPT ![k] = "armed"]
  BY DEF CallRequest
<1>2. timer'[k] = "armed" /\ \A j \in CallIds \ {k} : call'[j] = call[j]
  BY <1>1 DEF TypeOK
<1> QED BY <1>1, <1>2 DEF LateHarmless, NoCall

LEMMA LateCallAccept ==
  ASSUME TypeOK, NEW t \in Tokens, NEW k \in CallIds, CallAccept(t, k) PROVE LateHarmless
BY AcceptedCall DEF LateHarmless, CallAccept

LEMMA LateHangUp ==
  ASSUME TypeOK, LinesInv, NEW t \in Tokens, NEW k \in CallIds, CallReject(t, k) \/ CallEnd(t, k)
  PROVE  LateHarmless
<1>1. \A j \in CallIds : call'[j] = IF j = k THEN Over ELSE call[j]
  BY EndedCall DEF TypeOK
<1>2. \A j \in CallIds : timer[j] = "fired" => timer'[j] = "fired"
  BY Stopped DEF CallReject, CallEnd, Stopping
<1> QED BY <1>1, <1>2, OverIsOver DEF LateHarmless

LEMMA LateCallTimeout ==
  ASSUME TypeOK, NEW k \in CallIds, CallTimeout(k) PROVE LateHarmless
BY CallTimedOut DEF LateHarmless

LEMMA LateStep ==
  ASSUME TypeOK, LinesInv, [Next]_vars PROVE LateHarmless
<1>1. ASSUME NEW t \in Tokens, SessionStep(t) PROVE LateHarmless
  <2>1. ASSUME Attach(t) \/ IfbStop(t) \/ (\E u \in Users : IfbStart(t, u)) PROVE call' = call
    BY <2>1 DEF Attach, IfbStart, IfbStop, lines
  <2> QED
    BY <1>1, <2>1, LateDetach, LateCallRequest, LateCallAccept, LateHangUp, SessionsOnly,
       SignalsOnly, LateKept
    DEF SessionStep
<1>2. ASSUME TimerStep PROVE LateHarmless
  BY <1>2, LateCallTimeout, SignalsOnly, LateKept DEF TimerStep
<1>3. ASSUME AdminStep PROVE LateHarmless
  BY <1>3, SessionsOnly, DatabaseOnly, LateKept DEF AdminStep
<1>4. ASSUME UNCHANGED vars PROVE LateHarmless
  BY <1>4, LateKept DEF vars, lines
<1> QED BY <1>1, <1>2, <1>3, <1>4 DEF Next

\* The timeout of a call that was answered or hung up meanwhile changes no call,
\* and an ended call never comes back.
THEOREM LateTimeoutsAreHarmless == Spec => LateTimeoutsHarmless
<1>1. TypeOK /\ LinesInv /\ [Next]_vars => [LateHarmless]_vars
  BY LateStep
<1>2. Spec => [][LateHarmless]_vars
  BY <1>1, LinesInvariant, PTL DEF Spec
<1> QED BY <1>2 DEF LateTimeoutsHarmless, LateHarmless

-----------------------------------------------------------------------------
(* Call signals *)

LEMMA SendersInit == Init => SignalSendersOnline
BY DEF Init, SignalSendersOnline, NoSignal

LEMMA SendersKept ==
  ASSUME SignalSendersOnline, attached \subseteq attached',
         \A k \in SignalIds : signal'[k] = signal[k] \/ signal'[k] = Cleared
  PROVE  SignalSendersOnline'
BY DEF SignalSendersOnline, Cleared

LEMMA SendersSend ==
  ASSUME TypeOK, SignalSendersOnline, NEW t \in Tokens, NEW to, NEW k \in SignalIds,
         SignalSend(t, to, k)
  PROVE  SignalSendersOnline'
<1>1. attached' = attached /\ t \in attached
  BY DEF SignalSend, presence
<1>2. \A j \in SignalIds :
        signal'[j] = IF j = k THEN [from |-> Owner[t], to |-> to, phase |-> "active"] ELSE signal[j]
  BY DEF SignalSend, TypeOK
<1> QED BY <1>1, <1>2 DEF SignalSendersOnline

\* A user who leaves takes the signals along; whoever else sent one stays.
LEMMA SendersDetach ==
  ASSUME TypeOK, SignalSendersOnline, NEW t \in Tokens, NEW reason, Detach(t, reason)
  PROVE  SignalSendersOnline'
<1>1. attached' = attached \ {t}
  BY DEF Detach
<1>2. \A k \in SignalIds :
        signal'[k] = IF k \in SignalsOf(Owner[t]) THEN Cleared ELSE signal[k]
  BY DEF Detach
<1> QED BY <1>1, <1>2 DEF SignalSendersOnline, SignalsOf, Cleared

LEMMA SendersStep ==
  ASSUME TypeOK, SignalSendersOnline, [Next]_vars PROVE SignalSendersOnline'
<1>1. ASSUME NEW t \in Tokens, SessionStep(t) PROVE SignalSendersOnline'
  <2>1. ASSUME \/ Attach(t) \/ IfbStop(t) \/ \E u \in Users : IfbStart(t, u) \/ CallRequest(t, u)
               \/ \E k \in CallIds : CallAccept(t, k) \/ CallReject(t, k) \/ CallEnd(t, k)
        PROVE  signal' = signal /\ attached \subseteq attached'
    BY <2>1 DEF Attach, IfbStart, IfbStop, CallRequest, CallAccept, CallReject, CallEnd, EndCall,
                presence, lines
  <2>2. ASSUME NEW k \in SignalIds, SignalAck(t, k) PROVE SignalSendersOnline'
    BY <2>2, SendersKept DEF SignalAck, presence, TypeOK
  <2> QED
    BY <1>1, <2>1, <2>2, SendersDetach, SendersSend, SessionsOnly, SendersKept DEF SessionStep
<1>2. ASSUME TimerStep PROVE SignalSendersOnline'
  <2>1. ASSUME NEW k, TimerFires(k) \/ CallTimeout(k) PROVE UNCHANGED <<signal, attached>>
    BY <2>1 DEF TimerFires, CallTimeout, EndCall, presence
  <2>2. ASSUME NEW k \in SignalIds, SignalExpire(k) PROVE SignalSendersOnline'
    BY <2>2, SendersKept DEF SignalExpire, presence, TypeOK
  <2> QED BY <1>2, <2>1, <2>2, SendersKept DEF TimerStep
<1>3. ASSUME AdminStep PROVE SignalSendersOnline'
  BY <1>3, SessionsOnly, DatabaseOnly, SendersKept DEF AdminStep
<1>4. ASSUME UNCHANGED vars PROVE SignalSendersOnline'
  BY <1>4, SendersKept DEF vars, lines, presence
<1> QED BY <1>1, <1>2, <1>3, <1>4 DEF Next

\* Nobody looks at a signal of a user who is offline, whichever of the user's
\* sessions sent it.
THEOREM SendersAlwaysOnline == Spec => []SignalSendersOnline
<1>1. TypeOK /\ SignalSendersOnline /\ [Next]_vars => SignalSendersOnline'
  BY SendersStep
<1> QED BY <1>1, SendersInit, TypeCorrect, PTL DEF Spec
=============================================================================
