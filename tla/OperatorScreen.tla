---------------------------- MODULE OperatorScreen ----------------------------
(***************************************************************************)
(* The intercom screen of the operator, on the web client or in the mobile *)
(* app: what it shows of the session in the server, and what its buttons,  *)
(* keys, voice detector and lock-screen widget send.                       *)
(*                                                                         *)
(* The effects of a change of state run before the next event and belong   *)
(* to the action that changes it.  A button that is held gets its release  *)
(* even when it was disabled meanwhile.  Audio becomes ready by itself     *)
(* while connected (MediaClient has how); levels, volumes, group and order *)
(* of the channels are left out.                                           *)
(***************************************************************************)
EXTENDS OperatorSession, SequencesExt

CONSTANTS
  Confidence,   \* the confidence channels
  Storages      \* what the browser may have stored: no listen selection, or one

ASSUME OperatorScreenAssumption ==
  /\ Confidence \subseteq Channels /\ Storages \subseteq SUBSET SUBSET Channels
  /\ IsFiniteSet(Channels)

VARIABLES
  scr,      \* state of the screen
  vox,      \* voice detector: triggered, its channels, the talk state it captured
  opener,   \* channel -> what last asked to open it (history)
  crashed   \* an exception has left an effect of the mobile app

vars == <<linkVars, sessionVars, scr, vox, opener, crashed>>

\* Channels that have a permission on the screen of login k (assignedPermissions).
Assigned(k) == IF k = 0 THEN {} ELSE Channels

\* Channels with a card and keys (visibleChannels).
Visible == Channels \ Confidence

NoDirect == [id |-> 0, state |-> "none"]
Quiet == [on |-> FALSE, channels |-> {}, view |-> {}]

\* A screen that was loaded with L in the storage; the stored selection and modes are
\* pruned to the channels with a permission at once, and there is no session yet.
Blank(L) ==
  [known |-> FALSE, talk |-> {}, listen |-> {}, ready |-> FALSE, page |-> "none",
   direct |-> NoDirect, incoming |-> 0, latch |-> {}, voxed |-> {},
   held |-> [c \in Channels |-> "no"],
   stored |-> L, prefer |-> UNION L \cap Assigned(0), restored |-> 0]

Init ==
  /\ LinkInit /\ SessionInit
  /\ \E L \in IF device = "web" THEN Storages ELSE {{}} : scr = Blank(L)
  /\ vox = Quiet /\ crashed = FALSE
  /\ opener = [c \in Channels |-> "none"]

Web == device = "web"
Connected == ScreenState = "connected"
\* controlsReady, and talkEnabled of the mobile app
Controls == Connected /\ scr.ready /\ (Web => scr.known)
Free(c) == scr.page # "other" /\ (Web => c \notin scr.voxed)

-----------------------------------------------------------------------------
(* What is sent *)

Talk(on, C) == [kind |-> "talk", on |-> on, of |-> C]
Listen(on, C) == [kind |-> "listen", on |-> on, of |-> C]
Sent(msgs) == up' = IF SocketOf # 0 /\ CanSend
                    THEN [up EXCEPT ![SocketOf] = @ \o msgs] ELSE up

\* startTalk of the web client, with the talk state it was rendered with.
WebStarts(c, view) == IF c \in view THEN <<>> ELSE <<Talk(TRUE, {c})>>

\* stopTalk of the web client.
WebStops(c, view) == IF c \in scr.latch \/ c \notin view THEN <<>> ELSE <<Talk(FALSE, {c})>>

\* A message for each channel of C.
TalkEach(on, C) == LET q == SetToSeq(C) IN [i \in DOMAIN q |-> Talk(on, {q[i]})]
ListenEach(on, C) == LET q == SetToSeq(C) IN [i \in DOMAIN q |-> Listen(on, {q[i]})]

Opens(C, how) == opener' = [c \in Channels |-> IF c \in C THEN how ELSE opener[c]]

\* Slip: channels that were turned off are left listening.
RestoresMissing(x) ==
  ListenEach(TRUE, x.prefer \ x.listen)

\* The web client brings the listen selection to the preferred one, once a login.
Restores(x) ==
  ListenEach(TRUE, x.prefer \ x.listen)
    \o ListenEach(FALSE, x.listen \ x.prefer)

\* Slip: confidence channels are turned on once, at the start of the session.
MonitorsOnce(x) ==
  IF scr.known THEN <<>> ELSE ListenEach(TRUE, Confidence \ x.listen)

\* Confidence channels that the state x does not listen to are turned on.
Monitors(x) == ListenEach(TRUE, Confidence \ x.listen)

\* The voice detector of the web client is stopped and made again; the old one
\* says that voice has ended, with the state that it captured, and its stopTalk
\* is forced: a latched channel stops too.
DetectorStops ==
  IF vox.on THEN TalkEach(FALSE, vox.channels \cap vox.view) ELSE <<>>
DetectorFor(x) ==
  vox' = IF x.ready /\ x.voxed # {} THEN [on |-> FALSE, channels |-> x.voxed, view |-> x.talk]
         ELSE Quiet

-----------------------------------------------------------------------------
(* Signing in and out, and the link *)

\* What is left of the screen without a session.  The web client prunes its modes
\* and selection to the channels with a permission again.
SignedOut ==
  [scr EXCEPT !.known = FALSE, !.talk = {}, !.listen = {}, !.ready = FALSE,
              !.direct = NoDirect, !.incoming = 0,
              !.page = IF Web THEN @ ELSE "none",
              !.latch = IF Web THEN @ \cap Assigned(0) ELSE @,
              !.voxed = IF Web THEN @ \cap Assigned(0) ELSE {},
              !.prefer = @ \cap Assigned(0)]

SignIn ==
  /\ login = 0
  /\ \E k \in Logins :
       /\ client[k].at = "idle" /\ (k > 1 => client[k - 1].at # "idle")
       /\ login' = k /\ valid' = valid \cup {k}
       /\ \E s \in Fresh : Connect(k, s)
  /\ UNCHANGED <<device, leaving, up, down, sessionVars, scr, vox, opener, crashed>>

\* The web client first asks for its session to be deleted, which may fail.
AskSignOut ==
  /\ Web /\ login # 0 /\ ~leaving /\ leaving' = TRUE
  /\ \/ /\ SessionDeleted(login)
        /\ IF login \in Attached THEN Detached(login, {}) ELSE UNCHANGED <<serverState, down>>
     \/ UNCHANGED <<valid, wire, up, serverState, down>>
  /\ UNCHANGED <<device, login, client, events, paged, scr, vox, opener, crashed>>

\* The session leaves the screen and the cleanup disconnects.
Leave ==
  /\ Disconnect(login)
  /\ login' = 0 /\ leaving' = FALSE
  /\ scr' = SignedOut /\ vox' = Quiet
  /\ UNCHANGED <<device, valid, up, sessionVars, opener, crashed>>

WebSignOut == Web /\ leaving /\ Leave

\* The mobile app keeps the session on the server.
MobileSignOut == ~Web /\ login # 0 /\ Leave

\* The socket closes.
Closes ==
  /\ login # 0 /\ SocketOf # 0
  /\ \/ wire[SocketOf].server = "gone" /\ down[SocketOf] = <<>> /\ UNCHANGED events
     \/ events < MaxEvents /\ events' = events + 1
  /\ UNCHANGED <<device, valid, up, serverState, paged, opener>>

LinkLost ==
  /\ Closes /\ ~(~Web /\ vox.on)
  /\ HandleClose(login)
  /\ scr' = [scr EXCEPT !.ready = FALSE]
  /\ vox' = IF Web THEN Quiet ELSE vox
  /\ UNCHANGED <<login, leaving, crashed>>

\* The mobile app's effect for the end of VOX asks the closed socket to stop
\* talking, which throws; the app is then started again.
LinkLostInVoice ==
  /\ Closes /\ ~Web /\ vox.on
  /\ Disconnect(login) /\ login' = 0 /\ leaving' = FALSE
  /\ scr' = Blank({}) /\ vox' = Quiet /\ crashed' = TRUE

\* A screen that knows a state looks at its confidence channels when it is connected again.
Link ==
  /\ login # 0
  /\ HandleOpen(login, IF scr.known THEN Monitors(scr) ELSE <<>>) \/ Reconnect(login)
  /\ UNCHANGED <<sessionVars, scr, vox, opener, crashed>>

BecomesReady ==
  /\ Connected /\ ~scr.ready
  /\ scr' = [scr EXCEPT !.ready = TRUE]
  /\ UNCHANGED <<linkVars, sessionVars, opener, crashed>>

WebAudioReady == Web /\ BecomesReady /\ DetectorFor(scr')
MobileAudioReady == ~Web /\ BecomesReady /\ UNCHANGED vox

\* The app's button on another tab; audio may be armed again at any time.
Disarm ==
  /\ ~Web /\ scr.ready /\ \A c \in Channels : scr.held[c] = "no"
  /\ events < MaxEvents /\ events' = events + 1
  /\ scr' = [scr EXCEPT !.ready = FALSE]
  /\ vox' = [vox EXCEPT !.on = FALSE]
  /\ Sent(IF vox.on THEN <<Talk(FALSE, Channels)>> ELSE <<>>)
  /\ UNCHANGED <<device, login, leaving, valid, client, wire, down, serverState, paged, opener, crashed>>

\* onMessage
After(m) ==
  CASE m.kind = "state" -> [scr EXCEPT !.known = TRUE, !.talk = m.talk, !.listen = m.listen]
    [] m.kind = "page" -> [scr EXCEPT !.page = m.who]
    [] m.kind = "incoming" -> [scr EXCEPT !.incoming = m.id]
    [] m.kind = "active" -> [scr EXCEPT !.incoming = 0, !.direct = [id |-> m.id, state |-> "active"]]
    [] m.kind = "ended" -> [scr EXCEPT !.incoming = 0, !.direct = NoDirect]

Receives(x) ==
  /\ down' = [down EXCEPT ![SocketOf] = Tail(@)]
  /\ scr' = x
  /\ UNCHANGED <<device, login, leaving, valid, client, wire, sessionVars, vox, opener, crashed>>

\* A browser that had no selection stored prefers the last one; otherwise the first
\* state of a session brings the preferred one back.
Prefers(x) ==
  IF ~Web THEN x
  ELSE IF scr.stored = {} THEN [x EXCEPT !.prefer = x.listen]
  ELSE [x EXCEPT !.restored = login]

Replies(x) ==
  (IF Web /\ scr.stored # {} /\ scr.restored # login THEN Restores(x) ELSE <<>>) \o Monitors(x)

ReceivesNext ==
  /\ CanSend /\ down[SocketOf] # <<>>
  /\ LET m == Head(down[SocketOf]) IN
       IF m.kind = "state" THEN Receives(Prefers(After(m))) /\ Sent(Replies(After(m)))
       ELSE Receives(After(m)) /\ UNCHANGED up

WebReceives == Web /\ ReceivesNext
MobileReceives == ~Web /\ ReceivesNext

-----------------------------------------------------------------------------
(* The operator *)

Operates ==
  /\ login # 0 /\ events < MaxEvents /\ events' = events + 1
  /\ UNCHANGED <<device, login, leaving, valid, client, wire, down, serverState, paged, crashed>>

\* Hold a talk button or (web) a talk key, which looks at nothing else.
Holds(c, by, msgs) ==
  /\ Operates /\ scr.held[c] = "no"
  /\ scr' = [scr EXCEPT !.held[c] = by]
  /\ Sent(msgs)
  /\ Opens({c}, IF c \in scr.latch THEN "tap" ELSE "press")
  /\ UNCHANGED vox

WebPress(c) ==
  Web /\ Controls /\ Free(c) /\ c \notin scr.latch /\ Holds(c, "button", WebStarts(c, scr.talk))
KeyPress(c) ==
  Web /\ scr.ready /\ Connected /\ Holds(c, "key", WebStarts(c, scr.talk))
MobilePress(c) ==
  ~Web /\ Controls /\ Free(c) /\ c \notin scr.latch /\ Holds(c, "button", <<Talk(TRUE, {c})>>)

\* What the release of a held button or key sends.
ButtonReleases(c) == IF Free(c) THEN WebStops(c, scr.talk) ELSE <<>>
KeyReleases(c) == IF scr.ready /\ Connected THEN WebStops(c, scr.talk) ELSE <<>>

\* Slip: the mobile app trusts the talk state it shows.
ReleaseIfShown(c) ==
  IF Controls /\ c \in scr.talk \ scr.latch THEN <<Talk(FALSE, {c})>> ELSE <<>>

MobileReleases(c) == IF Controls /\ c \notin scr.latch THEN <<Talk(FALSE, {c})>> ELSE <<>>

ReleaseSends(c) ==
  IF ~Web THEN MobileReleases(c)
  ELSE IF scr.held[c] = "key" THEN KeyReleases(c) ELSE ButtonReleases(c)

Release(c) ==
  /\ scr.held[c] # "no" /\ login # 0
  /\ scr' = [scr EXCEPT !.held[c] = "no"]
  /\ Sent(ReleaseSends(c))
  /\ UNCHANGED <<device, login, leaving, valid, client, wire, down, sessionVars, vox, opener, crashed>>

\* A latched channel is turned on or off by what the screen shows.
Taps(c) ==
  /\ Operates /\ Controls /\ Free(c) /\ c \in scr.latch
  /\ Sent(<<Talk(c \notin scr.talk, {c})>>)
  /\ IF c \in scr.talk THEN UNCHANGED opener ELSE Opens({c}, "tap")
  /\ UNCHANGED <<scr, vox>>
WebTap(c) == Web /\ Taps(c)
MobileTap(c) == ~Web /\ Taps(c)

\* Escape (web), and the widget of the lock screen (mobile)
Escape ==
  /\ Operates
  /\ Web /\ scr.ready /\ Connected /\ scr.talk # {}
  /\ Sent(TalkEach(FALSE, scr.talk))
  /\ UNCHANGED <<scr, vox, opener>>

Widget ==
  /\ Operates
  /\ ~Web /\ scr.ready /\ Connected
  /\ Sent(<<Talk(scr.talk = {}, Channels)>>)
  /\ IF scr.talk = {} THEN Opens(Channels, "tap") ELSE UNCHANGED opener
  /\ UNCHANGED <<scr, vox>>

Toggled(C, D) == (C \ D) \cup (D \ C)

\* toggleLatchMode, toggleVoxMode: a channel has one of the modes.  A channel
\* that is held while its mode changes counts as latched.
WebModes(latch, voxed) ==
  /\ Operates
  /\ scr' = [scr EXCEPT !.latch = latch, !.voxed = voxed]
  /\ Sent(DetectorStops) /\ DetectorFor(scr')
ToggleLatchMode(c) ==
  Web /\ WebModes(Toggled(scr.latch, {c}), scr.voxed \ {c}) /\ Opens({c}, "tap")
ToggleVoxMode(c) ==
  Web /\ scr.ready /\ WebModes(scr.latch \ {c}, Toggled(scr.voxed, {c})) /\ UNCHANGED opener

\* The mobile app has one switch of each mode for all channels.
LatchSwitch ==
  /\ ~Web /\ Operates
  /\ scr' = [scr EXCEPT !.latch = Channels \ @]
  /\ Opens(Channels, "tap") /\ UNCHANGED <<up, vox>>
VoxSwitch ==
  /\ ~Web /\ Operates
  /\ scr' = [scr EXCEPT !.voxed = Channels \ @]
  /\ vox' = [vox EXCEPT !.on = FALSE]
  /\ Sent(IF vox.on THEN <<Talk(FALSE, Channels)>> ELSE <<>>)
  /\ UNCHANGED opener

\* The operator speaks, and is silent for the hold time.
Voice(channels, msgs) ==
  /\ Operates /\ ~vox.on /\ scr.ready /\ scr.voxed # {}
  /\ vox' = [vox EXCEPT !.on = TRUE]
  /\ Sent(msgs) /\ Opens(channels, "voice")
  /\ UNCHANGED scr
WebVoice ==
  Web /\ Voice(vox.channels, TalkEach(TRUE, vox.channels \ vox.view))
MobileVoice == ~Web /\ Voice(Channels, <<Talk(TRUE, Channels)>>)

Silence(msgs) ==
  /\ vox.on
  /\ vox' = [vox EXCEPT !.on = FALSE]
  /\ Sent(msgs)
  /\ UNCHANGED <<device, login, leaving, valid, client, wire, down, sessionVars, scr, opener, crashed>>
WebSilence == Web /\ Silence(DetectorStops)
MobileSilence == ~Web /\ Silence(<<Talk(FALSE, Channels)>>)

Listens(c) ==
  /\ Operates
  /\ Sent(<<Listen(c \notin scr.listen, {c})>>)
  /\ UNCHANGED <<vox, opener>>
WebListen(c) ==
  /\ Web /\ Controls /\ Listens(c)
  /\ scr' = [scr EXCEPT !.prefer = IF c \in scr.listen THEN @ \ {c} ELSE @ \cup {c}]
MobileListen(c) == ~Web /\ Connected /\ Listens(c) /\ UNCHANGED scr

Pages ==
  /\ Operates /\ scr.page # "other"
  /\ Sent(<<[kind |-> "page", on |-> scr.page # "me"]>>)
  /\ Opens(Channels, "page")
  /\ UNCHANGED <<scr, vox>>
WebPageButton == Web /\ Connected /\ scr.ready /\ Pages
MobilePageButton == ~Web /\ Connected /\ Pages

CallPeer ==
  /\ Operates
  /\ CanSend /\ scr.direct = NoDirect /\ scr.incoming = 0
  /\ scr' = [scr EXCEPT !.direct = [id |-> 0, state |-> "requesting"]]
  /\ Sent(<<[kind |-> "call"]>>)
  /\ UNCHANGED <<vox, opener>>

Accept ==
  /\ Operates
  /\ CanSend /\ scr.incoming # 0
  /\ Sent(<<[kind |-> "accept", id |-> scr.incoming]>>)
  /\ UNCHANGED <<scr, vox, opener>>

Reject ==
  /\ Operates
  /\ CanSend /\ scr.incoming # 0
  /\ scr' = [scr EXCEPT !.incoming = 0]
  /\ Sent(<<[kind |-> "reject", id |-> scr.incoming]>>)
  /\ UNCHANGED <<vox, opener>>

\* Slip: the call is only taken off the screen.
HangUpQuietly ==
  /\ Operates
  /\ CanSend /\ scr.direct # NoDirect
  /\ scr' = [scr EXCEPT !.direct = NoDirect]
  /\ UNCHANGED <<up, vox, opener>>

\* A call that is only requested has no id yet.
HangUp ==
  /\ Operates
  /\ CanSend /\ scr.direct # NoDirect
  /\ scr' = [scr EXCEPT !.direct = NoDirect]
  /\ Sent(<<[kind |-> "end", id |-> scr.direct.id]>>)
  /\ UNCHANGED <<vox, opener>>

Operator ==
  \/ SignIn \/ AskSignOut \/ WebSignOut \/ MobileSignOut
  \/ Escape \/ Widget \/ Disarm \/ LatchSwitch \/ VoxSwitch
  \/ WebVoice \/ MobileVoice \/ WebSilence \/ MobileSilence
  \/ WebPageButton \/ MobilePageButton \/ CallPeer \/ Accept \/ Reject \/ HangUp
  \/ \E c \in Visible :
       \/ WebPress(c) \/ KeyPress(c) \/ MobilePress(c) \/ Release(c) \/ WebTap(c) \/ MobileTap(c)
       \/ ToggleLatchMode(c) \/ ToggleVoxMode(c) \/ WebListen(c) \/ MobileListen(c)

Server ==
  /\ (\E s \in Sockets : Read(s) \/ SocketEnds(s)) \/ OtherPeople
  /\ UNCHANGED <<scr, vox, opener, crashed>>

Next ==
  \/ Operator \/ Server \/ Link \/ LinkLost \/ LinkLostInVoice
  \/ WebAudioReady \/ MobileAudioReady \/ WebReceives \/ MobileReceives

Spec == Init /\ [][Next]_vars

-----------------------------------------------------------------------------
(* Properties *)

\* Nothing is under way between the screen and the server.
Rest ==
  /\ login # 0 /\ ~leaving /\ CanSend
  /\ wire[SocketOf].server = "up" /\ down[SocketOf] = <<>>
  /\ \A s \in ServerSockets(login) : up[s] = <<>>

FirstSocket == \A s \in Sockets : s # SocketOf => wire[s] = NoWire

\* Whatever drops and reconnections came before, an idle screen shows exactly
\* the microphones that the server has open for it, and the listen selection
\* unless someone else pages (session:ready and operator-state).
MicShown ==
  Rest => /\ scr.known /\ scr.talk = srv[login].talk
          /\ page \in {0, login} => scr.listen = srv[login].listen

\* On its first connection an idle screen shows the call that is up or rings
\* for it, and no call that is over; and the all-page (direct:* and allpage:*).
LinesShown ==
  Rest /\ FirstSocket =>
    /\ scr.page = Notice(page).who
    /\ scr.direct.state = "active" <=> call.phase = "active"
    /\ scr.direct.state = "active" => scr.direct.id = call.id
    /\ scr.incoming # 0 <=> call.phase = "ringing" /\ ~call.mine

\* The selection that the web client will store is what the server mixes for it, and
\* the confidence channels, under quick changes of the operator while states and
\* commands cross (updateListen, the effects of a state).  A browser that had a
\* selection stored sends it once a login: there it holds until someone pages or a
\* connection is lost, elsewhere unless someone else pages.
SelectionRestored ==
  Web /\ Rest /\ (IF scr.stored = {} THEN page \in {0, login} ELSE FirstSocket /\ ~paged)
    => srv[login].listen = scr.prefer \cup Confidence

\* Whoever pages, whatever is restored, retained or turned off on the way, on the web
\* and in the app: confidence channels are always on (the effect for them).
ConfidenceHeard == Rest => Confidence \subseteq srv[login].listen

\* 02-MVP-DESIGN.md: "Restore previous listen/volume state from localStorage".  The
\* selection that was stored when the page was loaded is what an operator listens to
\* who signs in and does nothing else.
StoredSelectionRestored ==
  Web /\ Rest /\ events = 0 => \A S \in scr.stored : srv[login].listen = S \cup Confidence

\* A channel that was opened by holding a button, or by voice, is shut when the
\* button is released and the voice is silent, on the connection it was opened.
Shut(d) ==
  device = d /\ Rest /\ FirstSocket =>
    \A c \in srv[login].talk :
      /\ opener[c] = "press" => scr.held[c] # "no"
      /\ opener[c] = "voice" => vox.on

\* It holds in the mobile app (handleTalkGesture, its VOX effect) ...
MobileShut == Shut("mobile")

\* ... but not in the web client, which sends no stop for a channel that it
\* does not show as open yet (stopTalk), nor for one that voice opened.
WebShut == Shut("web")

\* A page that is shown to block talking is under way.
PageShown == Rest /\ scr.page = "other" => page = Other

\* The mobile app survives the loss of its connection.
AppSurvives == ~crashed
=============================================================================
