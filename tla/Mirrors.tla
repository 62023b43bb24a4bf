-------------------------------- MODULE Mirrors --------------------------------
(***************************************************************************)
(* What the whole production sees and every client mirrors: the chat of a  *)
(* channel, the tally of the video switcher and the recordings of channels.*)
(* None of it goes through the outcome queue of the coordination: a        *)
(* message of any of them may reach a socket between two steps of its own  *)
(* attach, and what a client missed is sent again only when it attaches.   *)
(*                                                                         *)
(* Each client is one session token.  It listens to one socket at a time;  *)
(* the server may go on holding an older one of the same token.            *)
(***************************************************************************)
EXTENDS Integers, Sequences, FiniteSets, SequencesExt, Functions

CONSTANTS
  Clients, Channels,
  Scenes,      \* of OBS
  Lamps,       \* sources a TSL switcher reports
  Window,      \* maxMessagesPerChannel
  Outside,     \* no participant, no recording, no scene
  MaxEvents,   \* bound: everything people, networks and disks do
  MaxRestarts  \* bound

ASSUME MirrorsAssumption ==
  /\ Window \in Nat \ {0} /\ MaxEvents \in Nat /\ MaxRestarts \in Nat
  /\ Scenes \cap Lamps = {} /\ Outside \notin Scenes
  /\ IsFiniteSet(Channels) /\ Outside \notin Nat /\ \A some \in SUBSET Channels : some # Outside

VARIABLES
  granted,  \* the channels of each client, in the database
  member,   \* chat participants: their channels or Outside
  log,      \* messagesByChannel: numbers of messages
  obs,      \* OBS itself, and what a connection that begins has read of it
  tally,    \* sources of the tally service
  active,   \* recordings: the stream of each channel or Outside
  streams,  \* every stream that was opened: its channel and state
  ops,      \* starts and stops that wait for the disk
  link,     \* the socket each client listens to, as the server has it
  old,      \* clients with an older socket the server still holds
  wire,     \* messages under way on the socket each client listens to
  view,     \* what each client shows
  gap,      \* channels a client was given after it got its history
  events, restarts  \* counters for the bounds; events also number messages

serverVars == <<member, log, obs, tally, active, streams, ops>>
linkVars == <<link, old, gap>>
vars == <<granted, serverVars, linkVars, wire, view, events, restarts>>

Blank == [log |-> [ch \in Channels |-> <<>>], tally |-> <<>>, active |-> {}]
Off == [program |-> Outside, preview |-> Outside, at |-> "off", read |-> Outside]

Init ==
  /\ granted \in [Clients -> SUBSET Channels]
  /\ member = [c \in Clients |-> Outside] /\ log = [ch \in Channels |-> <<>>]
  /\ obs = Off /\ tally = <<>>
  /\ active = [ch \in Channels |-> Outside] /\ streams = <<>> /\ ops = {}
  /\ link = [c \in Clients |-> "down"] /\ old = {} /\ gap = [c \in Clients |-> {}]
  /\ wire = [c \in Clients |-> <<>>] /\ view = [c \in Clients |-> Blank]
  /\ events = 0 /\ restarts = 0

Event == events < MaxEvents /\ events' = events + 1 /\ UNCHANGED restarts
Quietly == UNCHANGED <<events, restarts>>

-----------------------------------------------------------------------------
(* Sending *)

\* connections.authenticated(): sessionToken is set before the attach is applied.
Known(c) == link[c] \in {"attaching", "up"}

Sent(w, to, message) == [c \in Clients |-> IF c \in to THEN Append(w[c], message) ELSE w[c]]
Broadcast(message) == wire' = Sent(wire, {c \in Clients : Known(c)}, message)

Recording == {ch \in Channels : active[ch] # Outside}
RecordingState(channels) == [kind |-> "recording:state", active |-> channels]
TallyUpdate(sources) == [kind |-> "tally:update", tally |-> sources]

-----------------------------------------------------------------------------
(* Connections *)

\* A client opens a socket, after the one it had was lost or at first; a page
\* that loads anew shows nothing yet.
Connect(c) ==
  /\ link[c] = "down" /\ Event
  /\ link' = [link EXCEPT ![c] = "open"]
  /\ view' \in {view, [view EXCEPT ![c] = Blank]}
  /\ UNCHANGED <<granted, serverVars, old, gap, wire>>

\* The attach sets the token and syncs the participant, then waits for the
\* media service.
Attach(c) ==
  /\ link[c] = "open"
  /\ link' = [link EXCEPT ![c] = "attaching"]
  /\ member' = [member EXCEPT ![c] = granted[c]]
  /\ gap' = [gap EXCEPT ![c] = {}]
  /\ UNCHANGED <<granted, log, obs, tally, active, streams, ops, old, wire, view>> /\ Quietly

History(c) ==
  LET channels == {ch \in member[c] : log[ch] # <<>>}
  IN {[kind |-> "chat:history", channel |-> ch, log |-> log[ch]] : ch \in channels}

\* sendChatHistory, then sendBootstrapState: only what is not empty.
Greeting(c) ==
  SetToSeq(History(c))
    \o (IF tally = <<>> THEN <<>> ELSE <<TallyUpdate(tally)>>)
    \o (IF Recording = {} THEN <<>> ELSE <<RecordingState(Recording)>>)

Greet(c) ==
  /\ link[c] = "attaching"
  /\ link' = [link EXCEPT ![c] = "up"]
  /\ wire' = [wire EXCEPT ![c] = @ \o Greeting(c)]
  /\ UNCHANGED <<granted, serverVars, old, gap, view>> /\ Quietly

\* The client loses its socket; the server, if it knew it, may notice later.
Lose(c) ==
  /\ link[c] # "down" /\ Event
  /\ link' = [link EXCEPT ![c] = "down"]
  /\ wire' = [wire EXCEPT ![c] = <<>>]
  /\ old' = IF Known(c) THEN old \cup {c} ELSE old
  /\ UNCHANGED <<granted, serverVars, gap, view>>

\* finishConnectionCleanup: a participant leaves with its last socket.
CleanUp(c) ==
  /\ c \in old /\ old' = old \ {c}
  /\ member' = IF Known(c) THEN member ELSE [member EXCEPT ![c] = Outside]
  /\ UNCHANGED <<granted, log, obs, tally, active, streams, ops, link, gap, wire, view>> /\ Quietly

\* An admin changes the channels of a user, and the refresh of its session
\* comes later; it syncs the participant and sends no history.
Grant(c, channels) ==
  /\ Event /\ granted' = [granted EXCEPT ![c] = channels]
  /\ UNCHANGED <<serverVars, linkVars, wire, view>>

Refresh(c) ==
  /\ member[c] # Outside /\ member[c] # granted[c]
  /\ member' = [member EXCEPT ![c] = granted[c]]
  /\ gap' = IF link[c] = "attaching" THEN gap ELSE [gap EXCEPT ![c] = @ \cup (granted[c] \ member[c])]
  /\ UNCHANGED <<granted, log, obs, tally, active, streams, ops, link, old, wire, view>> /\ Quietly

\* Memory is lost, the disk and what clients show stay.
Restart ==
  /\ restarts < MaxRestarts /\ restarts' = restarts + 1
  /\ member' = [c \in Clients |-> Outside] /\ log' = [ch \in Channels |-> <<>>]
  /\ obs' = [obs EXCEPT !.at = "off"] /\ tally' = <<>>
  /\ active' = [ch \in Channels |-> Outside] /\ ops' = {}
  /\ streams' = [n \in DOMAIN streams |-> [streams[n] EXCEPT !.state = "ended"]]
  /\ link' = [c \in Clients |-> "down"] /\ old' = {} /\ wire' = [c \in Clients |-> <<>>]
  /\ UNCHANGED <<granted, gap, view, events>>

-----------------------------------------------------------------------------
(* Chat *)

\* A message of a participant goes to the log and to every participant of the
\* channel.
Say(c, ch) ==
  /\ Known(c) /\ member[c] # Outside /\ ch \in member[c] /\ Event
  /\ LET id == events + 1
         kept == Append(log[ch], id)
         to == {d \in Clients : Known(d) /\ member[d] # Outside /\ ch \in member[d]}
     IN /\ log' = [log EXCEPT ![ch] = IF Len(kept) > Window THEN Tail(kept) ELSE kept]
        /\ wire' = Sent(wire, to, [kind |-> "chat:message", channel |-> ch, id |-> id])
  /\ UNCHANGED <<granted, member, obs, tally, active, streams, ops, linkVars, view>>

-----------------------------------------------------------------------------
(* Tally *)

\* Every source but the two that are named is off, also those of TSL.
FromScenes(program, preview) ==
  [s \in DOMAIN tally \cup ({program, preview} \ {Outside}) |->
     IF s = program THEN "program" ELSE IF s = preview THEN "preview" ELSE "none"]

Tallied(sources) == tally' = sources /\ Broadcast(TallyUpdate(sources))
TallyOnly == UNCHANGED <<granted, member, log, active, streams, ops, linkVars, view>>

\* The operator of OBS takes or prepares a scene; a connection that is up says
\* which of the two changed.
Cut(scene) ==
  /\ Event /\ obs' = [obs EXCEPT !.program = scene]
  /\ IF obs.at = "off" THEN UNCHANGED <<tally, wire>> ELSE Tallied(FromScenes(scene, Outside))
  /\ TallyOnly

Preset(scene) ==
  /\ Event /\ obs' = [obs EXCEPT !.preview = scene]
  /\ IF obs.at = "off" THEN UNCHANGED <<tally, wire>> ELSE Tallied(FromScenes(Outside, scene))
  /\ TallyOnly

\* connectOBS: connected, it asks for the program scene, then for the preview.
ObsConnects ==
  /\ obs.at = "off" /\ Event
  /\ obs' = [obs EXCEPT !.at = "asking", !.read = obs.program]
  /\ UNCHANGED <<tally, wire>> /\ TallyOnly

ObsAnswers ==
  /\ obs.at = "asking"
  /\ obs' = [obs EXCEPT !.at = "on"]
  /\ Tallied(FromScenes(obs.read, obs.preview))
  /\ TallyOnly /\ Quietly

\* A connection that closes or fails is tried again; the sources stay.
ObsDrops ==
  /\ obs.at # "off" /\ Event
  /\ obs' = [obs EXCEPT !.at = "off"]
  /\ UNCHANGED <<tally, wire>> /\ TallyOnly

HandleTSLPacket(lamp, state) ==
  /\ Event
  /\ Tallied([s \in DOMAIN tally \cup {lamp} |-> IF s = lamp THEN state ELSE tally[s]])
  /\ UNCHANGED obs /\ TallyOnly

-----------------------------------------------------------------------------
(* Recordings *)

RecordingOnly == UNCHANGED <<granted, member, log, obs, tally, linkVars, view>>

\* startRecording waits for the directory unless the channel is recorded.
StartRecording(ch) ==
  /\ Event
  /\ IF ch \in Recording
     THEN Broadcast(RecordingState(Recording)) /\ UNCHANGED ops
     ELSE ops' = ops \cup {[kind |-> "start", channel |-> ch, number |-> events]} /\ UNCHANGED wire
  /\ UNCHANGED <<active, streams>> /\ RecordingOnly

\* Whoever started the channel meanwhile is replaced.
OpenStream(op) ==
  /\ op.kind = "start" /\ ops' = ops \ {op}
  /\ streams' = Append(streams, [channel |-> op.channel, state |-> "open"])
  /\ active' = [active EXCEPT ![op.channel] = Len(streams')]
  /\ Broadcast(RecordingState(Recording \cup {op.channel}))
  /\ RecordingOnly /\ Quietly

\* stopRecording ends the stream and waits until it is written.
StopRecording(ch) ==
  /\ Event
  /\ IF ch \notin Recording
     THEN Broadcast(RecordingState(Recording)) /\ UNCHANGED <<active, streams, ops>>
     ELSE /\ active' = [active EXCEPT ![ch] = Outside]
          /\ streams' = [streams EXCEPT ![active[ch]].state = "ending"]
          /\ ops' = ops \cup {[kind |-> "stop", channel |-> ch, number |-> active[ch]]}
          /\ UNCHANGED wire
  /\ RecordingOnly

EndStream(op) ==
  /\ op.kind = "stop" /\ ops' = ops \ {op}
  /\ streams' = [streams EXCEPT ![op.number].state = "ended"]
  /\ Broadcast(RecordingState(Recording))
  /\ UNCHANGED active /\ RecordingOnly /\ Quietly

\* Slip: an error ends whatever recording its channel has.
LosesAny(n) == [active EXCEPT ![streams[n].channel] = Outside]

\* The error handler of a stream ends the recording that writes to it.
Loses(n) == [ch \in Channels |-> IF active[ch] = n THEN Outside ELSE active[ch]]

\* The disk fails a stream, also one that is ending: its stop then answers
\* with an error and broadcasts nothing, the error handler does.
StreamFails(n) ==
  /\ streams[n].state \in {"open", "ending"} /\ Event
  /\ streams' = [streams EXCEPT ![n].state = "failed"]
  /\ active' = Loses(n)
  /\ ops' = {op \in ops : ~(op.kind = "stop" /\ op.number = n)}
  /\ Broadcast(RecordingState({ch \in Channels : active'[ch] # Outside}))
  /\ RecordingOnly

-----------------------------------------------------------------------------
(* Clients *)

\* Slip: the history is put after what is shown.
ShownAfter(v, m) == [v EXCEPT !.log[m.channel] = @ \o m.log]

\* chat:history takes the place of what is shown of its channel.
Shown(v, m) == [v EXCEPT !.log[m.channel] = m.log]

Take(c) ==
  /\ wire[c] # <<>>
  /\ LET m == Head(wire[c])
         v == view[c]
     IN view' = [view EXCEPT ![c] =
          CASE m.kind = "chat:history"    -> Shown(v, m)
            [] m.kind = "chat:message"    -> [v EXCEPT !.log[m.channel] = Append(@, m.id)]
            [] m.kind = "tally:update"    -> [v EXCEPT !.tally = m.tally]
            [] m.kind = "recording:state" -> [v EXCEPT !.active = m.active]]
  /\ wire' = [wire EXCEPT ![c] = Tail(@)]
  /\ UNCHANGED <<granted, serverVars, linkVars>> /\ Quietly

-----------------------------------------------------------------------------
Next ==
  \/ \E c \in Clients : Connect(c) \/ Attach(c) \/ Greet(c) \/ Lose(c) \/ CleanUp(c)
                        \/ Refresh(c) \/ Take(c)
  \/ \E c \in Clients, channels \in SUBSET Channels : Grant(c, channels)
  \/ \E c \in Clients, ch \in Channels : Say(c, ch)
  \/ \E scene \in Scenes : Cut(scene) \/ Preset(scene)
  \/ ObsConnects \/ ObsAnswers \/ ObsDrops \/ Restart
  \/ \E lamp \in Lamps, state \in {"program", "preview", "none"} : HandleTSLPacket(lamp, state)
  \/ \E ch \in Channels : StartRecording(ch) \/ StopRecording(ch)
  \/ \E op \in ops : OpenStream(op) \/ EndStream(op)
  \/ \E n \in DOMAIN streams : StreamFails(n)

Spec == Init /\ [][Next]_vars

-----------------------------------------------------------------------------
(* Properties *)

Settled(c) == link[c] = "up" /\ wire[c] = <<>>

\* The messages of a channel on a screen are in order, each once, and end with
\* those the server keeps, but for channels that were given to a client while
\* it was connected.
ChatAgrees(c) ==
  \A ch \in Channels :
    LET shown == view[c].log[ch] IN
    /\ \A i, j \in DOMAIN shown : i < j => shown[i] < shown[j]
    /\ Settled(c) /\ ch \in member[c] \ gap[c] => IsSuffix(log[ch], shown)

\* A client that took everything it was sent shows the chat, the tally and the
\* recordings the server has (the last two if it has any), whatever was said,
\* switched, started and stopped while it attached, dropped and came back.
ClientsAgree ==
  \A c \in Clients :
    /\ ChatAgrees(c)
    /\ Settled(c) /\ tally # <<>> => view[c].tally = tally
    /\ Settled(c) /\ ops = {} /\ Recording # {} => view[c].active = Recording

\* What is shown as a recording writes to the newest stream of its channel, and
\* that stream is recorded until it is stopped or fails, also when two starts
\* raced and the older stream fails.
RecordingsWrite ==
  \A n \in DOMAIN streams :
    LET newest == \A k \in DOMAIN streams : streams[k].channel = streams[n].channel => k <= n
    IN active[streams[n].channel] = n <=> newest /\ streams[n].state = "open"
-----------------------------------------------------------------------------
(* Promises of the documents that the code does not keep *)

\* 03-POST-MVP-FEATURES.md:789: with a connection to OBS up, the scene on program
\* is shown as live and the one on preview as such.
TallyLive ==
  obs.at = "on" =>
    /\ obs.program # Outside => tally[obs.program] = "program"
    /\ obs.preview \notin {Outside, obs.program} => tally[obs.preview] = "preview"

\* 03-POST-MVP-FEATURES.md:976: a client that took everything shows which
\* channels are recorded, also that none is.
RecordingShown == \A c \in Clients : Settled(c) /\ ops = {} => view[c].active = Recording

\* service.test.ts "does not create duplicate recording for same channel"
RecordedOnce ==
  \A n, k \in DOMAIN streams :
    streams[n] = streams[k] /\ streams[n].state = "open" => n = k
=============================================================================
