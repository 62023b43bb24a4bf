------------------------------ MODULE MirrorsProofs ------------------------------
(***************************************************************************)
(* What every client mirrors, for any number of clients, channels, scenes  *)
(* and lamps: a recording that is shown writes to the newest stream of its *)
(* channel, and a client that took what it was sent shows what the server  *)
(* has.                                                                    *)
(***************************************************************************)
EXTENDS Mirrors, TLAPS, FiniteSetTheorems, SequenceTheorems

-----------------------------------------------------------------------------
(* Recordings *)

StreamRows == [channel : Channels, state : {"open", "ending", "ended", "failed"}]

\* A stop waits for a stream of its channel that is ending.
OpOK(op) ==
  /\ op = [kind |-> op.kind, channel |-> op.channel, number |-> op.number]
  /\ op.kind \in {"start", "stop"} /\ op.channel \in Channels
  /\ op.kind = "stop" => /\ op.number \in DOMAIN streams
                         /\ streams[op.number] = [channel |-> op.channel, state |-> "ending"]

\* What is recorded has a stream of its own channel.
ActiveOK ==
  \A ch \in Channels : active[ch] # Outside =>
    active[ch] \in DOMAIN streams /\ streams[active[ch]].channel = ch

RecordingInv ==
  /\ streams \in Seq(StreamRows) /\ active \in [Channels -> Nat \cup {Outside}]
  /\ ActiveOK /\ RecordingsWrite
  /\ \A op \in ops : OpOK(op)

LEMMA InitRecording == Init => RecordingInv
<1> SUFFICES ASSUME Init PROVE RecordingInv
  OBVIOUS
<1>1. streams = <<>> /\ DOMAIN streams = {} /\ ops = {} /\ active = [ch \in Channels |-> Outside]
  <2>1. streams = <<>>
    BY DEF Init
  <2>2. DOMAIN streams = {}
    BY <2>1
  <2> QED BY <2>1, <2>2 DEF Init
<1>2. streams \in Seq(StreamRows)
  BY <1>1
<1> QED BY <1>1, <1>2 DEF RecordingInv, ActiveOK, RecordingsWrite

LEMMA StreamsParts ==
  ASSUME RecordingInv
  PROVE  /\ Len(streams) \in Nat /\ DOMAIN streams = 1..Len(streams)
         /\ \A n \in DOMAIN streams : streams[n] \in StreamRows
BY DEF RecordingInv

LEMMA OpenStreamKept ==
  ASSUME RecordingInv, NEW op \in ops, OpenStream(op) PROVE RecordingInv'
<1> DEFINE m == Len(streams) + 1
           row == [channel |-> op.channel, state |-> "open"]
<1>1. op.channel \in Channels /\ row \in StreamRows /\ row.channel = op.channel /\ row.state = "open"
  BY DEF RecordingInv, OpOK, StreamRows
<1>2. Len(streams) \in Nat /\ DOMAIN streams = 1..Len(streams)
  BY StreamsParts
<1>3. streams' = Append(streams, row) /\ ops' \subseteq ops
  BY DEF OpenStream
<1> HIDE DEF row
<1>4. /\ streams' \in Seq(StreamRows) /\ Len(streams') = m /\ DOMAIN streams' = 1..m
      /\ streams'[m] = row /\ \A n \in 1..Len(streams) : streams'[n] = streams[n]
  BY <1>1, <1>2, <1>3 DEF RecordingInv
<1>5. active' = [active EXCEPT ![op.channel] = m] /\ m \in Nat /\ m # Outside
  BY <1>2, <1>4, MirrorsAssumption DEF OpenStream
<1>6. /\ active' \in [Channels -> Nat \cup {Outside}] /\ active'[op.channel] = m
      /\ \A ch \in Channels \ {op.channel} : active'[ch] = active[ch]
  BY <1>1, <1>5 DEF RecordingInv
<1> HIDE DEF m
<1>7. m = Len(streams) + 1
  BY DEF m
<1>8. ActiveOK'
  BY <1>1, <1>2, <1>4, <1>6, <1>7 DEF ActiveOK, RecordingInv
<1>9. RecordingsWrite'
  <2> SUFFICES ASSUME NEW n \in DOMAIN streams'
               PROVE  active'[streams'[n].channel] = n <=>
                        /\ \A k \in DOMAIN streams' : streams'[k].channel = streams'[n].channel => k <= n
                        /\ streams'[n].state = "open"
    BY DEF RecordingsWrite
  <2>1. CASE n = m
    BY <1>1, <1>2, <1>4, <1>6, <1>7, <2>1
  <2>2. CASE n # m
    <3>1. n \in DOMAIN streams /\ streams'[n] = streams[n] /\ streams[n].channel \in Channels
      BY <1>2, <1>4, <1>7, <2>2, StreamsParts DEF StreamRows
    <3>2. CASE streams[n].channel = op.channel
      BY <1>1, <1>2, <1>4, <1>6, <1>7, <3>1, <3>2
    <3>3. CASE streams[n].channel # op.channel
      <4>1. active'[streams[n].channel] = active[streams[n].channel]
        BY <1>6, <3>1, <3>3
      <4>2. (\A k \in DOMAIN streams' : streams'[k].channel = streams[n].channel => k <= n)
            <=> (\A k \in DOMAIN streams : streams[k].channel = streams[n].channel => k <= n)
        BY <1>1, <1>2, <1>4, <1>7, <3>3
      <4> QED BY <3>1, <4>1, <4>2 DEF RecordingInv, RecordingsWrite
    <3> QED BY <3>2, <3>3
  <2> QED BY <2>1, <2>2
<1>10. \A o \in ops' : OpOK(o)'
  <2> SUFFICES ASSUME NEW o \in ops PROVE OpOK(o)'
    BY <1>3
  <2>1. OpOK(o)
    BY DEF RecordingInv
  <2>2. o.kind = "stop" => o.number \in DOMAIN streams' /\ streams'[o.number] = streams[o.number]
    BY <1>2, <1>4, <1>7, <2>1 DEF OpOK
  <2> QED BY <2>1, <2>2 DEF OpOK
<1> QED BY <1>4, <1>6, <1>8, <1>9, <1>10 DEF RecordingInv

\* A stream only changes its state, and is not open any more.
LEMMA StateChanged ==
  ASSUME RecordingInv, NEW n \in DOMAIN streams, NEW state \in {"ending", "ended", "failed"},
         streams' = [streams EXCEPT ![n].state = state]
  PROVE  /\ streams' \in Seq(StreamRows) /\ DOMAIN streams' = DOMAIN streams
         /\ streams'[n] = [channel |-> streams[n].channel, state |-> state]
         /\ \A k \in DOMAIN streams : k # n => streams'[k] = streams[k]
         /\ \A k \in DOMAIN streams : streams'[k].channel = streams[k].channel
<1> DEFINE row == [streams[n] EXCEPT !.state = state]
<1>1. streams[n] \in StreamRows
  BY StreamsParts
<1>2. row = [channel |-> streams[n].channel, state |-> state] /\ row \in StreamRows
      /\ row.channel = streams[n].channel
  BY <1>1 DEF StreamRows
<1>3. streams' = [streams EXCEPT ![n] = row]
  BY DEF RecordingInv
<1> HIDE DEF row
<1>4. Len(streams) \in Nat /\ DOMAIN streams = 1..Len(streams)
  BY StreamsParts
<1>5. streams' \in Seq(StreamRows)
  <2>1. streams \in Seq(StreamRows) /\ n \in 1..Len(streams)
    BY <1>4 DEF RecordingInv
  <2>2. row \in StreamRows
    BY <1>2
  <2>3. [streams EXCEPT ![n] = row] \in Seq(StreamRows)
    BY <2>1, <2>2, ExceptSeq
  <2> QED BY <1>3, <2>3
<1>6. DOMAIN streams' = DOMAIN streams /\ streams'[n] = row
      /\ \A k \in DOMAIN streams : k # n => streams'[k] = streams[k]
  BY <1>3
<1> QED BY <1>2, <1>5, <1>6

\* When the stream that stops being open is not recorded either, the others are
\* as they were.
LEMMA EndedWrites ==
  ASSUME RecordingInv, NEW n \in DOMAIN streams, NEW state \in {"ending", "ended", "failed"},
         streams' = [streams EXCEPT ![n].state = state],
         active' = [ch \in Channels |-> IF active[ch] = n THEN Outside ELSE active[ch]]
  PROVE  /\ active' \in [Channels -> Nat \cup {Outside}] /\ ActiveOK' /\ RecordingsWrite'
<1> DEFINE row == [channel |-> streams[n].channel, state |-> state]
<1>1. /\ DOMAIN streams' = DOMAIN streams /\ streams'[n].state # "open"
      /\ \A k \in DOMAIN streams : k # n => streams'[k] = streams[k]
      /\ \A k \in DOMAIN streams : streams'[k].channel = streams[k].channel
  <2>1. row.state # "open"
    OBVIOUS
  <2>2. /\ DOMAIN streams' = DOMAIN streams /\ streams'[n] = row
        /\ \A k \in DOMAIN streams : k # n => streams'[k] = streams[k]
        /\ \A k \in DOMAIN streams : streams'[k].channel = streams[k].channel
    BY StateChanged
  <2> HIDE DEF row
  <2> QED BY <2>1, <2>2
<1> HIDE DEF row
<1>2. active' \in [Channels -> Nat \cup {Outside}]
  BY DEF RecordingInv
<1>3. ActiveOK'
  BY <1>1 DEF RecordingInv, ActiveOK
<1>4. RecordingsWrite'
  <2> SUFFICES ASSUME NEW k \in DOMAIN streams'
               PROVE  active'[streams'[k].channel] = k <=>
                        /\ \A j \in DOMAIN streams' : streams'[j].channel = streams'[k].channel => j <= k
                        /\ streams'[k].state = "open"
    BY DEF RecordingsWrite
  <2>1. k \in DOMAIN streams /\ k # Outside /\ streams[k].channel \in Channels
    BY <1>1, StreamsParts, MirrorsAssumption DEF StreamRows
  <2>2. (\A j \in DOMAIN streams' : streams'[j].channel = streams'[k].channel => j <= k)
        <=> (\A j \in DOMAIN streams : streams[j].channel = streams[k].channel => j <= k)
    BY <1>1, <2>1
  <2>3. streams'[k].channel = streams[k].channel
    BY <1>1, <2>1
  <2>4. CASE k = n
    BY <1>1, <2>1, <2>3, <2>4
  <2>5. CASE k # n
    <3>1. active'[streams[k].channel] = k <=> active[streams[k].channel] = k
      BY <2>1, <2>5
    <3>2. streams'[k].state = streams[k].state
      BY <1>1, <2>1, <2>5
    <3> QED BY <2>1, <2>2, <2>3, <3>1, <3>2 DEF RecordingInv, RecordingsWrite
  <2> QED BY <2>4, <2>5
<1> QED BY <1>2, <1>3, <1>4

LEMMA StopRecordingKept ==
  ASSUME RecordingInv, NEW ch \in Channels, StopRecording(ch) PROVE RecordingInv'
<1>1. CASE ch \notin Recording
  BY <1>1 DEF StopRecording, RecordingInv, ActiveOK, RecordingsWrite, OpOK
<1>2. CASE ch \in Recording
  <2> DEFINE n == active[ch]
             op == [kind |-> "stop", channel |-> ch, number |-> n]
  <2>1. /\ active' = [active EXCEPT ![ch] = Outside] /\ ops' = ops \cup {op}
        /\ streams' = [streams EXCEPT ![n].state = "ending"]
    BY <1>2 DEF StopRecording
  <2>2. n \in DOMAIN streams /\ streams[n].channel = ch
    BY <1>2 DEF Recording, RecordingInv, ActiveOK
  <2>3. streams[n].state = "open"
    BY <2>2 DEF RecordingInv, RecordingsWrite
  <2>4. \A other \in Channels : active[other] = n => other = ch
    BY <2>2, MirrorsAssumption, StreamsParts DEF RecordingInv, ActiveOK
  <2>5. active' = [c \in Channels |-> IF active[c] = n THEN Outside ELSE active[c]]
    BY <2>1, <2>4 DEF RecordingInv
  <2>6. op.kind = "stop" /\ op.channel = ch /\ op.number = n
    OBVIOUS
  <2>7. op = [kind |-> op.kind, channel |-> op.channel, number |-> op.number]
    OBVIOUS
  <2> HIDE DEF n, op
  <2>8. /\ streams' \in Seq(StreamRows) /\ DOMAIN streams' = DOMAIN streams
        /\ streams'[n] = [channel |-> ch, state |-> "ending"]
        /\ \A k \in DOMAIN streams : k # n => streams'[k] = streams[k]
    BY <2>1, <2>2, StateChanged
  <2>9. active' \in [Channels -> Nat \cup {Outside}] /\ ActiveOK' /\ RecordingsWrite'
    BY <2>1, <2>2, <2>5, EndedWrites
  <2>10. ASSUME NEW o \in ops PROVE OpOK(o)'
    <3>1. OpOK(o)
      BY DEF RecordingInv
    <3>2. o.kind = "stop" => streams[o.number].state = "ending"
      BY <3>1 DEF OpOK
    <3>3. o.kind = "stop" => o.number # n
      BY <2>3, <3>2
    <3> QED BY <2>8, <3>1, <3>3 DEF OpOK
  <2>11. ASSUME NEW o \in {op} PROVE OpOK(o)'
    BY <2>2, <2>6, <2>7, <2>8 DEF OpOK
  <2> QED BY <2>1, <2>8, <2>9, <2>10, <2>11 DEF RecordingInv
<1> QED BY <1>1, <1>2

\* The stream of a stop or of an error is over.
LEMMA StreamOver ==
  ASSUME RecordingInv, NEW n \in DOMAIN streams, NEW state \in {"ended", "failed"},
         streams' = [streams EXCEPT ![n].state = state],
         active' = [ch \in Channels |-> IF active[ch] = n THEN Outside ELSE active[ch]],
         ops' \subseteq ops, \A op \in ops' : ~(op.kind = "stop" /\ op.number = n)
  PROVE  RecordingInv'
<1>1. /\ streams' \in Seq(StreamRows) /\ DOMAIN streams' = DOMAIN streams
      /\ \A k \in DOMAIN streams : k # n => streams'[k] = streams[k]
  BY StateChanged
<1>2. active' \in [Channels -> Nat \cup {Outside}] /\ ActiveOK' /\ RecordingsWrite'
  BY EndedWrites
<1>3. ASSUME NEW o \in ops' PROVE OpOK(o)'
  <2>1. OpOK(o) /\ (o.kind = "stop" => o.number # n)
    BY DEF RecordingInv
  <2> QED BY <1>1, <2>1 DEF OpOK
<1> QED BY <1>1, <1>2, <1>3 DEF RecordingInv

LEMMA EndStreamKept ==
  ASSUME RecordingInv, NEW op \in ops, EndStream(op) PROVE RecordingInv'
<1> DEFINE n == op.number
<1>1. OpOK(op) /\ op.kind = "stop"
  BY DEF RecordingInv, EndStream
<1>2. n \in DOMAIN streams /\ streams[n].state = "ending" /\ streams[n].channel = op.channel
  BY <1>1 DEF OpOK
<1>3. \A ch \in Channels : active[ch] # n
  <2> SUFFICES ASSUME NEW ch \in Channels, active[ch] = n PROVE FALSE
    OBVIOUS
  <2>1. n # Outside
    BY <1>2, StreamsParts, MirrorsAssumption
  <2>2. streams[n].channel = ch
    BY <2>1 DEF RecordingInv, ActiveOK
  <2> QED BY <1>2, <2>2 DEF RecordingInv, RecordingsWrite
<1>4. active' = [ch \in Channels |-> IF active[ch] = n THEN Outside ELSE active[ch]]
  BY <1>3 DEF EndStream, RecordingInv
<1>5. \A o \in ops' : ~(o.kind = "stop" /\ o.number = n)
  <2> SUFFICES ASSUME NEW o \in ops', o.kind = "stop", o.number = n PROVE FALSE
    OBVIOUS
  <2>1. o \in ops /\ o # op
    BY DEF EndStream
  <2>2. OpOK(o)
    BY <2>1 DEF RecordingInv
  <2>3. o.channel = op.channel
    <3>1. streams[n].channel = o.channel
      BY <2>2 DEF OpOK
    <3> QED BY <1>2, <3>1
  <2> QED BY <1>1, <2>1, <2>2, <2>3 DEF OpOK
<1>6. streams' = [streams EXCEPT ![n].state = "ended"] /\ ops' \subseteq ops
  BY DEF EndStream
<1> HIDE DEF n
<1> QED BY <1>2, <1>4, <1>5, <1>6, StreamOver

LEMMA StreamFailsKept ==
  ASSUME RecordingInv, NEW n \in DOMAIN streams, StreamFails(n) PROVE RecordingInv'
<1>1. /\ streams' = [streams EXCEPT ![n].state = "failed"]
      /\ active' = [ch \in Channels |-> IF active[ch] = n THEN Outside ELSE active[ch]]
      /\ ops' \subseteq ops /\ \A op \in ops' : ~(op.kind = "stop" /\ op.number = n)
  BY DEF StreamFails, Loses
<1> QED BY <1>1, StreamOver

LEMMA RestartRecording == ASSUME RecordingInv, Restart PROVE RecordingInv'
<1>1. Len(streams) \in Nat /\ DOMAIN streams = 1..Len(streams)
  BY StreamsParts
<1>2. streams' = [n \in 1..Len(streams) |-> [streams[n] EXCEPT !.state = "ended"]]
  BY <1>1 DEF Restart
<1>3. ASSUME NEW n \in 1..Len(streams)
      PROVE  streams'[n] \in StreamRows /\ streams'[n].state = "ended"
  <2>1. streams[n] \in StreamRows /\ streams'[n] = [streams[n] EXCEPT !.state = "ended"]
    BY <1>1, <1>2, StreamsParts
  <2> QED BY <2>1 DEF StreamRows
<1>4. streams' \in [1..Len(streams) -> StreamRows] /\ DOMAIN streams' = 1..Len(streams)
  BY <1>2, <1>3
<1>5. streams' \in Seq(StreamRows)
  BY <1>1, <1>4, SeqDef
<1>6. active' = [ch \in Channels |-> Outside] /\ ops' = {}
  BY DEF Restart
<1>7. RecordingsWrite'
  <2> SUFFICES ASSUME NEW n \in DOMAIN streams'
               PROVE  active'[streams'[n].channel] # n /\ streams'[n].state # "open"
    BY DEF RecordingsWrite
  <2>1. n \in 1..Len(streams) /\ n # Outside
    BY <1>1, <1>4, MirrorsAssumption
  <2>2. streams'[n].channel \in Channels
    BY <1>3, <2>1 DEF StreamRows
  <2> QED BY <1>3, <1>6, <2>1, <2>2
<1> QED BY <1>5, <1>6, <1>7 DEF RecordingInv, ActiveOK

LEMMA StartRecordingKept ==
  ASSUME RecordingInv, NEW ch \in Channels, StartRecording(ch) PROVE RecordingInv'
<1> DEFINE op == [kind |-> "start", channel |-> ch, number |-> events]
<1>1. ops' = ops \/ ops' = ops \cup {op}
  BY DEF StartRecording
<1>2. UNCHANGED <<active, streams>>
  BY DEF StartRecording
<1>3. ASSUME NEW o \in {op} PROVE OpOK(o)'
  <2>1. op.kind = "start" /\ op.channel = ch /\ op.number = events
    OBVIOUS
  <2>2. op = [kind |-> op.kind, channel |-> op.channel, number |-> op.number]
    OBVIOUS
  <2> HIDE DEF op
  <2> QED BY <2>1, <2>2 DEF OpOK
<1> HIDE DEF op
<1>4. ASSUME NEW o \in ops PROVE OpOK(o)'
  BY <1>2 DEF RecordingInv, OpOK
<1> QED BY <1>1, <1>2, <1>3, <1>4 DEF RecordingInv, ActiveOK, RecordingsWrite

LEMMA StepRecording == RecordingInv /\ [Next]_vars => RecordingInv'
<1> SUFFICES ASSUME RecordingInv, [Next]_vars PROVE RecordingInv'
  OBVIOUS
<1>1. ASSUME UNCHANGED <<active, streams, ops>> PROVE RecordingInv'
  BY <1>1 DEF RecordingInv, ActiveOK, RecordingsWrite, OpOK
<1>2. CASE UNCHANGED vars
  BY <1>1, <1>2 DEF vars, serverVars
<1>3. CASE \E c \in Clients : \/ Connect(c) \/ Attach(c) \/ Greet(c) \/ Lose(c) \/ CleanUp(c)
                              \/ Refresh(c) \/ Take(c)
  BY <1>1, <1>3 DEF Connect, Attach, Greet, Lose, CleanUp, Refresh, Take, serverVars
<1>4. CASE \/ \E c \in Clients, channels \in SUBSET Channels : Grant(c, channels)
           \/ \E c \in Clients, ch \in Channels : Say(c, ch)
  BY <1>1, <1>4 DEF Grant, Say, serverVars
<1>5. CASE \/ \E scene \in Scenes : Cut(scene) \/ Preset(scene)
           \/ ObsConnects \/ ObsAnswers \/ ObsDrops
           \/ \E lamp \in Lamps, state \in {"program", "preview", "none"} : HandleTSLPacket(lamp, state)
  BY <1>1, <1>5 DEF Cut, Preset, ObsConnects, ObsAnswers, ObsDrops, HandleTSLPacket, TallyOnly
<1>6. CASE Restart
  BY <1>6, RestartRecording
<1>7. CASE \E ch \in Channels : StartRecording(ch) \/ StopRecording(ch)
  BY <1>7, StartRecordingKept, StopRecordingKept
<1>8. CASE \E op \in ops : OpenStream(op) \/ EndStream(op)
  BY <1>8, OpenStreamKept, EndStreamKept
<1>9. CASE \E n \in DOMAIN streams : StreamFails(n)
  BY <1>9, StreamFailsKept
<1> QED BY <1>2, <1>3, <1>4, <1>5, <1>6, <1>7, <1>8, <1>9 DEF Next

LEMMA RecordingInvariant == Spec => []RecordingInv
BY InitRecording, StepRecording, PTL DEF Spec

\* A channel is shown as recorded exactly while the newest of its streams is
\* open, also when starts raced, older streams fail, and stops wait.
THEOREM RecordingsAlwaysWrite == Spec => []RecordingsWrite
<1>1. RecordingInv => RecordingsWrite
  BY DEF RecordingInv
<1> QED BY <1>1, RecordingInvariant, PTL

-----------------------------------------------------------------------------
(* The last message of a kind *)

Tallies == UNION {[S -> {"program", "preview", "none"}] : S \in SUBSET (Scenes \cup Lamps)}

Messages ==
  [kind : {"chat:history"}, channel : Channels, log : Seq(Nat)]
    \cup [kind : {"chat:message"}, channel : Channels, id : Nat]
    \cup [kind : {"tally:update"}, tally : Tallies]
    \cup [kind : {"recording:state"}, active : SUBSET Channels]

LEMMA MessageKinds ==
  ASSUME NEW m \in Messages
  PROVE  /\ m.kind = "chat:history" => m.channel \in Channels /\ m.log \in Seq(Nat)
         /\ m.kind = "chat:message" => m.channel \in Channels /\ m.id \in Nat
         /\ m.kind = "tally:update" => m.tally \in Tallies
         /\ m.kind = "recording:state" => m.active \in SUBSET Channels
         /\ m.kind \in {"chat:history", "chat:message", "tally:update", "recording:state"}
BY DEF Messages

\* The last message of its kind on the wire w is m, or it was taken and is shown.
Latest(w, kind, m, shown) ==
  \/ \E i \in DOMAIN w : w[i] = m /\ \A j \in DOMAIN w : j > i => w[j].kind # kind
  \/ shown /\ \A j \in DOMAIN w : w[j].kind # kind

LEMMA AppendParts ==
  ASSUME NEW S, NEW w \in Seq(S), NEW x \in S, NEW v, v = Append(w, x)
  PROVE  /\ v \in Seq(S) /\ Len(w) \in Nat /\ Len(v) = Len(w) + 1
         /\ DOMAIN w = 1..Len(w) /\ DOMAIN v = 1..Len(w) + 1
         /\ v[Len(w) + 1] = x /\ \A i \in 1..Len(w) : v[i] = w[i]
OBVIOUS

LEMMA TailParts ==
  ASSUME NEW S, NEW w \in Seq(S), w # <<>>, NEW v, v = Tail(w)
  PROVE  /\ v \in Seq(S) /\ Len(w) \in Nat \ {0} /\ Len(v) = Len(w) - 1
         /\ DOMAIN w = 1..Len(w) /\ DOMAIN v = 1..Len(w) - 1 /\ Head(w) = w[1] /\ w[1] \in S
         /\ \A i \in 1..Len(w) - 1 : v[i] = w[i + 1]
OBVIOUS

LEMMA LatestOther ==
  ASSUME NEW w \in Seq(Messages), NEW x \in Messages, NEW kind, NEW m, NEW shown,
         Latest(w, kind, m, shown), x.kind # kind
  PROVE  Latest(Append(w, x), kind, m, shown)
<1> DEFINE v == Append(w, x)
<1>1. /\ Len(w) \in Nat /\ DOMAIN w = 1..Len(w) /\ DOMAIN v = 1..Len(w) + 1
      /\ v[Len(w) + 1] = x /\ \A i \in 1..Len(w) : v[i] = w[i]
  BY AppendParts
<1> HIDE DEF v
<1>2. Latest(v, kind, m, shown)
  BY <1>1 DEF Latest
<1> QED BY <1>2 DEF v

LEMMA LatestNow ==
  ASSUME NEW w \in Seq(Messages), NEW m \in Messages, NEW kind, NEW shown
  PROVE  Latest(Append(w, m), kind, m, shown)
<1> DEFINE v == Append(w, m)
<1>1. Len(w) \in Nat /\ DOMAIN v = 1..Len(w) + 1 /\ v[Len(w) + 1] = m
  BY AppendParts
<1> HIDE DEF v
<1>2. Latest(v, kind, m, shown)
  BY <1>1 DEF Latest
<1> QED BY <1>2 DEF v

LEMMA LatestTaken ==
  ASSUME NEW w \in Seq(Messages), w # <<>>, NEW kind, NEW m, NEW shown, NEW now,
         Latest(w, kind, m, shown), Head(w) = m => now, Head(w).kind # kind /\ shown => now
  PROVE  Latest(Tail(w), kind, m, now)
<1> DEFINE v == Tail(w)
<1>1. /\ Len(w) \in Nat \ {0} /\ DOMAIN w = 1..Len(w) /\ DOMAIN v = 1..Len(w) - 1
      /\ Head(w) = w[1] /\ \A i \in 1..Len(w) - 1 : v[i] = w[i + 1]
  BY TailParts
<1> HIDE DEF v
<1>2. CASE \E i \in DOMAIN w : w[i] = m /\ \A j \in DOMAIN w : j > i => w[j].kind # kind
  <2>1. PICK i \in DOMAIN w : w[i] = m /\ \A j \in DOMAIN w : j > i => w[j].kind # kind
    BY <1>2
  <2>2. CASE i = 1
    <3>1. \A j \in DOMAIN v : v[j].kind # kind
      BY <1>1, <2>1, <2>2
    <3> QED BY <1>1, <2>1, <2>2, <3>1 DEF Latest, v
  <2>3. CASE i # 1
    <3>1. i - 1 \in DOMAIN v /\ v[i - 1] = m
      BY <1>1, <2>1, <2>3
    <3>2. \A j \in DOMAIN v : j > i - 1 => v[j].kind # kind
      BY <1>1, <2>1
    <3> QED BY <3>1, <3>2 DEF Latest, v
  <2> QED BY <2>2, <2>3
<1>3. CASE shown /\ \A j \in DOMAIN w : w[j].kind # kind
  <2>1. now
    BY <1>1, <1>3
  <2>2. \A j \in DOMAIN v : v[j].kind # kind
    BY <1>1, <1>3
  <2> QED BY <2>1, <2>2 DEF Latest, v
<1> QED BY <1>2, <1>3 DEF Latest

LEMMA LatestJoined ==
  ASSUME NEW w \in Seq(Messages), NEW g \in Seq(Messages), NEW kind, NEW m, NEW shown,
         NEW i \in DOMAIN g, g[i] = m, \A j \in DOMAIN g : j > i => g[j].kind # kind
  PROVE  Latest(w \o g, kind, m, shown)
<1> DEFINE v == w \o g
           n == Len(w)
<1>1. n \in Nat /\ Len(g) \in Nat /\ DOMAIN g = 1..Len(g)
  OBVIOUS
<1>2. /\ Len(v) = n + Len(g) /\ DOMAIN v = 1..n + Len(g)
      /\ \A j \in 1..Len(g) : v[n + j] = g[j]
  OBVIOUS
<1> HIDE DEF v, n
<1>3. n + i \in DOMAIN v /\ v[n + i] = m
  BY <1>1, <1>2
<1>4. \A j \in DOMAIN v : j > n + i => v[j].kind # kind
  <2> SUFFICES ASSUME NEW j \in DOMAIN v, j > n + i PROVE v[j].kind # kind
    OBVIOUS
  <2>1. j - n \in 1..Len(g) /\ j - n > i
    BY <1>1, <1>2
  <2>2. v[n + (j - n)] = g[j - n] /\ n + (j - n) = j
    BY <1>1, <1>2, <2>1
  <2> QED BY <1>1, <2>1, <2>2
<1>5. Latest(v, kind, m, shown)
  BY <1>3, <1>4 DEF Latest
<1> QED BY <1>5 DEF v

-----------------------------------------------------------------------------
(* What a client gets when it attaches *)

LEMMA SetToSeqParts ==
  ASSUME NEW S, IsFiniteSet(S), NEW s, s = SetToSeq(S)
  PROVE  /\ s \in [1..Cardinality(S) -> S] /\ Cardinality(S) \in Nat
         /\ \A x \in S : \E i \in 1..Cardinality(S) : s[i] = x
         /\ \A i, j \in 1..Cardinality(S) : s[i] = s[j] => i = j
<1> DEFINE n == Cardinality(S)
<1>1. n \in Nat /\ ExistsBijection(1..n, S)
  BY FS_CardinalityType
<1>2. \E f \in [1..n -> S] : IsInjective(f)
  BY <1>1 DEF ExistsBijection, Bijection, Injection
<1>3. s \in [1..n -> S] /\ IsInjective(s)
  BY <1>2 DEF SetToSeq
<1>4. s \in Injection(1..n, S)
  BY <1>3 DEF Injection
<1>5. Cardinality(1..n) = n
  BY <1>1, FS_Interval
<1>6. s \in Surjection(1..n, S)
  BY <1>4, <1>5, FS_Injection
<1> HIDE DEF n
<1>7. \A i, j \in 1..n : s[i] = s[j] => i = j
  BY <1>3 DEF IsInjective
<1> QED BY <1>1, <1>3, <1>6, <1>7 DEF Surjection, n

\* The shapes of what is sent and shown
Scened == Scenes \cup {Outside}
Views == [log : [Channels -> Seq(Nat)], tally : Tallies, active : SUBSET Channels]

MirrorShapes ==
  /\ granted \in [Clients -> SUBSET Channels] /\ member \in [Clients -> (SUBSET Channels) \cup {Outside}]
  /\ log \in [Channels -> Seq(Nat)] /\ tally \in Tallies
  /\ obs \in [program : Scened, preview : Scened, at : {"off", "asking", "on"}, read : Scened]
  /\ link \in [Clients -> {"down", "open", "attaching", "up"}] /\ gap \in [Clients -> SUBSET Channels]
  /\ wire \in [Clients -> Seq(Messages)] /\ view \in [Clients -> Views] /\ events \in Nat

HistoryOf(ch) == [kind |-> "chat:history", channel |-> ch, log |-> log[ch]]
Kept(c) == {ch \in member[c] : log[ch] # <<>>}

LEMMA SentMessages ==
  ASSUME MirrorShapes
  PROVE  /\ \A ch \in Channels : HistoryOf(ch) \in Messages
         /\ \A sources \in Tallies : TallyUpdate(sources) \in Messages
         /\ \A channels \in SUBSET Channels : RecordingState(channels) \in Messages
BY DEF MirrorShapes, HistoryOf, TallyUpdate, RecordingState, Messages

LEMMA HistoryParts ==
  ASSUME MirrorShapes, NEW c \in Clients, member[c] \in SUBSET Channels,
         NEW s, s = SetToSeq(History(c))
  PROVE  /\ s \in Seq(Messages) /\ Len(s) \in Nat /\ DOMAIN s = 1..Len(s)
         /\ \A i \in 1..Len(s) : \E ch \in Kept(c) : s[i] = HistoryOf(ch)
         /\ \A ch \in Kept(c) : \E i \in 1..Len(s) : s[i] = HistoryOf(ch)
         /\ \A i, j \in 1..Len(s) : s[i] = s[j] => i = j
<1> DEFINE H == History(c)
           f == [ch \in Kept(c) |-> HistoryOf(ch)]
<1>1. H = {HistoryOf(ch) : ch \in Kept(c)}
  BY DEF History, HistoryOf, Kept
<1>2. IsFiniteSet(Kept(c)) /\ Kept(c) \subseteq Channels
  BY FS_Subset, MirrorsAssumption DEF Kept
<1>3. f \in Surjection(Kept(c), H)
  BY <1>1 DEF Surjection
<1>4. IsFiniteSet(H)
  BY <1>2, <1>3, FS_Surjection
<1>5. H \subseteq Messages
  BY <1>1, <1>2, SentMessages
<1>6. s = SetToSeq(H)
  OBVIOUS
<1> HIDE DEF H, f
<1>7. /\ s \in [1..Cardinality(H) -> H] /\ Cardinality(H) \in Nat
      /\ \A x \in H : \E i \in 1..Cardinality(H) : s[i] = x
      /\ \A i, j \in 1..Cardinality(H) : s[i] = s[j] => i = j
  BY <1>4, <1>6, SetToSeqParts
<1>8. s \in [1..Cardinality(H) -> Messages]
  BY <1>5, <1>7
<1>9. s \in Seq(Messages) /\ Len(s) = Cardinality(H) /\ DOMAIN s = 1..Len(s)
  <2>1. s \in Seq(Messages)
    BY <1>7, <1>8, SeqDef
  <2>2. DOMAIN s = 1..Cardinality(H)
    BY <1>7
  <2>3. Len(s) = Cardinality(H)
    BY <1>7, <2>1, <2>2, LenProperties
  <2> QED BY <2>1, <2>2, <2>3
<1>10. \A i \in 1..Len(s) : \E ch \in Kept(c) : s[i] = HistoryOf(ch)
  <2> SUFFICES ASSUME NEW i \in 1..Len(s) PROVE \E ch \in Kept(c) : s[i] = HistoryOf(ch)
    OBVIOUS
  <2>1. s[i] \in H
    BY <1>7, <1>9
  <2> QED BY <1>1, <2>1
<1>11. \A ch \in Kept(c) : \E i \in 1..Len(s) : s[i] = HistoryOf(ch)
  <2> SUFFICES ASSUME NEW ch \in Kept(c) PROVE \E i \in 1..Len(s) : s[i] = HistoryOf(ch)
    OBVIOUS
  <2>1. HistoryOf(ch) \in H
    BY <1>1
  <2> QED BY <1>7, <1>9, <2>1
<1>12. Len(s) \in Nat /\ \A i, j \in 1..Len(s) : s[i] = s[j] => i = j
  BY <1>7, <1>9
<1> QED BY <1>9, <1>10, <1>11, <1>12

\* What is sent to c when it attaches, by what it tells of
LEMMA GreetingParts ==
  ASSUME MirrorShapes, NEW c \in Clients, member[c] \in SUBSET Channels,
         NEW g, g = Greeting(c)
  PROVE  /\ g \in Seq(Messages)
         /\ \A i \in DOMAIN g : g[i].kind # "chat:message"
         /\ \A i \in DOMAIN g : g[i].kind = "chat:history" =>
              \E ch \in Kept(c) : g[i] = HistoryOf(ch)
         /\ \A ch \in Kept(c) : \E i \in DOMAIN g : g[i] = HistoryOf(ch)
         /\ tally # <<>> => \E i \in DOMAIN g :
              g[i] = TallyUpdate(tally) /\ \A j \in DOMAIN g : j > i => g[j].kind # "tally:update"
         /\ Recording # {} => \E i \in DOMAIN g :
              /\ g[i] = RecordingState(Recording)
              /\ \A j \in DOMAIN g : j > i => g[j].kind # "recording:state"
<1> DEFINE a == SetToSeq(History(c))
           b == IF tally = <<>> THEN <<>> ELSE <<TallyUpdate(tally)>>
           d == IF Recording = {} THEN <<>> ELSE <<RecordingState(Recording)>>
           n == Len(a)
           t == IF tally = <<>> THEN 0 ELSE 1
           r == IF Recording = {} THEN 0 ELSE 1
<1>1. /\ a \in Seq(Messages) /\ n \in Nat
      /\ \A i \in 1..n : \E ch \in Kept(c) : a[i] = HistoryOf(ch)
      /\ \A ch \in Kept(c) : \E i \in 1..n : a[i] = HistoryOf(ch)
  BY HistoryParts
<1>2. TallyUpdate(tally) \in Messages /\ RecordingState(Recording) \in Messages
  <2>1. tally \in Tallies /\ Recording \in SUBSET Channels
    BY DEF MirrorShapes, Recording
  <2> QED BY <2>1, SentMessages
<1>3. b \in Seq(Messages) /\ Len(b) = t /\ (t = 1 => b[1] = TallyUpdate(tally))
  BY <1>2
<1>4. d \in Seq(Messages) /\ Len(d) = r /\ (r = 1 => d[1] = RecordingState(Recording))
  BY <1>2
<1>5. g = (a \o b) \o d
  BY DEF Greeting
<1>6. t \in {0, 1} /\ r \in {0, 1} /\ (tally # <<>> => t = 1) /\ (Recording # {} => r = 1)
  OBVIOUS
<1> HIDE DEF a, b, d, n, t, r
<1>7. n = Len(a)
  BY DEF n
<1>8. /\ g \in Seq(Messages) /\ DOMAIN g = 1..n + t + r
      /\ \A i \in 1..n : g[i] = a[i]
      /\ \A i \in 1..t : g[n + i] = b[i]
      /\ \A i \in 1..r : g[n + t + i] = d[i]
  BY <1>1, <1>3, <1>4, <1>5, <1>6, <1>7
<1>9. \A i \in DOMAIN g : \/ i \in 1..n /\ g[i] = a[i]
                          \/ t = 1 /\ i = n + 1 /\ g[i] = TallyUpdate(tally)
                          \/ r = 1 /\ i = n + t + 1 /\ g[i] = RecordingState(Recording)
  BY <1>1, <1>3, <1>4, <1>6, <1>8
<1>10. /\ \A ch : HistoryOf(ch).kind = "chat:history"
       /\ TallyUpdate(tally).kind = "tally:update"
       /\ RecordingState(Recording).kind = "recording:state"
  BY DEF HistoryOf, TallyUpdate, RecordingState
<1>11. \A i \in DOMAIN g : g[i].kind # "chat:message"
  BY <1>1, <1>9, <1>10
<1>12. \A i \in DOMAIN g : g[i].kind = "chat:history" => \E ch \in Kept(c) : g[i] = HistoryOf(ch)
  BY <1>1, <1>9, <1>10
<1>13. \A ch \in Kept(c) : \E i \in DOMAIN g : g[i] = HistoryOf(ch)
  <2> SUFFICES ASSUME NEW ch \in Kept(c) PROVE \E i \in DOMAIN g : g[i] = HistoryOf(ch)
    OBVIOUS
  <2>1. PICK i \in 1..n : a[i] = HistoryOf(ch)
    BY <1>1
  <2>2. i \in DOMAIN g /\ g[i] = a[i]
    BY <1>1, <1>6, <1>8
  <2> QED BY <2>1, <2>2
<1>14. ASSUME tally # <<>>
       PROVE  \E i \in DOMAIN g :
                g[i] = TallyUpdate(tally) /\ \A j \in DOMAIN g : j > i => g[j].kind # "tally:update"
  <2>1. t = 1 /\ n + 1 \in DOMAIN g /\ g[n + 1] = TallyUpdate(tally)
    BY <1>1, <1>3, <1>6, <1>8, <1>14
  <2>2. \A j \in DOMAIN g : j > n + 1 => g[j].kind # "tally:update"
    BY <1>1, <1>9, <1>10
  <2> QED BY <2>1, <2>2
<1>15. ASSUME Recording # {}
       PROVE  \E i \in DOMAIN g :
                /\ g[i] = RecordingState(Recording)
                /\ \A j \in DOMAIN g : j > i => g[j].kind # "recording:state"
  <2>1. r = 1 /\ n + t + 1 \in DOMAIN g /\ g[n + t + 1] = RecordingState(Recording)
    BY <1>1, <1>4, <1>6, <1>8, <1>15
  <2>2. \A j \in DOMAIN g : ~(j > n + t + 1)
    BY <1>1, <1>6, <1>8
  <2> QED BY <2>1, <2>2
<1> QED BY <1>8, <1>11, <1>12, <1>13, <1>14, <1>15

-----------------------------------------------------------------------------
(* The shapes hold, only a socket the server knows has messages under way, and
   it is a participant's *)

Knowing == \A c \in Clients : IF Known(c) THEN member[c] # Outside ELSE wire[c] = <<>>

\* What a message makes of the messages of ch on a screen
After(s, m, ch) ==
  IF m.kind = "chat:history" /\ m.channel = ch THEN m.log
  ELSE IF m.kind = "chat:message" /\ m.channel = ch THEN Append(s, m.id)
  ELSE s

LEMMA NoTally == <<>> \in Tallies
<1>1. <<>> \in [{} -> {"program", "preview", "none"}]
  OBVIOUS
<1> QED BY <1>1 DEF Tallies

LEMMA TallyIn ==
  ASSUME NEW f, NEW S, S \subseteq Scenes \cup Lamps, f \in [S -> {"program", "preview", "none"}]
  PROVE  f \in Tallies
BY DEF Tallies

LEMMA TallyParts ==
  ASSUME tally \in Tallies
  PROVE  /\ DOMAIN tally \subseteq Scenes \cup Lamps
         /\ tally \in [DOMAIN tally -> {"program", "preview", "none"}]
<1>1. PICK S \in SUBSET (Scenes \cup Lamps) : tally \in [S -> {"program", "preview", "none"}]
  BY DEF Tallies
<1> QED BY <1>1

LEMMA FromScenesTyped ==
  ASSUME MirrorShapes, NEW program \in Scened, NEW preview \in Scened
  PROVE  FromScenes(program, preview) \in Tallies
<1> DEFINE S == DOMAIN tally \cup ({program, preview} \ {Outside})
<1>1. S \subseteq Scenes \cup Lamps
  BY TallyParts DEF MirrorShapes, Scened
<1>2. FromScenes(program, preview) \in [S -> {"program", "preview", "none"}]
  BY DEF FromScenes
<1> QED BY <1>1, <1>2, TallyIn

LEMMA BlankParts ==
  /\ Blank \in Views /\ \A ch \in Channels : Blank.log[ch] = <<>>
  /\ Blank.tally = <<>> /\ Blank.active = {}
<1>1. [ch \in Channels |-> <<>>] \in [Channels -> Seq(Nat)]
  <2>1. <<>> \in Seq(Nat)
    OBVIOUS
  <2> QED BY <2>1
<1> QED BY <1>1, NoTally DEF Blank, Views

LEMMA SentParts ==
  ASSUME wire \in [Clients -> Seq(Messages)], NEW m \in Messages, NEW to, wire' = Sent(wire, to, m)
  PROVE  /\ wire' \in [Clients -> Seq(Messages)]
         /\ \A c \in Clients : wire'[c] = IF c \in to THEN Append(wire[c], m) ELSE wire[c]
<1>1. \A c \in Clients : wire'[c] = IF c \in to THEN Append(wire[c], m) ELSE wire[c]
  BY DEF Sent
<1>2. \A c \in Clients : wire'[c] \in Seq(Messages)
  <2> SUFFICES ASSUME NEW c \in Clients PROVE wire'[c] \in Seq(Messages)
    OBVIOUS
  <2>1. wire[c] \in Seq(Messages) /\ Append(wire[c], m) \in Seq(Messages)
    OBVIOUS
  <2> QED BY <1>1, <2>1
<1>3. wire' = [c \in Clients |-> wire'[c]]
  BY DEF Sent
<1> QED BY <1>1, <1>2, <1>3

LEMMA BroadcastParts ==
  ASSUME wire \in [Clients -> Seq(Messages)], NEW m \in Messages, Broadcast(m)
  PROVE  /\ wire' \in [Clients -> Seq(Messages)]
         /\ \A c \in Clients : wire'[c] = IF Known(c) THEN Append(wire[c], m) ELSE wire[c]
<1>1. wire' = Sent(wire, {c \in Clients : Known(c)}, m)
  BY DEF Broadcast
<1> QED BY <1>1, SentParts

\* What taking a message does to a screen
LEMMA TakeParts ==
  ASSUME MirrorShapes, NEW c \in Clients, Take(c), NEW m, m = Head(wire[c])
  PROVE  /\ wire[c] # <<>> /\ m \in Messages
         /\ view' = [view EXCEPT ![c] = view'[c]] /\ view'[c] \in Views
         /\ \A ch \in Channels : view'[c].log[ch] = After(view[c].log[ch], m, ch)
         /\ m.kind = "tally:update" => view'[c].tally = m.tally
         /\ m.kind # "tally:update" => view'[c].tally = view[c].tally
         /\ m.kind = "recording:state" => view'[c].active = m.active
         /\ m.kind # "recording:state" => view'[c].active = view[c].active
<1> DEFINE v == view[c]
<1>1. wire[c] # <<>> /\ wire[c] \in Seq(Messages) /\ v \in Views
  BY DEF Take, MirrorShapes
<1>2. m \in Messages
  BY <1>1
<1>3. /\ v.log \in [Channels -> Seq(Nat)] /\ v.tally \in Tallies /\ v.active \in SUBSET Channels
      /\ v = [log |-> v.log, tally |-> v.tally, active |-> v.active]
  BY <1>1 DEF Views
<1> DEFINE w == CASE m.kind = "chat:history"    -> Shown(v, m)
                  [] m.kind = "chat:message"    -> [v EXCEPT !.log[m.channel] = Append(@, m.id)]
                  [] m.kind = "tally:update"    -> [v EXCEPT !.tally = m.tally]
                  [] m.kind = "recording:state" -> [v EXCEPT !.active = m.active]
<1>4. view' = [view EXCEPT ![c] = w]
  BY DEF Take
<1>5. view'[c] = w /\ view' = [view EXCEPT ![c] = view'[c]]
  <2> HIDE DEF w, v
  <2> QED BY <1>4 DEF MirrorShapes
<1> HIDE DEF v
<1>6. CASE m.kind = "chat:history"
  <2>1. m.channel \in Channels /\ m.log \in Seq(Nat)
    BY <1>2, <1>6, MessageKinds
  <2>2. w = [v EXCEPT !.log[m.channel] = m.log]
    BY <1>6 DEF Shown
  <2>3. w = [log |-> [v.log EXCEPT ![m.channel] = m.log], tally |-> v.tally, active |-> v.active]
    BY <1>3, <2>2
  <2> HIDE DEF w
  <2>4. w.log = [v.log EXCEPT ![m.channel] = m.log] /\ w.tally = v.tally /\ w.active = v.active
    BY <2>3
  <2>5. w.log \in [Channels -> Seq(Nat)]
    BY <1>3, <2>1, <2>4
  <2>6. w \in Views
    BY <1>3, <2>3, <2>4, <2>5 DEF Views
  <2>7. \A ch \in Channels : w.log[ch] = After(v.log[ch], m, ch)
    BY <1>3, <1>6, <2>1, <2>4 DEF After
  <2> QED BY <1>1, <1>2, <1>5, <1>6, <2>4, <2>6, <2>7 DEF v
<1>7. CASE m.kind = "chat:message"
  <2>1. m.channel \in Channels /\ m.id \in Nat
    BY <1>2, <1>7, MessageKinds
  <2>2. w = [v EXCEPT !.log[m.channel] = Append(v.log[m.channel], m.id)]
    BY <1>7
  <2>3. w = [log |-> [v.log EXCEPT ![m.channel] = Append(v.log[m.channel], m.id)],
             tally |-> v.tally, active |-> v.active]
    BY <1>3, <2>2
  <2> HIDE DEF w
  <2>4. w.log = [v.log EXCEPT ![m.channel] = Append(v.log[m.channel], m.id)]
        /\ w.tally = v.tally /\ w.active = v.active
    BY <2>3
  <2>5. Append(v.log[m.channel], m.id) \in Seq(Nat)
    BY <1>3, <2>1
  <2>6. w.log \in [Channels -> Seq(Nat)]
    BY <1>3, <2>1, <2>4, <2>5
  <2>7. w \in Views
    BY <1>3, <2>3, <2>4, <2>6 DEF Views
  <2>8. \A ch \in Channels : w.log[ch] = After(v.log[ch], m, ch)
    BY <1>3, <1>7, <2>1, <2>4 DEF After
  <2> QED BY <1>1, <1>2, <1>5, <1>7, <2>4, <2>7, <2>8 DEF v
<1>8. CASE m.kind = "tally:update"
  <2>1. m.tally \in Tallies
    BY <1>2, <1>8, MessageKinds
  <2>2. w = [log |-> v.log, tally |-> m.tally, active |-> v.active]
    BY <1>3, <1>8
  <2> HIDE DEF w
  <2>3. w.log = v.log /\ w.tally = m.tally /\ w.active = v.active
    BY <2>2
  <2>4. w \in Views
    BY <1>3, <2>1, <2>2 DEF Views
  <2> QED BY <1>1, <1>2, <1>5, <1>8, <2>3, <2>4 DEF v, After
<1>9. CASE m.kind = "recording:state"
  <2>1. m.active \in SUBSET Channels
    BY <1>2, <1>9, MessageKinds
  <2>2. w = [log |-> v.log, tally |-> v.tally, active |-> m.active]
    BY <1>3, <1>9
  <2> HIDE DEF w
  <2>3. w.log = v.log /\ w.tally = v.tally /\ w.active = m.active
    BY <2>2
  <2>4. w \in Views
    BY <1>3, <2>1, <2>2 DEF Views
  <2> QED BY <1>1, <1>2, <1>5, <1>9, <2>3, <2>4 DEF v, After
<1> QED BY <1>2, <1>6, <1>7, <1>8, <1>9, MessageKinds

LEMMA InitShapes == Init => MirrorShapes /\ Knowing
<1> SUFFICES ASSUME Init PROVE MirrorShapes /\ Knowing
  OBVIOUS
<1>1. log \in [Channels -> Seq(Nat)] /\ wire \in [Clients -> Seq(Messages)]
  <2>1. <<>> \in Seq(Nat) /\ <<>> \in Seq(Messages)
    OBVIOUS
  <2> QED BY <2>1 DEF Init
<1>2. tally \in Tallies
  BY NoTally DEF Init
<1>3. view \in [Clients -> Views]
  BY BlankParts DEF Init
<1>4. obs \in [program : Scened, preview : Scened, at : {"off", "asking", "on"}, read : Scened]
  BY DEF Init, Off, Scened
<1>5. \A c \in Clients : ~Known(c) /\ wire[c] = <<>>
  BY DEF Init, Known
<1> QED BY <1>1, <1>2, <1>3, <1>4, <1>5 DEF Init, MirrorShapes, Knowing


LEMMA GrantedParts ==
  ASSUME MirrorShapes, NEW c \in Clients
  PROVE  granted[c] \in SUBSET Channels /\ granted[c] # Outside
<1>1. granted[c] \in SUBSET Channels
  BY DEF MirrorShapes
<1> QED BY <1>1, MirrorsAssumption

LEMMA ConnectShapes ==
  ASSUME MirrorShapes, Knowing, NEW c \in Clients, Connect(c) PROVE MirrorShapes' /\ Knowing'
<1>1. view' \in [Clients -> Views]
  BY BlankParts DEF Connect, MirrorShapes
<1>2. \A d \in Clients : Known(d)' = Known(d)
  BY DEF Connect, MirrorShapes, Known
<1>3. Knowing'
  BY <1>2 DEF Connect, Knowing, serverVars
<1>4. link' \in [Clients -> {"down", "open", "attaching", "up"}]
  BY DEF Connect, MirrorShapes
<1> QED BY <1>1, <1>3, <1>4 DEF Connect, MirrorShapes, serverVars, Event

LEMMA AttachShapes ==
  ASSUME MirrorShapes, Knowing, NEW c \in Clients, Attach(c) PROVE MirrorShapes' /\ Knowing'
<1>1. granted[c] \in SUBSET Channels /\ granted[c] # Outside
  BY GrantedParts
<1>2. /\ Known(c)' /\ member'[c] # Outside
      /\ \A d \in Clients \ {c} : Known(d)' = Known(d) /\ member'[d] = member[d]
  BY <1>1 DEF Attach, MirrorShapes, Known
<1>3. Knowing'
  BY <1>2 DEF Attach, Knowing
<1> QED BY <1>1, <1>3 DEF Attach, MirrorShapes, Quietly

LEMMA GreetShapes ==
  ASSUME MirrorShapes, Knowing, NEW c \in Clients, Greet(c) PROVE MirrorShapes' /\ Knowing'
<1>1. link[c] = "attaching" /\ member[c] \in SUBSET Channels
  BY DEF Greet, Knowing, Known, MirrorShapes
<1>2. Greeting(c) \in Seq(Messages)
  BY <1>1, GreetingParts
<1>3. wire[c] \o Greeting(c) \in Seq(Messages)
  BY <1>2 DEF MirrorShapes
<1>4. wire' = [wire EXCEPT ![c] = wire[c] \o Greeting(c)]
  BY DEF Greet
<1>5. wire' \in [Clients -> Seq(Messages)] /\ \A d \in Clients \ {c} : wire'[d] = wire[d]
  BY <1>3, <1>4 DEF MirrorShapes
<1>6. \A d \in Clients : Known(d)' = Known(d)
  BY <1>1 DEF Greet, MirrorShapes, Known
<1>7. Knowing'
  BY <1>1, <1>5, <1>6 DEF Greet, Knowing, serverVars, Known
<1> QED BY <1>5, <1>7 DEF Greet, MirrorShapes, serverVars, Quietly

LEMMA LoseShapes ==
  ASSUME MirrorShapes, Knowing, NEW c \in Clients, Lose(c) PROVE MirrorShapes' /\ Knowing'
<1>1. wire' \in [Clients -> Seq(Messages)]
  <2>1. <<>> \in Seq(Messages)
    OBVIOUS
  <2> QED BY <2>1 DEF Lose, MirrorShapes
<1>2. /\ ~Known(c)' /\ wire'[c] = <<>>
      /\ \A d \in Clients \ {c} : Known(d)' = Known(d) /\ wire'[d] = wire[d]
  BY DEF Lose, MirrorShapes, Known
<1>3. Knowing'
  BY <1>2 DEF Lose, Knowing, serverVars
<1> QED BY <1>1, <1>3 DEF Lose, MirrorShapes, serverVars, Event

LEMMA CleanUpShapes ==
  ASSUME MirrorShapes, Knowing, NEW c \in Clients, CleanUp(c) PROVE MirrorShapes' /\ Knowing'
<1>1. \A d \in Clients : Known(d)' = Known(d) /\ (Known(d) => member'[d] = member[d])
  BY DEF CleanUp, MirrorShapes, Known
<1>2. member' \in [Clients -> (SUBSET Channels) \cup {Outside}]
  BY DEF CleanUp, MirrorShapes
<1> QED BY <1>1, <1>2 DEF CleanUp, MirrorShapes, Knowing, Quietly

LEMMA RefreshShapes ==
  ASSUME MirrorShapes, Knowing, NEW c \in Clients, Refresh(c) PROVE MirrorShapes' /\ Knowing'
<1>1. granted[c] \in SUBSET Channels /\ granted[c] # Outside
  BY GrantedParts
<1>2. /\ member' \in [Clients -> (SUBSET Channels) \cup {Outside}] /\ member'[c] # Outside
      /\ \A d \in Clients \ {c} : member'[d] = member[d]
  BY <1>1 DEF Refresh, MirrorShapes
<1>3. gap' \in [Clients -> SUBSET Channels]
  BY <1>1 DEF Refresh, MirrorShapes
<1>4. \A d \in Clients : Known(d)' = Known(d)
  BY DEF Refresh, Known
<1> QED BY <1>2, <1>3, <1>4 DEF Refresh, MirrorShapes, Knowing, Quietly

LEMMA TakeShapes ==
  ASSUME MirrorShapes, Knowing, NEW c \in Clients, Take(c) PROVE MirrorShapes' /\ Knowing'
<1>1. view' \in [Clients -> Views] /\ wire[c] # <<>>
  <2>1. view' = [view EXCEPT ![c] = view'[c]] /\ view'[c] \in Views /\ wire[c] # <<>>
    BY TakeParts
  <2> QED BY <2>1 DEF MirrorShapes
<1>2. wire' = [wire EXCEPT ![c] = Tail(wire[c])]
  BY DEF Take
<1>3. Tail(wire[c]) \in Seq(Messages)
  BY <1>1 DEF MirrorShapes
<1>4. wire' \in [Clients -> Seq(Messages)] /\ \A d \in Clients \ {c} : wire'[d] = wire[d]
  BY <1>2, <1>3 DEF MirrorShapes
<1>5. Known(c) /\ \A d \in Clients : Known(d)' = Known(d)
  BY <1>1 DEF Take, Knowing, Known, linkVars
<1>6. Knowing'
  BY <1>1, <1>4, <1>5 DEF Take, Knowing, serverVars
<1> QED BY <1>1, <1>4, <1>6 DEF Take, MirrorShapes, serverVars, linkVars, Quietly

LEMMA SayShapes ==
  ASSUME MirrorShapes, Knowing, NEW c \in Clients, NEW ch \in Channels, Say(c, ch)
  PROVE  MirrorShapes' /\ Knowing'
<1> DEFINE id == events + 1
           kept == Append(log[ch], id)
           to == {d \in Clients : Known(d) /\ member[d] # Outside /\ ch \in member[d]}
           m == [kind |-> "chat:message", channel |-> ch, id |-> id]
<1>1. id \in Nat /\ log[ch] \in Seq(Nat) /\ kept \in Seq(Nat) /\ kept # <<>>
  <2>1. id \in Nat /\ log[ch] \in Seq(Nat)
    BY DEF MirrorShapes
  <2>2. kept \in Seq(Nat) /\ Len(kept) = Len(log[ch]) + 1 /\ Len(log[ch]) \in Nat
    BY <2>1
  <2>3. kept # <<>>
    BY <2>2
  <2> QED BY <2>1, <2>2, <2>3
<1>2. Tail(kept) \in Seq(Nat)
  BY <1>1
<1>3. log' \in [Channels -> Seq(Nat)]
  BY <1>1, <1>2 DEF Say, MirrorShapes
<1>4. m \in Messages
  BY <1>1 DEF Messages
<1>5. wire' = Sent(wire, to, m) /\ wire \in [Clients -> Seq(Messages)]
  BY DEF Say, MirrorShapes
<1> HIDE DEF m
<1>6. /\ wire' \in [Clients -> Seq(Messages)]
      /\ \A d \in Clients : wire'[d] = IF d \in to THEN Append(wire[d], m) ELSE wire[d]
  BY <1>4, <1>5, SentParts
<1>7. Knowing'
  BY <1>6 DEF Say, Knowing, Known, linkVars
<1> QED BY <1>1, <1>3, <1>6, <1>7 DEF Say, MirrorShapes, linkVars, Event

\* A broadcast, and nothing else that the shapes are about
LEMMA BroadcastShapes ==
  ASSUME MirrorShapes, Knowing, NEW m \in Messages, Broadcast(m) \/ UNCHANGED wire,
         UNCHANGED <<granted, member, log, linkVars, view>>, events' \in {events, events + 1},
         tally' \in Tallies,
         obs' \in [program : Scened, preview : Scened, at : {"off", "asking", "on"}, read : Scened]
  PROVE  MirrorShapes' /\ Knowing'
<1>1. /\ wire' \in [Clients -> Seq(Messages)]
      /\ \A c \in Clients : ~Known(c) => wire'[c] = wire[c]
  BY BroadcastParts DEF MirrorShapes
<1>2. Knowing'
  BY <1>1 DEF Knowing, Known, linkVars
<1> QED BY <1>1, <1>2 DEF MirrorShapes, linkVars

LEMMA TallyShapes ==
  ASSUME MirrorShapes, Knowing,
         \/ \E scene \in Scenes : Cut(scene) \/ Preset(scene)
         \/ ObsConnects \/ ObsAnswers \/ ObsDrops
         \/ \E lamp \in Lamps, state \in {"program", "preview", "none"} : HandleTSLPacket(lamp, state)
  PROVE  /\ MirrorShapes' /\ Knowing'
         /\ \/ UNCHANGED <<tally, wire>>
            \/ TallyUpdate(tally') \in Messages /\ Broadcast(TallyUpdate(tally'))
         /\ UNCHANGED <<granted, member, log, active, streams, ops, linkVars, view>>
         /\ events' \in {events, events + 1}
<1> DEFINE Obs == [program : Scened, preview : Scened, at : {"off", "asking", "on"}, read : Scened]
<1>1. obs \in Obs /\ tally \in Tallies /\ TallyUpdate(tally) \in Messages
  BY SentMessages DEF MirrorShapes
<1>2. UNCHANGED <<granted, member, log, active, streams, ops, linkVars, view>> /\ events' \in {events, events + 1}
  BY DEF Cut, Preset, ObsConnects, ObsAnswers, ObsDrops, HandleTSLPacket, TallyOnly, Event, Quietly
<1>3. obs' \in Obs /\ (tally' # tally => tally' \in Tallies)
      /\ (UNCHANGED <<tally, wire>> \/ (tally' \in Tallies /\ Broadcast(TallyUpdate(tally'))))
  <2>1. ASSUME NEW scene \in Scenes, Cut(scene) \/ Preset(scene) PROVE <1>3
    <3>1. scene \in Scened /\ Outside \in Scened
      BY DEF Scened
    <3>2. FromScenes(scene, Outside) \in Tallies /\ FromScenes(Outside, scene) \in Tallies
      BY <3>1, FromScenesTyped
    <3>3. obs' \in Obs
      BY <1>1, <2>1, <3>1 DEF Cut, Preset
    <3> HIDE DEF Obs
    <3>4. CASE obs.at = "off"
      <4>1. UNCHANGED <<tally, wire>>
        BY <2>1, <3>4 DEF Cut, Preset
      <4> QED BY <3>3, <4>1
    <3>5. CASE obs.at # "off"
      <4>1. \E sources \in Tallies : tally' = sources /\ Broadcast(TallyUpdate(sources))
        BY <2>1, <3>2, <3>5 DEF Cut, Preset, Tallied
      <4> QED BY <3>3, <4>1
    <3> QED BY <3>4, <3>5
  <2>2. CASE ObsConnects \/ ObsDrops
    <3>1. UNCHANGED <<tally, wire>>
      BY <2>2 DEF ObsConnects, ObsDrops
    <3>2. \/ obs' = [obs EXCEPT !.at = "asking", !.read = obs.program]
          \/ obs' = [obs EXCEPT !.at = "off"]
      BY <2>2 DEF ObsConnects, ObsDrops
    <3>3. obs' \in Obs
      BY <1>1, <3>2
    <3> HIDE DEF Obs
    <3> QED BY <3>1, <3>3
  <2>3. CASE ObsAnswers
    <3>1. FromScenes(obs.read, obs.preview) \in Tallies
      BY <1>1, FromScenesTyped
    <3>2. obs' \in Obs
      BY <1>1, <2>3 DEF ObsAnswers
    <3> HIDE DEF Obs
    <3> QED BY <2>3, <3>1, <3>2 DEF ObsAnswers, Tallied
  <2>4. ASSUME NEW lamp \in Lamps, NEW state \in {"program", "preview", "none"},
               HandleTSLPacket(lamp, state)
        PROVE  <1>3
    <3> DEFINE sources == [s \in DOMAIN tally \cup {lamp} |-> IF s = lamp THEN state ELSE tally[s]]
    <3>1. /\ DOMAIN tally \cup {lamp} \subseteq Scenes \cup Lamps
          /\ sources \in [DOMAIN tally \cup {lamp} -> {"program", "preview", "none"}]
      BY <1>1, TallyParts
    <3>2. sources \in Tallies
      BY <3>1, TallyIn
    <3>3. tally' = sources /\ Broadcast(TallyUpdate(sources)) /\ obs' = obs
      BY <2>4 DEF HandleTSLPacket, Tallied
    <3> HIDE DEF sources, Obs
    <3> QED BY <1>1, <3>2, <3>3
  <2> QED BY <2>1, <2>2, <2>3, <2>4
<1>4. tally' \in Tallies /\ TallyUpdate(tally') \in Messages
  BY <1>1, <1>3, SentMessages
<1>5. MirrorShapes' /\ Knowing'
  BY <1>1, <1>2, <1>3, <1>4, BroadcastShapes
<1> QED BY <1>2, <1>3, <1>4, <1>5

\* A step of the recordings tells every client what is recorded, or changes
\* nothing of it but that a stop begins.
LEMMA RecordingSteps ==
  ASSUME MirrorShapes, Knowing, RecordingInv,
         \/ \E ch \in Channels : StartRecording(ch) \/ StopRecording(ch)
         \/ \E op \in ops : OpenStream(op) \/ EndStream(op)
         \/ \E n \in DOMAIN streams : StreamFails(n)
  PROVE  /\ MirrorShapes' /\ Knowing'
         /\ \/ RecordingState(Recording') \in Messages /\ Broadcast(RecordingState(Recording'))
            \/ UNCHANGED <<wire, active>> /\ ops \subseteq ops'
            \/ UNCHANGED wire /\ \E op \in ops' : op.kind = "stop"
         /\ UNCHANGED <<granted, member, log, tally, linkVars, view>>
         /\ events' \in {events, events + 1}
<1>1. UNCHANGED <<granted, member, log, obs, tally, linkVars, view>> /\ events' \in {events, events + 1}
  BY DEF StartRecording, StopRecording, OpenStream, EndStream, StreamFails, RecordingOnly, Event, Quietly
<1>2. Recording' \in SUBSET Channels /\ RecordingState(Recording') \in Messages
  BY SentMessages DEF Recording
<1>3. \/ Broadcast(RecordingState(Recording'))
      \/ UNCHANGED <<wire, active>> /\ ops \subseteq ops'
      \/ UNCHANGED wire /\ \E op \in ops' : op.kind = "stop"
  <2>1. active' = active => Recording' = Recording
    BY DEF Recording
  <2>2. ASSUME NEW ch \in Channels, StartRecording(ch) PROVE <1>3
    BY <2>1, <2>2 DEF StartRecording
  <2>3. ASSUME NEW ch \in Channels, StopRecording(ch) PROVE <1>3
    <3>1. CASE ch \in Recording
      <4> DEFINE op == [kind |-> "stop", channel |-> ch, number |-> active[ch]]
      <4>1. op.kind = "stop" /\ op \in ops' /\ UNCHANGED wire
        BY <2>3, <3>1 DEF StopRecording
      <4> HIDE DEF op
      <4> QED BY <4>1
    <3>2. CASE ch \notin Recording
      <4>1. Broadcast(RecordingState(Recording)) /\ active' = active
        BY <2>3, <3>2 DEF StopRecording
      <4> QED BY <2>1, <4>1
    <3> QED BY <3>1, <3>2
  <2>4. ASSUME NEW op \in ops, OpenStream(op) PROVE <1>3
    <3>1. op.channel \in Channels
      BY DEF RecordingInv, OpOK
    <3>2. Len(streams') # Outside
      <4>1. streams' = Append(streams, [channel |-> op.channel, state |-> "open"])
        BY <2>4 DEF OpenStream
      <4>2. Len(streams') = Len(streams) + 1 /\ Len(streams) \in Nat
        BY <4>1, StreamsParts DEF RecordingInv
      <4> QED BY <4>2, MirrorsAssumption
    <3>3. \A ch \in Channels : active'[ch] = IF ch = op.channel THEN Len(streams') ELSE active[ch]
      BY <2>4 DEF OpenStream, RecordingInv
    <3>4. Recording' = Recording \cup {op.channel}
      BY <3>1, <3>2, <3>3 DEF Recording
    <3> QED BY <2>4, <3>4 DEF OpenStream
  <2>5. ASSUME NEW op \in ops, EndStream(op) PROVE <1>3
    BY <2>1, <2>5 DEF EndStream
  <2>6. ASSUME NEW n \in DOMAIN streams, StreamFails(n) PROVE <1>3
    BY <2>6 DEF StreamFails, Recording
  <2> QED BY <2>2, <2>3, <2>4, <2>5, <2>6
<1>4. MirrorShapes' /\ Knowing'
  <2>1. obs' \in [program : Scened, preview : Scened, at : {"off", "asking", "on"}, read : Scened]
        /\ tally' \in Tallies
    BY <1>1 DEF MirrorShapes
  <2> QED BY <1>1, <1>2, <1>3, <2>1, BroadcastShapes
<1> QED BY <1>1, <1>2, <1>3, <1>4

LEMMA RestartShapes == ASSUME MirrorShapes, Knowing, Restart PROVE MirrorShapes' /\ Knowing'
<1>1. wire' \in [Clients -> Seq(Messages)] /\ log' \in [Channels -> Seq(Nat)]
  <2>1. <<>> \in Seq(Messages) /\ <<>> \in Seq(Nat)
    OBVIOUS
  <2> QED BY <2>1 DEF Restart
<1>2. tally' \in Tallies
  BY NoTally DEF Restart
<1>3. obs' \in [program : Scened, preview : Scened, at : {"off", "asking", "on"}, read : Scened]
  BY DEF Restart, MirrorShapes
<1>4. Knowing'
  BY DEF Restart, Knowing, Known
<1> QED BY <1>1, <1>2, <1>3, <1>4 DEF Restart, MirrorShapes

-----------------------------------------------------------------------------
(* The tally and the recordings *)

TallyFollows ==
  \A c \in Clients : link[c] = "up" /\ tally # <<>> =>
    Latest(wire[c], "tally:update", TallyUpdate(tally), view[c].tally = tally)

RecordingFollows ==
  \A c \in Clients : link[c] = "up" /\ (\A op \in ops : op.kind # "stop") /\ Recording # {} =>
    Latest(wire[c], "recording:state", RecordingState(Recording), view[c].active = Recording)

\* A broadcast of another kind leaves the last of a kind the last, and one of
\* the kind is the last.
LEMMA LatestSent ==
  ASSUME wire \in [Clients -> Seq(Messages)], NEW x \in Messages, Broadcast(x), NEW c \in Clients,
         Known(c), NEW kind, NEW m, NEW shown,
         x.kind # kind => Latest(wire[c], kind, m, shown), x.kind = kind => x = m
  PROVE  Latest(wire'[c], kind, m, shown)
<1>1. wire[c] \in Seq(Messages) /\ wire'[c] = Append(wire[c], x)
  BY BroadcastParts
<1>2. CASE x.kind = kind
  <2>1. x = m /\ m \in Messages
    BY <1>2
  <2>2. Latest(Append(wire[c], m), kind, m, shown)
    BY <1>1, <2>1, LatestNow
  <2> QED BY <1>1, <2>1, <2>2
<1>3. CASE x.kind # kind
  <2>1. Latest(Append(wire[c], x), kind, m, shown)
    BY <1>1, <1>3, LatestOther
  <2> QED BY <1>1, <2>1
<1> QED BY <1>2, <1>3

\* What a client that attaches is told is the last of its kind.
LEMMA LatestGreeted ==
  ASSUME MirrorShapes, Knowing, NEW c \in Clients, Greet(c)
  PROVE  /\ tally # <<>> => Latest(wire'[c], "tally:update", TallyUpdate(tally), view[c].tally = tally)
         /\ Recording # {} =>
              Latest(wire'[c], "recording:state", RecordingState(Recording), view[c].active = Recording)
<1> DEFINE g == Greeting(c)
<1>1. member[c] \in SUBSET Channels /\ wire[c] \in Seq(Messages) /\ wire'[c] = wire[c] \o g
  BY DEF Greet, Knowing, Known, MirrorShapes
<1>2. g = Greeting(c)
  OBVIOUS
<1> HIDE DEF g
<1>3. /\ g \in Seq(Messages)
      /\ tally # <<>> => \E i \in DOMAIN g :
           g[i] = TallyUpdate(tally) /\ \A j \in DOMAIN g : j > i => g[j].kind # "tally:update"
      /\ Recording # {} => \E i \in DOMAIN g :
           g[i] = RecordingState(Recording) /\ \A j \in DOMAIN g : j > i => g[j].kind # "recording:state"
  BY <1>1, <1>2, GreetingParts
<1>4. ASSUME tally # <<>>
      PROVE  Latest(wire[c] \o g, "tally:update", TallyUpdate(tally), view[c].tally = tally)
  <2>1. PICK i \in DOMAIN g :
          g[i] = TallyUpdate(tally) /\ \A j \in DOMAIN g : j > i => g[j].kind # "tally:update"
    BY <1>3, <1>4
  <2> QED BY <1>1, <1>3, <2>1, LatestJoined
<1>5. ASSUME Recording # {}
      PROVE  Latest(wire[c] \o g, "recording:state", RecordingState(Recording), view[c].active = Recording)
  <2>1. PICK i \in DOMAIN g :
          g[i] = RecordingState(Recording) /\ \A j \in DOMAIN g : j > i => g[j].kind # "recording:state"
    BY <1>3, <1>5
  <2> QED BY <1>1, <1>3, <2>1, LatestJoined
<1> QED BY <1>1, <1>4, <1>5

LEMMA FollowsQuiet ==
  ASSUME MirrorShapes, TallyFollows, RecordingFollows, UNCHANGED <<tally, active, ops>>,
         \A c \in Clients : link'[c] = "up" =>
           link[c] = "up" /\ wire'[c] = wire[c] /\ view'[c] = view[c]
  PROVE  TallyFollows' /\ RecordingFollows'
<1>1. Recording' = Recording
  BY DEF Recording
<1> QED BY <1>1 DEF TallyFollows, RecordingFollows, TallyUpdate, RecordingState

LEMMA FollowsGreet ==
  ASSUME MirrorShapes, Knowing, TallyFollows, RecordingFollows, NEW c \in Clients, Greet(c)
  PROVE  TallyFollows' /\ RecordingFollows'
<1>1. UNCHANGED <<tally, active, ops, view>> /\ Recording' = Recording
  BY DEF Greet, serverVars, Recording
<1>2. \A d \in Clients \ {c} : link'[d] = link[d] /\ wire'[d] = wire[d]
  BY DEF Greet, MirrorShapes
<1>3. TallyFollows'
  <2> SUFFICES ASSUME NEW d \in Clients, link'[d] = "up", tally # <<>>
               PROVE  Latest(wire'[d], "tally:update", TallyUpdate(tally), view[d].tally = tally)
    BY <1>1 DEF TallyFollows, TallyUpdate
  <2>1. CASE d = c
    BY <2>1, LatestGreeted
  <2>2. CASE d # c
    BY <1>2, <2>2 DEF TallyFollows
  <2> QED BY <2>1, <2>2
<1>4. RecordingFollows'
  <2> SUFFICES ASSUME NEW d \in Clients, link'[d] = "up", \A op \in ops : op.kind # "stop",
                      Recording # {}
               PROVE  Latest(wire'[d], "recording:state", RecordingState(Recording),
                             view[d].active = Recording)
    BY <1>1 DEF RecordingFollows, RecordingState
  <2>1. CASE d = c
    BY <2>1, LatestGreeted
  <2>2. CASE d # c
    BY <1>2, <2>2 DEF RecordingFollows
  <2> QED BY <2>1, <2>2
<1> QED BY <1>3, <1>4

LEMMA FollowsTake ==
  ASSUME MirrorShapes, TallyFollows, RecordingFollows, NEW c \in Clients, Take(c)
  PROVE  TallyFollows' /\ RecordingFollows'
<1> DEFINE m == Head(wire[c])
<1>1. UNCHANGED <<tally, active, ops, link>> /\ Recording' = Recording
  BY DEF Take, serverVars, linkVars, Recording
<1>2. wire[c] \in Seq(Messages) /\ wire[c] # <<>> /\ wire'[c] = Tail(wire[c])
  BY DEF Take, MirrorShapes
<1>3. /\ view' = [view EXCEPT ![c] = view'[c]]
      /\ m.kind = "tally:update" => view'[c].tally = m.tally
      /\ m.kind # "tally:update" => view'[c].tally = view[c].tally
      /\ m.kind = "recording:state" => view'[c].active = m.active
      /\ m.kind # "recording:state" => view'[c].active = view[c].active
  BY TakeParts
<1>4. \A d \in Clients \ {c} : view'[d] = view[d] /\ wire'[d] = wire[d]
  <2>1. wire' = [wire EXCEPT ![c] = Tail(wire[c])]
    BY DEF Take
  <2> QED BY <1>3, <2>1 DEF MirrorShapes
<1> HIDE DEF m
<1>5. m = Head(wire[c])
  BY DEF m
<1>6. TallyFollows'
  <2> SUFFICES ASSUME NEW d \in Clients, link[d] = "up", tally # <<>>
               PROVE  Latest(wire'[d], "tally:update", TallyUpdate(tally), view'[d].tally = tally)
    BY <1>1 DEF TallyFollows, TallyUpdate
  <2>1. CASE d = c
    <3>1. Latest(wire[c], "tally:update", TallyUpdate(tally), view[c].tally = tally)
      BY <2>1 DEF TallyFollows
    <3>2. m = TallyUpdate(tally) => view'[c].tally = tally
      BY <1>3 DEF TallyUpdate
    <3>3. Latest(Tail(wire[c]), "tally:update", TallyUpdate(tally), view'[c].tally = tally)
      BY <1>2, <1>3, <1>5, <3>1, <3>2, LatestTaken
    <3> QED BY <1>2, <2>1, <3>3
  <2>2. CASE d # c
    BY <1>4, <2>2 DEF TallyFollows
  <2> QED BY <2>1, <2>2
<1>7. RecordingFollows'
  <2> SUFFICES ASSUME NEW d \in Clients, link[d] = "up", \A op \in ops : op.kind # "stop",
                      Recording # {}
               PROVE  Latest(wire'[d], "recording:state", RecordingState(Recording),
                             view'[d].active = Recording)
    BY <1>1 DEF RecordingFollows, RecordingState
  <2>1. CASE d = c
    <3>1. Latest(wire[c], "recording:state", RecordingState(Recording), view[c].active = Recording)
      BY <2>1 DEF RecordingFollows
    <3>2. m = RecordingState(Recording) => view'[c].active = Recording
      BY <1>3 DEF RecordingState
    <3>3. Latest(Tail(wire[c]), "recording:state", RecordingState(Recording),
                 view'[c].active = Recording)
      BY <1>2, <1>3, <1>5, <3>1, <3>2, LatestTaken
    <3> QED BY <1>2, <2>1, <3>3
  <2>2. CASE d # c
    BY <1>4, <2>2 DEF RecordingFollows
  <2> QED BY <2>1, <2>2
<1> QED BY <1>6, <1>7

LEMMA FollowsSay ==
  ASSUME MirrorShapes, TallyFollows, RecordingFollows, NEW c \in Clients, NEW ch \in Channels,
         Say(c, ch)
  PROVE  TallyFollows' /\ RecordingFollows'
<1> DEFINE m == [kind |-> "chat:message", channel |-> ch, id |-> events + 1]
           to == {d \in Clients : Known(d) /\ member[d] # Outside /\ ch \in member[d]}
<1>1. UNCHANGED <<tally, active, ops, link, view>> /\ Recording' = Recording
  BY DEF Say, linkVars, Recording
<1>2. m \in Messages /\ m.kind = "chat:message"
  BY DEF MirrorShapes, Messages
<1>3. wire' = Sent(wire, to, m) /\ wire \in [Clients -> Seq(Messages)]
  BY DEF Say, MirrorShapes
<1> HIDE DEF m, to
<1>4. \A d \in Clients : wire[d] \in Seq(Messages) /\ wire'[d] \in {wire[d], Append(wire[d], m)}
  BY <1>2, <1>3, SentParts
<1>5. TallyFollows'
  <2> SUFFICES ASSUME NEW d \in Clients, link[d] = "up", tally # <<>>
               PROVE  Latest(wire'[d], "tally:update", TallyUpdate(tally), view[d].tally = tally)
    BY <1>1 DEF TallyFollows, TallyUpdate
  <2>1. Latest(wire[d], "tally:update", TallyUpdate(tally), view[d].tally = tally)
    BY DEF TallyFollows
  <2>2. Latest(Append(wire[d], m), "tally:update", TallyUpdate(tally), view[d].tally = tally)
    BY <1>2, <1>4, <2>1, LatestOther
  <2> QED BY <1>4, <2>1, <2>2
<1>6. RecordingFollows'
  <2> SUFFICES ASSUME NEW d \in Clients, link[d] = "up", \A op \in ops : op.kind # "stop",
                      Recording # {}
               PROVE  Latest(wire'[d], "recording:state", RecordingState(Recording),
                             view[d].active = Recording)
    BY <1>1 DEF RecordingFollows, RecordingState
  <2>1. Latest(wire[d], "recording:state", RecordingState(Recording), view[d].active = Recording)
    BY DEF RecordingFollows
  <2>2. Latest(Append(wire[d], m), "recording:state", RecordingState(Recording),
               view[d].active = Recording)
    BY <1>2, <1>4, <2>1, LatestOther
  <2> QED BY <1>4, <2>1, <2>2
<1> QED BY <1>5, <1>6

LEMMA FollowsTally ==
  ASSUME MirrorShapes, TallyFollows, RecordingFollows,
         \/ UNCHANGED <<tally, wire>>
         \/ TallyUpdate(tally') \in Messages /\ Broadcast(TallyUpdate(tally')),
         UNCHANGED <<active, ops, linkVars, view>>
  PROVE  TallyFollows' /\ RecordingFollows'
<1>1. CASE UNCHANGED <<tally, wire>>
  BY <1>1, FollowsQuiet DEF linkVars
<1>2. CASE TallyUpdate(tally') \in Messages /\ Broadcast(TallyUpdate(tally'))
  <2> DEFINE x == TallyUpdate(tally')
  <2>1. x \in Messages /\ Broadcast(x) /\ x.kind = "tally:update"
    BY <1>2 DEF TallyUpdate
  <2>2. wire \in [Clients -> Seq(Messages)] /\ UNCHANGED <<link, view>> /\ Recording' = Recording
    BY DEF MirrorShapes, linkVars, Recording
  <2>3. \A d \in Clients : link[d] = "up" => Known(d)
    BY DEF Known
  <2>4. ASSUME NEW d \in Clients, link[d] = "up"
        PROVE  Latest(wire'[d], "tally:update", x, view[d].tally = tally')
    <3> HIDE DEF x
    <3> QED BY <2>1, <2>2, <2>3, <2>4, LatestSent
  <2>5. ASSUME NEW d \in Clients, link[d] = "up", \A op \in ops : op.kind # "stop", Recording # {}
        PROVE  Latest(wire'[d], "recording:state", RecordingState(Recording), view[d].active = Recording)
    <3> HIDE DEF x
    <3>1. Latest(wire[d], "recording:state", RecordingState(Recording), view[d].active = Recording)
      BY <2>5 DEF RecordingFollows
    <3> QED BY <2>1, <2>2, <2>3, <2>5, <3>1, LatestSent
  <2>6. TallyFollows'
    BY <2>2, <2>4 DEF TallyFollows
  <2>7. RecordingFollows'
    BY <2>2, <2>5 DEF RecordingFollows, RecordingState
  <2> QED BY <2>6, <2>7
<1> QED BY <1>1, <1>2

LEMMA FollowsRecording ==
  ASSUME MirrorShapes, TallyFollows, RecordingFollows,
         \/ RecordingState(Recording') \in Messages /\ Broadcast(RecordingState(Recording'))
         \/ UNCHANGED <<wire, active>> /\ ops \subseteq ops'
         \/ UNCHANGED wire /\ \E op \in ops' : op.kind = "stop",
         UNCHANGED <<tally, linkVars, view>>
  PROVE  TallyFollows' /\ RecordingFollows'
<1>1. UNCHANGED <<link, view>> /\ wire \in [Clients -> Seq(Messages)]
  BY DEF linkVars, MirrorShapes
<1>2. CASE UNCHANGED <<wire, active>> /\ ops \subseteq ops'
  <2>1. TallyFollows'
    BY <1>1, <1>2 DEF TallyFollows, TallyUpdate
  <2>2. Recording' = Recording /\ UNCHANGED wire
    BY <1>2 DEF Recording
  <2>3. RecordingFollows'
    BY <1>1, <1>2, <2>2 DEF RecordingFollows, RecordingState
  <2> QED BY <2>1, <2>3
<1>3. CASE UNCHANGED wire /\ \E op \in ops' : op.kind = "stop"
  <2>1. TallyFollows'
    BY <1>1, <1>3 DEF TallyFollows, TallyUpdate
  <2>2. RecordingFollows'
    BY <1>3 DEF RecordingFollows
  <2> QED BY <2>1, <2>2
<1>4. CASE RecordingState(Recording') \in Messages /\ Broadcast(RecordingState(Recording'))
  <2> DEFINE x == RecordingState(Recording')
  <2>1. x \in Messages /\ Broadcast(x) /\ x.kind = "recording:state"
    BY <1>4 DEF RecordingState
  <2>2. \A d \in Clients : link[d] = "up" => Known(d)
    BY DEF Known
  <2>3. ASSUME NEW d \in Clients, link[d] = "up"
        PROVE  Latest(wire'[d], "recording:state", x, view[d].active = Recording')
    <3> HIDE DEF x
    <3> QED BY <1>1, <2>1, <2>2, <2>3, LatestSent
  <2>4. ASSUME NEW d \in Clients, link[d] = "up", tally # <<>>
        PROVE  Latest(wire'[d], "tally:update", TallyUpdate(tally), view[d].tally = tally)
    <3> HIDE DEF x
    <3>1. Latest(wire[d], "tally:update", TallyUpdate(tally), view[d].tally = tally)
      BY <2>4 DEF TallyFollows
    <3> QED BY <1>1, <2>1, <2>2, <2>4, <3>1, LatestSent
  <2>5. RecordingFollows'
    BY <1>1, <2>3 DEF RecordingFollows
  <2>6. TallyFollows'
    BY <1>1, <2>4 DEF TallyFollows, TallyUpdate
  <2> QED BY <2>5, <2>6
<1> QED BY <1>2, <1>3, <1>4

-----------------------------------------------------------------------------
(* The chat *)

\* Message numbers that rise, none above top
Rising(s, top) ==
  \A i \in DOMAIN s : s[i] <= top /\ \A j \in DOMAIN s : i < j => s[i] < s[j]

\* t ends with s.
Ends(s, t) == Len(s) <= Len(t) /\ \A i \in 1..Len(s) : t[Len(t) - Len(s) + i] = s[i]

LEMMA RisingEmpty == ASSUME NEW top PROVE <<>> \in Seq(Nat) /\ Rising(<<>>, top)
<1>1. <<>> \in Seq(Nat) /\ DOMAIN <<>> = {}
  OBVIOUS
<1> QED BY <1>1 DEF Rising

LEMMA RisingMore ==
  ASSUME NEW s \in Seq(Nat), NEW top \in Nat, Rising(s, top) PROVE Rising(s, top + 1)
<1>1. \A i \in DOMAIN s : s[i] \in Nat
  OBVIOUS
<1> QED BY <1>1 DEF Rising

LEMMA RisingAppend ==
  ASSUME NEW s \in Seq(Nat), NEW top \in Nat, Rising(s, top)
  PROVE  Append(s, top + 1) \in Seq(Nat) /\ Rising(Append(s, top + 1), top + 1)
<1> DEFINE v == Append(s, top + 1)
<1>1. /\ v \in Seq(Nat) /\ Len(s) \in Nat /\ DOMAIN s = 1..Len(s) /\ DOMAIN v = 1..Len(s) + 1
      /\ v[Len(s) + 1] = top + 1 /\ \A i \in 1..Len(s) : v[i] = s[i] /\ s[i] \in Nat
  BY AppendParts
<1> HIDE DEF v
<1>2. ASSUME NEW i \in DOMAIN v
      PROVE  v[i] <= top + 1 /\ \A j \in DOMAIN v : i < j => v[i] < v[j]
  <2>1. \A j \in DOMAIN s : v[j] = s[j] /\ v[j] \in Nat /\ v[j] <= top
    BY <1>1 DEF Rising
  <2>2. CASE i = Len(s) + 1
    BY <1>1, <2>2
  <2>3. CASE i # Len(s) + 1
    <3>1. i \in DOMAIN s /\ \A j \in DOMAIN s : i < j => s[i] < s[j]
      BY <1>1, <2>3 DEF Rising
    <3>2. v[i] <= top /\ v[i] \in Nat
      BY <2>1, <3>1
    <3>3. ASSUME NEW j \in DOMAIN v, i < j PROVE v[i] < v[j]
      <4>1. CASE j = Len(s) + 1
        BY <1>1, <3>2, <4>1
      <4>2. CASE j # Len(s) + 1
        <5>1. j \in DOMAIN s
          BY <1>1, <4>2
        <5>2. s[i] < s[j] /\ v[i] = s[i] /\ v[j] = s[j]
          BY <2>1, <3>1, <3>3, <5>1
        <5> QED BY <5>2
      <4> QED BY <4>1, <4>2
    <3> QED BY <3>2, <3>3
  <2> QED BY <2>2, <2>3
<1>3. Rising(v, top + 1)
  BY <1>2 DEF Rising
<1> QED BY <1>1, <1>3 DEF v

LEMMA RisingTail ==
  ASSUME NEW s \in Seq(Nat), s # <<>>, NEW top \in Nat, Rising(s, top)
  PROVE  Tail(s) \in Seq(Nat) /\ Rising(Tail(s), top)
<1> DEFINE v == Tail(s)
<1>1. /\ v \in Seq(Nat) /\ Len(s) \in Nat \ {0} /\ DOMAIN s = 1..Len(s) /\ DOMAIN v = 1..Len(s) - 1
      /\ \A i \in 1..Len(s) - 1 : v[i] = s[i + 1]
  BY TailParts
<1> HIDE DEF v
<1>2. ASSUME NEW i \in DOMAIN v
      PROVE  v[i] <= top /\ \A j \in DOMAIN v : i < j => v[i] < v[j]
  <2>1. i + 1 \in DOMAIN s /\ v[i] = s[i + 1]
    BY <1>1
  <2>2. s[i + 1] <= top /\ \A j \in DOMAIN s : i + 1 < j => s[i + 1] < s[j]
    BY <2>1 DEF Rising
  <2>3. ASSUME NEW j \in DOMAIN v, i < j PROVE v[i] < v[j]
    <3>1. i \in 1..Len(s) - 1 /\ j \in 1..Len(s) - 1 /\ Len(s) \in Nat
      BY <1>1
    <3>2. i + 1 < j + 1 /\ j + 1 \in 1..Len(s)
      BY <2>3, <3>1
    <3>3. v[j] = s[j + 1] /\ j + 1 \in DOMAIN s
      BY <1>1, <3>1, <3>2
    <3> QED BY <2>1, <2>2, <3>2, <3>3
  <2> QED BY <2>1, <2>2, <2>3
<1>3. Rising(v, top)
  BY <1>2 DEF Rising
<1> QED BY <1>1, <1>3 DEF v

LEMMA EndsAppend ==
  ASSUME NEW s \in Seq(Nat), NEW t \in Seq(Nat), NEW x \in Nat, Ends(s, t)
  PROVE  Ends(Append(s, x), Append(t, x))
<1> DEFINE v == Append(s, x)
           w == Append(t, x)
<1>1. /\ Len(s) \in Nat /\ Len(v) = Len(s) + 1 /\ v[Len(s) + 1] = x
      /\ \A i \in 1..Len(s) : v[i] = s[i]
  BY AppendParts
<1>2. /\ Len(t) \in Nat /\ Len(w) = Len(t) + 1 /\ w[Len(t) + 1] = x
      /\ \A i \in 1..Len(t) : w[i] = t[i]
  BY AppendParts
<1> HIDE DEF v, w
<1>3. Len(v) <= Len(w)
  BY <1>1, <1>2 DEF Ends
<1>4. ASSUME NEW i \in 1..Len(v) PROVE w[Len(w) - Len(v) + i] = v[i]
  <2>1. Len(w) - Len(v) + i = Len(t) - Len(s) + i
    BY <1>1, <1>2
  <2>2. CASE i = Len(s) + 1
    BY <1>1, <1>2, <2>1, <2>2
  <2>3. CASE i # Len(s) + 1
    <3>1. i \in 1..Len(s) /\ Len(t) - Len(s) + i \in 1..Len(t)
      BY <1>1, <1>2, <2>3 DEF Ends
    <3> QED BY <1>1, <1>2, <2>1, <3>1 DEF Ends
  <2> QED BY <2>2, <2>3
<1>5. Ends(v, w)
  BY <1>3, <1>4 DEF Ends
<1> QED BY <1>5 DEF v, w

LEMMA EndsTail ==
  ASSUME NEW s \in Seq(Nat), s # <<>>, NEW t \in Seq(Nat), Ends(s, t) PROVE Ends(Tail(s), t)
<1> DEFINE v == Tail(s)
<1>1. /\ Len(s) \in Nat \ {0} /\ Len(v) = Len(s) - 1 /\ Len(t) \in Nat
      /\ \A i \in 1..Len(s) - 1 : v[i] = s[i + 1]
  BY TailParts
<1> HIDE DEF v
<1>2. ASSUME NEW i \in 1..Len(v) PROVE t[Len(t) - Len(v) + i] = v[i]
  <2>1. i + 1 \in 1..Len(s) /\ Len(t) - Len(v) + i = Len(t) - Len(s) + (i + 1)
    BY <1>1
  <2>2. t[Len(t) - Len(s) + (i + 1)] = s[i + 1]
    BY <2>1 DEF Ends
  <2> QED BY <1>1, <2>1, <2>2
<1>3. Ends(v, t)
  BY <1>1, <1>2 DEF Ends
<1> QED BY <1>3 DEF v

LEMMA EndsSelf == ASSUME NEW s \in Seq(Nat) PROVE Ends(s, s)
<1>1. Len(s) \in Nat
  OBVIOUS
<1>2. \A i \in 1..Len(s) : Len(s) - Len(s) + i = i
  BY <1>1
<1> QED BY <1>1, <1>2 DEF Ends

LEMMA EndsSuffix ==
  ASSUME NEW s \in Seq(Nat), NEW t \in Seq(Nat), Ends(s, t) PROVE IsSuffix(s, t)
<1> DEFINE p == Reverse(s)
           q == Reverse(t)
<1>1. Len(s) \in Nat /\ Len(t) \in Nat /\ DOMAIN s = 1..Len(s) /\ DOMAIN t = 1..Len(t)
  OBVIOUS
<1>2. /\ p = [i \in 1..Len(s) |-> s[Len(s) - i + 1]]
      /\ q = [i \in 1..Len(t) |-> t[Len(t) - i + 1]]
  BY DEF Reverse
<1>3. p \in Seq(Nat) /\ q \in Seq(Nat)
  <2>1. \A i \in 1..Len(s) : s[Len(s) - i + 1] \in Nat
    <3>1. \A i \in 1..Len(s) : Len(s) - i + 1 \in 1..Len(s)
      BY <1>1
    <3> QED BY <3>1
  <2>2. \A i \in 1..Len(t) : t[Len(t) - i + 1] \in Nat
    <3>1. \A i \in 1..Len(t) : Len(t) - i + 1 \in 1..Len(t)
      BY <1>1
    <3> QED BY <3>1
  <2>3. p \in [1..Len(s) -> Nat] /\ q \in [1..Len(t) -> Nat]
    BY <1>2, <2>1, <2>2
  <2> QED BY <1>1, <2>3, SeqDef
<1>4. Len(p) = Len(s) /\ Len(q) = Len(t)
  BY <1>1, <1>2, <1>3, LenProperties
<1>5. \A i \in 1..Len(p) : p[i] = q[i]
  <2> SUFFICES ASSUME NEW i \in 1..Len(s) PROVE s[Len(s) - i + 1] = t[Len(t) - i + 1]
    BY <1>1, <1>2, <1>4 DEF Ends
  <2>1. Len(s) - i + 1 \in 1..Len(s) /\ Len(t) - i + 1 = Len(t) - Len(s) + (Len(s) - i + 1)
    BY <1>1
  <2> QED BY <2>1 DEF Ends
<1>6. Len(p) <= Len(q)
  BY <1>4 DEF Ends
<1> HIDE DEF p, q
<1>7. SubSeq(q, 1, Len(p)) = p
  <2>1. Len(p) \in Nat /\ Len(q) \in Nat /\ DOMAIN p = 1..Len(p)
    BY <1>3
  <2>2. SubSeq(q, 1, Len(p)) = [i \in 1..Len(p) |-> q[i]]
    BY <1>3, <1>6, <2>1
  <2> QED BY <1>3, <1>5, <2>1, <2>2
<1> QED BY <1>6, <1>7 DEF IsSuffix, IsPrefix, p, q

-----------------------------------------------------------------------------
(* What will be shown of a channel when the messages under way are taken *)

\* The client has the history of the channel, and listens.
Due(c, ch) == link[c] = "up" /\ ch \in member[c] \ gap[c]

\* h tells what is shown of ch after each of the messages on w, of s at first.
Foretells(h, s, w, ch) ==
  /\ h \in [0..Len(w) -> Seq(Nat)] /\ h[0] = s
  /\ \A i \in 1..Len(w) : h[i] = After(h[i - 1], w[i], ch)

\* It always rises, and ends with what the server keeps.
Foretold(c, ch) ==
  \E h \in [0..Len(wire[c]) -> Seq(Nat)] :
    /\ Foretells(h, view[c].log[ch], wire[c], ch)
    /\ \A i \in 0..Len(wire[c]) : Rising(h[i], events)
    /\ Due(c, ch) => Ends(log[ch], h[Len(wire[c])])

LogsRise == \A ch \in Channels : Rising(log[ch], events)

LEMMA AfterTyped ==
  ASSUME NEW s \in Seq(Nat), NEW m \in Messages, NEW ch PROVE After(s, m, ch) \in Seq(Nat)
<1>1. CASE m.kind = "chat:history"
  BY <1>1, MessageKinds DEF After
<1>2. CASE m.kind = "chat:message"
  <2>1. m.id \in Nat
    BY <1>2, MessageKinds
  <2>2. Append(s, m.id) \in Seq(Nat)
    BY <2>1
  <2> QED BY <1>2, <2>2 DEF After
<1>3. CASE m.kind \notin {"chat:history", "chat:message"}
  BY <1>3 DEF After
<1> QED BY <1>1, <1>2, <1>3

LEMMA WireParts ==
  ASSUME MirrorShapes, NEW c \in Clients, NEW ch \in Channels
  PROVE  /\ wire[c] \in Seq(Messages) /\ Len(wire[c]) \in Nat /\ view[c].log[ch] \in Seq(Nat)
         /\ log[ch] \in Seq(Nat) /\ events \in Nat
         /\ \A i \in 1..Len(wire[c]) : wire[c][i] \in Messages
BY DEF MirrorShapes, Views

\* Nothing is sent to the client and nothing is taken.
LEMMA ForetoldKept ==
  ASSUME MirrorShapes, NEW c \in Clients, NEW ch \in Channels, Foretold(c, ch),
         wire'[c] = wire[c], view'[c] = view[c], events' \in {events, events + 1},
         \A s \in Seq(Nat) : Due(c, ch)' /\ (Due(c, ch) => Ends(log[ch], s)) => Ends(log'[ch], s)
  PROVE  Foretold(c, ch)'
<1> DEFINE n == Len(wire[c])
<1>1. n \in Nat /\ events \in Nat
  BY WireParts
<1>2. PICK h \in [0..n -> Seq(Nat)] :
        /\ Foretells(h, view[c].log[ch], wire[c], ch)
        /\ \A i \in 0..n : Rising(h[i], events)
        /\ Due(c, ch) => Ends(log[ch], h[n])
  BY DEF Foretold
<1> HIDE DEF n
<1>3. \A i \in 0..n : h[i] \in Seq(Nat) /\ Rising(h[i], events')
  BY <1>1, <1>2, RisingMore
<1>4. Due(c, ch)' => Ends(log'[ch], h[n])
  <2>1. h[n] \in Seq(Nat)
    BY <1>1, <1>3
  <2> QED BY <1>2, <2>1
<1> QED BY <1>2, <1>3, <1>4 DEF Foretold, n

\* The socket is not listened to any more, or not yet.
LEMMA ForetoldIdle ==
  ASSUME MirrorShapes, NEW c \in Clients, NEW ch \in Channels, Foretold(c, ch),
         wire'[c] = <<>>, view'[c].log[ch] \in {view[c].log[ch], <<>>},
         events' \in {events, events + 1}, ~Due(c, ch)'
  PROVE  Foretold(c, ch)'
<1>1. Len(wire[c]) \in Nat /\ events \in Nat /\ view[c].log[ch] \in Seq(Nat)
  BY WireParts
<1>2. Rising(view[c].log[ch], events)
  <2>1. PICK h \in [0..Len(wire[c]) -> Seq(Nat)] :
          /\ Foretells(h, view[c].log[ch], wire[c], ch)
          /\ \A i \in 0..Len(wire[c]) : Rising(h[i], events)
    BY DEF Foretold
  <2> QED BY <1>1, <2>1 DEF Foretells
<1>3. view'[c].log[ch] \in Seq(Nat) /\ Rising(view'[c].log[ch], events')
  BY <1>1, <1>2, RisingEmpty, RisingMore
<1> DEFINE k == [i \in 0..0 |-> view'[c].log[ch]]
<1>4. k \in [0..0 -> Seq(Nat)] /\ k[0] = view'[c].log[ch]
  BY <1>3
<1>5. Len(wire'[c]) = 0
  BY Zenon, EmptySeq
<1> HIDE DEF k
<1>6. Foretells(k, view'[c].log[ch], wire'[c], ch)
  BY <1>4, <1>5 DEF Foretells
<1>7. \A i \in 0..0 : Rising(k[i], events')
  BY <1>3, <1>4
<1> QED BY <1>4, <1>5, <1>6, <1>7 DEF Foretold

\* One message is sent to the client.
LEMMA ForetoldSent ==
  ASSUME MirrorShapes, NEW c \in Clients, NEW ch \in Channels, Foretold(c, ch),
         NEW m \in Messages, wire'[c] = Append(wire[c], m), view'[c] = view[c],
         events' \in {events, events + 1},
         \A s \in Seq(Nat) : Rising(s, events) => Rising(After(s, m, ch), events'),
         \A s \in Seq(Nat) : Due(c, ch)' /\ (Due(c, ch) => Ends(log[ch], s)) =>
                               Ends(log'[ch], After(s, m, ch))
  PROVE  Foretold(c, ch)'
<1> DEFINE n == Len(wire[c])
           w == wire'[c]
<1>1. n \in Nat /\ events \in Nat /\ wire[c] \in Seq(Messages)
  BY WireParts
<1>2. /\ Len(w) = n + 1 /\ w[n + 1] = m /\ \A i \in 1..n : w[i] = wire[c][i]
  BY <1>1, AppendParts
<1>3. PICK h \in [0..n -> Seq(Nat)] :
        /\ Foretells(h, view[c].log[ch], wire[c], ch)
        /\ \A i \in 0..n : Rising(h[i], events)
        /\ Due(c, ch) => Ends(log[ch], h[n])
  BY DEF Foretold
<1>4. h[0] = view[c].log[ch] /\ \A i \in 1..n : h[i] = After(h[i - 1], wire[c][i], ch)
  BY <1>3 DEF Foretells
<1> DEFINE last == After(h[n], m, ch)
           k == [i \in 0..n + 1 |-> IF i = n + 1 THEN last ELSE h[i]]
<1>5. h[n] \in Seq(Nat) /\ last \in Seq(Nat)
  <2>1. h[n] \in Seq(Nat)
    BY <1>1, <1>3
  <2> QED BY <2>1, AfterTyped
<1> HIDE DEF n, w, last
<1>6. /\ k \in [0..n + 1 -> Seq(Nat)] /\ k[n + 1] = last
      /\ \A i \in 0..n : k[i] = h[i] /\ h[i] \in Seq(Nat)
  <2>1. \A i \in 0..n + 1 : i = n + 1 \/ i \in 0..n
    BY <1>1
  <2>2. \A i \in 0..n : i \in 0..n + 1 /\ i # n + 1 /\ h[i] \in Seq(Nat)
    BY <1>1, <1>3
  <2>3. \A i \in 0..n : k[i] = h[i]
    BY <2>2
  <2>4. n + 1 \in 0..n + 1
    BY <1>1
  <2>5. k[n + 1] = last
    BY <2>4
  <2>6. \A i \in 0..n + 1 : k[i] \in Seq(Nat)
    BY <1>5, <2>1, <2>2, <2>3, <2>5
  <2>7. k = [i \in 0..n + 1 |-> k[i]]
    OBVIOUS
  <2> HIDE DEF k
  <2> QED BY <2>2, <2>3, <2>5, <2>6, <2>7
<1> HIDE DEF k
<1>7. ASSUME NEW i \in 1..n + 1 PROVE k[i] = After(k[i - 1], w[i], ch)
  <2>1. CASE i = n + 1
    BY <1>1, <1>2, <1>6, <2>1 DEF last
  <2>2. CASE i # n + 1
    <3>1. i \in 1..n /\ i \in 0..n /\ i - 1 \in 0..n
      BY <1>1, <2>2
    <3> QED BY <1>2, <1>4, <1>6, <3>1
  <2> QED BY <2>1, <2>2
<1>8. Foretells(k, view'[c].log[ch], w, ch)
  <2>1. k[0] = view'[c].log[ch]
    BY <1>1, <1>4, <1>6
  <2> QED BY <1>2, <1>6, <1>7, <2>1 DEF Foretells
<1>9. ASSUME NEW i \in 0..n + 1 PROVE Rising(k[i], events')
  <2>1. CASE i = n + 1
    <3>1. Rising(h[n], events)
      BY <1>1, <1>3
    <3> QED BY <1>5, <1>6, <2>1, <3>1 DEF last
  <2>2. CASE i # n + 1
    <3>1. i \in 0..n
      BY <1>1, <2>2
    <3>2. Rising(h[i], events) /\ h[i] \in Seq(Nat) /\ k[i] = h[i]
      BY <1>3, <1>6, <3>1
    <3> QED BY <1>1, <3>2, RisingMore
  <2> QED BY <2>1, <2>2
<1>10. Due(c, ch)' => Ends(log'[ch], k[n + 1])
  BY <1>3, <1>5, <1>6 DEF last
<1> QED BY <1>2, <1>6, <1>8, <1>9, <1>10 DEF Foretold, w

\* The client takes the first message.
LEMMA ForetoldTaken ==
  ASSUME MirrorShapes, NEW c \in Clients, NEW ch \in Channels, Foretold(c, ch),
         wire[c] # <<>>, wire'[c] = Tail(wire[c]),
         view'[c].log[ch] = After(view[c].log[ch], wire[c][1], ch),
         UNCHANGED <<events, log>>, Due(c, ch)' = Due(c, ch)
  PROVE  Foretold(c, ch)'
<1> DEFINE n == Len(wire[c])
           w == wire'[c]
<1>1. wire[c] \in Seq(Messages) /\ events \in Nat
  BY WireParts
<1>2. /\ n \in Nat \ {0} /\ Len(w) = n - 1 /\ \A i \in 1..n - 1 : w[i] = wire[c][i + 1]
  BY <1>1, TailParts
<1>3. PICK h \in [0..n -> Seq(Nat)] :
        /\ Foretells(h, view[c].log[ch], wire[c], ch)
        /\ \A i \in 0..n : Rising(h[i], events)
        /\ Due(c, ch) => Ends(log[ch], h[n])
  BY DEF Foretold
<1>4. h[0] = view[c].log[ch] /\ \A i \in 1..n : h[i] = After(h[i - 1], wire[c][i], ch)
  BY <1>3 DEF Foretells
<1> DEFINE k == [i \in 0..n - 1 |-> h[i + 1]]
<1> HIDE DEF n, w
<1>5. \A i \in 0..n - 1 : i + 1 \in 0..n
  BY <1>2
<1>6. k \in [0..n - 1 -> Seq(Nat)] /\ \A i \in 0..n - 1 : k[i] = h[i + 1]
  BY <1>3, <1>5
<1> HIDE DEF k
<1>7. ASSUME NEW i \in 1..n - 1 PROVE k[i] = After(k[i - 1], w[i], ch)
  <2>1. /\ i \in 0..n - 1 /\ i - 1 \in 0..n - 1 /\ i + 1 \in 1..n
        /\ (i - 1) + 1 = i /\ (i + 1) - 1 = i
    BY <1>2
  <2>2. h[i + 1] = After(h[i], wire[c][i + 1], ch)
    <3>1. h[i + 1] = After(h[(i + 1) - 1], wire[c][i + 1], ch)
      BY <1>4, <2>1
    <3> QED BY <2>1, <3>1
  <2>3. k[i] = h[i + 1] /\ k[i - 1] = h[i]
    BY <1>6, <2>1
  <2> QED BY <1>2, <2>2, <2>3
<1>8. k[0] = view'[c].log[ch]
  <2>1. 0 \in 0..n - 1 /\ 0 + 1 = 1 /\ 1 \in 1..n /\ 1 - 1 = 0
    BY <1>2
  <2>2. h[1] = After(h[0], wire[c][1], ch)
    <3>1. h[1] = After(h[1 - 1], wire[c][1], ch)
      BY <1>4, <2>1
    <3> QED BY <2>1, <3>1
  <2>3. k[0] = h[0 + 1]
    BY <1>6, <2>1
  <2> QED BY <1>4, <2>1, <2>2, <2>3
<1>9. Foretells(k, view'[c].log[ch], w, ch)
  BY <1>2, <1>6, <1>7, <1>8 DEF Foretells
<1>10. \A i \in 0..n - 1 : Rising(k[i], events')
  BY <1>3, <1>5, <1>6
<1>11. Due(c, ch)' => Ends(log'[ch], k[n - 1])
  <2>1. n - 1 \in 0..n - 1 /\ (n - 1) + 1 = n
    BY <1>2
  <2>2. k[n - 1] = h[n]
    <3>1. k[n - 1] = h[(n - 1) + 1]
      BY <1>6, <2>1
    <3> QED BY <2>1, <3>1
  <2> QED BY <1>3, <2>2
<1> QED BY <1>2, <1>6, <1>9, <1>10, <1>11 DEF Foretold, w

\* The client gets the history of its channels, and what else it is told.
LEMMA ForetoldGreeted ==
  ASSUME MirrorShapes, Knowing, LogsRise, NEW c \in Clients, NEW ch \in Channels, Foretold(c, ch), Greet(c)
  PROVE  Foretold(c, ch)'
<1> DEFINE n == Len(wire[c])
           g == Greeting(c)
           w == wire'[c]
           l == Len(g)
<1>1. /\ n \in Nat /\ events \in Nat /\ wire[c] \in Seq(Messages) /\ log[ch] \in Seq(Nat)
      /\ member[c] \in SUBSET Channels
  BY WireParts DEF Greet, Knowing, Known, MirrorShapes
<1>2. UNCHANGED <<log, view, events, member, gap>> /\ w = wire[c] \o g
  BY DEF Greet, serverVars, MirrorShapes, Quietly
<1>3. g = Greeting(c)
  OBVIOUS
<1> HIDE DEF g
<1>4. /\ g \in Seq(Messages)
      /\ \A i \in DOMAIN g : g[i].kind # "chat:message"
      /\ \A i \in DOMAIN g : g[i].kind = "chat:history" => \E d \in Kept(c) : g[i] = HistoryOf(d)
      /\ \A d \in Kept(c) : \E i \in DOMAIN g : g[i] = HistoryOf(d)
  BY <1>1, <1>3, GreetingParts
<1>5. /\ l \in Nat /\ DOMAIN g = 1..l /\ Len(w) = n + l
      /\ \A i \in 1..n : w[i] = wire[c][i]
      /\ \A i \in 1..l : w[n + i] = g[i]
  BY <1>1, <1>2, <1>4
<1>6. PICK h \in [0..n -> Seq(Nat)] :
        /\ Foretells(h, view[c].log[ch], wire[c], ch)
        /\ \A i \in 0..n : Rising(h[i], events)
        /\ Due(c, ch) => Ends(log[ch], h[n])
  BY DEF Foretold
<1>7. h[0] = view[c].log[ch] /\ \A i \in 1..n : h[i] = After(h[i - 1], wire[c][i], ch)
  BY <1>6 DEF Foretells
<1> DEFINE had(i) == \E j \in 1..i - n : g[j] = HistoryOf(ch)
           k == [i \in 0..n + l |->
                   IF i <= n THEN h[i] ELSE IF had(i) THEN log[ch] ELSE h[n]]
<1> HIDE DEF n, w, l
<1>8. h[n] \in Seq(Nat) /\ Rising(h[n], events) /\ Rising(log[ch], events)
      /\ \A i \in 0..n : h[i] \in Seq(Nat) /\ Rising(h[i], events)
  <2>1. n \in 0..n
    BY <1>1
  <2> QED BY <1>6, <2>1 DEF LogsRise
<1>9. \A i \in 0..n + l : k[i] = IF i <= n THEN h[i] ELSE IF had(i) THEN log[ch] ELSE h[n]
  OBVIOUS
<1>10. k = [i \in 0..n + l |-> k[i]]
  OBVIOUS
<1> HIDE DEF k, had
<1>11. ASSUME NEW i \in 0..n + l PROVE k[i] \in Seq(Nat) /\ Rising(k[i], events)
  <2>1. i <= n => i \in 0..n
    BY <1>1
  <2> QED BY <1>1, <1>8, <1>9, <2>1
<1>12. k \in [0..n + l -> Seq(Nat)]
  BY <1>10, <1>11
<1>13. k[0] = view'[c].log[ch]
  <2>1. 0 \in 0..n + l /\ 0 <= n
    BY <1>1, <1>5
  <2> QED BY <1>2, <1>7, <1>9, <2>1
<1>14. ASSUME NEW i \in 1..n + l PROVE k[i] = After(k[i - 1], w[i], ch)
  <2>1. i \in 0..n + l /\ i - 1 \in 0..n + l
    BY <1>1, <1>5
  <2>2. CASE i <= n
    <3>1. i \in 1..n /\ i - 1 <= n
      BY <1>1, <2>2
    <3>2. k[i] = h[i] /\ k[i - 1] = h[i - 1]
      BY <1>9, <2>1, <2>2, <3>1
    <3> QED BY <1>5, <1>7, <3>1, <3>2
  <2>3. CASE i > n
    <3> DEFINE j == i - n
    <3>1. j \in 1..l /\ n + j = i /\ ~(i <= n)
      BY <1>1, <1>5, <2>3
    <3> HIDE DEF j
    <3>2. w[i] = g[j] /\ j \in DOMAIN g
      BY <1>5, <3>1
    <3>3. k[i] = IF had(i) THEN log[ch] ELSE h[n]
      BY <1>9, <2>1, <3>1
    <3>4. k[i - 1] = IF had(i - 1) THEN log[ch] ELSE h[n]
      <4>1. CASE i - 1 = n
        <5>1. ~had(i - 1)
          BY <1>1, <4>1 DEF had
        <5>2. k[i - 1] = h[n]
          BY <1>1, <1>9, <2>1, <4>1
        <5> QED BY <5>1, <5>2
      <4>2. CASE i - 1 # n
        <5>1. ~(i - 1 <= n)
          BY <1>1, <2>3, <4>2
        <5> QED BY <1>9, <2>1, <5>1
      <4> QED BY <4>1, <4>2
    <3>5. had(i) <=> had(i - 1) \/ g[j] = HistoryOf(ch)
      <4>1. i - n = j /\ (i - 1) - n = j - 1 /\ j \in Nat \ {0}
        BY <1>1, <1>5, <3>1
      <4>2. had(i) <=> \E x \in 1..j : g[x] = HistoryOf(ch)
        BY <4>1 DEF had
      <4>3. had(i - 1) <=> \E x \in 1..j - 1 : g[x] = HistoryOf(ch)
        BY <4>1 DEF had
      <4>4. \A x \in 1..j : x \in 1..j - 1 \/ x = j
        BY <4>1
      <4>5. j \in 1..j /\ \A x \in 1..j - 1 : x \in 1..j
        BY <4>1
      <4> QED BY <4>2, <4>3, <4>4, <4>5
    <3>6. CASE g[j] = HistoryOf(ch)
      <4>1. After(k[i - 1], g[j], ch) = log[ch]
        BY <3>6 DEF After, HistoryOf
      <4> QED BY <3>2, <3>3, <3>5, <3>6, <4>1
    <3>7. CASE g[j] # HistoryOf(ch)
      <4>1. ~(g[j].kind = "chat:history" /\ g[j].channel = ch)
        <5>1. \A d : HistoryOf(d).channel = d
          BY DEF HistoryOf
        <5> QED BY <1>4, <3>2, <3>7, <5>1
      <4>2. After(k[i - 1], g[j], ch) = k[i - 1]
        BY <1>4, <3>2, <4>1 DEF After
      <4> QED BY <3>2, <3>3, <3>4, <3>5, <3>7, <4>2
    <3> QED BY <3>6, <3>7
  <2> QED BY <1>1, <2>2, <2>3
<1>15. Foretells(k, view'[c].log[ch], w, ch)
  BY <1>5, <1>12, <1>13, <1>14 DEF Foretells
<1>16. Due(c, ch)' => Ends(log[ch], k[n + l])
  <2> SUFFICES ASSUME Due(c, ch)' PROVE Ends(log[ch], k[n + l])
    OBVIOUS
  <2>1. ch \in member[c] /\ n + l \in 0..n + l
    BY <1>1, <1>2, <1>5 DEF Due
  <2>2. CASE log[ch] = <<>>
    <3>1. k[n + l] \in Seq(Nat) /\ Len(log[ch]) = 0
      BY <1>11, <2>1, <2>2
    <3> QED BY <3>1 DEF Ends
  <2>3. CASE log[ch] # <<>>
    <3>1. ch \in Kept(c)
      BY <2>1, <2>3 DEF Kept
    <3>2. PICK j \in 1..l : g[j] = HistoryOf(ch)
      BY <1>4, <1>5, <3>1
    <3>3. j \in 1..(n + l) - n /\ ~(n + l <= n)
      BY <1>1, <1>5
    <3>4. had(n + l)
      BY <3>2, <3>3 DEF had
    <3>5. k[n + l] = log[ch]
      BY <1>9, <2>1, <3>3, <3>4
    <3> QED BY <1>1, <3>5, EndsSelf
  <2> QED BY <2>2, <2>3
<1> QED BY <1>2, <1>5, <1>11, <1>12, <1>15, <1>16 DEF Foretold, w

ChatInv == LogsRise /\ \A c \in Clients, ch \in Channels : Foretold(c, ch)

LEMMA InitChat == Init => ChatInv
<1> SUFFICES ASSUME Init PROVE ChatInv
  OBVIOUS
<1>1. \A ch \in Channels : log[ch] = <<>>
  BY DEF Init
<1>2. LogsRise
  BY <1>1, RisingEmpty DEF LogsRise
<1>3. ASSUME NEW c \in Clients, NEW ch \in Channels PROVE Foretold(c, ch)
  <2>1. wire[c] = <<>> /\ view[c].log[ch] = <<>> /\ ~Due(c, ch)
    BY BlankParts DEF Init, Due
  <2>2. Len(wire[c]) = 0
    BY <2>1
  <2> DEFINE h == [i \in 0..0 |-> view[c].log[ch]]
  <2>3. h \in [0..0 -> Seq(Nat)] /\ h[0] = view[c].log[ch] /\ \A i \in 0..0 : Rising(h[i], events)
    BY <2>1, RisingEmpty
  <2> HIDE DEF h
  <2>4. Foretells(h, view[c].log[ch], wire[c], ch)
    BY <2>2, <2>3 DEF Foretells
  <2> QED BY <2>1, <2>2, <2>3, <2>4 DEF Foretold
<1> QED BY <1>2, <1>3 DEF ChatInv

LEMMA LogsKept ==
  ASSUME MirrorShapes, LogsRise, log' = log, events' \in {events, events + 1} PROVE LogsRise'
<1>1. ASSUME NEW ch \in Channels PROVE Rising(log[ch], events')
  <2>1. log[ch] \in Seq(Nat) /\ events \in Nat /\ Rising(log[ch], events)
    BY DEF MirrorShapes, LogsRise
  <2> QED BY <2>1, RisingMore
<1> QED BY <1>1 DEF LogsRise

\* Nobody is sent anything, nothing is said, and no history becomes due.
LEMMA ChatQuiet ==
  ASSUME MirrorShapes, ChatInv, UNCHANGED <<log, wire, view>>, events' \in {events, events + 1},
         \A c \in Clients, ch \in Channels : Due(c, ch)' => Due(c, ch)
  PROVE  ChatInv'
<1>1. LogsRise'
  BY LogsKept DEF ChatInv
<1>2. ASSUME NEW c \in Clients, NEW ch \in Channels PROVE Foretold(c, ch)'
  <2>1. Foretold(c, ch) /\ (Due(c, ch)' => Due(c, ch))
    BY DEF ChatInv
  <2>2. \A s \in Seq(Nat) : Due(c, ch)' /\ (Due(c, ch) => Ends(log[ch], s)) => Ends(log'[ch], s)
    BY <2>1
  <2> QED BY <2>1, <2>2, ForetoldKept
<1> QED BY <1>1, <1>2 DEF ChatInv

LEMMA ChatBroadcast ==
  ASSUME MirrorShapes, ChatInv, NEW m \in Messages, Broadcast(m),
         m.kind \notin {"chat:history", "chat:message"},
         UNCHANGED <<log, view, member, link, gap>>, events' \in {events, events + 1}
  PROVE  ChatInv'
<1>1. LogsRise'
  BY LogsKept DEF ChatInv
<1>2. ASSUME NEW c \in Clients, NEW ch \in Channels PROVE Foretold(c, ch)'
  <2>1. Foretold(c, ch) /\ Due(c, ch)' = Due(c, ch) /\ events \in Nat
    BY DEF ChatInv, Due, MirrorShapes
  <2>2. wire'[c] = IF Known(c) THEN Append(wire[c], m) ELSE wire[c]
    BY BroadcastParts DEF MirrorShapes
  <2>3. CASE Known(c)
    <3>1. \A s \in Seq(Nat) : After(s, m, ch) = s
      BY DEF After
    <3>2. \A s \in Seq(Nat) : Rising(s, events) => Rising(After(s, m, ch), events')
      BY <2>1, <3>1, RisingMore
    <3>3. \A s \in Seq(Nat) : Due(c, ch)' /\ (Due(c, ch) => Ends(log[ch], s)) =>
                                Ends(log'[ch], After(s, m, ch))
      BY <2>1, <3>1
    <3>4. wire'[c] = Append(wire[c], m) /\ view'[c] = view[c]
      BY <2>2, <2>3
    <3> QED BY <2>1, <3>2, <3>3, <3>4, ForetoldSent
  <2>4. CASE ~Known(c)
    <3>1. \A s \in Seq(Nat) : Due(c, ch)' /\ (Due(c, ch) => Ends(log[ch], s)) => Ends(log'[ch], s)
      BY <2>1
    <3> QED BY <2>1, <2>2, <2>4, <3>1, ForetoldKept
  <2> QED BY <2>3, <2>4
<1> QED BY <1>1, <1>2 DEF ChatInv

LEMMA ChatConnect ==
  ASSUME MirrorShapes, Knowing, ChatInv, NEW c \in Clients, Connect(c) PROVE ChatInv'
<1>1. UNCHANGED <<log, wire, member, gap>> /\ events' = events + 1
  BY DEF Connect, serverVars, Event
<1>2. LogsRise'
  BY <1>1, LogsKept DEF ChatInv
<1>3. ASSUME NEW d \in Clients, NEW ch \in Channels PROVE Foretold(d, ch)'
  <2>1. Foretold(d, ch)
    BY DEF ChatInv
  <2>2. CASE d = c
    <3>1. wire'[d] = <<>> /\ ~Due(d, ch)'
      BY <1>1, <2>2 DEF Connect, Knowing, Known, Due, MirrorShapes
    <3>2. view'[d].log[ch] \in {view[d].log[ch], <<>>}
      BY <2>2, BlankParts DEF Connect, MirrorShapes
    <3> QED BY <1>1, <2>1, <3>1, <3>2, ForetoldIdle
  <2>3. CASE d # c
    <3>1. wire'[d] = wire[d] /\ view'[d] = view[d] /\ Due(d, ch)' = Due(d, ch)
      BY <1>1, <2>3 DEF Connect, MirrorShapes, Due
    <3>2. \A s \in Seq(Nat) : Due(d, ch)' /\ (Due(d, ch) => Ends(log[ch], s)) => Ends(log'[ch], s)
      BY <1>1, <3>1
    <3> QED BY <1>1, <2>1, <3>1, <3>2, ForetoldKept
  <2> QED BY <2>2, <2>3
<1> QED BY <1>2, <1>3 DEF ChatInv

LEMMA ChatGreet ==
  ASSUME MirrorShapes, Knowing, ChatInv, NEW c \in Clients, Greet(c) PROVE ChatInv'
<1>1. UNCHANGED <<log, view, member, gap, events>>
  BY DEF Greet, serverVars, Quietly
<1>2. LogsRise'
  BY <1>1, LogsKept DEF ChatInv
<1>3. ASSUME NEW d \in Clients, NEW ch \in Channels PROVE Foretold(d, ch)'
  <2>1. Foretold(d, ch) /\ LogsRise
    BY DEF ChatInv
  <2>2. CASE d = c
    BY <2>1, <2>2, ForetoldGreeted
  <2>3. CASE d # c
    <3>1. wire'[d] = wire[d] /\ view'[d] = view[d] /\ Due(d, ch)' = Due(d, ch)
      BY <1>1, <2>3 DEF Greet, MirrorShapes, Due
    <3>2. \A s \in Seq(Nat) : Due(d, ch)' /\ (Due(d, ch) => Ends(log[ch], s)) => Ends(log'[ch], s)
      BY <1>1, <3>1
    <3> QED BY <1>1, <2>1, <3>1, <3>2, ForetoldKept
  <2> QED BY <2>2, <2>3
<1> QED BY <1>2, <1>3 DEF ChatInv

LEMMA ChatLose ==
  ASSUME MirrorShapes, ChatInv, NEW c \in Clients, Lose(c) PROVE ChatInv'
<1>1. UNCHANGED <<log, view, member, gap>> /\ events' = events + 1
  BY DEF Lose, serverVars, Event
<1>2. LogsRise'
  BY <1>1, LogsKept DEF ChatInv
<1>3. ASSUME NEW d \in Clients, NEW ch \in Channels PROVE Foretold(d, ch)'
  <2>1. Foretold(d, ch)
    BY DEF ChatInv
  <2>2. CASE d = c
    <3>1. wire'[d] = <<>> /\ ~Due(d, ch)'
      BY <2>2 DEF Lose, Due, MirrorShapes
    <3> QED BY <1>1, <2>1, <3>1, ForetoldIdle
  <2>3. CASE d # c
    <3>1. wire'[d] = wire[d] /\ view'[d] = view[d] /\ Due(d, ch)' = Due(d, ch)
      BY <1>1, <2>3 DEF Lose, MirrorShapes, Due
    <3>2. \A s \in Seq(Nat) : Due(d, ch)' /\ (Due(d, ch) => Ends(log[ch], s)) => Ends(log'[ch], s)
      BY <1>1, <3>1
    <3> QED BY <1>1, <2>1, <3>1, <3>2, ForetoldKept
  <2> QED BY <2>2, <2>3
<1> QED BY <1>2, <1>3 DEF ChatInv

LEMMA ChatTake ==
  ASSUME MirrorShapes, ChatInv, NEW c \in Clients, Take(c) PROVE ChatInv'
<1>1. UNCHANGED <<log, member, link, gap, events>>
  BY DEF Take, serverVars, linkVars, Quietly
<1>2. LogsRise'
  BY <1>1, LogsKept DEF ChatInv
<1>3. /\ wire[c] # <<>> /\ view' = [view EXCEPT ![c] = view'[c]]
      /\ \A ch \in Channels : view'[c].log[ch] = After(view[c].log[ch], Head(wire[c]), ch)
  BY TakeParts
<1>4. Head(wire[c]) = wire[c][1]
  BY WireParts, <1>3 DEF MirrorShapes
<1>5. ASSUME NEW d \in Clients, NEW ch \in Channels PROVE Foretold(d, ch)'
  <2>1. Foretold(d, ch) /\ Due(d, ch)' = Due(d, ch)
    BY <1>1 DEF ChatInv, Due
  <2>2. CASE d = c
    <3>1. wire'[d] = Tail(wire[d]) /\ wire[d] # <<>>
      BY <1>3, <2>2 DEF Take, MirrorShapes
    <3>2. view'[d].log[ch] = After(view[d].log[ch], wire[d][1], ch)
      BY <1>3, <1>4, <2>2
    <3> QED BY <1>1, <2>1, <3>1, <3>2, ForetoldTaken
  <2>3. CASE d # c
    <3>1. wire'[d] = wire[d]
      BY <2>3 DEF Take, MirrorShapes
    <3>2. view'[d] = view[d]
      BY <1>3, <2>3 DEF MirrorShapes
    <3>3. \A s \in Seq(Nat) : Due(d, ch)' /\ (Due(d, ch) => Ends(log[ch], s)) => Ends(log'[ch], s)
      BY <1>1, <2>1
    <3> QED BY <1>1, <2>1, <3>1, <3>2, <3>3, ForetoldKept
  <2> QED BY <2>2, <2>3
<1> QED BY <1>2, <1>5 DEF ChatInv

LEMMA ChatRestart == ASSUME MirrorShapes, ChatInv, Restart PROVE ChatInv'
<1>1. \A ch \in Channels : log'[ch] = <<>>
  BY DEF Restart
<1>2. LogsRise'
  BY <1>1, RisingEmpty DEF LogsRise
<1>3. ASSUME NEW d \in Clients, NEW ch \in Channels PROVE Foretold(d, ch)'
  <2>1. Foretold(d, ch) /\ events' = events /\ view' = view
    BY DEF ChatInv, Restart
  <2>2. wire'[d] = <<>> /\ ~Due(d, ch)'
    BY DEF Restart, Due
  <2> QED BY <2>1, <2>2, ForetoldIdle
<1> QED BY <1>2, <1>3 DEF ChatInv

LEMMA ChatSay ==
  ASSUME MirrorShapes, Knowing, ChatInv, NEW c \in Clients, NEW said \in Channels, Say(c, said)
  PROVE  ChatInv'
<1> DEFINE id == events + 1
           kept == Append(log[said], id)
           to == {d \in Clients : Known(d) /\ member[d] # Outside /\ said \in member[d]}
           m == [kind |-> "chat:message", channel |-> said, id |-> id]
<1>1. /\ events \in Nat /\ events' = id /\ id \in Nat /\ UNCHANGED <<view, member, link, gap>>
      /\ log[said] \in Seq(Nat) /\ Rising(log[said], events)
  BY DEF Say, Event, linkVars, MirrorShapes, ChatInv, LogsRise
<1>2. /\ m \in Messages /\ m.kind = "chat:message" /\ m.channel = said /\ m.id = id
  BY <1>1 DEF Messages
<1>3. wire' = Sent(wire, to, m) /\ wire \in [Clients -> Seq(Messages)]
      /\ log' = [log EXCEPT ![said] = IF Len(kept) > Window THEN Tail(kept) ELSE kept]
  BY DEF Say, MirrorShapes
<1> HIDE DEF m
<1>4. \A d \in Clients : wire'[d] = IF d \in to THEN Append(wire[d], m) ELSE wire[d]
  BY <1>2, <1>3, SentParts
<1>5. kept \in Seq(Nat) /\ Rising(kept, id) /\ kept # <<>>
  <2>1. kept \in Seq(Nat) /\ Rising(kept, events + 1)
    BY <1>1, RisingAppend
  <2>2. Len(kept) = Len(log[said]) + 1 /\ Len(log[said]) \in Nat
    BY <1>1
  <2>3. kept # <<>>
    BY <2>1, <2>2
  <2> QED BY <2>1, <2>3
<1>6. Tail(kept) \in Seq(Nat) /\ Rising(Tail(kept), id)
  BY <1>1, <1>5, RisingTail
<1>7. /\ log'[said] \in {kept, Tail(kept)}
      /\ \A ch \in Channels \ {said} : log'[ch] = log[ch]
  BY <1>3 DEF MirrorShapes
<1>8. ASSUME NEW ch \in Channels PROVE Rising(log'[ch], events')
  <2>1. CASE ch = said
    BY <1>1, <1>5, <1>6, <1>7, <2>1
  <2>2. CASE ch # said
    <3>1. Rising(log[ch], events) /\ log[ch] \in Seq(Nat)
      BY DEF ChatInv, LogsRise, MirrorShapes
    <3> QED BY <1>1, <1>7, <2>2, <3>1, RisingMore
  <2> QED BY <2>1, <2>2
<1>9. ASSUME NEW s \in Seq(Nat), Ends(log[said], s) PROVE Ends(log'[said], Append(s, id))
  <2>1. Ends(kept, Append(s, id)) /\ Append(s, id) \in Seq(Nat)
    BY <1>1, <1>9, EndsAppend
  <2>2. Ends(Tail(kept), Append(s, id))
    BY <1>5, <2>1, EndsTail
  <2> QED BY <1>7, <2>1, <2>2
<1> HIDE DEF kept
<1>10. ASSUME NEW d \in Clients, NEW ch \in Channels PROVE Foretold(d, ch)'
  <2>1. Foretold(d, ch) /\ Due(d, ch)' = Due(d, ch) /\ view'[d] = view[d]
    BY <1>1 DEF ChatInv, Due
  <2>2. CASE d \in to
    <3>1. wire'[d] = Append(wire[d], m)
      BY <1>4, <2>2
    <3>2. ASSUME NEW s \in Seq(Nat), Rising(s, events) PROVE Rising(After(s, m, ch), events')
      <4>1. Rising(s, events + 1) /\ Rising(Append(s, events + 1), events + 1)
        BY <1>1, <3>2, RisingMore, RisingAppend
      <4> QED BY <1>1, <1>2, <4>1 DEF After
    <3>3. ASSUME NEW s \in Seq(Nat), Due(d, ch)', Due(d, ch) => Ends(log[ch], s)
          PROVE  Ends(log'[ch], After(s, m, ch))
      <4>1. Ends(log[ch], s)
        BY <2>1, <3>3
      <4>2. CASE ch = said
        <5>1. After(s, m, ch) = Append(s, id)
          BY <1>2, <4>2 DEF After
        <5> QED BY <1>9, <4>1, <4>2, <5>1
      <4>3. CASE ch # said
        <5>1. After(s, m, ch) = s
          BY <1>2, <4>3 DEF After
        <5> QED BY <1>7, <4>1, <4>3, <5>1
      <4> QED BY <4>2, <4>3
    <3> QED BY <1>1, <1>2, <2>1, <3>1, <3>2, <3>3, ForetoldSent
  <2>3. CASE d \notin to
    <3>1. wire'[d] = wire[d]
      BY <1>4, <2>3
    <3>2. Due(d, ch) => ch # said
      <4>1. Due(d, ch) => Known(d) /\ ch \in member[d] /\ member[d] # Outside
        BY DEF Due, Known, Knowing
      <4> QED BY <2>3, <4>1
    <3>3. ASSUME NEW s \in Seq(Nat), Due(d, ch)', Due(d, ch) => Ends(log[ch], s)
          PROVE  Ends(log'[ch], s)
      BY <1>7, <2>1, <3>2, <3>3
    <3> QED BY <1>1, <2>1, <3>1, <3>3, ForetoldKept
  <2> QED BY <2>2, <2>3
<1>11. LogsRise'
  BY <1>8 DEF LogsRise
<1> QED BY <1>10, <1>11 DEF ChatInv

-----------------------------------------------------------------------------
(* Every client agrees with the server once it took what it was sent *)

MirrorInv ==
  /\ MirrorShapes /\ Knowing /\ RecordingInv
  /\ TallyFollows /\ RecordingFollows /\ ChatInv

LEMMA InitMirror == Init => MirrorInv
<1>1. Init => TallyFollows /\ RecordingFollows
  BY DEF Init, TallyFollows, RecordingFollows
<1> QED BY <1>1, InitShapes, InitRecording, InitChat DEF MirrorInv

LEMMA StepClient ==
  ASSUME MirrorInv, NEW c \in Clients,
         \/ Connect(c) \/ Attach(c) \/ Greet(c) \/ Lose(c) \/ CleanUp(c) \/ Refresh(c) \/ Take(c)
  PROVE  MirrorShapes' /\ Knowing' /\ TallyFollows' /\ RecordingFollows' /\ ChatInv'
<1> USE DEF MirrorInv
<1>1. CASE Connect(c)
  <2>1. UNCHANGED <<tally, active, ops, wire>>
        /\ \A d \in Clients : link'[d] = "up" => link[d] = "up" /\ view'[d] = view[d]
    BY <1>1 DEF Connect, serverVars, MirrorShapes
  <2> QED BY <1>1, <2>1, ConnectShapes, FollowsQuiet, ChatConnect
<1>2. CASE Attach(c)
  <2>1. /\ UNCHANGED <<tally, active, ops, wire, view, log, events>>
        /\ \A d \in Clients : link'[d] = "up" => link[d] = "up"
    BY <1>2 DEF Attach, MirrorShapes, Quietly
  <2>2. \A d \in Clients, ch \in Channels : Due(d, ch)' => Due(d, ch)
    BY <1>2 DEF Attach, MirrorShapes, Due
  <2> QED BY <1>2, <2>1, <2>2, AttachShapes, FollowsQuiet, ChatQuiet
<1>3. CASE Greet(c)
  BY <1>3, GreetShapes, FollowsGreet, ChatGreet
<1>4. CASE Lose(c)
  <2>1. /\ UNCHANGED <<tally, active, ops, view>>
        /\ \A d \in Clients : link'[d] = "up" => link[d] = "up" /\ wire'[d] = wire[d]
    BY <1>4 DEF Lose, serverVars, MirrorShapes
  <2> QED BY <1>4, <2>1, LoseShapes, FollowsQuiet, ChatLose
<1>5. CASE CleanUp(c)
  <2>1. UNCHANGED <<tally, active, ops, wire, view, link, log, events>>
    BY <1>5 DEF CleanUp, Quietly
  <2>2. \A d \in Clients, ch \in Channels : Due(d, ch)' => Due(d, ch)
    BY <1>5 DEF CleanUp, MirrorShapes, Due, Known
  <2> QED BY <1>5, <2>1, <2>2, CleanUpShapes, FollowsQuiet, ChatQuiet
<1>6. CASE Refresh(c)
  <2>1. UNCHANGED <<tally, active, ops, wire, view, link, log, events>>
    BY <1>6 DEF Refresh, Quietly
  <2>2. \A d \in Clients, ch \in Channels : Due(d, ch)' => Due(d, ch)
    BY <1>6 DEF Refresh, MirrorShapes, Due
  <2> QED BY <1>6, <2>1, <2>2, RefreshShapes, FollowsQuiet, ChatQuiet
<1>7. CASE Take(c)
  BY <1>7, TakeShapes, FollowsTake, ChatTake
<1> QED BY <1>1, <1>2, <1>3, <1>4, <1>5, <1>6, <1>7

LEMMA StepTally ==
  ASSUME MirrorInv,
         \/ \E scene \in Scenes : Cut(scene) \/ Preset(scene)
         \/ ObsConnects \/ ObsAnswers \/ ObsDrops
         \/ \E lamp \in Lamps, state \in {"program", "preview", "none"} : HandleTSLPacket(lamp, state)
  PROVE  MirrorShapes' /\ Knowing' /\ TallyFollows' /\ RecordingFollows' /\ ChatInv'
<1>1. MirrorShapes /\ Knowing /\ TallyFollows /\ RecordingFollows /\ ChatInv
  BY DEF MirrorInv
<1>2. /\ MirrorShapes' /\ Knowing'
      /\ \/ UNCHANGED <<tally, wire>>
         \/ TallyUpdate(tally') \in Messages /\ Broadcast(TallyUpdate(tally'))
      /\ UNCHANGED <<member, log, active, ops, linkVars, view>>
      /\ events' \in {events, events + 1}
  BY <1>1, TallyShapes
<1>3. TallyFollows' /\ RecordingFollows'
  BY <1>1, <1>2, FollowsTally
<1>4. UNCHANGED <<log, view, member, link, gap>>
      /\ \A c \in Clients, ch \in Channels : Due(c, ch)' => Due(c, ch)
  BY <1>2 DEF linkVars, Due
<1>5. CASE UNCHANGED <<tally, wire>>
  BY <1>1, <1>2, <1>3, <1>4, <1>5, ChatQuiet
<1>6. CASE TallyUpdate(tally') \in Messages /\ Broadcast(TallyUpdate(tally'))
  <2>1. TallyUpdate(tally').kind \notin {"chat:history", "chat:message"}
    BY DEF TallyUpdate
  <2> QED BY <1>1, <1>2, <1>3, <1>4, <1>6, <2>1, ChatBroadcast
<1> QED BY <1>2, <1>5, <1>6

LEMMA StepRecordings ==
  ASSUME MirrorInv,
         \/ \E ch \in Channels : StartRecording(ch) \/ StopRecording(ch)
         \/ \E op \in ops : OpenStream(op) \/ EndStream(op)
         \/ \E n \in DOMAIN streams : StreamFails(n)
  PROVE  MirrorShapes' /\ Knowing' /\ TallyFollows' /\ RecordingFollows' /\ ChatInv'
<1>1. MirrorShapes /\ Knowing /\ RecordingInv /\ TallyFollows /\ RecordingFollows /\ ChatInv
  BY DEF MirrorInv
<1>2. /\ MirrorShapes' /\ Knowing'
      /\ \/ RecordingState(Recording') \in Messages /\ Broadcast(RecordingState(Recording'))
         \/ UNCHANGED <<wire, active>> /\ ops \subseteq ops'
         \/ UNCHANGED wire /\ \E op \in ops' : op.kind = "stop"
      /\ UNCHANGED <<granted, member, log, tally, linkVars, view>>
      /\ events' \in {events, events + 1}
  BY <1>1, RecordingSteps
<1>3. TallyFollows' /\ RecordingFollows'
  BY <1>1, <1>2, FollowsRecording
<1>4. UNCHANGED <<log, view, member, link, gap>>
      /\ \A c \in Clients, ch \in Channels : Due(c, ch)' => Due(c, ch)
  BY <1>2 DEF linkVars, Due
<1>5. CASE UNCHANGED wire
  BY <1>1, <1>2, <1>3, <1>4, <1>5, ChatQuiet
<1>6. CASE RecordingState(Recording') \in Messages /\ Broadcast(RecordingState(Recording'))
  <2>1. RecordingState(Recording').kind \notin {"chat:history", "chat:message"}
    BY DEF RecordingState
  <2> QED BY <1>1, <1>2, <1>3, <1>4, <1>6, <2>1, ChatBroadcast
<1> QED BY <1>2, <1>5, <1>6

LEMMA StepMirror == MirrorInv /\ [Next]_vars => MirrorInv'
<1> SUFFICES ASSUME MirrorInv, [Next]_vars
             PROVE  MirrorShapes' /\ Knowing' /\ TallyFollows' /\ RecordingFollows' /\ ChatInv'
  BY StepRecording DEF MirrorInv
<1>1. CASE UNCHANGED vars
  <2>1. UNCHANGED <<granted, member, log, obs, tally, active, streams, ops, link, old, gap, wire, view, events>>
    BY <1>1 DEF vars, serverVars, linkVars
  <2>2. MirrorShapes' /\ Knowing'
    BY <2>1 DEF MirrorInv, MirrorShapes, Knowing, Known
  <2>3. TallyFollows' /\ RecordingFollows'
    BY <2>1, FollowsQuiet DEF MirrorInv
  <2>4. \A c \in Clients, ch \in Channels : Due(c, ch)' => Due(c, ch)
    BY <2>1 DEF Due
  <2> QED BY <2>1, <2>2, <2>3, <2>4, ChatQuiet DEF MirrorInv
<1>2. CASE \E c \in Clients : \/ Connect(c) \/ Attach(c) \/ Greet(c) \/ Lose(c) \/ CleanUp(c)
                              \/ Refresh(c) \/ Take(c)
  BY <1>2, StepClient
<1>3. ASSUME NEW c \in Clients, NEW channels \in SUBSET Channels, Grant(c, channels)
      PROVE  MirrorShapes' /\ Knowing' /\ TallyFollows' /\ RecordingFollows' /\ ChatInv'
  <2>1. /\ UNCHANGED <<member, log, obs, tally, active, streams, ops, link, old, gap, wire, view>>
        /\ events' = events + 1
    BY <1>3 DEF Grant, serverVars, linkVars, Event
  <2>2. granted' \in [Clients -> SUBSET Channels]
    BY <1>3 DEF Grant, MirrorInv, MirrorShapes
  <2>3. MirrorShapes' /\ Knowing'
    BY <2>1, <2>2 DEF MirrorInv, MirrorShapes, Knowing, Known
  <2>4. TallyFollows' /\ RecordingFollows'
    BY <2>1, FollowsQuiet DEF MirrorInv
  <2>5. \A d \in Clients, ch \in Channels : Due(d, ch)' => Due(d, ch)
    BY <2>1 DEF Due
  <2> QED BY <2>1, <2>3, <2>4, <2>5, ChatQuiet DEF MirrorInv
<1>4. CASE \E c \in Clients, ch \in Channels : Say(c, ch)
  BY <1>4, SayShapes, FollowsSay, ChatSay DEF MirrorInv
<1>5. CASE \/ \E scene \in Scenes : Cut(scene) \/ Preset(scene)
           \/ ObsConnects \/ ObsAnswers \/ ObsDrops
           \/ \E lamp \in Lamps, state \in {"program", "preview", "none"} : HandleTSLPacket(lamp, state)
  BY <1>5, StepTally
<1>6. CASE Restart
  <2>1. TallyFollows' /\ RecordingFollows'
    BY <1>6 DEF Restart, TallyFollows, RecordingFollows
  <2> QED BY <1>6, <2>1, RestartShapes, ChatRestart DEF MirrorInv
<1>7. CASE \/ \E ch \in Channels : StartRecording(ch) \/ StopRecording(ch)
           \/ \E op \in ops : OpenStream(op) \/ EndStream(op)
           \/ \E n \in DOMAIN streams : StreamFails(n)
  BY <1>7, StepRecordings
<1> QED BY <1>1, <1>2, <1>3, <1>4, <1>5, <1>6, <1>7 DEF Next

LEMMA MirrorInvariant == Spec => []MirrorInv
BY InitMirror, StepMirror, PTL DEF Spec

\* A client that took everything it was sent shows the chat in order and up to
\* date, the tally and the recordings of the server, whatever happened while it
\* attached, dropped and came back.
THEOREM ClientsAlwaysAgree == Spec => []ClientsAgree
<1>1. MirrorInv => ClientsAgree
  <2> SUFFICES ASSUME MirrorInv, NEW c \in Clients
               PROVE  /\ ChatAgrees(c)
                      /\ Settled(c) /\ tally # <<>> => view[c].tally = tally
                      /\ Settled(c) /\ ops = {} /\ Recording # {} => view[c].active = Recording
    BY DEF ClientsAgree
  <2>1. MirrorShapes /\ TallyFollows /\ RecordingFollows /\ ChatInv
    BY DEF MirrorInv
  <2>2. Settled(c) => DOMAIN wire[c] = {} /\ Len(wire[c]) = 0 /\ link[c] = "up"
    <3>1. DOMAIN <<>> = {} /\ Len(<<>>) = 0
      OBVIOUS
    <3> QED BY <3>1 DEF Settled
  <2>3. ASSUME NEW ch \in Channels
        PROVE  LET shown == view[c].log[ch] IN
               /\ \A i, j \in DOMAIN shown : i < j => shown[i] < shown[j]
               /\ Settled(c) /\ ch \in member[c] \ gap[c] => IsSuffix(log[ch], shown)
    <3>1. /\ wire[c] \in Seq(Messages) /\ Len(wire[c]) \in Nat /\ view[c].log[ch] \in Seq(Nat)
          /\ log[ch] \in Seq(Nat)
      BY <2>1, WireParts
    <3>2. PICK h \in [0..Len(wire[c]) -> Seq(Nat)] :
            /\ h[0] = view[c].log[ch]
            /\ \A i \in 0..Len(wire[c]) : Rising(h[i], events)
            /\ Due(c, ch) => Ends(log[ch], h[Len(wire[c])])
      BY <2>1 DEF ChatInv, Foretold, Foretells
    <3>3. Rising(view[c].log[ch], events)
      <4>1. 0 \in 0..Len(wire[c])
        BY <3>1
      <4> QED BY <3>2, <4>1
    <3>4. ASSUME Settled(c), ch \in member[c] \ gap[c] PROVE IsSuffix(log[ch], view[c].log[ch])
      <4>1. Ends(log[ch], view[c].log[ch])
        BY <2>2, <3>2, <3>4 DEF Due
      <4> QED BY <3>1, <4>1, EndsSuffix
    <3> QED BY <3>3, <3>4 DEF Rising
  <2>4. ASSUME Settled(c), tally # <<>> PROVE view[c].tally = tally
    BY <2>1, <2>2, <2>4 DEF TallyFollows, Latest
  <2>5. ASSUME Settled(c), ops = {}, Recording # {} PROVE view[c].active = Recording
    BY <2>1, <2>2, <2>5 DEF RecordingFollows, Latest
  <2> QED BY <2>3, <2>4, <2>5 DEF ChatAgrees
<1> QED BY <1>1, MirrorInvariant, PTL
=============================================================================
