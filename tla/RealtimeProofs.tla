---------------------------- MODULE RealtimeProofs ----------------------------
(***************************************************************************)
(* What holds of the realtime service for any number of sockets, tokens    *)
(* and users and a queue of any length: the state stays well typed, no     *)
(* session outlives its connections, and the directory knows every live    *)
(* connection.                                                             *)
(***************************************************************************)
EXTENDS Realtime, SequenceTheorems, FiniteSetTheorems, TLAPS

-----------------------------------------------------------------------------
(* The queue *)

\* An operation of the queue is one of the four kinds.
LEMMA OperationKinds ==
  ASSUME NEW op \in Operation
  PROVE  /\ op.kind = "attach" => op.socket \in Sockets
         /\ op.kind = "detach" => op.token \in Tokens /\ op.reason \in Reasons
         /\ op.kind = "refresh" => op.users \in SUBSET Users
         /\ op.kind = "command" => op.token \in Tokens
<1>1. CASE op \in [kind : {"attach"}, socket : Sockets]  BY <1>1
<1>2. CASE op \in [kind : {"detach"}, token : Tokens, reason : Reasons]  BY <1>2
<1>3. CASE op \in [kind : {"refresh"}, users : SUBSET Users]  BY <1>3
<1>4. CASE op \in [kind : {"command"}, token : Tokens]  BY <1>4
<1> QED BY <1>1, <1>2, <1>3, <1>4 DEF Operation

\* An order of tokens is a sequence of all of them.
LEMMA OrdersAreSequences ==
  ASSUME RealtimeAssumption, NEW T \in SUBSET Tokens, NEW order \in Orders(T)
  PROVE  /\ order \in Seq(T)
         /\ DOMAIN order = 1..Len(order)
         /\ \A t \in T : \E i \in 1..Len(order) : order[i] = t
<1>1. IsFiniteSet(T)
  BY FS_Subset DEF RealtimeAssumption
<1>2. Cardinality(T) \in Nat
  BY <1>1, FS_CardinalityType
<1>3. order \in [1..Cardinality(T) -> T] /\ {order[i] : i \in DOMAIN order} = T
  BY DEF Orders
<1>4. order \in Seq(T) /\ Len(order) = Cardinality(T)
  BY <1>2, <1>3
<1> QED BY <1>3, <1>4

\* The detaches queued for an order of tokens.
LEMMA DetachesAreOperations ==
  ASSUME RealtimeAssumption, NEW T \in SUBSET Tokens, NEW order \in Orders(T),
         NEW reason \in Reasons
  PROVE  /\ Detaches(order, reason) \in Seq(Operation)
         /\ Len(Detaches(order, reason)) = Len(order)
         /\ \A i \in 1..Len(order) : /\ Detaches(order, reason)[i].kind = "detach"
                                     /\ Detaches(order, reason)[i].token = order[i]
<1> DEFINE ops == Detaches(order, reason)
<1>1. order \in Seq(T) /\ DOMAIN order = 1..Len(order) /\ Len(order) \in Nat
  BY OrdersAreSequences
<1>2. \A i \in 1..Len(order) : DetachOp(order[i], reason) \in Operation
  <2> SUFFICES ASSUME NEW i \in 1..Len(order) PROVE DetachOp(order[i], reason) \in Operation
    OBVIOUS
  <2>1. order[i] \in Tokens
    BY <1>1
  <2> QED BY <2>1 DEF DetachOp, Operation
<1>3. ops \in [1..Len(order) -> Operation]
  BY <1>1, <1>2 DEF Detaches
<1>4. ops \in Seq(Operation) /\ Len(ops) = Len(order)
  BY <1>1, <1>3
<1> QED BY <1>1, <1>4 DEF DetachOp, Detaches

\* Whatever is appended, the detaches that were queued stay queued.
LEMMA AppendKeepsDetaches ==
  ASSUME queue \in Seq(Operation), NEW ops \in Seq(Operation), queue' = queue \o ops,
         NEW t, DetachQueued(t)
  PROVE  DetachQueued(t)'
<1>1. PICK i \in DOMAIN queue : queue[i].kind = "detach" /\ queue[i].token = t
  BY DEF DetachQueued
<1>2. queue'[i] = queue[i] /\ i \in DOMAIN queue'
  BY <1>1, ConcatProperties, LenProperties
<1> QED BY <1>1, <1>2 DEF DetachQueued

\* One operation appended is a sequence appended.
LEMMA AppendKeepsDetach ==
  ASSUME queue \in Seq(Operation), NEW op \in Operation, queue' = Append(queue, op),
         NEW t, DetachQueued(t)
  PROVE  DetachQueued(t)'
<1>1. PICK i \in DOMAIN queue : queue[i].kind = "detach" /\ queue[i].token = t
  BY DEF DetachQueued
<1>2. queue'[i] = queue[i] /\ i \in DOMAIN queue'
  BY <1>1
<1> QED BY <1>1, <1>2 DEF DetachQueued

\* Only the operation that runs leaves the queue.
LEMMA DequeueKeepsOthers ==
  ASSUME queue \in Seq(Operation), NEW kind, Dequeue(kind), NEW t, DetachQueued(t),
         ~(kind = "detach" /\ Head(queue).token = t)
  PROVE  DetachQueued(t)'
<1>1. PICK i \in DOMAIN queue : queue[i].kind = "detach" /\ queue[i].token = t
  BY DEF DetachQueued
<1>2. i # 1
  BY <1>1 DEF Dequeue
<1>3. queue # <<>> /\ queue' = Tail(queue)
  BY DEF Dequeue
<1>4. Len(Tail(queue)) = Len(queue) - 1 /\ Tail(queue) \in Seq(Operation)
      /\ \A j \in 1..Len(Tail(queue)) : Tail(queue)[j] = queue[j + 1]
  BY <1>3, HeadTailProperties
<1>5. i - 1 \in 1..Len(Tail(queue)) /\ Tail(queue)[i - 1] = queue[i]
  BY <1>1, <1>2, <1>4, LenProperties
<1>6. i - 1 \in DOMAIN queue' /\ queue'[i - 1] = queue[i]
  BY <1>3, <1>4, <1>5, LenProperties
<1> QED BY <1>1, <1>6 DEF DetachQueued

\* The operation that runs is an operation, and so is what remains.
LEMMA DequeueType ==
  ASSUME queue \in Seq(Operation), NEW kind, Dequeue(kind)
  PROVE  /\ Head(queue) \in Operation /\ Head(queue).kind = kind
         /\ queue' \in Seq(Operation)
BY HeadTailProperties DEF Dequeue

-----------------------------------------------------------------------------
(* Cleanup *)

\* What the cleanup of some sockets does: registry, directory and queue keep
\* their types, queued detaches stay, and each token that loses its last
\* registered socket gets one.
LEMMA CleanupWorks ==
  ASSUME TypeOK, NEW S \in SUBSET Sockets, NEW reason \in Reasons, Cleanup(S, reason)
  PROVE  /\ registered' \subseteq Sockets /\ alive' \subseteq registered'
         /\ directory' \subseteq Tokens
         /\ queue' \in Seq(Operation)
         /\ \A t : DetachQueued(t) => DetachQueued(t)'
         /\ \A t \in LastOf(S) : DetachQueued(t)'
<1>1. registered' \subseteq Sockets /\ alive' \subseteq registered' /\ directory' \subseteq Tokens
  BY DEF TypeOK, Cleanup
<1>2. LastOf(S) \in SUBSET Tokens
  BY DEF TypeOK, LastOf
<1>3. PICK order \in Orders(LastOf(S)) :
        queue' = queue \o Detaches(order, reason)
  BY DEF Cleanup
<1> DEFINE ops == Detaches(order, reason)
<1>4. /\ ops \in Seq(Operation) /\ Len(ops) = Len(order)
      /\ \A i \in 1..Len(order) : ops[i].kind = "detach" /\ ops[i].token = order[i]
  BY <1>2, DetachesAreOperations, RealtimeAssumption
<1>5. /\ Len(order) \in Nat
      /\ \A t \in LastOf(S) : \E i \in 1..Len(order) : order[i] = t
  BY <1>2, OrdersAreSequences, RealtimeAssumption
<1>6. queue \in Seq(Operation) /\ queue' = queue \o ops
  BY <1>3 DEF TypeOK
<1> HIDE DEF ops
<1>7. queue' \in Seq(Operation)
  BY <1>4, <1>6, ConcatProperties
<1>8. \A t : DetachQueued(t) => DetachQueued(t)'
  BY <1>4, <1>6, AppendKeepsDetaches
<1>9. ASSUME NEW t \in LastOf(S) PROVE DetachQueued(t)'
  <2>1. PICK i \in 1..Len(order) : order[i] = t
    BY <1>5
  <2>2. Len(queue) + i \in 1..Len(queue) + Len(ops) /\ Len(queue) \in Nat
    BY <1>4, <1>5, <1>6, LenProperties
  <2>3. queue'[Len(queue) + i] = ops[i] /\ Len(queue') = Len(queue) + Len(ops)
    <3>1. /\ Len(queue \o ops) = Len(queue) + Len(ops)
          /\ \A j \in 1..Len(queue) + Len(ops) :
               (queue \o ops)[j] = IF j <= Len(queue) THEN queue[j] ELSE ops[j - Len(queue)]
      <4>1. queue \in Seq(Operation) /\ ops \in Seq(Operation)
        BY <1>4, <1>6
      <4> QED BY <4>1, ConcatProperties, Zenon
    <3>2. ~(Len(queue) + i <= Len(queue)) /\ (Len(queue) + i) - Len(queue) = i
      BY <1>5, <2>2
    <3> QED BY <1>6, <2>2, <3>1, <3>2
  <2>4. Len(queue) + i \in DOMAIN queue'
    BY <1>7, <2>2, <2>3, LenProperties
  <2> QED BY <1>4, <2>1, <2>3, <2>4 DEF DetachQueued
<1> QED BY <1>1, <1>7, <1>8, <1>9

-----------------------------------------------------------------------------
(* Types *)

LEMMA TypeInit == Init => TypeOK
BY EmptySeq DEF Init, TypeOK

\* Closing handshakes change no other socket's state.
LEMMA ShutType ==
  ASSUME TypeOK, NEW S
  PROVE  Shut(S) \in [Sockets -> {"unused", "open", "closing", "closed"}]
BY DEF TypeOK, Shut

LEMMA TypeSocketCloses ==
  ASSUME TypeOK, NEW s \in Sockets, SocketCloses(s) PROVE TypeOK'
<1> DEFINE revoked == s \in registered /\ token[s] \in kicked
<1>1. PICK reason \in Reasons : Cleanup({s}, reason)
  <2>1. CASE revoked  BY <2>1 DEF SocketCloses, Reasons
  <2>2. CASE ~revoked  BY <2>2 DEF SocketCloses, Reasons
  <2> QED BY <2>1, <2>2
<1>2. registered' \subseteq Sockets /\ alive' \subseteq registered'
      /\ directory' \subseteq Tokens /\ queue' \in Seq(Operation)
  BY <1>1, CleanupWorks
<1> QED BY <1>2 DEF TypeOK, SocketCloses, authority, applying, sessions

LEMMA TypeDisconnect ==
  ASSUME TypeOK, NEW S \in SUBSET Sockets, NEW reason \in Reasons, Disconnect(S, reason),
         store' \subseteq Tokens, accounts' \subseteq Users
  PROVE  TypeOK'
<1>1. registered' \subseteq Sockets /\ alive' \subseteq registered'
      /\ directory' \subseteq Tokens /\ queue' \in Seq(Operation)
  BY CleanupWorks DEF Disconnect
<1> QED BY <1>1 DEF TypeOK, Disconnect, applying, sessions

LEMMA TypeShutdown == ASSUME TypeOK, Shutdown PROVE TypeOK'
<1>1. registered \in SUBSET Sockets /\ Cleanup(registered, "shutdown") /\ "shutdown" \in Reasons
  BY DEF TypeOK, Shutdown, Reasons
<1>2. registered' \subseteq Sockets /\ alive' \subseteq registered'
      /\ directory' \subseteq Tokens /\ queue' \in Seq(Operation)
  BY <1>1, CleanupWorks
<1> QED BY <1>2, ShutType DEF TypeOK, Shutdown, authority, applying, sessions

\* The REST handlers that disconnect.
LEMMA TypeRevocations ==
  ASSUME TypeOK,
         \/ \E t \in Tokens : Logout(t)
         \/ \E u \in Users : DeleteUser(u) \/ KickUser(u)
         \/ WorkerRestarts
  PROVE  TypeOK'
<1> USE DEF Reasons
<1>1. ASSUME NEW t \in Tokens, Logout(t) PROVE TypeOK'
  <2>1. SocketsOf(t) \in SUBSET Sockets  BY DEF TypeOK, SocketsOf
  <2> QED BY <1>1, <2>1, TypeDisconnect DEF Logout, TypeOK
<1>2. ASSUME NEW u \in Users PROVE ConnectionsOf(u) \in SUBSET Sockets
  BY DEF TypeOK, ConnectionsOf
<1>3. ASSUME NEW u \in Users, DeleteUser(u) PROVE TypeOK'
  BY <1>2, <1>3, TypeDisconnect DEF DeleteUser, TypeOK
<1>4. ASSUME NEW u \in Users, KickUser(u) PROVE TypeOK'
  BY <1>2, <1>4, TypeDisconnect DEF KickUser, TypeOK, authority
<1>5. ASSUME WorkerRestarts PROVE TypeOK'
  <2>1. {s \in registered : token[s] # None} \in SUBSET Sockets  BY DEF TypeOK
  <2> QED BY <1>5, <2>1, TypeDisconnect DEF WorkerRestarts, TypeOK, authority
<1> QED BY <1>1, <1>3, <1>4, <1>5

\* Appended operations.
LEMMA TypeEnqueue ==
  ASSUME TypeOK, NEW op \in Operation
  PROVE  Append(queue, op) \in Seq(Operation)
BY DEF TypeOK

LEMMA TypeConnectionEvent ==
  ASSUME TypeOK, NEW s \in Sockets, ConnectionEvent(s) PROVE TypeOK'
<1>1. CASE Connect(s)
  BY <1>1 DEF TypeOK, Connect, authority, applying, sessions, marks
<1>2. CASE Resolved(s)
  <2>1. AttachOp(s) \in Operation  BY DEF AttachOp, Operation
  <2> QED BY <1>2, <2>1, TypeEnqueue DEF TypeOK, Resolved, authority, applying, sessions, marks
<1>3. CASE Command(s)
  <2>1. CommandOp(token[s]) \in Operation
    BY <1>3 DEF TypeOK, Command, CommandOp, Operation
  <2> QED BY <1>3, <2>1, TypeEnqueue
    DEF TypeOK, Command, connections, authority, applying, sessions, marks
<1>4. CASE PeerDies(s)
  BY <1>4 DEF TypeOK, PeerDies, authority, applying, sessions, marks
<1>5. CASE Pong(s)
  BY <1>5 DEF TypeOK, Pong, authority, applying, sessions, marks
<1>6. CASE SocketCloses(s)
  BY <1>6, TypeSocketCloses
<1>7. CASE CloseDoomed(s)
  BY <1>7, ShutType DEF TypeOK, CloseDoomed, authority, applying, sessions, marks
<1>8. ASSUME NEW t \in Tokens, Authenticate(s, t) PROVE TypeOK'
  BY <1>8 DEF TypeOK, Authenticate, authority, applying, sessions, marks
<1> QED BY <1>1, <1>2, <1>3, <1>4, <1>5, <1>6, <1>7, <1>8 DEF ConnectionEvent

LEMMA TypeServerEvent == ASSUME TypeOK, ServerEvent PROVE TypeOK'
<1>1. ASSUME NEW us \in {{u} : u \in Users} \cup {Users}, RequestRefresh(us) PROVE TypeOK'
  <2>1. RefreshOp(us) \in Operation  BY DEF RefreshOp, Operation
  <2> QED BY <1>1, <2>1, TypeEnqueue
    DEF TypeOK, RequestRefresh, connections, authority, applying, sessions, marks
<1>2. CASE Heartbeat
  BY <1>2, ShutType DEF TypeOK, Heartbeat, authority, applying, sessions, marks
<1>3. CASE Shutdown
  BY <1>3, TypeShutdown
<1> QED BY <1>1, <1>2, <1>3, TypeRevocations DEF ServerEvent

LEMMA TypeAttaches == ASSUME TypeOK, AttachDropped \/ Attach \/ AttachRejected PROVE TypeOK'
<1> DEFINE s == Head(queue).socket
<1>1. queue \in Seq(Operation) /\ Dequeue("attach")
  BY DEF TypeOK, AttachDropped, Attach, AttachRejected
<1>2. s \in Sockets /\ queue' \in Seq(Operation)
  BY <1>1, DequeueType, OperationKinds
<1> DEFINE t == claim[s]
<1>3. CASE AttachDropped
  BY <1>2, <1>3 DEF TypeOK, AttachDropped, authority, applying, sessions, marks
<1>4. CASE Attach
  <2>1. t \in Tokens
    BY <1>2, <1>4 DEF TypeOK, Attach, Revocable, RealtimeAssumption
  <2> QED BY <1>2, <1>4, <2>1 DEF TypeOK, Attach, authority
<1>5. CASE AttachRejected
  <2>1. DisconnectStep(t, {s}) /\ auth' = [auth EXCEPT ![s] = "done"]
    BY <1>5 DEF AttachRejected
  <2>2. directory' \subseteq Tokens /\ kicked' \subseteq Tokens
    BY <2>1 DEF TypeOK, DisconnectStep
  <2>3. sock' \in [Sockets -> {"unused", "open", "closing", "closed"}]
    BY <2>1, ShutType DEF DisconnectStep
  <2> QED BY <1>2, <1>5, <2>1, <2>2, <2>3
    DEF TypeOK, AttachRejected, DisconnectStep, authority, applying, sessions
<1> QED BY <1>3, <1>4, <1>5

LEMMA TypeDetach == ASSUME TypeOK, Detach PROVE TypeOK'
<1>1. queue \in Seq(Operation) /\ Dequeue("detach")
  BY DEF TypeOK, Detach
<1>2. Head(queue).token \in Tokens /\ queue' \in Seq(Operation)
  BY <1>1, DequeueType, OperationKinds
<1> QED BY <1>2 DEF TypeOK, Detach, connections, authority, marks

LEMMA TypeRuns == ASSUME TypeOK, Refresh \/ RunCommand PROVE TypeOK'
<1>1. queue \in Seq(Operation) /\ (Dequeue("refresh") \/ Dequeue("command"))
  BY DEF TypeOK, Refresh, RunCommand
<1>2. queue' \in Seq(Operation)
  BY <1>1, DequeueType
<1>3. CASE Refresh
  BY <1>2, <1>3 DEF TypeOK, Refresh, connections, authority, sessions, marks
<1>4. CASE RunCommand
  BY <1>2, <1>4 DEF TypeOK, RunCommand, connections, authority, sessions, marks
<1> QED BY <1>3, <1>4

LEMMA TypeStepDisconnect ==
  ASSUME TypeOK, NEW t \in Tokens, StepDisconnect(t) PROVE TypeOK'
<1>1. DisconnectStep(t, {})
  BY DEF StepDisconnect
<1>2. directory' \subseteq Tokens /\ kicked' \subseteq Tokens
  BY <1>1 DEF TypeOK, DisconnectStep
<1>3. sock' \in [Sockets -> {"unused", "open", "closing", "closed"}]
  BY <1>1, ShutType DEF DisconnectStep
<1> QED BY <1>1, <1>2, <1>3 DEF TypeOK, StepDisconnect, DisconnectStep, authority, sessions

LEMMA TypeQueueStep == ASSUME TypeOK, QueueStep PROVE TypeOK'
<1>1. ASSUME NEW t \in Tokens, Step(t) PROVE TypeOK'
  BY <1>1 DEF TypeOK, Step, connections, authority, sessions
<1>2. ASSUME NEW ok \in BOOLEAN, MediaAnswers(ok) PROVE TypeOK'
  BY <1>2 DEF TypeOK, MediaAnswers, connections, authority, sessions, marks
<1>3. CASE CloseFailed
  BY <1>3, ShutType DEF TypeOK, CloseFailed, authority, sessions, marks
<1> QED BY <1>1, <1>2, <1>3, TypeAttaches, TypeDetach, TypeRuns, TypeStepDisconnect DEF QueueStep

LEMMA TypeNext == ASSUME TypeOK, [Next]_vars PROVE TypeOK'
<1>1. CASE UNCHANGED vars
  BY <1>1 DEF TypeOK, vars, connections, authority, applying, sessions, marks
<1> QED BY <1>1, TypeConnectionEvent, TypeServerEvent, TypeQueueStep DEF Next

\* Every reachable state of the service is well typed: the variables of
\* service.ts and connections.ts keep their types under every event.
THEOREM ServiceTypeCorrect == Spec => []TypeOK
BY TypeInit, TypeNext, PTL DEF Spec

-----------------------------------------------------------------------------
(* Attaches *)

\* A socket waits for at most one attach.
QueuedOnce ==
  \A i \in DOMAIN queue : queue[i].kind = "attach" =>
    /\ auth[queue[i].socket] = "queued"
    /\ \A j \in DOMAIN queue :
         queue[j].kind = "attach" /\ queue[j].socket = queue[i].socket => j = i

\* A connection that has a token is through with authentication.
TokensAreAuthenticated == \A s \in Sockets : token[s] # None => auth[s] = "done"

AttachInv == QueuedOnce /\ TokensAreAuthenticated

LEMMA AttachInit == Init => AttachInv
BY DEF Init, AttachInv, QueuedOnce, TokensAreAuthenticated

\* Operations of another kind may be appended.
LEMMA AppendKeepsAttaches ==
  ASSUME QueuedOnce, queue \in Seq(Operation), NEW ops \in Seq(Operation),
         \A i \in 1..Len(ops) : ops[i].kind # "attach",
         queue' = queue \o ops, auth' = auth
  PROVE  QueuedOnce'
<1>1. /\ Len(queue \o ops) = Len(queue) + Len(ops)
      /\ \A j \in 1..Len(queue) + Len(ops) :
           (queue \o ops)[j] = IF j <= Len(queue) THEN queue[j] ELSE ops[j - Len(queue)]
  BY ConcatProperties, Zenon
<1>2. /\ DOMAIN queue = 1..Len(queue) /\ Len(queue) \in Nat /\ Len(ops) \in Nat
      /\ DOMAIN queue' = 1..Len(queue) + Len(ops)
  BY <1>1, LenProperties, ConcatProperties
<1>3. ASSUME NEW i \in DOMAIN queue', queue'[i].kind = "attach"
      PROVE  i \in DOMAIN queue /\ queue'[i] = queue[i]
  <2>1. CASE i <= Len(queue)
    BY <1>1, <1>2, <2>1
  <2>2. CASE ~(i <= Len(queue))
    <3>1. i - Len(queue) \in 1..Len(ops) /\ queue'[i] = ops[i - Len(queue)]
      BY <1>1, <1>2, <2>2
    <3> QED BY <1>3, <3>1
  <2> QED BY <2>1, <2>2
<1> QED BY <1>3 DEF QueuedOnce

LEMMA AppendKeepsAttach ==
  ASSUME QueuedOnce, queue \in Seq(Operation), NEW op \in Operation, op.kind # "attach",
         queue' = Append(queue, op), auth' = auth
  PROVE  QueuedOnce'
<1>1. DOMAIN queue' = 1..Len(queue) + 1 /\ DOMAIN queue = 1..Len(queue) /\ Len(queue) \in Nat
  OBVIOUS
<1>2. ASSUME NEW i \in DOMAIN queue', queue'[i].kind = "attach"
      PROVE  i \in DOMAIN queue /\ queue'[i] = queue[i]
  BY <1>1, <1>2
<1> QED BY <1>2 DEF QueuedOnce

\* The next operation may run; an attach is done with its socket then.
LEMMA DequeueKeepsAttaches ==
  ASSUME QueuedOnce, queue \in Seq(Operation), NEW kind, Dequeue(kind),
         \A s \in Sockets :
           auth'[s] = auth[s] \/ (kind = "attach" /\ s = Head(queue).socket)
  PROVE  QueuedOnce'
<1>1. /\ queue # <<>> /\ queue' = Tail(queue) /\ queue[1] = Head(queue)
      /\ Head(queue).kind = kind
  BY DEF Dequeue
<1>2. /\ DOMAIN queue = 1..Len(queue) /\ Len(queue) \in Nat \ {0}
      /\ DOMAIN queue' = 1..Len(queue) - 1
      /\ \A i \in 1..Len(queue) - 1 : queue'[i] = queue[i + 1]
  BY <1>1, HeadTailProperties, LenProperties
<1>3. ASSUME NEW i \in DOMAIN queue', queue'[i].kind = "attach"
      PROVE  /\ auth'[queue'[i].socket] = "queued"
             /\ \A j \in DOMAIN queue' :
                  queue'[j].kind = "attach" /\ queue'[j].socket = queue'[i].socket => j = i
  <2>1. i + 1 \in DOMAIN queue /\ queue'[i] = queue[i + 1] /\ queue[i + 1] \in Operation
    BY <1>2
  <2>2. queue'[i].socket \in Sockets /\ auth[queue'[i].socket] = "queued"
    BY <1>3, <2>1, OperationKinds DEF QueuedOnce
  <2>3. ~(kind = "attach" /\ queue'[i].socket = Head(queue).socket)
    <3>1. 1 \in DOMAIN queue /\ i + 1 # 1
      BY <1>2
    <3> QED BY <1>1, <1>3, <2>1, <3>1 DEF QueuedOnce
  <2>4. ASSUME NEW j \in DOMAIN queue', queue'[j].kind = "attach",
               queue'[j].socket = queue'[i].socket
        PROVE  j = i
    <3>1. j + 1 \in DOMAIN queue /\ queue'[j] = queue[j + 1]
      BY <1>2
    <3>2. j + 1 = i + 1
      BY <1>3, <2>1, <2>4, <3>1 DEF QueuedOnce
    <3> QED BY <1>2, <3>2
  <2> QED BY <2>2, <2>3, <2>4
<1> QED BY <1>3 DEF QueuedOnce

LEMMA AttachCleanup ==
  ASSUME TypeOK, AttachInv, NEW S \in SUBSET Sockets, NEW reason \in Reasons,
         Cleanup(S, reason), auth' = auth,
         \A s \in Sockets : token'[s] \in {token[s], None}
  PROVE  AttachInv'
<1>1. PICK ops \in Seq(Operation) :
        queue' = queue \o ops /\ \A i \in 1..Len(ops) : ops[i].kind = "detach"
  <2>1. LastOf(S) \in SUBSET Tokens
    BY DEF TypeOK, LastOf
  <2>2. PICK order \in Orders(LastOf(S)) : queue' = queue \o Detaches(order, reason)
    BY DEF Cleanup
  <2> DEFINE ops == Detaches(order, reason)
  <2>3. /\ ops \in Seq(Operation) /\ Len(ops) = Len(order)
        /\ \A i \in 1..Len(order) : ops[i].kind = "detach"
    BY <2>1, DetachesAreOperations, RealtimeAssumption
  <2> HIDE DEF ops
  <2>4. \A i \in 1..Len(ops) : ops[i].kind = "detach"
    BY <2>3
  <2> QED BY <2>2, <2>3, <2>4 DEF ops
<1>2. QueuedOnce'
  BY <1>1, AppendKeepsAttaches DEF AttachInv, TypeOK
<1>3. TokensAreAuthenticated'
  BY DEF AttachInv, TokensAreAuthenticated
<1> QED BY <1>2, <1>3 DEF AttachInv

\* Nothing is queued and no connection changes its authentication.
LEMMA AttachKept ==
  ASSUME AttachInv, UNCHANGED <<queue, auth, token>> PROVE AttachInv'
BY DEF AttachInv, QueuedOnce, TokensAreAuthenticated

LEMMA AttachDisconnects ==
  ASSUME TypeOK, AttachInv,
         \/ \E t \in Tokens : Logout(t)
         \/ \E u \in Users : DeleteUser(u) \/ KickUser(u)
         \/ WorkerRestarts
         \/ Shutdown
  PROVE  AttachInv'
<1>1. ASSUME NEW S \in SUBSET Sockets, NEW reason \in Reasons, Disconnect(S, reason)
      PROVE  AttachInv'
  BY <1>1, AttachCleanup DEF Disconnect
<1>2. ASSUME NEW t \in Tokens, Logout(t) PROVE AttachInv'
  <2>1. SocketsOf(t) \in SUBSET Sockets  BY DEF TypeOK, SocketsOf
  <2> QED BY <1>1, <1>2, <2>1 DEF Logout, Reasons
<1>3. ASSUME NEW u \in Users, DeleteUser(u) \/ KickUser(u) PROVE AttachInv'
  <2>1. ConnectionsOf(u) \in SUBSET Sockets  BY DEF TypeOK, ConnectionsOf
  <2> QED BY <1>1, <1>3, <2>1 DEF DeleteUser, KickUser, Reasons
<1>4. ASSUME WorkerRestarts PROVE AttachInv'
  <2>1. {s \in registered : token[s] # None} \in SUBSET Sockets  BY DEF TypeOK
  <2> QED BY <1>1, <1>4, <2>1 DEF WorkerRestarts, Reasons
<1>5. ASSUME Shutdown PROVE AttachInv'
  <2>1. registered \in SUBSET Sockets  BY DEF TypeOK
  <2> QED BY <1>5, <2>1, AttachCleanup DEF Shutdown, Reasons
<1> QED BY <1>2, <1>3, <1>4, <1>5

LEMMA AttachConnectionEvents ==
  ASSUME TypeOK, AttachInv, NEW s \in Sockets, ConnectionEvent(s) PROVE AttachInv'
<1>1. CASE Connect(s)  BY <1>1, AttachKept DEF Connect
<1>2. CASE Resolved(s)
  <2>1. auth' = [auth EXCEPT ![s] = IF Active(s) THEN "queued" ELSE "done"] /\ token' = token
        /\ auth[s] = "resolving"
    BY <1>2 DEF Resolved
  <2>2. TokensAreAuthenticated'
    BY <2>1 DEF TypeOK, AttachInv, TokensAreAuthenticated
  <2>3. \A i \in DOMAIN queue : queue[i].kind = "attach" =>
          queue[i].socket \in Sockets /\ queue[i].socket # s
    <3> SUFFICES ASSUME NEW i \in DOMAIN queue, queue[i].kind = "attach"
                 PROVE  queue[i].socket \in Sockets /\ queue[i].socket # s
      OBVIOUS
    <3>1. queue[i] \in Operation
      BY DEF TypeOK
    <3>2. queue[i].socket \in Sockets
      BY <3>1, OperationKinds
    <3> QED BY <2>1, <3>2 DEF AttachInv, QueuedOnce
  <2>4. CASE ~Active(s)
    <3>1. queue' = queue
      BY <1>2, <2>4 DEF Resolved
    <3>2. QueuedOnce'
      BY <2>1, <2>3, <3>1 DEF TypeOK, AttachInv, QueuedOnce
    <3> QED BY <2>2, <3>2 DEF AttachInv
  <2>5. CASE Active(s)
    <3>1. queue' = Append(queue, AttachOp(s)) /\ AttachOp(s) \in Operation
          /\ AttachOp(s).socket = s /\ auth'[s] = "queued"
      BY <1>2, <2>1, <2>5 DEF Resolved, AttachOp, Operation, TypeOK
    <3>2. /\ DOMAIN queue' = 1..Len(queue) + 1 /\ DOMAIN queue = 1..Len(queue)
          /\ Len(queue) \in Nat /\ queue'[Len(queue) + 1] = AttachOp(s)
          /\ \A i \in DOMAIN queue : queue'[i] = queue[i]
      BY <3>1 DEF TypeOK
    <3>3. \A i \in DOMAIN queue' : i \in DOMAIN queue \/ i = Len(queue) + 1
      BY <3>2
    <3>4. \A r \in Sockets : r # s => auth'[r] = auth[r]
      BY <2>1 DEF TypeOK
    <3>5. QueuedOnce'
      BY <2>3, <3>1, <3>2, <3>3, <3>4 DEF AttachInv, QueuedOnce
    <3> QED BY <2>2, <3>5 DEF AttachInv
  <2> QED BY <2>4, <2>5
<1>3. CASE Command(s)
  <2>1. CommandOp(token[s]) \in Operation /\ CommandOp(token[s]).kind # "attach"
    BY <1>3 DEF TypeOK, Command, CommandOp, Operation
  <2>2. queue' = Append(queue, CommandOp(token[s])) /\ UNCHANGED <<auth, token>>
    BY <1>3 DEF Command, connections
  <2>3. QueuedOnce'
    BY <2>1, <2>2, AppendKeepsAttach DEF TypeOK, AttachInv
  <2> QED BY <2>2, <2>3 DEF AttachInv, TokensAreAuthenticated
<1>4. CASE PeerDies(s)  BY <1>4, AttachKept DEF PeerDies
<1>5. CASE Pong(s)  BY <1>5, AttachKept DEF Pong
<1>6. CASE SocketCloses(s)
  <2>1. PICK reason \in Reasons : Cleanup({s}, reason)
    BY <1>6 DEF SocketCloses, Reasons
  <2>2. \A r \in Sockets : token'[r] \in {token[r], None}
    BY <1>6 DEF SocketCloses, TypeOK
  <2> QED BY <1>6, <2>1, <2>2, AttachCleanup DEF SocketCloses
<1>7. CASE CloseDoomed(s)  BY <1>7, AttachKept DEF CloseDoomed
<1>8. ASSUME NEW t \in Tokens, Authenticate(s, t) PROVE AttachInv'
  <2>1. auth[s] = "no" /\ auth' = [auth EXCEPT ![s] = "resolving"] /\ UNCHANGED <<queue, token>>
    BY <1>8 DEF Authenticate
  <2>2. TokensAreAuthenticated'
    BY <2>1 DEF TypeOK, AttachInv, TokensAreAuthenticated
  <2>3. \A i \in DOMAIN queue : queue[i].kind = "attach" => queue[i].socket \in Sockets
    <3> SUFFICES ASSUME NEW i \in DOMAIN queue, queue[i].kind = "attach"
                 PROVE  queue[i].socket \in Sockets
      OBVIOUS
    <3>1. queue[i] \in Operation
      BY DEF TypeOK
    <3> QED BY <3>1, OperationKinds
  <2>4. QueuedOnce'
    BY <2>1, <2>3 DEF TypeOK, AttachInv, QueuedOnce
  <2> QED BY <2>2, <2>4 DEF AttachInv
<1> QED BY <1>1, <1>2, <1>3, <1>4, <1>5, <1>6, <1>7, <1>8 DEF ConnectionEvent

LEMMA AttachServerEvents == ASSUME TypeOK, AttachInv, ServerEvent PROVE AttachInv'
<1>1. ASSUME NEW us \in {{u} : u \in Users} \cup {Users}, RequestRefresh(us)
      PROVE  AttachInv'
  <2>1. RefreshOp(us) \in Operation /\ RefreshOp(us).kind # "attach"
    BY DEF RefreshOp, Operation
  <2>2. queue' = Append(queue, RefreshOp(us)) /\ UNCHANGED <<auth, token>>
    BY <1>1 DEF RequestRefresh, connections
  <2>3. QueuedOnce'
    BY <2>1, <2>2, AppendKeepsAttach DEF TypeOK, AttachInv
  <2> QED BY <2>2, <2>3 DEF AttachInv, TokensAreAuthenticated
<1>2. CASE Heartbeat  BY <1>2, AttachKept DEF Heartbeat
<1> QED BY <1>1, <1>2, AttachDisconnects DEF ServerEvent

LEMMA AttachQueueSteps == ASSUME TypeOK, AttachInv, QueueStep PROVE AttachInv'
<1> DEFINE s == Head(queue).socket
<1>1. ASSUME AttachDropped \/ Attach \/ AttachRejected PROVE AttachInv'
  <2>1. queue \in Seq(Operation) /\ Dequeue("attach")
    BY <1>1 DEF TypeOK, AttachDropped, Attach, AttachRejected
  <2>2. s \in Sockets
    BY <2>1, DequeueType, OperationKinds
  <2>3. /\ auth' = [auth EXCEPT ![s] = "done"]
        /\ token' = token \/ token' = [token EXCEPT ![s] = claim[s]]
    BY <1>1 DEF AttachDropped, Attach, AttachRejected, DisconnectStep
  <2>4. QueuedOnce'
    BY <2>1, <2>3, DequeueKeepsAttaches DEF TypeOK, AttachInv
  <2>5. TokensAreAuthenticated'
    BY <2>2, <2>3 DEF TypeOK, AttachInv, TokensAreAuthenticated
  <2> QED BY <2>4, <2>5 DEF AttachInv
<1>2. ASSUME NEW kind, Dequeue(kind), UNCHANGED <<auth, token>> PROVE AttachInv'
  <2>1. QueuedOnce'
    BY <1>2, DequeueKeepsAttaches DEF TypeOK, AttachInv
  <2> QED BY <1>2, <2>1 DEF AttachInv, TokensAreAuthenticated
<1>3. ASSUME Detach PROVE AttachInv'  BY <1>2, <1>3 DEF Detach, connections
<1>4. ASSUME Refresh PROVE AttachInv'  BY <1>2, <1>4 DEF Refresh, connections
<1>5. ASSUME RunCommand PROVE AttachInv'  BY <1>2, <1>5 DEF RunCommand, connections
<1>6. ASSUME NEW t \in Tokens, Step(t) PROVE AttachInv'
  BY <1>6, AttachKept DEF Step, connections
<1>7. ASSUME NEW t \in Tokens, StepDisconnect(t) PROVE AttachInv'
  BY <1>7, AttachKept DEF StepDisconnect, DisconnectStep
<1>8. ASSUME NEW ok \in BOOLEAN, MediaAnswers(ok) PROVE AttachInv'
  BY <1>8, AttachKept DEF MediaAnswers, connections
<1>9. ASSUME CloseFailed PROVE AttachInv'  BY <1>9, AttachKept DEF CloseFailed
<1> QED BY <1>1, <1>3, <1>4, <1>5, <1>6, <1>7, <1>8, <1>9 DEF QueueStep

LEMMA AttachNext == ASSUME TypeOK, AttachInv, [Next]_vars PROVE AttachInv'
<1>1. CASE UNCHANGED vars
  BY <1>1, AttachKept DEF vars, connections
<1> QED BY <1>1, AttachConnectionEvents, AttachServerEvents, AttachQueueSteps DEF Next

-----------------------------------------------------------------------------
(* Sessions and connections *)

\* A shutdown empties the registry and nothing enters it again.
ShutdownForgets == closing => registered = {}

\* A socket has no token before it is opened.
FreshSockets == \A s \in Sockets : sock[s] = "unused" => token[s] = None

ConnectionInv ==
  NoGhostSession /\ ConnectionsAreRevocable /\ ShutdownForgets /\ FreshSockets

LEMMA ConnectionInit == Init => ConnectionInv
BY DEF Init, ConnectionInv, NoGhostSession, ConnectionsAreRevocable, ShutdownForgets,
       FreshSockets

\* A cleanup keeps the invariant when it opens no socket and leaves the
\* tokens of the other connections alone.
LEMMA ConnectionCleanup ==
  ASSUME TypeOK, ConnectionInv, NEW S \in SUBSET Sockets, NEW reason \in Reasons,
         Cleanup(S, reason), attached' = attached,
         \A s \in registered' : token'[s] = token[s],
         \A s \in registered' : sock'[s] = "open" => sock[s] = "open",
         \A s \in Sockets : sock'[s] = "unused" => sock[s] = "unused" /\ token'[s] = token[s],
         closing' => closing \/ registered' = {}
  PROVE  ConnectionInv'
<1>1. registered' = registered \ S /\ directory' = directory \ LastOf(S)
  BY DEF Cleanup
<1>2. /\ \A t : DetachQueued(t) => DetachQueued(t)'
      /\ \A t \in LastOf(S) : DetachQueued(t)'
  BY CleanupWorks
<1>3. ASSUME NEW t \in attached' PROVE SocketsOf(t)' # {} \/ DetachQueued(t)'
  <2>1. t \in Tokens /\ t # None
    BY RealtimeAssumption DEF TypeOK, RealtimeAssumption
  <2>2. CASE DetachQueued(t)
    BY <1>2, <2>2
  <2>3. CASE SocketsOf(t) # {} /\ SocketsOf(t) \subseteq S
    <3>1. t \in LastOf(S)
      BY <2>1, <2>3 DEF LastOf, SocketsOf
    <3> QED BY <1>2, <3>1
  <2>4. CASE ~(SocketsOf(t) \subseteq S)
    BY <1>1, <2>4 DEF SocketsOf
  <2>5. SocketsOf(t) # {} \/ DetachQueued(t)
    BY DEF ConnectionInv, NoGhostSession
  <2> QED BY <2>2, <2>3, <2>4, <2>5
<1>4. ASSUME NEW s \in registered', sock'[s] = "open", token'[s] # None
      PROVE  token'[s] \in directory'
  <2>1. s \in registered /\ s \notin S /\ sock[s] = "open" /\ token'[s] = token[s]
    BY <1>1, <1>4
  <2>2. token[s] \in directory
    BY <1>4, <2>1 DEF ConnectionInv, ConnectionsAreRevocable
  <2>3. token[s] \notin LastOf(S)
    BY <2>1 DEF LastOf, SocketsOf
  <2> QED BY <1>1, <2>1, <2>2, <2>3
<1>5. ShutdownForgets'
  BY <1>1 DEF ConnectionInv, ShutdownForgets
<1>6. FreshSockets'
  BY DEF ConnectionInv, FreshSockets
<1> QED BY <1>3, <1>4, <1>5, <1>6 DEF ConnectionInv, NoGhostSession, ConnectionsAreRevocable

\* Events that only append to the queue or close sockets.
LEMMA ConnectionKept ==
  ASSUME ConnectionInv, attached' \subseteq attached,
         UNCHANGED <<registered, token, closing>>, directory \subseteq directory',
         \A s \in registered : sock'[s] = "open" => sock[s] = "open",
         \A s \in Sockets : sock'[s] = "unused" => sock[s] = "unused",
         \A t \in attached' : DetachQueued(t) => DetachQueued(t)'
  PROVE  ConnectionInv'
BY DEF ConnectionInv, NoGhostSession, ConnectionsAreRevocable, ShutdownForgets, FreshSockets,
       SocketsOf

\* The queue is as it was.
LEMMA QueueKept ==
  ASSUME UNCHANGED queue, NEW t, DetachQueued(t) PROVE DetachQueued(t)'
BY DEF DetachQueued

LEMMA ConnectionDisconnects ==
  ASSUME TypeOK, ConnectionInv,
         \/ \E t \in Tokens : Logout(t)
         \/ \E u \in Users : DeleteUser(u) \/ KickUser(u)
         \/ WorkerRestarts
  PROVE  ConnectionInv'
<1>1. ASSUME NEW S \in SUBSET Sockets, NEW reason \in Reasons, Disconnect(S, reason)
      PROVE  ConnectionInv'
  BY <1>1, ConnectionCleanup DEF Disconnect, sessions
<1>2. ASSUME NEW t \in Tokens, Logout(t) PROVE ConnectionInv'
  <2>1. SocketsOf(t) \in SUBSET Sockets  BY DEF TypeOK, SocketsOf
  <2> QED BY <1>1, <1>2, <2>1 DEF Logout, Reasons
<1>3. ASSUME NEW u \in Users, DeleteUser(u) \/ KickUser(u) PROVE ConnectionInv'
  <2>1. ConnectionsOf(u) \in SUBSET Sockets  BY DEF TypeOK, ConnectionsOf
  <2> QED BY <1>1, <1>3, <2>1 DEF DeleteUser, KickUser, Reasons
<1>4. ASSUME WorkerRestarts PROVE ConnectionInv'
  <2>1. {s \in registered : token[s] # None} \in SUBSET Sockets  BY DEF TypeOK
  <2> QED BY <1>1, <1>4, <2>1 DEF WorkerRestarts, Reasons
<1> QED BY <1>2, <1>3, <1>4

LEMMA ConnectionShutdown == ASSUME TypeOK, ConnectionInv, Shutdown PROVE ConnectionInv'
<1>1. registered \in SUBSET Sockets /\ Cleanup(registered, "shutdown") /\ registered' = {}
  BY DEF TypeOK, Shutdown, Cleanup
<1> QED BY <1>1, ConnectionCleanup DEF Shutdown, Shut, sessions, Reasons

LEMMA ConnectionEvents ==
  ASSUME TypeOK, ConnectionInv, NEW s \in Sockets, ConnectionEvent(s) PROVE ConnectionInv'
<1>1. CASE Connect(s)
  <2>1. sock[s] = "unused" /\ token' = token /\ registered' = registered \cup {s}
        /\ UNCHANGED <<attached, directory, queue, closing>> /\ ~closing
    BY <1>1 DEF Connect, sessions, marks
  <2>2. NoGhostSession'
    BY <2>1, QueueKept DEF ConnectionInv, NoGhostSession, SocketsOf
  <2>3. ASSUME NEW r \in registered', sock'[r] = "open", token'[r] # None
        PROVE  token'[r] \in directory'
    <3>1. CASE r = s
      <4>1. token[s] = None
        BY <2>1 DEF ConnectionInv, FreshSockets
      <4> QED BY <2>1, <2>3, <3>1, <4>1
    <3>2. CASE r # s
      BY <1>1, <2>1, <2>3, <3>2 DEF Connect, ConnectionInv, ConnectionsAreRevocable, TypeOK
    <3> QED BY <3>1, <3>2
  <2>4. FreshSockets'
    BY <1>1, <2>1 DEF Connect, ConnectionInv, FreshSockets, TypeOK
  <2> QED BY <2>1, <2>2, <2>3, <2>4 DEF ConnectionInv, ConnectionsAreRevocable, ShutdownForgets
<1>2. CASE Resolved(s)
  <2>1. AttachOp(s) \in Operation  BY DEF AttachOp, Operation
  <2>2. \A t : DetachQueued(t) => DetachQueued(t)'
    BY <1>2, <2>1, AppendKeepsDetach, QueueKept DEF Resolved, TypeOK
  <2> QED BY <1>2, <2>2, ConnectionKept DEF Resolved, sessions, marks
<1>3. CASE Command(s)
  <2>1. CommandOp(token[s]) \in Operation
    BY <1>3 DEF TypeOK, Command, CommandOp, Operation
  <2>2. \A t : DetachQueued(t) => DetachQueued(t)'
    BY <1>3, <2>1, AppendKeepsDetach DEF Command, TypeOK
  <2> QED BY <1>3, <2>2, ConnectionKept DEF Command, connections, sessions, marks
<1>4. CASE PeerDies(s)
  BY <1>4, QueueKept, ConnectionKept DEF PeerDies, sessions, marks
<1>5. CASE Pong(s)
  BY <1>5, QueueKept, ConnectionKept DEF Pong, sessions, marks
<1>6. CASE SocketCloses(s)
  <2>1. PICK reason \in Reasons : Cleanup({s}, reason)
    BY <1>6 DEF SocketCloses, Reasons
  <2>2. registered' = registered \ {s}
    BY <2>1 DEF Cleanup
  <2>3. \A r \in registered' : token'[r] = token[r] /\ sock'[r] = sock[r]
    BY <1>6, <2>2 DEF SocketCloses, TypeOK
  <2>4. \A r \in Sockets : sock'[r] = "unused" => sock[r] = "unused" /\ token'[r] = token[r]
    BY <1>6 DEF SocketCloses, TypeOK
  <2> QED BY <1>6, <2>1, <2>3, <2>4, ConnectionCleanup DEF SocketCloses, sessions
<1>7. CASE CloseDoomed(s)
  BY <1>7, QueueKept, ConnectionKept DEF CloseDoomed, Shut, TypeOK, sessions, marks
<1>8. ASSUME NEW t \in Tokens, Authenticate(s, t) PROVE ConnectionInv'
  BY <1>8, QueueKept, ConnectionKept DEF Authenticate, sessions, marks
<1> QED BY <1>1, <1>2, <1>3, <1>4, <1>5, <1>6, <1>7, <1>8 DEF ConnectionEvent

LEMMA ConnectionServerEvents == ASSUME TypeOK, ConnectionInv, ServerEvent PROVE ConnectionInv'
<1>1. ASSUME NEW us \in {{u} : u \in Users} \cup {Users}, RequestRefresh(us)
      PROVE  ConnectionInv'
  <2>1. RefreshOp(us) \in Operation  BY DEF RefreshOp, Operation
  <2>2. \A t : DetachQueued(t) => DetachQueued(t)'
    BY <1>1, <2>1, AppendKeepsDetach DEF RequestRefresh, TypeOK
  <2> QED BY <1>1, <2>2, ConnectionKept DEF RequestRefresh, connections, sessions, marks
<1>2. CASE Heartbeat
  BY <1>2, QueueKept, ConnectionKept DEF Heartbeat, Shut, TypeOK, sessions, marks
<1>3. CASE Shutdown
  BY <1>3, ConnectionShutdown
<1> QED BY <1>1, <1>2, <1>3, ConnectionDisconnects DEF ServerEvent

\* A disconnect step forgets a token and leaves none of its sockets open.
LEMMA DisconnectStepRevokes ==
  ASSUME TypeOK, ConnectionInv, NEW t, NEW S, DisconnectStep(t, S),
         UNCHANGED <<attached, closing>>,
         \A u \in attached : DetachQueued(u) => DetachQueued(u)'
  PROVE  ConnectionInv'
<1>1. UNCHANGED <<registered, token>> /\ directory' = directory \ {t}
      /\ sock' = Shut(IF SocketsOf(t) = {} THEN S ELSE SocketsOf(t))
  BY DEF DisconnectStep
<1>2. \A s \in Sockets : /\ sock'[s] = "open" => sock[s] = "open"
                         /\ sock'[s] = "unused" => sock[s] = "unused"
  BY <1>1 DEF Shut
<1>3. ASSUME NEW s \in registered', sock'[s] = "open", token'[s] # None
      PROVE  token'[s] \in directory'
  <2>1. s \in Sockets /\ s \in registered /\ sock[s] = "open" /\ token'[s] = token[s]
    BY <1>1, <1>2, <1>3 DEF TypeOK
  <2>2. token[s] \in directory
    BY <1>3, <2>1 DEF ConnectionInv, ConnectionsAreRevocable
  <2>3. token[s] # t
    <3> SUFFICES ASSUME token[s] = t PROVE FALSE
      OBVIOUS
    <3>1. s \in SocketsOf(t)
      BY <2>1 DEF SocketsOf
    <3>2. sock'[s] = "closing"
      BY <1>1, <2>1, <3>1 DEF Shut
    <3> QED BY <1>3, <3>2
  <2> QED BY <1>1, <2>1, <2>2, <2>3
<1>4. NoGhostSession'
  BY <1>1 DEF ConnectionInv, NoGhostSession, SocketsOf
<1>5. FreshSockets'
  BY <1>1, <1>2 DEF ConnectionInv, FreshSockets
<1> QED BY <1>1, <1>3, <1>4, <1>5 DEF ConnectionInv, ConnectionsAreRevocable, ShutdownForgets

LEMMA ConnectionAttaches ==
  ASSUME TypeOK, AttachInv, ConnectionInv, AttachDropped \/ Attach \/ AttachRejected
  PROVE  ConnectionInv'
<1> DEFINE s == Head(queue).socket
           t == claim[s]
<1>1. queue \in Seq(Operation) /\ Dequeue("attach")
  BY DEF TypeOK, AttachDropped, Attach, AttachRejected
<1>2. s \in Sockets
  BY <1>1, DequeueType, OperationKinds
<1>3. \A u : DetachQueued(u) => DetachQueued(u)'
  BY <1>1, DequeueKeepsOthers
<1>4. CASE AttachDropped
  BY <1>3, <1>4, ConnectionKept DEF AttachDropped, sessions, marks
<1>5. CASE Attach
  <2>1. /\ UNCHANGED <<sock, registered, closing>> /\ s \in registered
        /\ sock[s] = "open" /\ ~closing
        /\ token' = [token EXCEPT ![s] = t]
        /\ directory' = directory \cup {t} /\ attached' = attached \cup {t}
    BY <1>5 DEF Attach, Active
  <2>2. token'[s] = t /\ \A r \in Sockets \ {s} : token'[r] = token[r]
    BY <1>2, <2>1 DEF TypeOK
  <2>3. token[s] = None
    <3>1. 1 \in DOMAIN queue /\ queue[1] = Head(queue) /\ Head(queue).kind = "attach"
      BY <1>1, HeadTailProperties, LenProperties DEF Dequeue
    <3>2. auth[s] = "queued"
      BY <3>1 DEF AttachInv, QueuedOnce
    <3> QED BY <1>2, <3>2 DEF AttachInv, TokensAreAuthenticated
  <2>4. ASSUME NEW u \in attached' PROVE SocketsOf(u)' # {} \/ DetachQueued(u)'
    <3>1. CASE u = t
      BY <2>1, <2>2, <3>1 DEF SocketsOf
    <3>2. CASE u # t /\ DetachQueued(u)
      BY <1>3, <3>2
    <3>3. CASE u # t /\ SocketsOf(u) # {}
      <4>1. PICK r \in registered : token[r] = u
        BY <3>3 DEF SocketsOf
      <4>2. u # None
        BY <2>1, <3>3, RealtimeAssumption DEF TypeOK, RealtimeAssumption
      <4>3. r # s /\ r \in Sockets
        BY <2>3, <4>1, <4>2 DEF TypeOK
      <4> QED BY <2>1, <2>2, <4>1, <4>3 DEF SocketsOf
    <3> QED BY <2>1, <3>1, <3>2, <3>3 DEF ConnectionInv, NoGhostSession
  <2>5. ASSUME NEW r \in registered', sock'[r] = "open", token'[r] # None
        PROVE  token'[r] \in directory'
    BY <2>1, <2>2, <2>5 DEF TypeOK, ConnectionInv, ConnectionsAreRevocable
  <2>6. FreshSockets'
    BY <2>1, <2>2 DEF ConnectionInv, FreshSockets
  <2> QED BY <2>1, <2>4, <2>5, <2>6
          DEF ConnectionInv, NoGhostSession, ConnectionsAreRevocable, ShutdownForgets
<1>6. CASE AttachRejected
  <2>1. DisconnectStep(t, {s}) /\ UNCHANGED <<attached, closing>>
    BY <1>6 DEF AttachRejected, sessions
  <2> QED BY <1>3, <2>1, DisconnectStepRevokes
<1> QED BY <1>4, <1>5, <1>6

\* The only operation that takes a detach from the queue ends the session.
LEMMA ConnectionDetach == ASSUME TypeOK, ConnectionInv, Detach PROVE ConnectionInv'
<1> DEFINE t == Head(queue).token
<1>1. queue \in Seq(Operation) /\ Dequeue("detach")
  BY DEF TypeOK, Detach
<1>2. attached' = attached \ {t} /\ UNCHANGED connections /\ UNCHANGED marks
      /\ UNCHANGED closing
  BY DEF Detach
<1>3. \A u \in attached' : DetachQueued(u) => DetachQueued(u)'
  BY <1>1, <1>2, DequeueKeepsOthers
<1> QED BY <1>2, <1>3, ConnectionKept DEF connections, marks

LEMMA ConnectionQueueSteps ==
  ASSUME TypeOK, AttachInv, ConnectionInv, QueueStep PROVE ConnectionInv'
<1>1. ASSUME Refresh \/ RunCommand PROVE ConnectionInv'
  <2>1. queue \in Seq(Operation) /\ (Dequeue("refresh") \/ Dequeue("command"))
    BY <1>1 DEF TypeOK, Refresh, RunCommand
  <2>2. \A u : DetachQueued(u) => DetachQueued(u)'
    BY <2>1, DequeueKeepsOthers
  <2>3. UNCHANGED <<connections, sessions, marks, closing>>
    BY <1>1 DEF Refresh, RunCommand
  <2> QED BY <2>2, <2>3, ConnectionKept DEF connections, sessions, marks
<1>2. ASSUME NEW t \in Tokens, Step(t) PROVE ConnectionInv'
  <2>1. directory \subseteq directory' /\ UNCHANGED <<connections, queue, sessions, closing>>
    BY <1>2 DEF Step
  <2> QED BY <2>1, QueueKept, ConnectionKept DEF connections, sessions
<1>3. ASSUME NEW t \in Tokens, StepDisconnect(t) PROVE ConnectionInv'
  BY <1>3, QueueKept, DisconnectStepRevokes DEF StepDisconnect, sessions
<1>4. ASSUME NEW ok \in BOOLEAN, MediaAnswers(ok) PROVE ConnectionInv'
  BY <1>4, QueueKept, ConnectionKept DEF MediaAnswers, connections, sessions, marks
<1>5. CASE CloseFailed
  BY <1>5, QueueKept, ConnectionKept DEF CloseFailed, Shut, TypeOK, sessions, marks
<1> QED BY <1>1, <1>2, <1>3, <1>4, <1>5, ConnectionAttaches, ConnectionDetach DEF QueueStep

LEMMA ConnectionNext ==
  ASSUME TypeOK, AttachInv, ConnectionInv, [Next]_vars PROVE ConnectionInv'
<1>1. CASE UNCHANGED vars
  BY <1>1, QueueKept, ConnectionKept DEF vars, connections, sessions, marks
<1> QED BY <1>1, ConnectionEvents, ConnectionServerEvents, ConnectionQueueSteps DEF Next

LEMMA ServiceInvariant == Spec => [](TypeOK /\ AttachInv /\ ConnectionInv)
<1>1. Init => TypeOK /\ AttachInv /\ ConnectionInv
  BY TypeInit, AttachInit, ConnectionInit
<1>2. TypeOK /\ AttachInv /\ ConnectionInv /\ [Next]_vars
        => (TypeOK /\ AttachInv /\ ConnectionInv)'
  BY TypeNext, AttachNext, ConnectionNext
<1> QED BY <1>1, <1>2, PTL DEF Spec

\* No session outlives its connections: whatever order closes, reconnects,
\* revocations and attaches come in, finishConnectionCleanup leaves no session
\* without a registered connection that is not also being detached.
THEOREM NoSessionOutlivesItsConnections == Spec => []NoGhostSession
<1>1. ConnectionInv => NoGhostSession
  BY DEF ConnectionInv
<1> QED BY <1>1, ServiceInvariant, PTL

\* disconnectUser, which looks in sessionDirectory, finds every live
\* connection of a user, although directory entries come and go with attaches,
\* cleanups and disconnect steps.
THEOREM LiveConnectionsAreRevocable == Spec => []ConnectionsAreRevocable
<1>1. ConnectionInv => ConnectionsAreRevocable
  BY DEF ConnectionInv
<1> QED BY <1>1, ServiceInvariant, PTL

\* Once close has run the queue dry nobody has a session.
THEOREM ShutdownIsComplete == Spec => []ShutdownDetachesAll
<1>1. ConnectionInv => ShutdownDetachesAll
  <2> SUFFICES ASSUME ConnectionInv, closing, queue = <<>>, NEW t \in attached PROVE FALSE
    BY DEF ShutdownDetachesAll
  <2>1. SocketsOf(t) = {}
    BY DEF ConnectionInv, ShutdownForgets, SocketsOf
  <2>2. ~DetachQueued(t)
    BY DEF DetachQueued
  <2> QED BY <2>1, <2>2 DEF ConnectionInv, NoGhostSession
<1> QED BY <1>1, ServiceInvariant, PTL
=============================================================================
