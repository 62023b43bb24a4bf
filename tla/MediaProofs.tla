------------------------------ MODULE MediaProofs ------------------------------
(***************************************************************************)
(* The media service and its clients, for any number of users, channels,   *)
(* starts, connections and deaths of the worker: consumers follow the      *)
(* routes, audio that looks ready is, and routed talkers are heard.        *)
(***************************************************************************)
EXTENDS MediaClient, TLAPS, FiniteSetTheorems, SequenceTheorems

-----------------------------------------------------------------------------
(* Sequences of messages *)

LEMMA TailFacts ==
  ASSUME NEW S, NEW q \in Seq(S), q # <<>>
  PROVE  /\ Tail(q) \in Seq(S) /\ 1 \in DOMAIN q /\ Head(q) = q[1] /\ q[1] \in S
         /\ \A i \in DOMAIN Tail(q) : /\ i \in Nat /\ i >= 1 /\ i + 1 \in DOMAIN q
                                      /\ Tail(q)[i] = q[i + 1]
         /\ \A i \in DOMAIN q : i # 1 => i - 1 \in DOMAIN Tail(q) /\ Tail(q)[i - 1] = q[i]
<1>1. Len(q) \in Nat /\ Len(q) > 0 /\ DOMAIN q = 1..Len(q) /\ 1 \in 1..Len(q) /\ q[1] \in S
  BY EmptySeq, LenProperties
<1>2. Tail(q) \in Seq(S) /\ Len(Tail(q)) = Len(q) - 1 /\ DOMAIN Tail(q) = 1..Len(q) - 1
      /\ \A i \in 1..Len(q) - 1 : Tail(q)[i] = q[i + 1]
  BY <1>1, HeadTailProperties, LenProperties
<1>3. Head(q) = q[1]
  OBVIOUS
<1>4. ASSUME NEW i \in DOMAIN Tail(q)
      PROVE  i \in Nat /\ i >= 1 /\ i + 1 \in DOMAIN q /\ Tail(q)[i] = q[i + 1]
  BY <1>1, <1>2
<1>5. ASSUME NEW i \in DOMAIN q, i # 1
      PROVE  i - 1 \in DOMAIN Tail(q) /\ Tail(q)[i - 1] = q[i]
  <2>1. i \in 2..Len(q) /\ i - 1 \in 1..Len(q) - 1 /\ (i - 1) + 1 = i
    BY <1>1, <1>5
  <2> QED BY <1>2, <2>1
<1> QED BY <1>1, <1>2, <1>3, <1>4, <1>5

LEMMA AppendFacts ==
  ASSUME NEW S, NEW q \in Seq(S), NEW m \in S
  PROVE  /\ Append(q, m) \in Seq(S) /\ Len(q) + 1 \in DOMAIN Append(q, m)
         /\ Append(q, m)[Len(q) + 1] = m /\ Len(q) \in Nat /\ Len(q) + 1 \notin DOMAIN q
         /\ \A i \in DOMAIN q : /\ i \in Nat /\ i < Len(q) + 1
                                /\ i \in DOMAIN Append(q, m) /\ Append(q, m)[i] = q[i]
         /\ \A i \in DOMAIN Append(q, m) : i \in DOMAIN q \/ i = Len(q) + 1
<1>1. Len(q) \in Nat /\ DOMAIN q = 1..Len(q) /\ DOMAIN Append(q, m) = 1..Len(q) + 1
  BY AppendProperties, LenProperties
<1>2. /\ Append(q, m) \in Seq(S) /\ Append(q, m)[Len(q) + 1] = m
      /\ \A i \in 1..Len(q) : Append(q, m)[i] = q[i]
  BY AppendProperties
<1> QED BY <1>1, <1>2

LEMMA ConcatFacts ==
  ASSUME NEW S, NEW q \in Seq(S), NEW r \in Seq(S)
  PROVE  /\ q \o r \in Seq(S)
         /\ \A i \in DOMAIN q : i \in DOMAIN (q \o r) /\ (q \o r)[i] = q[i]
         /\ \A j \in DOMAIN r : /\ Len(q) + j \in DOMAIN (q \o r) /\ (q \o r)[Len(q) + j] = r[j]
                                /\ \A i \in DOMAIN q : Len(q) + j > i
         /\ \A i \in DOMAIN (q \o r) : i \in DOMAIN q \/ \E j \in DOMAIN r : i = Len(q) + j
<1>1. /\ Len(q) \in Nat /\ Len(r) \in Nat /\ DOMAIN q = 1..Len(q) /\ DOMAIN r = 1..Len(r)
      /\ DOMAIN (q \o r) = 1..Len(q) + Len(r)
  BY ConcatProperties, LenProperties
<1>2. /\ q \o r \in Seq(S)
      /\ \A i \in 1..Len(q) + Len(r) : (q \o r)[i] = IF i <= Len(q) THEN q[i] ELSE r[i - Len(q)]
  BY ConcatProperties
<1>3. ASSUME NEW j \in DOMAIN r
      PROVE  /\ Len(q) + j \in DOMAIN (q \o r) /\ (q \o r)[Len(q) + j] = r[j]
             /\ \A i \in DOMAIN q : Len(q) + j > i
  <2>1. /\ Len(q) + j \in 1..Len(q) + Len(r) /\ ~(Len(q) + j <= Len(q))
        /\ (Len(q) + j) - Len(q) = j
    BY <1>1
  <2> QED BY <1>1, <1>2, <2>1
<1>4. ASSUME NEW i \in DOMAIN (q \o r), i \notin DOMAIN q
      PROVE  \E j \in DOMAIN r : i = Len(q) + j
  <2>1. i - Len(q) \in DOMAIN r /\ i = Len(q) + (i - Len(q))
    BY <1>1, <1>4
  <2> QED BY <2>1
<1>5. ASSUME NEW i \in DOMAIN q PROVE i \in DOMAIN (q \o r) /\ (q \o r)[i] = q[i]
  BY <1>1, <1>2
<1> QED BY <1>2, <1>3, <1>4, <1>5

\* What z holds, as q with r put behind.
Prolongs(z, q, r) ==
  /\ \A i \in DOMAIN q : i \in DOMAIN z /\ z[i] = q[i]
  /\ \A j \in DOMAIN r : \E i \in DOMAIN z : i \notin DOMAIN q /\ z[i] = r[j]
  /\ \A i \in DOMAIN z : i \in DOMAIN q \/ \E j \in DOMAIN r : z[i] = r[j]

LEMMA LongerFacts ==
  ASSUME NEW S, NEW q \in Seq(S), NEW r \in Seq(S)
  PROVE  Prolongs(q \o r, q, r)
<1>1. /\ \A i \in DOMAIN q : i \in DOMAIN (q \o r) /\ (q \o r)[i] = q[i]
      /\ \A j \in DOMAIN r : Len(q) + j \in DOMAIN (q \o r) /\ (q \o r)[Len(q) + j] = r[j]
      /\ \A i \in DOMAIN (q \o r) : i \in DOMAIN q \/ \E j \in DOMAIN r : i = Len(q) + j
  BY ConcatFacts
<1>2. ASSUME NEW j \in DOMAIN r PROVE Len(q) + j \notin DOMAIN q
  <2>1. /\ Len(q) \in Nat /\ Len(r) \in Nat
        /\ DOMAIN q = 1..Len(q) /\ DOMAIN r = 1..Len(r)
    BY LenProperties
  <2> QED BY <2>1
<1> QED BY <1>1, <1>2 DEF Prolongs

-----------------------------------------------------------------------------
(* A start waits for one answer at a time, and transports are made in order *)

LiveAsk(m) == m.live /\ m.kind \in Requests
LiveReply(m) == m.kind = "answer" /\ m.live /\ m.to \in Requests
Brings(m, kind) == LiveReply(m) /\ m.ok /\ m.to = kind

\* Of the queues U to and D from the server, of a start that is at the stage
\* at: at most one request or answer is waited for, it is of this stage, and no
\* request of a start came after it; a receive transport is made while there is
\* no producer.
Order(U, D, at, producer) ==
  /\ \A i \in DOMAIN U : LiveAsk(U[i]) =>
       /\ U[i].kind = at
       /\ \A j \in DOMAIN U : j > i => U[j].kind \notin Requests
       /\ \A k \in DOMAIN D : ~LiveReply(D[k])
  /\ \A i \in DOMAIN D : LiveReply(D[i]) =>
       /\ D[i].to = at
       /\ \A j \in DOMAIN U : U[j].kind \notin Requests
       /\ \A j \in DOMAIN D : j # i => ~LiveReply(D[j])
       /\ Brings(D[i], "send") => producer = 0
  /\ \A i \in DOMAIN U : U[i].kind = "recv" =>
       /\ producer = 0
       /\ \A j \in DOMAIN U : j < i => U[j].kind # "produce"

NoneAwaited(U, D) ==
  (\A i \in DOMAIN U : ~LiveAsk(U[i])) /\ (\A i \in DOMAIN D : ~LiveReply(D[i]))

\* Notices and answers to nobody are added.
LEMMA OrderTold ==
  ASSUME NEW S, NEW T, NEW U \in Seq(S), NEW D \in Seq(T), NEW E \in Seq(T), NEW at, NEW producer,
         Order(U, D, at, producer), \A i \in DOMAIN E : ~LiveReply(E[i])
  PROVE  Order(U, D \o E, at, producer)
<1>1. \A i \in DOMAIN (D \o E) : LiveReply((D \o E)[i]) => i \in DOMAIN D /\ (D \o E)[i] = D[i]
  BY ConcatFacts
<1>2. \A i \in DOMAIN (D \o E) : i \in DOMAIN D \/ ~LiveReply((D \o E)[i])
  BY <1>1
<1> QED BY <1>1, <1>2 DEF Order

\* The server takes the next request and answers it.
LEMMA OrderServed ==
  ASSUME NEW S, NEW T, NEW U \in Seq(S), NEW D \in Seq(T), NEW at, NEW producer,
         Order(U, D, at, producer), U # <<>>, NEW m \in T,
         LiveReply(m) => Head(U).live /\ m.to = Head(U).kind,
         NEW after, after \in {0, producer} \/ Head(U).kind = "produce",
         Brings(m, "send") => after = 0
  PROVE  Order(Tail(U), Append(D, m), at, after)
<1> DEFINE V == Tail(U)
           F == Append(D, m)
<1>1. /\ 1 \in DOMAIN U /\ Head(U) = U[1]
      /\ \A i \in DOMAIN V : i \in Nat /\ i >= 1 /\ i + 1 \in DOMAIN U /\ V[i] = U[i + 1]
  BY TailFacts
<1>2. /\ Len(D) + 1 \in DOMAIN F /\ F[Len(D) + 1] = m /\ Len(D) + 1 \notin DOMAIN D
      /\ \A i \in DOMAIN F : (i \in DOMAIN D /\ F[i] = D[i]) \/ i = Len(D) + 1
  BY AppendFacts
<1> HIDE DEF V, F
<1>3. LiveReply(m) => LiveAsk(U[1])
  BY <1>1 DEF LiveReply, LiveAsk
<1>4. LiveAsk(U[1]) => /\ \A i \in DOMAIN V : V[i].kind \notin Requests
                       /\ \A k \in DOMAIN D : ~LiveReply(D[k])
                       /\ U[1].kind = at
  <2>1. \A i \in DOMAIN V : i + 1 > 1
    BY <1>1
  <2> QED BY <1>1, <2>1 DEF Order
<1>5. ASSUME NEW i \in DOMAIN V, LiveAsk(V[i])
      PROVE  /\ V[i].kind = at
             /\ \A j \in DOMAIN V : j > i => V[j].kind \notin Requests
             /\ \A k \in DOMAIN F : ~LiveReply(F[k])
  <2>1. LiveAsk(U[i + 1]) /\ i + 1 \in DOMAIN U
    BY <1>1, <1>5
  <2>2. U[i + 1].kind = at /\ \A k \in DOMAIN D : ~LiveReply(D[k])
    BY <2>1 DEF Order
  <2>3. ASSUME NEW j \in DOMAIN V, j > i PROVE V[j].kind \notin Requests
    <3>1. j + 1 > i + 1 /\ j + 1 \in DOMAIN U
      BY <1>1, <2>3
    <3> QED BY <1>1, <2>1, <3>1 DEF Order
  <2>4. ~LiveReply(m)
    BY <1>3, <1>4, <1>5 DEF LiveAsk
  <2> QED BY <1>1, <1>2, <2>2, <2>3, <2>4
<1>6. ASSUME NEW i \in DOMAIN F, LiveReply(F[i])
      PROVE  /\ F[i].to = at
             /\ \A j \in DOMAIN V : V[j].kind \notin Requests
             /\ \A j \in DOMAIN F : j # i => ~LiveReply(F[j])
             /\ Brings(F[i], "send") => after = 0
  <2>1. CASE i = Len(D) + 1
    BY <1>1, <1>2, <1>3, <1>4, <1>6, <2>1
  <2>2. CASE i # Len(D) + 1
    <3>1. i \in DOMAIN D /\ F[i] = D[i] /\ LiveReply(D[i])
      BY <1>2, <1>6, <2>2
    <3>2. /\ D[i].to = at /\ \A j \in DOMAIN U : U[j].kind \notin Requests
          /\ \A j \in DOMAIN D : j # i => ~LiveReply(D[j])
          /\ Brings(D[i], "send") => producer = 0
      BY <3>1 DEF Order
    <3>3. ~LiveReply(m)
      BY <1>1, <1>3, <3>2 DEF LiveAsk
    <3>4. Head(U).kind # "produce"
      BY <1>1, <3>2 DEF Requests
    <3> QED BY <1>1, <1>2, <3>1, <3>2, <3>3, <3>4
  <2> QED BY <2>1, <2>2
<1>7. ASSUME NEW i \in DOMAIN V, V[i].kind = "recv"
      PROVE  after = 0 /\ \A j \in DOMAIN V : j < i => V[j].kind # "produce"
  <2>1. /\ i + 1 \in DOMAIN U /\ U[i + 1].kind = "recv" /\ 1 < i + 1
        /\ \A j \in DOMAIN V : j < i => j + 1 < i + 1
    BY <1>1, <1>7
  <2>2. producer = 0 /\ \A j \in DOMAIN U : j < i + 1 => U[j].kind # "produce"
    BY <2>1 DEF Order
  <2> QED BY <1>1, <2>1, <2>2
<1> QED BY <1>5, <1>6, <1>7 DEF Order, V, F

\* The server drops the next request.
LEMMA OrderDropped ==
  ASSUME NEW S, NEW U \in Seq(S), NEW D, NEW at, NEW producer,
         Order(U, D, at, producer), U # <<>>
  PROVE  Order(Tail(U), D, at, producer)
<1> DEFINE V == Tail(U)
<1>1. \A i \in DOMAIN V : i \in Nat /\ i + 1 \in DOMAIN U /\ V[i] = U[i + 1]
  BY TailFacts
<1> HIDE DEF V
<1>2. \A i, j \in DOMAIN V : (j > i => j + 1 > i + 1) /\ (j < i => j + 1 < i + 1)
  BY <1>1
<1>3. ASSUME NEW i \in DOMAIN V, LiveAsk(V[i])
      PROVE  /\ V[i].kind = at
             /\ \A j \in DOMAIN V : j > i => V[j].kind \notin Requests
             /\ \A k \in DOMAIN D : ~LiveReply(D[k])
  <2>1. i + 1 \in DOMAIN U /\ LiveAsk(U[i + 1])
    BY <1>1, <1>3
  <2> QED BY <1>1, <1>2, <2>1 DEF Order
<1>4. ASSUME NEW i \in DOMAIN D, LiveReply(D[i])
      PROVE  \A j \in DOMAIN V : V[j].kind \notin Requests
  BY <1>1, <1>4 DEF Order
<1>5. ASSUME NEW i \in DOMAIN V, V[i].kind = "recv"
      PROVE  producer = 0 /\ \A j \in DOMAIN V : j < i => V[j].kind # "produce"
  <2>1. i + 1 \in DOMAIN U /\ U[i + 1].kind = "recv"
    BY <1>1, <1>5
  <2> QED BY <1>1, <1>2, <2>1 DEF Order
<1>6. \A i \in DOMAIN D : LiveReply(D[i]) =>
        /\ D[i].to = at
        /\ \A j \in DOMAIN D : j # i => ~LiveReply(D[j])
        /\ Brings(D[i], "send") => producer = 0
  BY DEF Order
<1> QED BY <1>3, <1>4, <1>5, <1>6 DEF Order, V

-----------------------------------------------------------------------------
(* The notices of a reconcile *)

LEMMA ImageFinite ==
  ASSUME NEW S, S \subseteq Users, NEW f, f \in [S -> {f[p] : p \in S}]
  PROVE  IsFiniteSet({f[p] : p \in S})
<1>1. IsFiniteSet(S)
  BY MediaServiceAssumption, FS_Subset
<1>2. f \in Surjection(S, {f[p] : p \in S})
  BY DEF Surjection
<1> QED BY <1>1, <1>2, FS_Surjection

LEMMA NoticesFinite ==
  ASSUME NEW l, NEW before, NEW after
  PROVE  IsFiniteSet(NoticesTo(l, before, after))
<1> DEFINE Gone == {q \in Users : Exists(before[l][q]) /\ ~Exists(after[l][q])}
           Other == {q \in Users : /\ Exists(before[l][q]) /\ Exists(after[l][q])
                                   /\ before[l][q].on # after[l][q].on}
           Fresh == {q \in Users : ~Exists(before[l][q]) /\ Exists(after[l][q])}
           gone == [p \in Gone |-> Notice("closed", p, before[l][p])]
           other == [p \in Other |-> Notice("state", p, after[l][p])]
           fresh == [p \in Fresh |-> Notice("available", p, after[l][p])]
<1>1. /\ Gone \subseteq Users /\ gone \in [Gone -> {gone[p] : p \in Gone}]
      /\ Other \subseteq Users /\ other \in [Other -> {other[p] : p \in Other}]
      /\ Fresh \subseteq Users /\ fresh \in [Fresh -> {fresh[p] : p \in Fresh}]
  OBVIOUS
<1>2. NoticesTo(l, before, after) = ({gone[p] : p \in Gone} \cup {other[p] : p \in Other})
                                    \cup {fresh[p] : p \in Fresh}
  BY DEF NoticesTo
<1> HIDE DEF Gone, Other, Fresh, gone, other, fresh
<1> DEFINE X == {gone[p] : p \in Gone}
           Y == {other[p] : p \in Other}
           Z == {fresh[p] : p \in Fresh}
<1>3. IsFiniteSet(X) /\ IsFiniteSet(Y) /\ IsFiniteSet(Z)
  <2>1. IsFiniteSet(X)
    BY <1>1, ImageFinite
  <2>2. IsFiniteSet(Y)
    BY <1>1, ImageFinite
  <2>3. IsFiniteSet(Z)
    BY <1>1, ImageFinite
  <2> QED BY <2>1, <2>2, <2>3
<1> HIDE DEF X, Y, Z
<1>4. IsFiniteSet(X \cup Y)
  BY <1>3, FS_Union
<1>5. IsFiniteSet((X \cup Y) \cup Z)
  BY <1>3, <1>4, FS_Union
<1> QED BY <1>2, <1>5 DEF X, Y, Z

LEMMA InOrderFacts ==
  ASSUME NEW N, IsFiniteSet(N)
  PROVE  /\ InOrder(N) \in Seq(N)
         /\ \A i \in DOMAIN InOrder(N) : InOrder(N)[i] \in N
         /\ \A n \in N : \E i \in DOMAIN InOrder(N) : InOrder(N)[i] = n
<1> DEFINE A == {n \in N : n.kind # "available"}
           B == {n \in N : n.kind = "available"}
           a == Cardinality(A)
           b == Cardinality(B)
<1>1. /\ IsFiniteSet(A) /\ IsFiniteSet(B) /\ A \cap B = {} /\ A \cup B = N
  BY FS_Subset
<1>2. a \in Nat /\ b \in Nat /\ ExistsBijection(1..a, A) /\ ExistsBijection(1..b, B)
  BY <1>1, FS_CardinalityType
<1>3. Cardinality(A \cap B) = 0
  BY <1>1, FS_EmptySet
<1>4. Cardinality(A \cup B) = Cardinality(A) + Cardinality(B) - Cardinality(A \cap B)
  BY <1>1, FS_Union
<1>5. Cardinality(N) = a + b
  <2> HIDE DEF A, B
  <2>1. Cardinality(N) = Cardinality(A) + Cardinality(B) - Cardinality(A \cap B)
    BY <1>1, <1>4
  <2> QED BY <1>2, <1>3, <2>1
<1>6. PICK f \in [1..a -> A] : \A n \in A : \E i \in 1..a : f[i] = n
  BY <1>2 DEF ExistsBijection, Bijection, Surjection
<1>7. PICK g \in [1..b -> B] : \A n \in B : \E i \in 1..b : g[i] = n
  BY <1>2 DEF ExistsBijection, Bijection, Surjection
<1> HIDE DEF a, b
<1> DEFINE q == [i \in 1..a + b |-> IF i <= a THEN f[i] ELSE g[i - a]]
<1>8. ASSUME NEW i \in 1..a + b
      PROVE  IF i <= a THEN q[i] \in A ELSE q[i] \in B
  <2>1. CASE i <= a
    BY <1>2, <1>6, <2>1
  <2>2. CASE ~(i <= a)
    <3>1. i - a \in 1..b
      BY <1>2, <2>2
    <3> QED BY <1>7, <2>2, <3>1
  <2> QED BY <2>1, <2>2
<1>9. ASSUME NEW n \in N PROVE \E i \in 1..a + b : q[i] = n
  <2>1. CASE n \in A
    <3>1. PICK i \in 1..a : f[i] = n
      BY <1>6, <2>1
    <3>2. i \in 1..a + b /\ i <= a
      BY <1>2
    <3> QED BY <3>1, <3>2
  <2>2. CASE n \in B
    <3>1. PICK i \in 1..b : g[i] = n
      BY <1>7, <2>2
    <3>2. a + i \in 1..a + b /\ ~(a + i <= a) /\ (a + i) - a = i
      BY <1>2
    <3>3. q[a + i] = g[i]
      BY <3>2
    <3> QED BY <3>1, <3>2, <3>3
  <2> QED BY <1>1, <2>1, <2>2
<1>10. /\ q \in [1..Cardinality(N) -> N] /\ DOMAIN q = 1..a + b
  BY <1>1, <1>5, <1>8
<1> HIDE DEF q
<1>11. {q[i] : i \in DOMAIN q} = N
  BY <1>5, <1>9, <1>10
<1>12. \A i, j \in DOMAIN q : q[i].kind = "available" /\ i < j => q[j].kind = "available"
  <2> SUFFICES ASSUME NEW i \in 1..a + b, NEW j \in 1..a + b, q[i].kind = "available", i < j
               PROVE  q[j].kind = "available"
    BY <1>10
  <2>1. ~(i <= a)
    BY <1>8
  <2>2. ~(j <= a)
    BY <1>2, <2>1
  <2> QED BY <1>8, <2>2
<1> DEFINE R == InOrder(N)
<1>13. /\ R \in [1..Cardinality(N) -> N] /\ {R[i] : i \in DOMAIN R} = N
  BY <1>10, <1>11, <1>12 DEF InOrder
<1>14. Cardinality(N) \in Nat
  BY <1>2, <1>5
<1> HIDE DEF R
<1>15. R \in Seq(N) /\ \A i \in DOMAIN R : R[i] \in N
  BY <1>13, <1>14, SeqDef
<1>16. ASSUME NEW n \in N PROVE \E i \in DOMAIN R : R[i] = n
  <2>1. n \in {R[i] : i \in DOMAIN R}
    BY <1>13
  <2> QED BY <2>1
<1> QED BY <1>15, <1>16 DEF R

-----------------------------------------------------------------------------
(* Shapes of the values *)

PeerStates == [known : BOOLEAN, talk : SUBSET Channels, send : Nat, recv : Nat, producer : Nat]
Consumers == [id : Nat, on : SUBSET Channels, paused : BOOLEAN]
Asks == [kind : Requests \cup {"connect"}, id : Nat, live : BOOLEAN]
        \cup [kind : {"resume"}, id : Nat, from : Users, live : BOOLEAN]
Replies == {m \in [kind : {"answer"}, to : Requests \cup {"connect", "resume"}, id : Nat,
                   ok : BOOLEAN, live : BOOLEAN] :
              m.ok /\ m.to \in {"send", "recv", "produce"} => m.id # 0}
Notices == [kind : {"closed", "state", "available"}, from : Users, id : Nat,
            on : SUBSET Channels]
Messages == Replies \cup Notices
Audio == [armed : BOOLEAN, ready : BOOLEAN, mic : BOOLEAN, device : {"none", "new", "loaded"},
          send : Nat, recv : Nat, producer : Nat, since : Nat]
Jobs == [at : Requests \cup {"idle", "capture", "drain"}, by : {"arm", "effect"}, send : Nat]

\* A controller has both transports or none, and a producer only with them.
Whole(c) == (c.send = 0) = (c.recv = 0) /\ (c.producer # 0 => c.send # 0)

\* A start that makes its receive transport has made the other, one that makes
\* a producer has stored both.
Prepared(c, j) == (j.at = "recv" => j.send # 0) /\ (j.at = "produce" => c.send # 0)

ServerShapes ==
  /\ link \in [Users -> {"down", "open", "attached", "closing"}]
  /\ up \in [Users -> Seq(Asks)] /\ down \in [Users -> Seq(Messages)]
  /\ session \in [Users -> BOOLEAN] /\ talk \in [Users -> SUBSET Channels]
  /\ owed \subseteq Users /\ worker \in BOOLEAN
  /\ peer \in [Users -> PeerStates]
  /\ heard \in [Users -> [Users -> Consumers]]
  /\ made \in [Users -> Nat]

ClientShapes ==
  /\ ctl \in [Users -> Audio] /\ job \in [Users -> Jobs]
  /\ \A u \in Users : Whole(ctl[u]) /\ Prepared(ctl[u], job[u])
  /\ pend \in [Users -> SUBSET Heards] /\ opening \in [Users -> SUBSET Heards]
  /\ playing \in [Users -> SUBSET Heards]
  /\ dtls \in [Users -> {"new", "asked", "up"}]
  /\ err \in [Users -> BOOLEAN] /\ joins \in [Users -> Nat]

Shapes == ServerShapes /\ ClientShapes

LEMMA ShapesTyped == Shapes => MediaTypeOK
<1> SUFFICES ASSUME Shapes PROVE MediaTypeOK
  OBVIOUS
<1>1. \A u \in Users : pend[u] \cup opening[u] \cup playing[u] \subseteq Heards
  BY DEF Shapes, ClientShapes
<1> QED BY <1>1 DEF Shapes, ServerShapes, ClientShapes, MediaTypeOK, PeerStates, Consumers,
                    Audio, Jobs, Whole

\* Values of the records
LEMMA RequestShape ==
  ASSUME NEW kind \in Requests \cup {"connect"}, NEW id \in Nat
  PROVE  Request(kind, id) \in Asks /\ Request(kind, id).kind = kind
BY DEF Request, Asks

LEMMA AskParts ==
  ASSUME NEW m \in Asks
  PROVE  /\ m.kind \in Requests \cup {"connect", "resume"} /\ m.id \in Nat /\ m.live \in BOOLEAN
         /\ m.kind = "resume" => m.from \in Users
BY DEF Asks, Requests

LEMMA AnswerShape ==
  ASSUME NEW m \in Asks, NEW id \in Nat, NEW ok \in BOOLEAN,
         ok /\ m.kind \in {"send", "recv", "produce"} => id # 0
  PROVE  /\ Answer(m, id, ok) \in Messages
         /\ Answer(m, id, ok).kind = "answer" /\ Answer(m, id, ok).to = m.kind
         /\ Answer(m, id, ok).id = id /\ Answer(m, id, ok).ok = ok
         /\ Answer(m, id, ok).live = m.live
<1>1. m.kind \in Requests \cup {"connect", "resume"} /\ m.live \in BOOLEAN
  BY AskParts
<1> QED BY <1>1 DEF Answer, Messages, Replies

LEMMA NoticeShape ==
  ASSUME NEW kind \in {"closed", "state", "available"}, NEW p \in Users, NEW c \in Consumers
  PROVE  /\ Notice(kind, p, c) \in Notices /\ Notice(kind, p, c) \in Messages
         /\ Notice(kind, p, c).kind = kind /\ Notice(kind, p, c).from = p
         /\ Notice(kind, p, c).id = c.id /\ Notice(kind, p, c).on = c.on
BY DEF Notice, Notices, Messages, Consumers

LEMMA MessageParts ==
  ASSUME NEW m \in Messages
  PROVE  /\ m.kind \in {"answer", "closed", "state", "available"} /\ m.id \in Nat
         /\ m.kind = "answer" =>
              /\ m \in Replies /\ m.to \in Requests \cup {"connect", "resume"}
              /\ m.ok \in BOOLEAN /\ m.live \in BOOLEAN
              /\ m.ok /\ m.to \in {"send", "recv", "produce"} => m.id # 0
         /\ m.kind # "answer" => m \in Notices /\ m.from \in Users /\ m.on \in SUBSET Channels
<1>1. CASE m \in Replies
  BY <1>1 DEF Replies
<1>2. CASE m \in Notices
  BY <1>2 DEF Notices
<1> QED BY <1>1, <1>2 DEF Messages

-----------------------------------------------------------------------------
(* What the operators of the service return *)

LEMMA UpsertedShape ==
  ASSUME ServerShapes, NEW P \in [Users -> PeerStates], NEW u \in Users
  PROVE  /\ Upserted(P, u) \in [Users -> PeerStates]
         /\ Upserted(P, u)[u].known /\ Upserted(P, u)[u].talk = talk[u]
         /\ Upserted(P, u)[u].send = P[u].send /\ Upserted(P, u)[u].recv = P[u].recv
         /\ Upserted(P, u)[u].producer = P[u].producer
         /\ \A v \in Users : v # u => Upserted(P, u)[v] = P[v]
<1> DEFINE r == [P[u] EXCEPT !.known = TRUE, !.talk = talk[u]]
<1>1. P[u] \in PeerStates /\ talk[u] \in SUBSET Channels
  BY DEF ServerShapes
<1>2. /\ r \in PeerStates /\ r.known /\ r.talk = talk[u] /\ r.send = P[u].send
      /\ r.recv = P[u].recv /\ r.producer = P[u].producer
  BY <1>1 DEF PeerStates
<1>3. Upserted(P, u) = [P EXCEPT ![u] = r]
  BY <1>1 DEF Upserted, PeerStates
<1> HIDE DEF r
<1>4. Upserted(P, u)[u] = r /\ \A v \in Users : v # u => Upserted(P, u)[v] = P[v]
  BY <1>3
<1>5. Upserted(P, u) \in [Users -> PeerStates]
  BY <1>2, <1>3
<1> QED BY <1>2, <1>4, <1>5

LEMMA DesiredShape ==
  ASSUME NEW P \in [Users -> PeerStates], NEW l \in Users, NEW p \in Users
  PROVE  Desired(P, l, p) \in SUBSET Channels
<1>1. P[p].talk \in SUBSET Channels
  BY DEF PeerStates
<1> QED BY <1>1 DEF Desired

\* The consumers after a reconcile are those of the desired routes.
LEMMA ReconciledShape ==
  ASSUME NEW P \in [Users -> PeerStates], NEW H \in [Users -> [Users -> Consumers]],
         NEW M \in [Users -> Nat], NEW l \in Users, NEW p \in Users
  PROVE  /\ Reconciled(P, H, M)[l][p] \in Consumers
         /\ Reconciled(P, H, M)[l][p].on = Desired(P, l, p)
         /\ Exists(H[l][p]) /\ Exists(Reconciled(P, H, M)[l][p]) =>
              /\ Reconciled(P, H, M)[l][p].id = H[l][p].id
              /\ Reconciled(P, H, M)[l][p].paused = H[l][p].paused
         /\ ~Exists(H[l][p]) /\ Exists(Reconciled(P, H, M)[l][p]) =>
              /\ Reconciled(P, H, M)[l][p].id = M[l] + 1
         /\ ~Exists(Reconciled(P, H, M)[l][p]) => Reconciled(P, H, M)[l][p] = NoConsumer
<1> DEFINE d == Desired(P, l, p)
           c == Reconciled(P, H, M)[l][p]
<1>1. d \in SUBSET Channels
  BY DesiredShape
<1>2. H[l][p] \in Consumers /\ M[l] \in Nat
  OBVIOUS
<1>3. c = IF d = {} THEN NoConsumer
          ELSE IF Exists(H[l][p]) THEN [H[l][p] EXCEPT !.on = d]
          ELSE [id |-> M[l] + 1, on |-> d, paused |-> TRUE]
  BY DEF Reconciled
<1> HIDE DEF c, d
<1>4. CASE d = {}
  <2>1. c = NoConsumer
    BY <1>3, <1>4
  <2>2. NoConsumer \in Consumers /\ NoConsumer.on = {} /\ ~Exists(NoConsumer)
    BY DEF NoConsumer, Consumers, Exists
  <2> QED BY <1>4, <2>1, <2>2 DEF c, d
<1>5. CASE d # {} /\ Exists(H[l][p])
  <2>1. c = [H[l][p] EXCEPT !.on = d]
    BY <1>3, <1>5
  <2>2. /\ c \in Consumers /\ c.on = d /\ c.id = H[l][p].id /\ c.paused = H[l][p].paused
    BY <1>1, <1>2, <2>1 DEF Consumers
  <2> QED BY <1>5, <2>2 DEF c, d, Exists
<1>6. CASE d # {} /\ ~Exists(H[l][p])
  <2>1. c = [id |-> M[l] + 1, on |-> d, paused |-> TRUE]
    BY <1>3, <1>6
  <2>2. c \in Consumers /\ c.on = d /\ c.id = M[l] + 1
    BY <1>1, <1>2, <2>1 DEF Consumers
  <2> QED BY <1>6, <2>2 DEF c, d, Exists
<1> QED BY <1>4, <1>5, <1>6

LEMMA ReconciledTyped ==
  ASSUME NEW P \in [Users -> PeerStates], NEW H \in [Users -> [Users -> Consumers]],
         NEW M \in [Users -> Nat]
  PROVE  Reconciled(P, H, M) \in [Users -> [Users -> Consumers]]
<1>1. \A l, p \in Users : Reconciled(P, H, M)[l][p] \in Consumers
  BY ReconciledShape
<1>2. /\ DOMAIN Reconciled(P, H, M) = Users
      /\ \A l \in Users : Reconciled(P, H, M)[l] \in [Users -> {Reconciled(P, H, M)[l][p] : p \in Users}]
  BY DEF Reconciled
<1>3. \A l \in Users : Reconciled(P, H, M)[l] \in [Users -> Consumers]
  BY <1>1, <1>2
<1>4. Reconciled(P, H, M) = [l \in Users |-> Reconciled(P, H, M)[l]]
  BY DEF Reconciled
<1> QED BY <1>3, <1>4

LEMMA NoticesToShape ==
  ASSUME NEW H \in [Users -> [Users -> Consumers]], NEW A \in [Users -> [Users -> Consumers]],
         NEW l \in Users
  PROVE  NoticesTo(l, H, A) \subseteq Notices /\ NoticesTo(l, H, A) \subseteq Messages
<1>1. \A p \in Users : /\ Notice("closed", p, H[l][p]) \in Notices
                       /\ Notice("state", p, A[l][p]) \in Notices
                       /\ Notice("available", p, A[l][p]) \in Notices
  <2> SUFFICES ASSUME NEW p \in Users
               PROVE  /\ Notice("closed", p, H[l][p]) \in Notices
                      /\ Notice("state", p, A[l][p]) \in Notices
                      /\ Notice("available", p, A[l][p]) \in Notices
    OBVIOUS
  <2>1. H[l][p] \in Consumers /\ A[l][p] \in Consumers
    OBVIOUS
  <2> QED BY <2>1, NoticeShape
<1> QED BY <1>1 DEF NoticesTo, Messages

\* The messages of a reconcile to u.
Told(u, H, A) == InOrder(NoticesTo(u, H, A))

LEMMA ToldShape ==
  ASSUME NEW H \in [Users -> [Users -> Consumers]], NEW A \in [Users -> [Users -> Consumers]],
         NEW u \in Users
  PROVE  /\ Told(u, H, A) \in Seq(Messages)
         /\ \A i \in DOMAIN Told(u, H, A) :
              /\ Told(u, H, A)[i] \in NoticesTo(u, H, A) /\ Told(u, H, A)[i] \in Notices
              /\ Told(u, H, A)[i].kind # "answer"
         /\ \A n \in NoticesTo(u, H, A) : \E i \in DOMAIN Told(u, H, A) : Told(u, H, A)[i] = n
<1> DEFINE N == NoticesTo(u, H, A)
<1>1. IsFiniteSet(N)
  BY NoticesFinite
<1>2. N \subseteq Notices /\ N \subseteq Messages
  BY NoticesToShape
<1>3. \A n \in Notices : n.kind # "answer"
  BY DEF Notices
<1> HIDE DEF N
<1>4. /\ InOrder(N) \in Seq(N)
      /\ \A i \in DOMAIN InOrder(N) : InOrder(N)[i] \in N
      /\ \A n \in N : \E i \in DOMAIN InOrder(N) : InOrder(N)[i] = n
  BY <1>1, InOrderFacts
<1>5. InOrder(N) \in Seq(Messages)
  BY <1>2, <1>4
<1> QED BY <1>2, <1>3, <1>4, <1>5 DEF N, Told

LEMMA SentShape ==
  ASSUME ServerShapes, NEW answers \in [Users -> Seq(Messages)]
  PROVE  /\ Sent(down, answers) \in [Users -> Seq(Messages)]
         /\ \A u \in Users : IF link[u] = "attached" THEN Sent(down, answers)[u] = down[u] \o answers[u]
                                                     ELSE Sent(down, answers)[u] = down[u]
<1>1. ASSUME NEW u \in Users
      PROVE  down[u] \in Seq(Messages) /\ down[u] \o answers[u] \in Seq(Messages)
  <2>1. down[u] \in Seq(Messages) /\ answers[u] \in Seq(Messages)
    BY DEF ServerShapes
  <2> QED BY <2>1, ConcatProperties
<1> QED BY <1>1 DEF Sent

LEMMA ToShape ==
  ASSUME NEW u \in Users, NEW m \in Messages
  PROVE  /\ To(u, m) \in [Users -> Seq(Messages)] /\ To(u, m)[u] = <<m>>
         /\ \A v \in Users : v # u => To(u, m)[v] = <<>>
<1>1. <<m>> \in Seq(Messages) /\ <<>> \in Seq(Messages)
  BY EmptySeq
<1> QED BY <1>1 DEF To, Silence

\* An answer to u is added to what is on its way.
LEMMA SentTo ==
  ASSUME ServerShapes, NEW u \in Users, NEW m \in Messages, link[u] = "attached"
  PROVE  /\ Sent(down, To(u, m)) \in [Users -> Seq(Messages)]
         /\ Sent(down, To(u, m))[u] = Append(down[u], m)
         /\ \A v \in Users : v # u => Sent(down, To(u, m))[v] = down[v]
<1>1. To(u, m) \in [Users -> Seq(Messages)]
  BY ToShape
<1>2. \A v \in Users : down[v] \in Seq(Messages)
  BY DEF ServerShapes
<1>3. down[u] \o <<m>> = Append(down[u], m)
  BY <1>2, AppendIsConcat
<1>4. \A v \in Users : down[v] \o <<>> = down[v]
  BY <1>2, ConcatEmptySeq
<1>5. Sent(down, To(u, m))[u] = down[u] \o <<m>>
  BY <1>1, SentShape, ToShape
<1>6. \A v \in Users : v # u => Sent(down, To(u, m))[v] = down[v]
  BY <1>1, <1>4, SentShape, ToShape, ZenonT(60)
<1> QED BY <1>1, <1>3, <1>5, <1>6, SentShape

LEMMA SilenceShape == Silence \in [Users -> Seq(Messages)] /\ \A u \in Users : Silence[u] = <<>>
<1>1. <<>> \in Seq(Messages)
  BY EmptySeq
<1> QED BY <1>1 DEF Silence

LEMMA ReconcileShape ==
  ASSUME ServerShapes, NEW P \in [Users -> PeerStates],
         NEW H \in [Users -> [Users -> Consumers]], NEW M \in [Users -> Nat],
         NEW answers \in [Users -> Seq(Messages)], Reconcile(P, H, M, answers)
  PROVE  /\ peer' = P /\ heard' = Reconciled(P, H, M)
         /\ heard' \in [Users -> [Users -> Consumers]]
         /\ made' \in [Users -> Nat] /\ down' \in [Users -> Seq(Messages)]
         /\ \A u \in Users :
              /\ made'[u] \in {M[u], M[u] + 1}
              /\ (\E p \in Users : ~Exists(H[u][p]) /\ Exists(heard'[u][p])) => made'[u] = M[u] + 1
              /\ link[u] # "attached" => down'[u] = down[u]
              /\ link[u] = "attached" => down'[u] = down[u] \o (answers[u] \o Told(u, H, heard'))
<1>1. /\ peer' = P /\ heard' = Reconciled(P, H, M)
      /\ down' = Sent(down, [u \in Users |-> answers[u] \o InOrder(NoticesTo(u, H, heard'))])
      /\ made' = [u \in Users |->
           IF \E p \in Users : Exists(heard'[u][p]) /\ heard'[u][p].id > M[u] THEN M[u] + 1 ELSE M[u]]
  BY DEF Reconcile
<1>2. heard' \in [Users -> [Users -> Consumers]]
  BY <1>1, ReconciledTyped
<1> DEFINE messages == [u \in Users |-> answers[u] \o Told(u, H, heard')]
<1>3. messages \in [Users -> Seq(Messages)]
  <2> SUFFICES ASSUME NEW u \in Users PROVE answers[u] \o Told(u, H, heard') \in Seq(Messages)
    OBVIOUS
  <2>1. Told(u, H, heard') \in Seq(Messages) /\ answers[u] \in Seq(Messages)
    BY <1>2, ToldShape
  <2> QED BY <2>1, ConcatProperties
<1>4. down' = Sent(down, messages)
  BY <1>1 DEF Told
<1>5. \A u \in Users : messages[u] = answers[u] \o Told(u, H, heard')
  OBVIOUS
<1> HIDE DEF messages
<1>6. ASSUME NEW u \in Users, NEW p \in Users, ~Exists(H[u][p]), Exists(heard'[u][p])
      PROVE  made'[u] = M[u] + 1
  <2>1. heard'[u][p].id = M[u] + 1
    BY <1>1, <1>6, ReconciledShape
  <2>2. M[u] \in Nat /\ M[u] + 1 > M[u]
    OBVIOUS
  <2>3. heard'[u][p].id > M[u]
    BY <2>1, <2>2
  <2> QED BY <1>1, <1>6, <2>3
<1>7. made' \in [Users -> Nat] /\ \A u \in Users : made'[u] \in {M[u], M[u] + 1}
  BY <1>1
<1>8. down' \in [Users -> Seq(Messages)]
  BY <1>3, <1>4, SentShape
<1>9. ASSUME NEW u \in Users
      PROVE  /\ link[u] # "attached" => down'[u] = down[u]
             /\ link[u] = "attached" => down'[u] = down[u] \o (answers[u] \o Told(u, H, heard'))
  BY <1>3, <1>4, <1>5, SentShape
<1> QED BY <1>1, <1>2, <1>6, <1>7, <1>8, <1>9

-----------------------------------------------------------------------------
(* The steps of the server keep the shapes *)

LEMMA UpDropped ==
  ASSUME ServerShapes, NEW u \in Users, up[u] # <<>>, up' = [up EXCEPT ![u] = Tail(@)]
  PROVE  /\ up' \in [Users -> Seq(Asks)] /\ up'[u] = Tail(up[u])
         /\ \A v \in Users : v # u => up'[v] = up[v]
         /\ Head(up[u]) \in Asks
<1>1. up[u] \in Seq(Asks)
  BY DEF ServerShapes
<1>2. Tail(up[u]) \in Seq(Asks) /\ Head(up[u]) \in Asks
  BY <1>1, TailFacts
<1> QED BY <1>2 DEF ServerShapes

LEMMA TakesShape ==
  ASSUME ServerShapes, NEW u \in Users, NEW kinds, Takes(u, kinds)
  PROVE  /\ up' \in [Users -> Seq(Asks)] /\ up'[u] = Tail(up[u])
         /\ \A v \in Users : v # u => up'[v] = up[v]
         /\ Head(up[u]) \in Asks /\ Head(up[u]).kind \in kinds /\ up[u] # <<>>
         /\ link[u] = "attached" /\ worker
         /\ UNCHANGED <<link, session, talk, owed, worker>>
BY UpDropped DEF Takes

LEMMA RefusalShape ==
  ASSUME ServerShapes, NEW u \in Users, up[u] # <<>>
  PROVE  /\ Refusal(u) \in Messages /\ Refusal(u).kind = "answer"
         /\ Refusal(u).to = Head(up[u]).kind /\ Refusal(u).live = Head(up[u]).live
         /\ Refusal(u).ok = FALSE /\ Refusal(u).id = 0
<1>1. up[u] \in Seq(Asks)
  BY DEF ServerShapes
<1>2. Head(up[u]) \in Asks
  BY <1>1, TailFacts
<1>3. 0 \in Nat /\ FALSE \in BOOLEAN
  OBVIOUS
<1> QED BY <1>2, <1>3, AnswerShape DEF Refusal

LEMMA UnheardShape ==
  ASSUME NEW H \in [Users -> [Users -> Consumers]], NEW u \in Users
  PROVE  /\ Unheard(H, u) \in [Users -> [Users -> Consumers]]
         /\ \A l \in Users : /\ Unheard(H, u)[l][u] = NoConsumer
                             /\ \A p \in Users : p # u => Unheard(H, u)[l][p] = H[l][p]
         /\ Deaf(H, u) \in [Users -> [Users -> Consumers]]
         /\ \A p \in Users : Deaf(H, u)[u][p] = NoConsumer
         /\ \A l \in Users : l # u => Deaf(H, u)[l] = H[l]
<1>1. NoConsumer \in Consumers
  BY DEF NoConsumer, Consumers
<1> QED BY <1>1 DEF Unheard, Deaf

\* The parts of the peers that a request changes.
Sending(P, u, id) == [P EXCEPT ![u].send = id, ![u].producer = 0]

LEMMA PeerSends ==
  ASSUME NEW P \in [Users -> PeerStates], NEW u \in Users, NEW id \in Nat
  PROVE  /\ Sending(P, u, id) \in [Users -> PeerStates] /\ \A v \in Users : v # u => Sending(P, u, id)[v] = P[v]
         /\ Sending(P, u, id)[u].known = P[u].known /\ Sending(P, u, id)[u].talk = P[u].talk /\ Sending(P, u, id)[u].send = id
         /\ Sending(P, u, id)[u].recv = P[u].recv /\ Sending(P, u, id)[u].producer = 0
<1> DEFINE r == [P[u] EXCEPT !.send = id, !.producer = 0]
<1>1. P[u] \in PeerStates
  OBVIOUS
<1>2. /\ r \in PeerStates /\ r.known = P[u].known /\ r.talk = P[u].talk /\ r.send = id
      /\ r.recv = P[u].recv /\ r.producer = 0
  BY <1>1 DEF PeerStates
<1>3. Sending(P, u, id) = [P EXCEPT ![u] = r]
  BY DEF Sending
<1> HIDE DEF r
<1>4. Sending(P, u, id)[u] = r /\ \A v \in Users : v # u => Sending(P, u, id)[v] = P[v]
  BY <1>3
<1> QED BY <1>2, <1>3, <1>4

Receiving(P, u, id) == [P EXCEPT ![u].recv = id]

LEMMA PeerReceives ==
  ASSUME NEW P \in [Users -> PeerStates], NEW u \in Users, NEW id \in Nat
  PROVE  /\ Receiving(P, u, id) \in [Users -> PeerStates] /\ \A v \in Users : v # u => Receiving(P, u, id)[v] = P[v]
         /\ Receiving(P, u, id)[u].known = P[u].known /\ Receiving(P, u, id)[u].talk = P[u].talk /\ Receiving(P, u, id)[u].send = P[u].send
         /\ Receiving(P, u, id)[u].recv = id /\ Receiving(P, u, id)[u].producer = P[u].producer
<1> DEFINE r == [P[u] EXCEPT !.recv = id]
<1>1. P[u] \in PeerStates
  OBVIOUS
<1>2. /\ r \in PeerStates /\ r.known = P[u].known /\ r.talk = P[u].talk /\ r.send = P[u].send
      /\ r.recv = id /\ r.producer = P[u].producer
  BY <1>1 DEF PeerStates
<1>3. Receiving(P, u, id) = [P EXCEPT ![u] = r]
  BY DEF Receiving
<1> HIDE DEF r
<1>4. Receiving(P, u, id)[u] = r /\ \A v \in Users : v # u => Receiving(P, u, id)[v] = P[v]
  BY <1>3
<1> QED BY <1>2, <1>3, <1>4

Producing(P, u, id) == [P EXCEPT ![u].producer = id]

LEMMA PeerProduces ==
  ASSUME NEW P \in [Users -> PeerStates], NEW u \in Users, NEW id \in Nat
  PROVE  /\ Producing(P, u, id) \in [Users -> PeerStates] /\ \A v \in Users : v # u => Producing(P, u, id)[v] = P[v]
         /\ Producing(P, u, id)[u].known = P[u].known /\ Producing(P, u, id)[u].talk = P[u].talk /\ Producing(P, u, id)[u].send = P[u].send
         /\ Producing(P, u, id)[u].recv = P[u].recv /\ Producing(P, u, id)[u].producer = id
<1> DEFINE r == [P[u] EXCEPT !.producer = id]
<1>1. P[u] \in PeerStates
  OBVIOUS
<1>2. /\ r \in PeerStates /\ r.known = P[u].known /\ r.talk = P[u].talk /\ r.send = P[u].send
      /\ r.recv = P[u].recv /\ r.producer = id
  BY <1>1 DEF PeerStates
<1>3. Producing(P, u, id) = [P EXCEPT ![u] = r]
  BY DEF Producing
<1> HIDE DEF r
<1>4. Producing(P, u, id)[u] = r /\ \A v \in Users : v # u => Producing(P, u, id)[v] = P[v]
  BY <1>3
<1> QED BY <1>2, <1>3, <1>4

\* What a request for a transport does.
LEMMA TransportEffects ==
  ASSUME ServerShapes, NEW u \in Users, ServeTransport(u)
  PROVE  LET m == Head(up[u])
             P == Upserted(peer, u)
         IN /\ m \in Asks /\ m.kind \in {"send", "recv"} /\ Takes(u, {"send", "recv"})
            /\ made'[u] = made[u] + 1 /\ made' \in [Users -> Nat]
            /\ \A v \in Users : v # u => made'[v] = made[v] /\ peer'[v] = peer[v]
            /\ peer' \in [Users -> PeerStates]
            /\ peer'[u].known /\ peer'[u].talk = talk[u]
            /\ m.kind = "send" => /\ peer'[u].send = made[u] + 1 /\ peer'[u].recv = peer[u].recv
                                  /\ peer'[u].producer = 0 /\ heard' = Unheard(heard, u)
            /\ m.kind = "recv" => /\ peer'[u].send = peer[u].send /\ peer'[u].recv = made[u] + 1
                                  /\ peer'[u].producer = peer[u].producer
                                  /\ heard' = Deaf(heard, u)
            /\ heard' \in [Users -> [Users -> Consumers]]
            /\ Answer(m, made[u] + 1, TRUE) \in Messages
            /\ down' \in [Users -> Seq(Messages)]
            /\ down'[u] = Append(down[u], Answer(m, made[u] + 1, TRUE))
            /\ \A v \in Users : v # u => down'[v] = down[v]
<1> DEFINE m == Head(up[u])
           P == Upserted(peer, u)
           id == made[u] + 1
<1>1. Takes(u, {"send", "recv"})
  BY DEF ServeTransport
<1>2. m \in Asks /\ m.kind \in {"send", "recv"} /\ link[u] = "attached"
  BY <1>1, TakesShape
<1>3. /\ peer \in [Users -> PeerStates] /\ heard \in [Users -> [Users -> Consumers]]
      /\ made \in [Users -> Nat]
  BY DEF ServerShapes
<1>4. id \in Nat /\ id # 0
  BY <1>3
<1>5. /\ P \in [Users -> PeerStates] /\ P[u].known /\ P[u].talk = talk[u]
      /\ P[u].send = peer[u].send /\ P[u].recv = peer[u].recv /\ P[u].producer = peer[u].producer
      /\ \A v \in Users : v # u => P[v] = peer[v]
  BY <1>3, UpsertedShape
<1>6. made' = [made EXCEPT ![u] = id]
  BY DEF ServeTransport
<1>7. /\ m.kind = "send" => /\ peer' = [P EXCEPT ![u].send = id, ![u].producer = 0]
                            /\ heard' = Unheard(heard, u)
      /\ m.kind = "recv" => /\ peer' = [P EXCEPT ![u].recv = id]
                            /\ heard' = Deaf(heard, u)
  BY DEF ServeTransport
<1>8. Answer(m, id, TRUE) \in Messages
  BY <1>2, <1>4, AnswerShape
<1>9. down' = Sent(down, To(u, Answer(m, id, TRUE)))
  BY DEF ServeTransport
<1> HIDE DEF P, id, m
<1>10. P \in [Users -> PeerStates] /\ id \in Nat
  BY <1>4, <1>5
<1>11. CASE m.kind = "send"
  <2>1. peer' = Sending(P, u, id) /\ heard' = Unheard(heard, u)
    BY <1>7, <1>11 DEF Sending
  <2>2. /\ peer' \in [Users -> PeerStates] /\ \A v \in Users : v # u => peer'[v] = P[v]
        /\ peer'[u].known = P[u].known /\ peer'[u].talk = P[u].talk /\ peer'[u].send = id
        /\ peer'[u].recv = P[u].recv /\ peer'[u].producer = 0
    BY <1>10, <2>1, PeerSends
  <2>4. heard' \in [Users -> [Users -> Consumers]]
    BY <1>3, <2>1, UnheardShape
  <2>5. down' \in [Users -> Seq(Messages)] /\ down'[u] = Append(down[u], Answer(m, id, TRUE))
        /\ \A v \in Users : v # u => down'[v] = down[v]
    BY <1>2, <1>8, <1>9, SentTo
  <2>6. made' \in [Users -> Nat] /\ made'[u] = id /\ \A v \in Users : v # u => made'[v] = made[v]
    BY <1>3, <1>4, <1>6
  <2> QED BY <1>1, <1>2, <1>5, <1>8, <1>11, <2>1, <2>2, <2>4, <2>5, <2>6 DEF id, m
<1>12. CASE m.kind = "recv"
  <2>1. peer' = Receiving(P, u, id) /\ heard' = Deaf(heard, u)
    BY <1>7, <1>12 DEF Receiving
  <2>2. /\ peer' \in [Users -> PeerStates] /\ \A v \in Users : v # u => peer'[v] = P[v]
        /\ peer'[u].known = P[u].known /\ peer'[u].talk = P[u].talk /\ peer'[u].send = P[u].send
        /\ peer'[u].recv = id /\ peer'[u].producer = P[u].producer
    BY <1>10, <2>1, PeerReceives
  <2>4. heard' \in [Users -> [Users -> Consumers]]
    BY <1>3, <2>1, UnheardShape
  <2>5. down' \in [Users -> Seq(Messages)] /\ down'[u] = Append(down[u], Answer(m, id, TRUE))
        /\ \A v \in Users : v # u => down'[v] = down[v]
    BY <1>2, <1>8, <1>9, SentTo
  <2>6. made' \in [Users -> Nat] /\ made'[u] = id /\ \A v \in Users : v # u => made'[v] = made[v]
    BY <1>3, <1>4, <1>6
  <2> QED BY <1>1, <1>2, <1>5, <1>8, <1>12, <2>1, <2>2, <2>4, <2>5, <2>6 DEF id, m
<1> QED BY <1>2, <1>11, <1>12

LEMMA AppendConcat ==
  ASSUME NEW q \in Seq(Messages), NEW m \in Messages, NEW r \in Seq(Messages)
  PROVE  q \o (<<m>> \o r) = Append(q, m) \o r
<1>1. <<m>> \in Seq(Messages)
  OBVIOUS
<1>2. q \o (<<m>> \o r) = (q \o <<m>>) \o r
  BY <1>1, ConcatAssociative
<1>3. q \o <<m>> = Append(q, m)
  BY AppendIsConcat
<1> QED BY <1>2, <1>3

\* The messages of a reconcile follow the answer to u.
LEMMA ReconcileTo ==
  ASSUME ServerShapes, NEW P \in [Users -> PeerStates],
         NEW H \in [Users -> [Users -> Consumers]], NEW M \in [Users -> Nat],
         NEW u \in Users, link[u] = "attached", NEW m \in Messages,
         Reconcile(P, H, M, To(u, m))
  PROVE  /\ down'[u] = Append(down[u], m) \o Told(u, H, heard')
         /\ \A v \in Users : v # u => /\ link[v] # "attached" => down'[v] = down[v]
                                      /\ link[v] = "attached" => down'[v] = down[v] \o Told(v, H, heard')
<1>1. To(u, m) \in [Users -> Seq(Messages)] /\ To(u, m)[u] = <<m>>
      /\ \A v \in Users : v # u => To(u, m)[v] = <<>>
  BY ToShape
<1>2. /\ heard' \in [Users -> [Users -> Consumers]]
      /\ \A v \in Users :
           /\ link[v] # "attached" => down'[v] = down[v]
           /\ link[v] = "attached" => down'[v] = down[v] \o (To(u, m)[v] \o Told(v, H, heard'))
  BY <1>1, ReconcileShape, ZenonT(60)
<1>3. \A v \in Users : down[v] \in Seq(Messages) /\ Told(v, H, heard') \in Seq(Messages)
  BY <1>2, ToldShape DEF ServerShapes
<1>4. down[u] \o (<<m>> \o Told(u, H, heard')) = Append(down[u], m) \o Told(u, H, heard')
  <2>1. down[u] \in Seq(Messages) /\ Told(u, H, heard') \in Seq(Messages)
    BY <1>3
  <2> QED BY <2>1, AppendConcat
<1>7. \A v \in Users : <<>> \o Told(v, H, heard') = Told(v, H, heard')
  BY <1>3, ConcatEmptySeq
<1>8. down'[u] = down[u] \o (<<m>> \o Told(u, H, heard'))
  BY <1>1, <1>2
<1>9. ASSUME NEW v \in Users, v # u
      PROVE  /\ link[v] # "attached" => down'[v] = down[v]
             /\ link[v] = "attached" => down'[v] = down[v] \o Told(v, H, heard')
  BY <1>1, <1>2, <1>7, <1>9
<1> QED BY <1>4, <1>8, <1>9

LEMMA ReconcileSilently ==
  ASSUME ServerShapes, NEW P \in [Users -> PeerStates],
         NEW H \in [Users -> [Users -> Consumers]], NEW M \in [Users -> Nat],
         Reconcile(P, H, M, Silence)
  PROVE  \A v \in Users : /\ link[v] # "attached" => down'[v] = down[v]
                          /\ link[v] = "attached" => down'[v] = down[v] \o Told(v, H, heard')
<1>1. /\ heard' \in [Users -> [Users -> Consumers]]
      /\ \A v \in Users :
           /\ link[v] # "attached" => down'[v] = down[v]
           /\ link[v] = "attached" => down'[v] = down[v] \o (Silence[v] \o Told(v, H, heard'))
  BY SilenceShape, ReconcileShape, ZenonT(60)
<1>2. \A v \in Users : Told(v, H, heard') \in Seq(Messages)
  BY <1>1, ToldShape
<1>3. \A v \in Users : <<>> \o Told(v, H, heard') = Told(v, H, heard')
  BY <1>2, ConcatEmptySeq
<1> QED BY <1>1, <1>3, SilenceShape

\* What a request to connect the receive transport does.
LEMMA ConnectEffects ==
  ASSUME ServerShapes, NEW u \in Users, ServeConnect(u)
  PROVE  LET m == Head(up[u])
             P == Upserted(peer, u)
         IN /\ m \in Asks /\ m.kind = "connect" /\ Takes(u, {"connect"})
            /\ peer' = P /\ P \in [Users -> PeerStates]
            /\ m.id = peer[u].recv /\ peer[u].recv # 0 =>
                 /\ Answer(m, m.id, TRUE) \in Messages
                 /\ Reconcile(P, heard, made, To(u, Answer(m, m.id, TRUE)))
            /\ ~(m.id = peer[u].recv /\ peer[u].recv # 0) =>
                 /\ UNCHANGED <<heard, made>> /\ Refusal(u) \in Messages
                 /\ down' \in [Users -> Seq(Messages)]
                 /\ down'[u] = Append(down[u], Refusal(u))
                 /\ \A v \in Users : v # u => down'[v] = down[v]
<1> DEFINE m == Head(up[u])
           P == Upserted(peer, u)
<1>1. Takes(u, {"connect"})
  BY DEF ServeConnect
<1>2. m \in Asks /\ m.kind = "connect" /\ link[u] = "attached" /\ up[u] # <<>>
  BY <1>1, TakesShape
<1>3. peer \in [Users -> PeerStates]
  BY DEF ServerShapes
<1>4. P \in [Users -> PeerStates]
  BY <1>3, UpsertedShape
<1>5. CASE m.id = peer[u].recv /\ peer[u].recv # 0
  <2>1. Reconcile(P, heard, made, To(u, Answer(m, m.id, TRUE)))
    BY <1>5 DEF ServeConnect
  <2>2. peer' = P
    BY <2>1 DEF Reconcile
  <2>3. m.id \in Nat
    BY <1>2, AskParts
  <2>4. Answer(m, m.id, TRUE) \in Messages
    BY <1>2, <2>3, AnswerShape
  <2> QED BY <1>1, <1>2, <1>4, <1>5, <2>1, <2>2, <2>4
<1>6. CASE ~(m.id = peer[u].recv /\ peer[u].recv # 0)
  <2>1. peer' = P /\ down' = Sent(down, To(u, Refusal(u))) /\ UNCHANGED <<heard, made>>
    BY <1>6 DEF ServeConnect
  <2>2. Refusal(u) \in Messages
    BY <1>2, RefusalShape
  <2>3. /\ down' \in [Users -> Seq(Messages)] /\ down'[u] = Append(down[u], Refusal(u))
        /\ \A v \in Users : v # u => down'[v] = down[v]
    BY <1>2, <2>1, <2>2, SentTo
  <2> QED BY <1>1, <1>2, <1>4, <1>6, <2>1, <2>2, <2>3
<1> QED BY <1>5, <1>6

\* What a request for a producer does.
LEMMA ProducerEffects ==
  ASSUME ServerShapes, NEW u \in Users, ServeProducer(u)
  PROVE  LET m == Head(up[u])
             P == Upserted(peer, u)
             id == made[u] + 1
         IN /\ m \in Asks /\ m.kind = "produce" /\ Takes(u, {"produce"})
            /\ P \in [Users -> PeerStates] /\ id \in Nat /\ id # 0
            /\ m.id = peer[u].send /\ peer[u].send # 0 =>
                 /\ Answer(m, id, TRUE) \in Messages
                 /\ peer' = Producing(P, u, id)
                 /\ [made EXCEPT ![u] = id] \in [Users -> Nat]
                 /\ Reconcile(Producing(P, u, id), Unheard(heard, u), [made EXCEPT ![u] = id],
                              To(u, Answer(m, id, TRUE)))
            /\ ~(m.id = peer[u].send /\ peer[u].send # 0) =>
                 /\ peer' = P /\ UNCHANGED <<heard, made>> /\ Refusal(u) \in Messages
                 /\ down' \in [Users -> Seq(Messages)]
                 /\ down'[u] = Append(down[u], Refusal(u))
                 /\ \A v \in Users : v # u => down'[v] = down[v]
<1> DEFINE m == Head(up[u])
           P == Upserted(peer, u)
           id == made[u] + 1
<1>1. Takes(u, {"produce"})
  BY DEF ServeProducer
<1>2. m \in Asks /\ m.kind = "produce" /\ link[u] = "attached" /\ up[u] # <<>>
  BY <1>1, TakesShape
<1>3. peer \in [Users -> PeerStates] /\ made \in [Users -> Nat]
  BY DEF ServerShapes
<1>4. P \in [Users -> PeerStates] /\ id \in Nat /\ id # 0
  BY <1>3, UpsertedShape
<1>5. CASE m.id = peer[u].send /\ peer[u].send # 0
  <2>1. Reconcile(Producing(P, u, id), Unheard(heard, u), [made EXCEPT ![u] = id],
                  To(u, Answer(m, id, TRUE)))
    BY <1>5 DEF ServeProducer, Producing
  <2>2. peer' = Producing(P, u, id)
    BY <2>1 DEF Reconcile
  <2>3. Answer(m, id, TRUE) \in Messages
    BY <1>2, <1>4, AnswerShape
  <2>4. [made EXCEPT ![u] = id] \in [Users -> Nat]
    BY <1>3, <1>4
  <2> QED BY <1>1, <1>2, <1>4, <1>5, <2>1, <2>2, <2>3, <2>4
<1>6. CASE ~(m.id = peer[u].send /\ peer[u].send # 0)
  <2>1. peer' = P /\ down' = Sent(down, To(u, Refusal(u))) /\ UNCHANGED <<heard, made>>
    BY <1>6 DEF ServeProducer
  <2>2. Refusal(u) \in Messages
    BY <1>2, RefusalShape
  <2>3. /\ down' \in [Users -> Seq(Messages)] /\ down'[u] = Append(down[u], Refusal(u))
        /\ \A v \in Users : v # u => down'[v] = down[v]
    BY <1>2, <2>1, <2>2, SentTo
  <2> QED BY <1>1, <1>2, <1>4, <1>6, <2>1, <2>2, <2>3
<1> QED BY <1>5, <1>6

\* What a request to resume a consumer does.
LEMMA ResumeEffects ==
  ASSUME ServerShapes, NEW u \in Users, ServeResume(u)
  PROVE  LET m == Head(up[u]) IN
         \E ok \in BOOLEAN :
            /\ m \in Asks /\ m.kind = "resume" /\ Takes(u, {"resume"})
            /\ peer' = Upserted(peer, u) /\ peer' \in [Users -> PeerStates] /\ UNCHANGED made
            /\ heard' \in [Users -> [Users -> Consumers]]
            /\ \A l, p \in Users :
                 /\ heard'[l][p].id = heard[l][p].id /\ heard'[l][p].on = heard[l][p].on
                 /\ heard'[l][p].paused => heard[l][p].paused
                 /\ heard'[l][p].paused =>
                      ~(l = u /\ Exists(heard[l][p]) /\ p = m.from /\ heard[l][p].id = m.id)
            /\ Answer(m, m.id, ok) \in Messages
            /\ down' \in [Users -> Seq(Messages)]
            /\ down'[u] = Append(down[u], Answer(m, m.id, ok))
            /\ \A v \in Users : v # u => down'[v] = down[v]
<1> DEFINE m == Head(up[u])
           found == {p \in Users : Exists(heard[u][p]) /\ p = m.from /\ heard[u][p].id = m.id}
           row == [p \in Users |-> IF p \in found THEN [heard[u][p] EXCEPT !.paused = FALSE]
                                                  ELSE heard[u][p]]
           ok == found # {}
<1>1. /\ Takes(u, {"resume"}) /\ peer' = Upserted(peer, u) /\ UNCHANGED made
      /\ heard' = [heard EXCEPT ![u] = row] /\ down' = Sent(down, To(u, Answer(m, m.id, ok)))
  BY DEF ServeResume
<1>2. m \in Asks /\ m.kind = "resume" /\ link[u] = "attached"
  BY <1>1, TakesShape
<1>3. peer \in [Users -> PeerStates] /\ heard \in [Users -> [Users -> Consumers]]
  BY DEF ServerShapes
<1>4. peer' \in [Users -> PeerStates]
  BY <1>1, <1>3, UpsertedShape
<1>5. ASSUME NEW p \in Users
      PROVE  /\ row[p] \in Consumers /\ row[p].id = heard[u][p].id /\ row[p].on = heard[u][p].on
             /\ row[p].paused => heard[u][p].paused /\ p \notin found
  <2>1. heard[u][p] \in Consumers
    BY <1>3
  <2>2. row[p] = IF p \in found THEN [heard[u][p] EXCEPT !.paused = FALSE] ELSE heard[u][p]
    OBVIOUS
  <2> HIDE DEF row, found
  <2> QED BY <2>1, <2>2 DEF Consumers
<1>6. ok \in BOOLEAN /\ m.id \in Nat
  BY <1>2, AskParts
<1>7. Answer(m, m.id, ok) \in Messages
  BY <1>2, <1>6, AnswerShape
<1>8. \A p \in Users : p \notin found => ~(Exists(heard[u][p]) /\ p = m.from /\ heard[u][p].id = m.id)
  OBVIOUS
<1>9. row \in [Users -> Consumers]
  BY <1>5
<1> HIDE DEF row, found, ok, m
<1>10. heard' \in [Users -> [Users -> Consumers]] /\ heard'[u] = row
       /\ \A l \in Users : l # u => heard'[l] = heard[l]
  BY <1>1, <1>3, <1>9
<1>11. ASSUME NEW l \in Users, NEW p \in Users
       PROVE  /\ heard'[l][p].id = heard[l][p].id /\ heard'[l][p].on = heard[l][p].on
              /\ heard'[l][p].paused => heard[l][p].paused
              /\ heard'[l][p].paused =>
                   ~(l = u /\ Exists(heard[l][p]) /\ p = m.from /\ heard[l][p].id = m.id)
  <2>1. CASE l = u
    BY <1>5, <1>8, <1>10, <2>1
  <2>2. CASE l # u
    BY <1>10, <2>2
  <2> QED BY <2>1, <2>2
<1>12. /\ down' \in [Users -> Seq(Messages)] /\ down'[u] = Append(down[u], Answer(m, m.id, ok))
       /\ \A v \in Users : v # u => down'[v] = down[v]
  BY <1>1, <1>2, <1>7, SentTo
<1>13. \A l, p \in Users :
                 /\ heard'[l][p].id = heard[l][p].id /\ heard'[l][p].on = heard[l][p].on
                 /\ heard'[l][p].paused => heard[l][p].paused
                 /\ heard'[l][p].paused =>
                      ~(l = u /\ Exists(heard[l][p]) /\ p = m.from /\ heard[l][p].id = m.id)
  BY <1>11, SMTT(40)
<1> USE DEF m
<1>14. /\ m \in Asks /\ m.kind = "resume" /\ Takes(u, {"resume"})
       /\ peer' = Upserted(peer, u) /\ peer' \in [Users -> PeerStates] /\ UNCHANGED made
       /\ heard' \in [Users -> [Users -> Consumers]] /\ Answer(m, m.id, ok) \in Messages
       /\ down' \in [Users -> Seq(Messages)]
       /\ down'[u] = Append(down[u], Answer(m, m.id, ok))
       /\ \A v \in Users : v # u => down'[v] = down[v]
  BY <1>1, <1>2, <1>4, <1>7, <1>10, <1>12
<1> QED BY <1>6, <1>13, <1>14

LEMMA CapabilitiesEffects ==
  ASSUME ServerShapes, NEW u \in Users, ServeCapabilities(u)
  PROVE  LET m == Head(up[u]) IN
         /\ m \in Asks /\ m.kind = "capabilities" /\ Takes(u, {"capabilities"})
         /\ UNCHANGED <<peer, heard, made>> /\ Answer(m, 0, TRUE) \in Messages
         /\ down' \in [Users -> Seq(Messages)] /\ down'[u] = Append(down[u], Answer(m, 0, TRUE))
         /\ \A v \in Users : v # u => down'[v] = down[v]
<1> DEFINE m == Head(up[u])
<1>1. /\ Takes(u, {"capabilities"}) /\ UNCHANGED <<peer, heard, made>>
      /\ down' = Sent(down, To(u, Answer(m, 0, TRUE)))
  BY DEF ServeCapabilities
<1>2. m \in Asks /\ m.kind = "capabilities" /\ link[u] = "attached"
  BY <1>1, TakesShape
<1>3. Answer(m, 0, TRUE) \in Messages
  BY <1>2, AnswerShape
<1> HIDE DEF m
<1>4. /\ down' \in [Users -> Seq(Messages)] /\ down'[u] = Append(down[u], Answer(m, 0, TRUE))
      /\ \A v \in Users : v # u => down'[v] = down[v]
  BY <1>1, <1>2, <1>3, SentTo
<1> QED BY <1>1, <1>2, <1>3, <1>4 DEF m

LEMMA RefusedEffects ==
  ASSUME ServerShapes, NEW u \in Users, ServeWithoutWorker(u)
  PROVE  /\ ~worker /\ link[u] = "attached" /\ up[u] # <<>> /\ Refusal(u) \in Messages
         /\ up' = [up EXCEPT ![u] = Tail(@)]
         /\ down' \in [Users -> Seq(Messages)] /\ down'[u] = Append(down[u], Refusal(u))
         /\ \A v \in Users : v # u => down'[v] = down[v]
         /\ UNCHANGED <<link, session, talk, owed, worker, peer, heard, made>>
<1>1. /\ ~worker /\ link[u] = "attached" /\ up[u] # <<>>
      /\ up' = [up EXCEPT ![u] = Tail(@)]
      /\ down' = Sent(down, To(u, Refusal(u)))
      /\ UNCHANGED <<link, session, talk, owed, worker, peer, heard, made>>
  BY DEF ServeWithoutWorker, routing
<1>2. Refusal(u) \in Messages
  BY <1>1, RefusalShape
<1> QED BY <1>1, <1>2, SentTo

LEMMA HungEffects ==
  ASSUME ServerShapes, NEW u \in Users, Hung(u)
  PROVE  /\ link' \in [Users -> {"down", "open", "attached", "closing"}]
         /\ up' \in [Users -> Seq(Asks)] /\ down' \in [Users -> Seq(Messages)]
         /\ link'[u] = "closing" /\ up'[u] = <<>> /\ down'[u] = <<>>
         /\ \A v \in Users : v # u => link'[v] = link[v] /\ up'[v] = up[v] /\ down'[v] = down[v]
<1>1. <<>> \in Seq(Asks) /\ <<>> \in Seq(Messages)
  BY EmptySeq
<1> QED BY <1>1 DEF Hung, ServerShapes

\* What an update or a detachment that reconciles does.
LEMMA UpdateEffects ==
  ASSUME ServerShapes, NEW u \in Users, Update(u), worker
  PROVE  /\ Upserted(peer, u) \in [Users -> PeerStates]
         /\ Reconcile(Upserted(peer, u), heard, made, Silence)
         /\ UNCHANGED <<link, up, session, talk, worker>> /\ owed' = owed \ {u} /\ u \in owed
BY UpsertedShape DEF Update, ServerShapes

LEMMA DetachEffects ==
  ASSUME ServerShapes, NEW u \in Users, Detach(u)
  PROVE  LET P == [peer EXCEPT ![u] = NoPeer] IN
         /\ link[u] # "attached" /\ session[u]
         /\ session' = [session EXCEPT ![u] = FALSE] /\ talk' = [talk EXCEPT ![u] = {}]
         /\ owed' = owed \ {u} /\ UNCHANGED <<link, up, worker>>
         /\ P \in [Users -> PeerStates] /\ P[u] = NoPeer /\ \A v \in Users : v # u => P[v] = peer[v]
         /\ peer[u].known /\ worker => Reconcile(P, heard, made, Silence)
         /\ ~(peer[u].known /\ worker) => UNCHANGED <<peer, heard, made, down>>
<1>1. NoPeer \in PeerStates
  BY DEF NoPeer, PeerStates
<1> QED BY <1>1 DEF Detach, ServerShapes

LEMMA ServerTyped ==
  ASSUME ServerShapes, ServerNext
  PROVE  ServerShapes'
<1>1. ASSUME NEW u \in Users, ServeCapabilities(u) PROVE ServerShapes'
  BY <1>1, CapabilitiesEffects, TakesShape DEF ServerShapes
<1>2. ASSUME NEW u \in Users, ServeTransport(u) PROVE ServerShapes'
  <2>1. /\ Takes(u, {"send", "recv"}) /\ made' \in [Users -> Nat]
        /\ peer' \in [Users -> PeerStates] /\ heard' \in [Users -> [Users -> Consumers]]
        /\ down' \in [Users -> Seq(Messages)]
    BY <1>2, TransportEffects
  <2> QED BY <2>1, TakesShape DEF ServerShapes
<1>3. ASSUME NEW u \in Users, ServeConnect(u) PROVE ServerShapes'
  <2> DEFINE m == Head(up[u])
             P == Upserted(peer, u)
  <2>1. /\ Takes(u, {"connect"}) /\ peer' = P /\ P \in [Users -> PeerStates] /\ m \in Asks
    BY <1>3, ConnectEffects
  <2>2. /\ heard \in [Users -> [Users -> Consumers]] /\ made \in [Users -> Nat]
    BY DEF ServerShapes
  <2>3. /\ heard' \in [Users -> [Users -> Consumers]] /\ made' \in [Users -> Nat]
        /\ down' \in [Users -> Seq(Messages)]
    <3>1. CASE m.id = peer[u].recv /\ peer[u].recv # 0
      <4>1. /\ Answer(m, m.id, TRUE) \in Messages
            /\ Reconcile(P, heard, made, To(u, Answer(m, m.id, TRUE)))
        BY <1>3, <3>1, ConnectEffects
      <4>2. To(u, Answer(m, m.id, TRUE)) \in [Users -> Seq(Messages)]
        BY <4>1, ToShape
      <4> QED BY <2>1, <2>2, <4>1, <4>2, ReconcileShape
    <3>2. CASE ~(m.id = peer[u].recv /\ peer[u].recv # 0)
      BY <1>3, <2>2, <3>2, ConnectEffects
    <3> QED BY <3>1, <3>2
  <2> QED BY <2>1, <2>3, TakesShape DEF ServerShapes
<1>4. ASSUME NEW u \in Users, ServeProducer(u) PROVE ServerShapes'
  <2> DEFINE m == Head(up[u])
             P == Upserted(peer, u)
             id == made[u] + 1
             M == [made EXCEPT ![u] = id]
             H == Unheard(heard, u)
  <2>1. /\ Takes(u, {"produce"}) /\ P \in [Users -> PeerStates] /\ m \in Asks /\ id \in Nat
    BY <1>4, ProducerEffects
  <2>2. /\ heard \in [Users -> [Users -> Consumers]] /\ made \in [Users -> Nat]
    BY DEF ServerShapes
  <2>3. /\ heard' \in [Users -> [Users -> Consumers]] /\ made' \in [Users -> Nat]
        /\ down' \in [Users -> Seq(Messages)] /\ peer' \in [Users -> PeerStates]
    <3>1. CASE m.id = peer[u].send /\ peer[u].send # 0
      <4>1. /\ Answer(m, id, TRUE) \in Messages /\ M \in [Users -> Nat]
            /\ Reconcile(Producing(P, u, id), H, M, To(u, Answer(m, id, TRUE)))
        BY <1>4, <3>1, ProducerEffects
      <4>2. To(u, Answer(m, id, TRUE)) \in [Users -> Seq(Messages)]
        BY <4>1, ToShape
      <4>3. Producing(P, u, id) \in [Users -> PeerStates]
        BY <2>1, PeerProduces
      <4>4. H \in [Users -> [Users -> Consumers]]
        BY <2>2, UnheardShape
      <4> HIDE DEF M, H
      <4> QED BY <4>1, <4>2, <4>3, <4>4, ReconcileShape
    <3>2. CASE ~(m.id = peer[u].send /\ peer[u].send # 0)
      BY <1>4, <2>1, <2>2, <3>2, ProducerEffects
    <3> QED BY <3>1, <3>2
  <2> QED BY <2>1, <2>3, TakesShape DEF ServerShapes
<1>5. ASSUME NEW u \in Users, ServeResume(u) PROVE ServerShapes'
  <2>1. /\ Takes(u, {"resume"}) /\ UNCHANGED made
        /\ peer' \in [Users -> PeerStates] /\ heard' \in [Users -> [Users -> Consumers]]
        /\ down' \in [Users -> Seq(Messages)]
    BY <1>5, ResumeEffects
  <2> QED BY <2>1, TakesShape DEF ServerShapes
<1>6. ASSUME NEW u \in Users, ServeWithoutWorker(u) PROVE ServerShapes'
  BY <1>6, RefusedEffects, UpDropped DEF ServerShapes
<1>7. ASSUME NEW u \in Users, RefuseEarly(u) PROVE ServerShapes'
  BY <1>7, UpDropped DEF ServerShapes, RefuseEarly, routing
<1>8. ASSUME NEW u \in Users, Attach(u) PROVE ServerShapes'
  <2>1. peer \in [Users -> PeerStates]
    BY DEF ServerShapes
  <2>2. peer' \in [Users -> PeerStates]
    BY <1>8, <2>1, UpsertedShape DEF Attach
  <2>3. CASE session[u] \/ worker
    BY <1>8, <2>2, <2>3 DEF Attach, ServerShapes
  <2>4. CASE ~(session[u] \/ worker)
    <3>1. Hung(u)
      BY <1>8, <2>4 DEF Attach
    <3> QED BY <1>8, <2>2, <3>1, HungEffects DEF Attach, ServerShapes
  <2> QED BY <2>3, <2>4
<1>9. ASSUME NEW u \in Users, NEW cs \in SUBSET Channels, Talk(u, cs) PROVE ServerShapes'
  BY <1>9 DEF Talk, wires, routing, ServerShapes
<1>10. ASSUME NEW u \in Users, Update(u) PROVE ServerShapes'
  <2>1. CASE worker
    <3>1. Upserted(peer, u) \in [Users -> PeerStates] /\ Reconcile(Upserted(peer, u), heard, made, Silence)
          /\ UNCHANGED <<link, up, session, talk, worker>> /\ owed' = owed \ {u}
      BY <1>10, <2>1, UpdateEffects
    <3>2. /\ heard \in [Users -> [Users -> Consumers]] /\ made \in [Users -> Nat]
      BY DEF ServerShapes
    <3>3. /\ heard' \in [Users -> [Users -> Consumers]] /\ made' \in [Users -> Nat]
          /\ down' \in [Users -> Seq(Messages)] /\ peer' \in [Users -> PeerStates]
      BY <3>1, <3>2, ReconcileShape, SilenceShape
    <3> QED BY <3>1, <3>3 DEF ServerShapes
  <2>2. CASE ~worker
    <3>1. UNCHANGED <<peer, heard, made, session, talk, worker>> /\ owed' = owed \ {u}
      BY <1>10, <2>2 DEF Update
    <3>2. Hung(u) \/ UNCHANGED <<link, up, down>>
      BY <1>10, <2>2 DEF Update, wires
    <3> QED BY <3>1, <3>2, HungEffects DEF ServerShapes
  <2> QED BY <2>1, <2>2
<1>11. ASSUME NEW u \in Users, Detach(u) PROVE ServerShapes'
  <2> DEFINE P == [peer EXCEPT ![u] = NoPeer]
  <2>1. /\ session' = [session EXCEPT ![u] = FALSE] /\ talk' = [talk EXCEPT ![u] = {}]
        /\ owed' = owed \ {u} /\ UNCHANGED <<link, up, worker>> /\ P \in [Users -> PeerStates]
        /\ Reconcile(P, heard, made, Silence) \/ UNCHANGED <<peer, heard, made, down>>
    BY <1>11, DetachEffects
  <2>2. /\ heard \in [Users -> [Users -> Consumers]] /\ made \in [Users -> Nat]
    BY DEF ServerShapes
  <2> HIDE DEF P
  <2>3. /\ heard' \in [Users -> [Users -> Consumers]] /\ made' \in [Users -> Nat]
        /\ down' \in [Users -> Seq(Messages)] /\ peer' \in [Users -> PeerStates]
    <3>1. CASE Reconcile(P, heard, made, Silence)
      BY <2>1, <2>2, <3>1, ReconcileShape, SilenceShape
    <3>2. CASE UNCHANGED <<peer, heard, made, down>>
      BY <3>2 DEF ServerShapes
    <3> QED BY <2>1, <3>1, <3>2
  <2> QED BY <2>1, <2>3 DEF ServerShapes
<1>12. ASSUME NEW u \in Users, Evict(u) PROVE ServerShapes'
  BY <1>12, HungEffects DEF Evict, routing, ServerShapes
<1>13. CASE WorkerDies
  <2>1. NoPeer \in PeerStates /\ NoConsumer \in Consumers
    BY DEF NoPeer, PeerStates, NoConsumer, Consumers
  <2> QED BY <1>13, <2>1 DEF WorkerDies, wires, ServerShapes
<1>14. CASE WorkerRestarts
  BY <1>14 DEF WorkerRestarts, wires, ServerShapes
<1> QED BY <1>1, <1>2, <1>3, <1>4, <1>5, <1>6, <1>7, <1>8, <1>9, <1>10, <1>11, <1>12, <1>13, <1>14
        DEF ServerNext, ServerStep

-----------------------------------------------------------------------------
(* What the operators of the client do *)

LEMMA AskedShape ==
  ASSUME ServerShapes, NEW u \in Users, NEW kind \in Requests \cup {"connect"}, NEW id \in Nat,
         Asked(u, kind, id)
  PROVE  /\ up' \in [Users -> Seq(Asks)] /\ up'[u] = Append(up[u], Request(kind, id))
         /\ \A v \in Users : v # u => up'[v] = up[v]
<1>1. Request(kind, id) \in Asks /\ up[u] \in Seq(Asks) /\ up \in [Users -> Seq(Asks)]
  BY RequestShape DEF ServerShapes
<1>2. Append(up[u], Request(kind, id)) \in Seq(Asks)
  BY <1>1, AppendFacts
<1> QED BY <1>1, <1>2 DEF Asked

LEMMA StageShape ==
  ASSUME NEW c \in Audio, Whole(c)
  PROVE  /\ StageAfter(c) \in {"capture", "capabilities", "send", "produce", "drain"}
         /\ StageAfter(c) = "send" => c.send = 0 /\ c.recv = 0 /\ c.producer = 0
         /\ StageAfter(c) = "produce" => c.send # 0 /\ c.recv # 0 /\ c.producer = 0
         /\ StageAfter(c) = "drain" => c.send # 0 /\ c.recv # 0 /\ c.producer # 0
         /\ c.producer # 0 /\ c.mic /\ c.device # "none" => StageAfter(c) = "drain"
BY DEF StageAfter, Whole

\* Proceed, by the stage that follows.
LEMMA ProceedEffects ==
  ASSUME Shapes, NEW u \in Users, NEW c \in Audio, Whole(c), NEW j \in Jobs, Proceed(u, c, j)
  PROVE  LET at == StageAfter(c) IN
         /\ ctl' \in [Users -> Audio] /\ job' \in [Users -> Jobs]
         /\ ctl'[u].armed = c.armed /\ ctl'[u].ready = c.ready /\ ctl'[u].mic = c.mic
         /\ ctl'[u].send = c.send /\ ctl'[u].recv = c.recv /\ ctl'[u].producer = c.producer
         /\ ctl'[u].since = c.since
         /\ job'[u].at = at /\ job'[u].by = j.by /\ job'[u].send = j.send
         /\ \A v \in Users : v # u =>
              /\ ctl'[v] = ctl[v] /\ job'[v] = job[v] /\ up'[v] = up[v]
              /\ pend'[v] = pend[v] /\ opening'[v] = opening[v] /\ dtls'[v] = dtls[v]
         /\ up' \in [Users -> Seq(Asks)]
         /\ at \in {"capabilities", "send"} =>
              up'[u] = Append(up[u], Request(at, 0)) /\ UNCHANGED <<pend, opening, dtls>>
         /\ at = "produce" =>
              up'[u] = Append(up[u], Request(at, c.send)) /\ UNCHANGED <<pend, opening, dtls>>
         /\ at = "capture" => UNCHANGED <<up, pend, opening, dtls>>
         /\ at = "drain" =>
              /\ opening'[u] = opening[u] \cup pend[u] /\ pend'[u] = {}
              /\ pend[u] # {} /\ dtls[u] = "new" =>
                   dtls'[u] = "asked" /\ up'[u] = Append(up[u], Request("connect", c.recv))
              /\ ~(pend[u] # {} /\ dtls[u] = "new") => UNCHANGED <<dtls, up>>
         /\ pend' \in [Users -> SUBSET Heards] /\ opening' \in [Users -> SUBSET Heards]
         /\ dtls' \in [Users -> {"new", "asked", "up"}] /\ UNCHANGED playing
<1> DEFINE at == StageAfter(c)
           d == IF at = "capabilities" THEN [c EXCEPT !.device = "new"] ELSE c
           k == [j EXCEPT !.at = at]
<1>1. at \in {"capture", "capabilities", "send", "produce", "drain"}
  BY StageShape
<1>2. /\ ctl' = [ctl EXCEPT ![u] = d] /\ job' = [job EXCEPT ![u] = k]
  BY DEF Proceed
<1>3. /\ at \in {"capabilities", "send"} => Asked(u, at, 0) /\ UNCHANGED hearing
      /\ at = "produce" => Asked(u, at, c.send) /\ UNCHANGED hearing
      /\ at = "capture" => UNCHANGED <<up, hearing>>
      /\ at = "drain" =>
           /\ opening' = [opening EXCEPT ![u] = @ \cup pend[u]]
           /\ pend' = [pend EXCEPT ![u] = {}]
           /\ AsksDtls(u, pend[u]) => dtls' = [dtls EXCEPT ![u] = "asked"] /\ Asked(u, "connect", c.recv)
           /\ ~AsksDtls(u, pend[u]) => UNCHANGED <<dtls, up>>
           /\ UNCHANGED playing
  BY <1>1 DEF Proceed
<1>4. /\ d \in Audio /\ d.armed = c.armed /\ d.ready = c.ready /\ d.mic = c.mic
      /\ d.send = c.send /\ d.recv = c.recv /\ d.producer = c.producer /\ d.since = c.since
  BY DEF Audio
<1>5. k \in Jobs /\ k.at = at /\ k.by = j.by /\ k.send = j.send
  BY <1>1 DEF Jobs, Requests
<1>6. /\ ServerShapes /\ ctl \in [Users -> Audio] /\ job \in [Users -> Jobs]
      /\ pend \in [Users -> SUBSET Heards] /\ opening \in [Users -> SUBSET Heards]
      /\ dtls \in [Users -> {"new", "asked", "up"}] /\ up \in [Users -> Seq(Asks)]
  BY DEF Shapes, ServerShapes, ClientShapes
<1>7. c.send \in Nat /\ c.recv \in Nat /\ 0 \in Nat
  BY DEF Audio
<1> HIDE DEF at, d, k
<1>8. /\ ctl' \in [Users -> Audio] /\ job' \in [Users -> Jobs] /\ ctl'[u] = d /\ job'[u] = k
      /\ \A v \in Users : v # u => ctl'[v] = ctl[v] /\ job'[v] = job[v]
  BY <1>2, <1>4, <1>5, <1>6
<1> DEFINE Rest ==
      /\ \A v \in Users : v # u =>
           /\ up'[v] = up[v] /\ pend'[v] = pend[v] /\ opening'[v] = opening[v]
           /\ dtls'[v] = dtls[v]
      /\ up' \in [Users -> Seq(Asks)]
      /\ at \in {"capabilities", "send"} =>
           up'[u] = Append(up[u], Request(at, 0)) /\ UNCHANGED <<pend, opening, dtls>>
      /\ at = "produce" =>
           up'[u] = Append(up[u], Request(at, c.send)) /\ UNCHANGED <<pend, opening, dtls>>
      /\ at = "capture" => UNCHANGED <<up, pend, opening, dtls>>
      /\ at = "drain" =>
           /\ opening'[u] = opening[u] \cup pend[u] /\ pend'[u] = {}
           /\ pend[u] # {} /\ dtls[u] = "new" =>
                dtls'[u] = "asked" /\ up'[u] = Append(up[u], Request("connect", c.recv))
           /\ ~(pend[u] # {} /\ dtls[u] = "new") => UNCHANGED <<dtls, up>>
      /\ pend' \in [Users -> SUBSET Heards] /\ opening' \in [Users -> SUBSET Heards]
      /\ dtls' \in [Users -> {"new", "asked", "up"}] /\ UNCHANGED playing
<1>9. ASSUME at \in {"capabilities", "send"} PROVE Rest
  <2>1. Asked(u, at, 0) /\ UNCHANGED <<pend, opening, playing, dtls>>
    BY <1>3, <1>9 DEF hearing
  <2>2. at \in Requests \cup {"connect"}
    BY <1>9 DEF Requests
  <2>3. /\ up' \in [Users -> Seq(Asks)] /\ up'[u] = Append(up[u], Request(at, 0))
        /\ \A v \in Users : v # u => up'[v] = up[v]
    BY <1>6, <1>7, <2>1, <2>2, AskedShape
  <2> QED BY <1>6, <1>9, <2>1, <2>3
<1>10. ASSUME at = "produce" PROVE Rest
  <2>1. Asked(u, at, c.send) /\ UNCHANGED <<pend, opening, playing, dtls>>
    BY <1>3, <1>10 DEF hearing
  <2>2. at \in Requests \cup {"connect"}
    BY <1>10 DEF Requests
  <2>3. /\ up' \in [Users -> Seq(Asks)] /\ up'[u] = Append(up[u], Request(at, c.send))
        /\ \A v \in Users : v # u => up'[v] = up[v]
    BY <1>6, <1>7, <2>1, <2>2, AskedShape
  <2> QED BY <1>6, <1>10, <2>1, <2>3
<1>11. ASSUME at = "capture" PROVE Rest
  BY <1>3, <1>6, <1>11 DEF hearing
<1>12. ASSUME at = "drain" PROVE Rest
  <2>1. /\ opening' = [opening EXCEPT ![u] = @ \cup pend[u]] /\ pend' = [pend EXCEPT ![u] = {}]
        /\ UNCHANGED playing
    BY <1>3, <1>12
  <2>2. /\ opening' \in [Users -> SUBSET Heards] /\ pend' \in [Users -> SUBSET Heards]
        /\ opening'[u] = opening[u] \cup pend[u] /\ pend'[u] = {}
        /\ \A v \in Users : v # u => pend'[v] = pend[v] /\ opening'[v] = opening[v]
    BY <1>6, <2>1
  <2>3. CASE pend[u] # {} /\ dtls[u] = "new"
    <3>1. dtls' = [dtls EXCEPT ![u] = "asked"] /\ Asked(u, "connect", c.recv)
      BY <1>3, <1>12, <2>3 DEF AsksDtls
    <3>2. /\ up' \in [Users -> Seq(Asks)] /\ up'[u] = Append(up[u], Request("connect", c.recv))
          /\ \A v \in Users : v # u => up'[v] = up[v]
      BY <1>6, <1>7, <3>1, AskedShape
    <3>3. /\ dtls' \in [Users -> {"new", "asked", "up"}] /\ dtls'[u] = "asked"
          /\ \A v \in Users : v # u => dtls'[v] = dtls[v]
      BY <1>6, <3>1
    <3> QED BY <1>12, <2>1, <2>2, <2>3, <3>2, <3>3
  <2>4. CASE ~(pend[u] # {} /\ dtls[u] = "new")
    <3>1. UNCHANGED <<dtls, up>>
      BY <1>3, <1>12, <2>4 DEF AsksDtls
    <3> QED BY <1>6, <1>12, <2>1, <2>2, <2>4, <3>1
  <2> QED BY <2>3, <2>4
<1>13. Rest
  BY <1>1, <1>9, <1>10, <1>11, <1>12
<1> QED BY <1>4, <1>5, <1>8, <1>13 DEF at

LEMMA ForgottenAsks ==
  ASSUME NEW q \in Seq(Asks), NEW kinds
  PROVE  /\ Forgotten(q, kinds) \in Seq(Asks) /\ DOMAIN Forgotten(q, kinds) = DOMAIN q
         /\ \A i \in DOMAIN q :
              /\ Forgotten(q, kinds)[i].kind = q[i].kind /\ Forgotten(q, kinds)[i].id = q[i].id
              /\ q[i].kind = "resume" => Forgotten(q, kinds)[i].from = q[i].from
              /\ Forgotten(q, kinds)[i].live => q[i].live /\ q[i].kind \notin kinds
<1> DEFINE F == Forgotten(q, kinds)
<1>1. Len(q) \in Nat /\ DOMAIN q = 1..Len(q) /\ \A i \in DOMAIN q : q[i] \in Asks
  BY LenProperties, ElementOfSeq
<1>2. DOMAIN F = DOMAIN q
  BY DEF Forgotten
<1>3. ASSUME NEW i \in DOMAIN q
      PROVE  /\ F[i] \in Asks /\ F[i].kind = q[i].kind /\ F[i].id = q[i].id
             /\ q[i].kind = "resume" => F[i].from = q[i].from
             /\ F[i].live => q[i].live /\ q[i].kind \notin kinds
  <2>1. CASE q[i].kind \in kinds \/ (q[i].kind = "answer" /\ q[i].to \in kinds)
    <3>1. F[i] = [q[i] EXCEPT !.live = FALSE] /\ q[i] \in Asks
      BY <1>1, <2>1 DEF Forgotten
    <3> HIDE DEF F
    <3>2. CASE q[i] \in [kind : Requests \cup {"connect"}, id : Nat, live : BOOLEAN]
      <4>1. F[i] \in [kind : Requests \cup {"connect"}, id : Nat, live : BOOLEAN]
            /\ F[i].kind = q[i].kind /\ F[i].id = q[i].id /\ ~F[i].live
        BY <3>1, <3>2
      <4>2. q[i].kind # "resume"
        BY <3>2 DEF Requests
      <4> QED BY <4>1, <4>2 DEF Asks
    <3>3. CASE q[i] \in [kind : {"resume"}, id : Nat, from : Users, live : BOOLEAN]
      <4>1. F[i] \in [kind : {"resume"}, id : Nat, from : Users, live : BOOLEAN]
            /\ F[i].kind = q[i].kind /\ F[i].id = q[i].id /\ ~F[i].live /\ F[i].from = q[i].from
        BY <3>1, <3>3
      <4> QED BY <4>1 DEF Asks
    <3> QED BY <3>1, <3>2, <3>3 DEF Asks
  <2>2. CASE ~(q[i].kind \in kinds \/ (q[i].kind = "answer" /\ q[i].to \in kinds))
    <3>1. F[i] = q[i] /\ q[i] \in Asks
      BY <1>1, <2>2 DEF Forgotten
    <3> HIDE DEF F
    <3> QED BY <2>2, <3>1
  <2> QED BY <2>1, <2>2
<1>4. F = [i \in 1..Len(q) |-> F[i]]
  BY <1>1, <1>2 DEF Forgotten
<1> HIDE DEF F
<1>5. F \in [1..Len(q) -> Asks]
  BY <1>1, <1>3, <1>4
<1>6. F \in Seq(Asks)
  BY <1>1, <1>5, SeqDef
<1> QED BY <1>2, <1>3, <1>6 DEF F

LEMMA ForgottenMessages ==
  ASSUME NEW q \in Seq(Messages), NEW kinds \in SUBSET (Requests \cup {"connect"})
  PROVE  /\ Forgotten(q, kinds) \in Seq(Messages) /\ DOMAIN Forgotten(q, kinds) = DOMAIN q
         /\ \A i \in DOMAIN q :
              /\ q[i].kind # "answer" => Forgotten(q, kinds)[i] = q[i]
              /\ Forgotten(q, kinds)[i].kind = q[i].kind
              /\ q[i].kind = "answer" =>
                   /\ Forgotten(q, kinds)[i].to = q[i].to /\ Forgotten(q, kinds)[i].ok = q[i].ok
                   /\ Forgotten(q, kinds)[i].id = q[i].id
                   /\ Forgotten(q, kinds)[i].live => q[i].live /\ q[i].to \notin kinds
<1> DEFINE F == Forgotten(q, kinds)
<1>1. Len(q) \in Nat /\ DOMAIN q = 1..Len(q) /\ \A i \in DOMAIN q : q[i] \in Messages
  BY LenProperties, ElementOfSeq
<1>2. DOMAIN F = DOMAIN q
  BY DEF Forgotten
<1>3. ASSUME NEW i \in DOMAIN q
      PROVE  /\ F[i] \in Messages
             /\ q[i].kind # "answer" => F[i] = q[i]
             /\ F[i].kind = q[i].kind
             /\ q[i].kind = "answer" =>
                  /\ F[i].to = q[i].to /\ F[i].ok = q[i].ok /\ F[i].id = q[i].id
                  /\ F[i].live => q[i].live /\ q[i].to \notin kinds
  <2>1. q[i] \in Messages /\ q[i].kind \notin kinds
    <3>1. q[i].kind \in {"answer", "closed", "state", "available"}
      BY <1>1, MessageParts
    <3>2. "answer" \notin kinds /\ "closed" \notin kinds /\ "state" \notin kinds /\ "available" \notin kinds
      BY DEF Requests
    <3> QED BY <1>1, <3>1, <3>2
  <2>2. CASE q[i].kind = "answer" /\ q[i].to \in kinds
    <3>1. F[i] = [q[i] EXCEPT !.live = FALSE] /\ q[i] \in Replies
      BY <2>1, <2>2, MessageParts DEF Forgotten
    <3> HIDE DEF F
    <3> QED BY <2>2, <3>1 DEF Replies, Messages
  <2>3. CASE ~(q[i].kind = "answer" /\ q[i].to \in kinds)
    <3>1. F[i] = q[i]
      BY <2>1, <2>3 DEF Forgotten
    <3> HIDE DEF F
    <3> QED BY <2>1, <2>3, <3>1
  <2> QED BY <2>2, <2>3
<1>4. F = [i \in 1..Len(q) |-> F[i]]
  BY <1>1, <1>2 DEF Forgotten
<1> HIDE DEF F
<1>5. F \in [1..Len(q) -> Messages]
  BY <1>1, <1>3, <1>4
<1>6. F \in Seq(Messages)
  BY <1>1, <1>5, SeqDef
<1> QED BY <1>2, <1>3, <1>6 DEF F

\* A message is received.
LEMMA ReceivesShape ==
  ASSUME ServerShapes, NEW u \in Users, Receives(u)
  PROVE  /\ Head(down[u]) \in Messages /\ down[u] # <<>>
         /\ down' \in [Users -> Seq(Messages)] /\ down'[u] = Tail(down[u])
         /\ \A v \in Users : v # u => down'[v] = down[v]
         /\ UNCHANGED <<link, session, talk, owed, worker, peer, heard, made, joins>>
<1>1. down[u] \in Seq(Messages) /\ down[u] # <<>> /\ down \in [Users -> Seq(Messages)]
      /\ down' = [down EXCEPT ![u] = Tail(@)]
  BY DEF ServerShapes, Receives
<1>2. Head(down[u]) \in Messages /\ Tail(down[u]) \in Seq(Messages)
  BY <1>1, TailFacts
<1> QED BY <1>1, <1>2 DEF Receives, routing

LEMMA IdleShape == Idle \in Jobs /\ Idle.at = "idle" /\ NoAudio \in Audio /\ Whole(NoAudio)
BY DEF Idle, Jobs, NoAudio, Audio, Whole

-----------------------------------------------------------------------------
(* The steps of the clients keep the shapes *)

serverOnly == <<session, talk, owed, worker, peer, heard, made>>

LEMMA ProceedTyped ==
  ASSUME Shapes, NEW u \in Users, NEW c \in Audio, Whole(c), NEW j \in Jobs, Proceed(u, c, j),
         link' \in [Users -> {"down", "open", "attached", "closing"}],
         down' \in [Users -> Seq(Messages)], UNCHANGED serverOnly,
         err' \in [Users -> BOOLEAN], joins' \in [Users -> Nat]
  PROVE  Shapes'
<1> DEFINE at == StageAfter(c)
<1>1. /\ ctl' \in [Users -> Audio] /\ job' \in [Users -> Jobs]
      /\ ctl'[u].send = c.send /\ ctl'[u].recv = c.recv /\ ctl'[u].producer = c.producer
      /\ job'[u].at = at /\ \A v \in Users : v # u => ctl'[v] = ctl[v] /\ job'[v] = job[v]
      /\ up' \in [Users -> Seq(Asks)]
      /\ pend' \in [Users -> SUBSET Heards] /\ opening' \in [Users -> SUBSET Heards]
      /\ dtls' \in [Users -> {"new", "asked", "up"}] /\ UNCHANGED playing
  BY ProceedEffects
<1>2. at # "recv" /\ (at = "produce" => c.send # 0)
  BY StageShape
<1>3. ASSUME NEW v \in Users PROVE Whole(ctl'[v]) /\ Prepared(ctl'[v], job'[v])
  <2>1. CASE v = u
    BY <1>1, <1>2, <2>1 DEF Whole, Prepared
  <2>2. CASE v # u
    BY <1>1, <2>2 DEF Shapes, ClientShapes
  <2> QED BY <2>1, <2>2
<1>4. ClientShapes'
  BY <1>1, <1>3 DEF Shapes, ClientShapes
<1>5. ServerShapes'
  BY <1>1 DEF Shapes, ServerShapes, serverOnly
<1> QED BY <1>4, <1>5 DEF Shapes

\* The controller and the start of u change, the link and the queues at most.
LEMMA ControllerTyped ==
  ASSUME Shapes, NEW u \in Users, NEW c \in Audio, Whole(c), NEW j \in Jobs, Prepared(c, j),
         ctl' = [ctl EXCEPT ![u] = c], job' = [job EXCEPT ![u] = j],
         link' \in [Users -> {"down", "open", "attached", "closing"}],
         up' \in [Users -> Seq(Asks)], down' \in [Users -> Seq(Messages)], UNCHANGED serverOnly,
         pend' \in [Users -> SUBSET Heards], opening' \in [Users -> SUBSET Heards],
         playing' \in [Users -> SUBSET Heards], dtls' \in [Users -> {"new", "asked", "up"}],
         err' \in [Users -> BOOLEAN], joins' \in [Users -> Nat]
  PROVE  Shapes'
<1>1. ctl \in [Users -> Audio] /\ job \in [Users -> Jobs]
  BY DEF Shapes, ClientShapes
<1>2. /\ ctl' \in [Users -> Audio] /\ job' \in [Users -> Jobs] /\ ctl'[u] = c /\ job'[u] = j
      /\ \A v \in Users : v # u => ctl'[v] = ctl[v] /\ job'[v] = job[v]
  BY <1>1
<1>3. ASSUME NEW v \in Users PROVE Whole(ctl'[v]) /\ Prepared(ctl'[v], job'[v])
  <2>1. CASE v = u
    BY <1>2, <2>1
  <2>2. CASE v # u
    BY <1>2, <2>2 DEF Shapes, ClientShapes
  <2> QED BY <2>1, <2>2
<1>4. ClientShapes'
  BY <1>2, <1>3 DEF Shapes, ClientShapes
<1>5. ServerShapes'
  BY DEF Shapes, ServerShapes, serverOnly
<1> QED BY <1>4, <1>5 DEF Shapes

\* Neither changes.
LEMMA HearingTyped ==
  ASSUME Shapes, UNCHANGED <<ctl, job, joins>>,
         link' \in [Users -> {"down", "open", "attached", "closing"}],
         up' \in [Users -> Seq(Asks)], down' \in [Users -> Seq(Messages)], UNCHANGED serverOnly,
         pend' \in [Users -> SUBSET Heards], opening' \in [Users -> SUBSET Heards],
         playing' \in [Users -> SUBSET Heards], dtls' \in [Users -> {"new", "asked", "up"}],
         err' \in [Users -> BOOLEAN]
  PROVE  Shapes'
<1>1. ClientShapes'
  BY DEF Shapes, ClientShapes
<1>2. ServerShapes'
  BY DEF Shapes, ServerShapes, serverOnly
<1> QED BY <1>1, <1>2 DEF Shapes

LEMMA FailEffects ==
  ASSUME Shapes, NEW u \in Users, Fail(u)
  PROVE  /\ [ctl[u] EXCEPT !.ready = FALSE] \in Audio /\ Whole([ctl[u] EXCEPT !.ready = FALSE])
         /\ ctl' = [ctl EXCEPT ![u] = [ctl[u] EXCEPT !.ready = FALSE]]
         /\ job' = [job EXCEPT ![u] = Idle] /\ Prepared([ctl[u] EXCEPT !.ready = FALSE], Idle)
         /\ err' \in [Users -> BOOLEAN]
<1>1. ctl[u] \in Audio /\ Whole(ctl[u]) /\ ctl \in [Users -> Audio] /\ err \in [Users -> BOOLEAN]
  BY DEF Shapes, ClientShapes
<1>2. [ctl[u] EXCEPT !.ready = FALSE] \in Audio /\ Whole([ctl[u] EXCEPT !.ready = FALSE])
  BY <1>1 DEF Audio, Whole
<1>3. ctl' = [ctl EXCEPT ![u] = [ctl[u] EXCEPT !.ready = FALSE]] /\ job' = [job EXCEPT ![u] = Idle]
  BY <1>1 DEF Fail
<1>4. err' \in [Users -> BOOLEAN]
  BY <1>1 DEF Fail
<1>5. Prepared([ctl[u] EXCEPT !.ready = FALSE], Idle)
  BY IdleShape DEF Prepared
<1> QED BY <1>2, <1>3, <1>4, <1>5

\* What is kept by all of the following steps.
LEMMA ShapesParts ==
  ASSUME Shapes
  PROVE  /\ link \in [Users -> {"down", "open", "attached", "closing"}]
         /\ up \in [Users -> Seq(Asks)] /\ down \in [Users -> Seq(Messages)]
         /\ ctl \in [Users -> Audio] /\ job \in [Users -> Jobs]
         /\ \A u \in Users : Whole(ctl[u]) /\ Prepared(ctl[u], job[u])
         /\ pend \in [Users -> SUBSET Heards] /\ opening \in [Users -> SUBSET Heards]
         /\ playing \in [Users -> SUBSET Heards] /\ dtls \in [Users -> {"new", "asked", "up"}]
         /\ err \in [Users -> BOOLEAN] /\ joins \in [Users -> Nat]
BY DEF Shapes, ServerShapes, ClientShapes

LEMMA BeginShape ==
  ASSUME NEW by \in {"arm", "effect"}
  PROVE  [Idle EXCEPT !.by = by] \in Jobs /\ [Idle EXCEPT !.by = by].by = by
BY DEF Idle, Jobs

LEMMA OperatorTyped ==
  ASSUME Shapes, NEW u \in Users,
         Arm(u) \/ Captured(u) \/ CaptureDenied(u) \/ Disarm(u)
  PROVE  Shapes'
<1>1. CASE Arm(u)
  <2>1. /\ UNCHANGED <<link, down, joins>> /\ UNCHANGED serverOnly
    BY <1>1 DEF Arm, serverOnly, routing
  <2>2. CASE u \notin Mobile
    <3>1. Proceed(u, ctl[u], [Idle EXCEPT !.by = "arm"]) /\ UNCHANGED err
      BY <1>1, <2>2 DEF Arm, Begin
    <3>2. ctl[u] \in Audio /\ Whole(ctl[u]) /\ [Idle EXCEPT !.by = "arm"] \in Jobs
      BY ShapesParts, BeginShape
    <3> QED BY <2>1, <3>1, <3>2, ShapesParts, ProceedTyped
  <2>3. CASE u \in Mobile /\ ctl[u].armed
    <3>1. /\ err' = [err EXCEPT ![u] = FALSE]
          /\ UNCHANGED <<ctl, job, pend, opening, playing, dtls, up>>
      BY <1>1, <2>3 DEF Arm, hearing
    <3> QED BY <2>1, <3>1, ShapesParts, HearingTyped
  <2>4. CASE u \in Mobile /\ ~ctl[u].armed
    <3> DEFINE c == [ctl[u] EXCEPT !.armed = TRUE]
    <3>1. /\ err' = [err EXCEPT ![u] = FALSE] /\ Proceed(u, c, [Idle EXCEPT !.by = "effect"])
      BY <1>1, <2>4 DEF Arm, Begin
    <3>2. ctl[u] \in Audio /\ Whole(ctl[u]) /\ [Idle EXCEPT !.by = "effect"] \in Jobs
      BY ShapesParts, BeginShape
    <3>3. c \in Audio /\ Whole(c)
      BY <3>2 DEF Audio, Whole
    <3>4. err' \in [Users -> BOOLEAN]
      BY <3>1, ShapesParts
    <3> HIDE DEF c
    <3> QED BY <2>1, <3>1, <3>2, <3>3, <3>4, ShapesParts, ProceedTyped
  <2> QED BY <2>2, <2>3, <2>4
<1>2. CASE Captured(u)
  <2>1. /\ UNCHANGED <<link, down, joins>> /\ UNCHANGED serverOnly
    BY <1>2 DEF Captured, serverOnly, routing
  <2>2. ctl[u] \in Audio /\ Whole(ctl[u]) /\ job[u] \in Jobs /\ ctl \in [Users -> Audio]
    BY ShapesParts
  <2>3. CASE Connected(u)
    <3> DEFINE c == [ctl[u] EXCEPT !.mic = TRUE]
    <3>1. Proceed(u, c, job[u]) /\ UNCHANGED err
      BY <1>2, <2>3 DEF Captured
    <3>2. c \in Audio /\ Whole(c)
      BY <2>2 DEF Audio, Whole
    <3> HIDE DEF c
    <3> QED BY <2>1, <2>2, <3>1, <3>2, ShapesParts, ProceedTyped
  <2>4. CASE ~Connected(u)
    <3> DEFINE c == [ctl[u] EXCEPT !.mic = TRUE, !.device = IF @ = "none" THEN "new" ELSE @]
    <3>1. /\ job' = [job EXCEPT ![u] = Idle] /\ err' = [err EXCEPT ![u] = TRUE]
          /\ ctl' = [ctl EXCEPT ![u] = c]
          /\ UNCHANGED <<pend, opening, playing, dtls, up>>
      BY <1>2, <2>2, <2>4 DEF Captured, hearing
    <3>2. c \in Audio /\ Whole(c)
      BY <2>2 DEF Audio, Whole
    <3> HIDE DEF c
    <3>3. Idle \in Jobs /\ Prepared(c, Idle)
      BY IdleShape DEF Prepared
    <3>4. err' \in [Users -> BOOLEAN]
      BY <3>1, ShapesParts
    <3> QED BY <2>1, <3>1, <3>2, <3>3, <3>4, ShapesParts, ControllerTyped
  <2> QED BY <2>3, <2>4
<1>3. CASE CaptureDenied(u)
  <2>1. /\ Fail(u) /\ UNCHANGED <<link, up, down, joins, pend, opening, playing, dtls>>
        /\ UNCHANGED serverOnly
    BY <1>3 DEF CaptureDenied, serverVars, wires, routing, serverOnly, hearing
  <2> QED BY <2>1, FailEffects, IdleShape, ShapesParts, ControllerTyped
<1>4. CASE Disarm(u)
  <2>1. /\ UNCHANGED <<link, job, joins>> /\ UNCHANGED serverOnly
        /\ job[u] = Idle /\ ctl' = [ctl EXCEPT ![u] = NoAudio]
        /\ err' = [err EXCEPT ![u] = @ \/ opening[u] # {}]
        /\ pend' = [pend EXCEPT ![u] = {}] /\ opening' = [opening EXCEPT ![u] = {}]
        /\ playing' = [playing EXCEPT ![u] = {}] /\ dtls' = [dtls EXCEPT ![u] = "new"]
        /\ up' = [up EXCEPT ![u] = Forgotten(@, Requests \cup {"connect"})]
        /\ down' = [down EXCEPT ![u] = Forgotten(@, Requests \cup {"connect"})]
    BY <1>4 DEF Disarm, serverOnly, routing
  <2>2. up[u] \in Seq(Asks) /\ down[u] \in Seq(Messages) /\ job \in [Users -> Jobs]
    BY ShapesParts
  <2>3. Forgotten(up[u], Requests \cup {"connect"}) \in Seq(Asks)
    BY <2>2, ForgottenAsks
  <2>4. Forgotten(down[u], Requests \cup {"connect"}) \in Seq(Messages)
    BY <2>2, ForgottenMessages
  <2>5. job' = [job EXCEPT ![u] = Idle] /\ Prepared(NoAudio, Idle)
    BY <2>1, <2>2, IdleShape DEF Prepared
  <2>6. up' \in [Users -> Seq(Asks)] /\ down' \in [Users -> Seq(Messages)]
    BY <2>1, <2>3, <2>4, ShapesParts
  <2>7. /\ pend' \in [Users -> SUBSET Heards] /\ opening' \in [Users -> SUBSET Heards]
        /\ playing' \in [Users -> SUBSET Heards] /\ dtls' \in [Users -> {"new", "asked", "up"}]
        /\ err' \in [Users -> BOOLEAN]
    BY <2>1, ShapesParts
  <2> QED BY <2>1, <2>5, <2>6, <2>7, IdleShape, ShapesParts, ControllerTyped
<1> QED BY <1>1, <1>2, <1>3, <1>4

LEMMA LinkTyped ==
  ASSUME Shapes, NEW u \in Users, Connect(u) \/ Drop(u) \/ TimeOut(u)
  PROVE  Shapes'
<1>1. CASE Connect(u)
  <2>1. /\ UNCHANGED <<down, err>> /\ UNCHANGED serverOnly
        /\ link' = [link EXCEPT ![u] = "open"] /\ joins' = [joins EXCEPT ![u] = @ + 1]
    BY <1>1 DEF Connect, serverOnly, routing
  <2>2. link' \in [Users -> {"down", "open", "attached", "closing"}] /\ joins' \in [Users -> Nat]
    BY <2>1, ShapesParts
  <2>3. CASE ctl[u].armed /\ job[u] = Idle
    <3>1. Proceed(u, ctl[u], [Idle EXCEPT !.by = "effect"])
      BY <1>1, <2>3 DEF Connect, Begin
    <3>2. ctl[u] \in Audio /\ Whole(ctl[u]) /\ [Idle EXCEPT !.by = "effect"] \in Jobs
      BY ShapesParts, BeginShape
    <3> QED BY <2>1, <2>2, <3>1, <3>2, ShapesParts, ProceedTyped
  <2>4. CASE ~(ctl[u].armed /\ job[u] = Idle)
    <3>1. UNCHANGED <<ctl, job, pend, opening, playing, dtls, up>>
      BY <1>1, <2>4 DEF Connect, hearing
    <3>2. ctl[u] \in Audio /\ Whole(ctl[u]) /\ job[u] \in Jobs /\ Prepared(ctl[u], job[u])
      BY ShapesParts
    <3>3. ctl' = [ctl EXCEPT ![u] = ctl[u]] /\ job' = [job EXCEPT ![u] = job[u]]
      BY <3>1, ShapesParts
    <3> QED BY <2>1, <2>2, <3>1, <3>2, <3>3, ShapesParts, ControllerTyped
  <2> QED BY <2>3, <2>4
<1>2. CASE Drop(u)
  <2> DEFINE atLast == job[u].at = "drain"
             armed == ctl[u].armed \/ (atLast /\ job[u].by = "arm")
             d == [ctl[u] EXCEPT !.armed = armed, !.ready = FALSE]
             c == IF armed THEN Reset(d) ELSE d
             j == IF job[u].at = "capture" THEN job[u] ELSE Idle
  <2>1. /\ UNCHANGED joins /\ UNCHANGED serverOnly
        /\ link' = [link EXCEPT ![u] = "down"]
        /\ up' = [up EXCEPT ![u] = <<>>] /\ down' = [down EXCEPT ![u] = <<>>]
        /\ ctl' = [ctl EXCEPT ![u] = c]
        /\ job' = [job EXCEPT ![u] = IF @.at = "capture" THEN @ ELSE Idle]
        /\ err' = [err EXCEPT ![u] = (@ /\ ~atLast) \/ Waiting(u) \/ (opening[u] # {} /\ ~atLast)]
        /\ opening' = [opening EXCEPT ![u] = {}]
        /\ pend' = [pend EXCEPT ![u] = IF armed THEN {} ELSE @]
        /\ playing' = [playing EXCEPT ![u] = IF armed THEN {} ELSE @]
        /\ dtls' = [dtls EXCEPT ![u] = IF @ = "up" /\ ~armed THEN "up" ELSE "new"]
    BY <1>2 DEF Drop, serverOnly, routing
  <2>2. ctl[u] \in Audio /\ Whole(ctl[u]) /\ job[u] \in Jobs
    BY ShapesParts
  <2>3. armed \in BOOLEAN
    BY <2>2 DEF Audio
  <2>4. d \in Audio /\ Whole(d)
    BY <2>2, <2>3 DEF Audio, Whole
  <2>5. Reset(d) \in Audio /\ Whole(Reset(d))
    <3> HIDE DEF d
    <3> QED BY <2>4 DEF Audio, Whole, Reset
  <2>6. c \in Audio /\ Whole(c)
    BY <2>4, <2>5
  <2>7. j \in Jobs /\ Prepared(c, j)
    BY <2>2, IdleShape DEF Prepared
  <2>8. job' = [job EXCEPT ![u] = j]
    BY <2>1, ShapesParts
  <2>9. err' \in [Users -> BOOLEAN]
    BY <2>1, ShapesParts
  <2>10. <<>> \in Seq(Asks) /\ <<>> \in Seq(Messages)
    BY EmptySeq
  <2> HIDE DEF c, d, j, armed
  <2>11. /\ link' \in [Users -> {"down", "open", "attached", "closing"}]
         /\ up' \in [Users -> Seq(Asks)] /\ down' \in [Users -> Seq(Messages)]
         /\ pend' \in [Users -> SUBSET Heards] /\ opening' \in [Users -> SUBSET Heards]
         /\ playing' \in [Users -> SUBSET Heards] /\ dtls' \in [Users -> {"new", "asked", "up"}]
    BY <2>1, <2>10, ShapesParts
  <2>12. ctl' = [ctl EXCEPT ![u] = c] /\ UNCHANGED joins /\ UNCHANGED serverOnly
    BY <2>1
  <2> QED BY <2>6, <2>7, <2>8, <2>9, <2>11, <2>12, ShapesParts, ControllerTyped
<1>3. CASE TimeOut(u)
  <2>1. /\ Fail(u) /\ UNCHANGED <<link, joins, pend, opening, playing, dtls>>
        /\ UNCHANGED serverOnly
        /\ up' = [up EXCEPT ![u] = Forgotten(@, Requests)]
        /\ down' = [down EXCEPT ![u] = Forgotten(@, Requests)]
    BY <1>3 DEF TimeOut, serverOnly, routing, hearing
  <2>2. up[u] \in Seq(Asks) /\ down[u] \in Seq(Messages)
    BY ShapesParts
  <2>3. Forgotten(up[u], Requests) \in Seq(Asks)
    BY <2>2, ForgottenAsks
  <2>4. Forgotten(down[u], Requests) \in Seq(Messages)
    BY <2>2, ForgottenMessages
  <2>5. up' \in [Users -> Seq(Asks)] /\ down' \in [Users -> Seq(Messages)]
    BY <2>1, <2>3, <2>4, ShapesParts
  <2> QED BY <2>1, <2>5, FailEffects, IdleShape, ShapesParts, ControllerTyped
<1> QED BY <1>1, <1>2, <1>3

\* What an answer that start waits for brings.
LEMMA StoredShape ==
  ASSUME Shapes, NEW u \in Users, NEW m \in Messages, m.kind = "answer", m.ok,
         m.to = job[u].at
  PROVE  /\ Stored(u, m) \in Audio /\ Whole(Stored(u, m))
         /\ Stored(u, m).armed = ctl[u].armed /\ Stored(u, m).ready = ctl[u].ready
         /\ Stored(u, m).mic = ctl[u].mic
         /\ m.to # "recv" => /\ Stored(u, m).send = ctl[u].send /\ Stored(u, m).recv = ctl[u].recv
                             /\ Stored(u, m).since = ctl[u].since
         /\ m.to = "recv" => /\ Stored(u, m).send = job[u].send /\ Stored(u, m).recv = m.id
                             /\ Stored(u, m).since = joins[u]
         /\ m.to # "produce" => Stored(u, m).producer = ctl[u].producer
         /\ m.to = "produce" => Stored(u, m).producer = m.id
<1>1. /\ ctl[u] \in Audio /\ Whole(ctl[u]) /\ job[u] \in Jobs /\ Prepared(ctl[u], job[u])
      /\ joins[u] \in Nat
  BY ShapesParts
<1>2. m.id \in Nat /\ (m.to \in {"send", "recv", "produce"} => m.id # 0)
  BY MessageParts
<1>3. job[u].send \in Nat
  BY <1>1 DEF Jobs
<1>4. CASE m.to = "capabilities"
  <2>1. Stored(u, m) = [ctl[u] EXCEPT !.device = "loaded"]
    BY <1>4 DEF Stored
  <2> QED BY <1>1, <1>4, <2>1 DEF Audio, Whole
<1>5. CASE m.to = "recv"
  <2>1. Stored(u, m) = [ctl[u] EXCEPT !.send = job[u].send, !.recv = m.id, !.since = joins[u]]
    BY <1>5 DEF Stored
  <2>2. job[u].send # 0 /\ m.id # 0
    BY <1>1, <1>2, <1>5 DEF Prepared
  <2> QED BY <1>1, <1>2, <1>3, <1>5, <2>1, <2>2 DEF Audio, Whole
<1>6. CASE m.to = "produce"
  <2>1. Stored(u, m) = [ctl[u] EXCEPT !.producer = m.id]
    BY <1>6 DEF Stored
  <2>2. ctl[u].send # 0
    BY <1>1, <1>6 DEF Prepared
  <2> QED BY <1>1, <1>2, <1>6, <2>1, <2>2 DEF Audio, Whole
<1>7. CASE m.to \notin {"capabilities", "recv", "produce"}
  <2>1. Stored(u, m) = ctl[u]
    BY <1>7 DEF Stored
  <2> QED BY <1>1, <1>7, <2>1
<1> QED BY <1>4, <1>5, <1>6, <1>7

\* What an answer to a start does.
LEMMA JobEffects ==
  ASSUME Shapes, NEW u \in Users, JobAnswered(u)
  PROVE  LET m == Head(down[u])
             c == Stored(u, m)
         IN /\ Receives(u) /\ m \in Messages /\ LiveReply(m) /\ m.to = job[u].at
            /\ \/ Fail(u) /\ UNCHANGED <<up, hearing>>
               \/ /\ m.ok /\ m.to = "send" /\ m.id # 0
                  /\ job' = [job EXCEPT ![u] = [job[u] EXCEPT !.at = "recv", !.send = m.id]]
                  /\ Asked(u, "recv", 0) /\ UNCHANGED <<ctl, err, hearing>>
               \/ m.ok /\ m.to # "send" /\ c \in Audio /\ Whole(c) /\ Proceed(u, c, job[u]) /\ UNCHANGED err
<1> DEFINE m == Head(down[u])
           c == Stored(u, m)
<1>1. /\ Receives(u) /\ m.kind = "answer" /\ m.live /\ m.to = job[u].at
      /\ \/ Fail(u) /\ UNCHANGED <<up, hearing>>
         \/ /\ m.ok /\ m.to = "send"
            /\ job' = [job EXCEPT ![u] = [@ EXCEPT !.at = "recv", !.send = m.id]]
            /\ Asked(u, "recv", 0) /\ UNCHANGED <<ctl, err, hearing>>
         \/ m.ok /\ m.to # "send" /\ Proceed(u, c, job[u]) /\ UNCHANGED err
  BY DEF JobAnswered
<1>2. m \in Messages
  BY <1>1, ReceivesShape DEF Shapes
<1>3. job \in [Users -> Jobs] /\ job[u] \in Jobs
  BY ShapesParts
<1> HIDE DEF m
<1>4. LiveReply(m)
  <2>1. m.to \in Requests \cup {"connect", "resume"}
    BY <1>1, <1>2, MessageParts
  <2>2. job[u].at \in Requests \cup {"idle", "capture", "drain"}
    BY <1>3 DEF Jobs
  <2> QED BY <1>1, <2>1, <2>2 DEF LiveReply, Requests
<1>5. m.ok /\ m.to = "send" => m.id # 0
  BY <1>1, <1>2, MessageParts
<1>6. m.ok => c \in Audio /\ Whole(c)
  BY <1>1, <1>2, StoredShape
<1>7. [job EXCEPT ![u] = [@ EXCEPT !.at = "recv", !.send = m.id]]
        = [job EXCEPT ![u] = [job[u] EXCEPT !.at = "recv", !.send = m.id]]
  BY <1>3
<1> QED BY <1>1, <1>2, <1>4, <1>5, <1>6, <1>7 DEF m

LEMMA AnswersTyped ==
  ASSUME Shapes, NEW u \in Users, Answered(u)
  PROVE  Shapes'
<1>1. CASE JobAnswered(u)
  <2> DEFINE m == Head(down[u])
             c == Stored(u, m)
  <2>1. /\ Receives(u) /\ m \in Messages
        /\ \/ Fail(u) /\ UNCHANGED <<up, hearing>>
           \/ /\ m.ok /\ m.to = "send" /\ m.id # 0
              /\ job' = [job EXCEPT ![u] = [job[u] EXCEPT !.at = "recv", !.send = m.id]]
              /\ Asked(u, "recv", 0) /\ UNCHANGED <<ctl, err, hearing>>
           \/ c \in Audio /\ Whole(c) /\ Proceed(u, c, job[u]) /\ UNCHANGED err
    BY <1>1, JobEffects
  <2>2. /\ UNCHANGED <<link, joins>> /\ UNCHANGED serverOnly /\ down' \in [Users -> Seq(Messages)]
    BY <2>1, ReceivesShape DEF Shapes, serverOnly
  <2>3. ctl[u] \in Audio /\ Whole(ctl[u]) /\ job[u] \in Jobs /\ m.id \in Nat
    BY <2>1, ShapesParts, MessageParts
  <2> HIDE DEF m, c
  <2>4. CASE Fail(u) /\ UNCHANGED <<up, hearing>>
    <3>1. UNCHANGED <<up, pend, opening, playing, dtls>>
      BY <2>4 DEF hearing
    <3> DEFINE d == [ctl[u] EXCEPT !.ready = FALSE]
    <3>2. /\ d \in Audio /\ Whole(d) /\ Prepared(d, Idle) /\ ctl' = [ctl EXCEPT ![u] = d]
          /\ job' = [job EXCEPT ![u] = Idle] /\ err' \in [Users -> BOOLEAN]
      BY <2>4, FailEffects
    <3> HIDE DEF d
    <3> QED BY <2>2, <3>1, <3>2, IdleShape, ShapesParts, ControllerTyped
  <2>5. CASE /\ m.ok /\ m.to = "send" /\ m.id # 0
             /\ job' = [job EXCEPT ![u] = [job[u] EXCEPT !.at = "recv", !.send = m.id]]
             /\ Asked(u, "recv", 0) /\ UNCHANGED <<ctl, err, hearing>>
    <3> DEFINE j == [job[u] EXCEPT !.at = "recv", !.send = m.id]
    <3>1. j \in Jobs /\ Prepared(ctl[u], j)
      BY <2>3, <2>5 DEF Jobs, Requests, Prepared
    <3>2. ctl' = [ctl EXCEPT ![u] = ctl[u]]
      BY <2>5, ShapesParts
    <3>3. "recv" \in Requests \cup {"connect"} /\ 0 \in Nat
      BY DEF Requests
    <3>4. up' \in [Users -> Seq(Asks)]
      BY <2>5, <3>3, AskedShape DEF Shapes
    <3>5. job' = [job EXCEPT ![u] = j] /\ UNCHANGED <<err, pend, opening, playing, dtls>>
      BY <2>5 DEF hearing
    <3> HIDE DEF j
    <3> QED BY <2>2, <2>3, <3>1, <3>2, <3>4, <3>5, ShapesParts, ControllerTyped
  <2>6. CASE c \in Audio /\ Whole(c) /\ Proceed(u, c, job[u]) /\ UNCHANGED err
    BY <2>2, <2>3, <2>6, ShapesParts, ProceedTyped
  <2> QED BY <2>1, <2>4, <2>5, <2>6, SMTT(40)
<1>2. CASE AnswerIgnored(u)
  <2>1. Receives(u) /\ UNCHANGED <<up, ctl, job, pend, opening, playing, dtls, err>>
    BY <1>2 DEF AnswerIgnored, hearing
  <2>2. /\ UNCHANGED <<link, joins>> /\ UNCHANGED serverOnly /\ down' \in [Users -> Seq(Messages)]
    BY <2>1, ReceivesShape DEF Shapes, serverOnly
  <2> QED BY <2>1, <2>2, ShapesParts, HearingTyped
<1>3. CASE DtlsAnswered(u)
  <2> DEFINE m == Head(down[u])
  <2>1. /\ Receives(u) /\ UNCHANGED <<up, ctl, job, pend, playing>>
        /\ dtls' = [dtls EXCEPT ![u] = IF m.ok THEN "up" ELSE "new"]
        /\ opening' = [opening EXCEPT ![u] = IF m.ok THEN @ ELSE {}]
        /\ err' = [err EXCEPT ![u] = @ \/ ~m.ok]
    BY <1>3 DEF DtlsAnswered
  <2>2. /\ UNCHANGED <<link, joins>> /\ UNCHANGED serverOnly /\ down' \in [Users -> Seq(Messages)]
    BY <2>1, ReceivesShape DEF Shapes, serverOnly
  <2>3. /\ dtls' \in [Users -> {"new", "asked", "up"}] /\ opening' \in [Users -> SUBSET Heards]
        /\ err' \in [Users -> BOOLEAN]
    BY <2>1, ShapesParts
  <2> QED BY <2>1, <2>2, <2>3, ShapesParts, HearingTyped
<1>4. CASE ResumeAnswered(u)
  <2>1. /\ Receives(u) /\ UNCHANGED <<up, ctl, job, pend, opening, playing, dtls>>
        /\ err' = [err EXCEPT ![u] = @ \/ ~Head(down[u]).ok]
    BY <1>4 DEF ResumeAnswered, hearing
  <2>2. /\ UNCHANGED <<link, joins>> /\ UNCHANGED serverOnly /\ down' \in [Users -> Seq(Messages)]
    BY <2>1, ReceivesShape DEF Shapes, serverOnly
  <2>3. err' \in [Users -> BOOLEAN]
    BY <2>1, ShapesParts
  <2> QED BY <2>1, <2>2, <2>3, ShapesParts, HearingTyped
<1>5. CASE Available(u)
  <2> DEFINE m == Head(down[u])
             r == [id |-> m.id, from |-> m.from, on |-> m.on]
  <2>1. /\ Receives(u) /\ m.kind = "available" /\ UNCHANGED <<ctl, job, playing, err>>
        /\ IF ctl[u].recv = 0
           THEN pend' = [pend EXCEPT ![u] = @ \cup {r}] /\ UNCHANGED <<opening, dtls, up>>
           ELSE /\ opening' = [opening EXCEPT ![u] = @ \cup {r}]
                /\ IF AsksDtls(u, {r})
                   THEN dtls' = [dtls EXCEPT ![u] = "asked"] /\ Asked(u, "connect", ctl[u].recv)
                   ELSE UNCHANGED <<dtls, up>>
                /\ UNCHANGED pend
    BY <1>5 DEF Available
  <2>2. /\ UNCHANGED <<link, joins>> /\ UNCHANGED serverOnly /\ down' \in [Users -> Seq(Messages)]
        /\ m \in Messages
    BY <2>1, ReceivesShape DEF Shapes, serverOnly
  <2>3. r \in Heards
    <3>1. m.id \in Nat /\ m.from \in Users /\ m.on \in SUBSET Channels
      BY <2>1, <2>2, MessageParts
    <3> QED BY <3>1 DEF Heards
  <2>4. ctl[u].recv \in Nat
    BY ShapesParts DEF Audio
  <2> HIDE DEF r, m
  <2>5. /\ pend' \in [Users -> SUBSET Heards] /\ opening' \in [Users -> SUBSET Heards]
    <3>1. CASE ctl[u].recv = 0
      <4>1. pend' = [pend EXCEPT ![u] = pend[u] \cup {r}] /\ UNCHANGED opening
        BY <2>1, <3>1, ShapesParts
      <4>2. pend[u] \cup {r} \in SUBSET Heards
        BY <2>3, ShapesParts
      <4> QED BY <4>1, <4>2, ShapesParts
    <3>2. CASE ctl[u].recv # 0
      <4>1. opening' = [opening EXCEPT ![u] = opening[u] \cup {r}] /\ UNCHANGED pend
        BY <2>1, <3>2, ShapesParts
      <4>2. opening[u] \cup {r} \in SUBSET Heards
        BY <2>3, ShapesParts
      <4> QED BY <4>1, <4>2, ShapesParts
    <3> QED BY <3>1, <3>2
  <2>6. up' \in [Users -> Seq(Asks)] /\ dtls' \in [Users -> {"new", "asked", "up"}]
    <3>1. CASE dtls' = [dtls EXCEPT ![u] = "asked"] /\ Asked(u, "connect", ctl[u].recv)
      <4>1. up' \in [Users -> Seq(Asks)]
        BY <2>4, <3>1, AskedShape DEF Shapes
      <4> QED BY <3>1, <4>1, ShapesParts
    <3>2. CASE UNCHANGED <<dtls, up>>
      BY <3>2, ShapesParts
    <3> QED BY <2>1, <3>1, <3>2
  <2> QED BY <2>1, <2>2, <2>5, <2>6, ShapesParts, HearingTyped
<1>6. CASE StateOrClosed(u)
  <2> DEFINE m == Head(down[u])
             same(r) == r.id = m.id /\ r.from = m.from
             after == IF m.kind = "closed" THEN {r \in playing[u] : ~same(r)}
                      ELSE {IF same(r) THEN [r EXCEPT !.on = m.on] ELSE r : r \in playing[u]}
  <2>1. /\ Receives(u) /\ m.kind \in {"state", "closed"}
        /\ UNCHANGED <<up, ctl, job, pend, opening, dtls, err>>
        /\ playing' = [playing EXCEPT ![u] = after]
    BY <1>6, ShapesParts DEF StateOrClosed
  <2>2. /\ UNCHANGED <<link, joins>> /\ UNCHANGED serverOnly /\ down' \in [Users -> Seq(Messages)]
        /\ m \in Messages
    BY <2>1, ReceivesShape DEF Shapes, serverOnly
  <2>3. playing[u] \subseteq Heards /\ m.on \in SUBSET Channels
    BY <2>1, <2>2, ShapesParts, MessageParts
  <2> HIDE DEF m
  <2>4. \A r \in Heards : [r EXCEPT !.on = m.on] \in Heards
    BY <2>3 DEF Heards
  <2>5. after \subseteq Heards
    BY <2>3, <2>4
  <2> HIDE DEF after
  <2>6. playing' \in [Users -> SUBSET Heards]
    BY <2>1, <2>5, ShapesParts
  <2> QED BY <2>1, <2>2, <2>6, ShapesParts, HearingTyped
<1> QED BY <1>1, <1>2, <1>3, <1>4, <1>5, <1>6 DEF Answered

LEMMA OpenedTyped ==
  ASSUME Shapes, NEW u \in Users, Ready(u) \/ \E r \in opening[u] : Opened(u, r)
  PROVE  Shapes'
<1>1. CASE Ready(u)
  <2> DEFINE c == [ctl[u] EXCEPT !.ready = TRUE, !.armed = TRUE]
  <2>1. /\ job' = [job EXCEPT ![u] = Idle] /\ ctl' = [ctl EXCEPT ![u] = c]
        /\ err' = [err EXCEPT ![u] = FALSE]
        /\ UNCHANGED <<link, up, down, joins, pend, opening, playing, dtls>> /\ UNCHANGED serverOnly
    BY <1>1, ShapesParts DEF Ready, serverVars, wires, routing, serverOnly, hearing
  <2>2. ctl[u] \in Audio /\ Whole(ctl[u])
    BY ShapesParts
  <2>3. c \in Audio /\ Whole(c)
    BY <2>2 DEF Audio, Whole
  <2>4. Idle \in Jobs /\ Prepared(c, Idle)
    BY IdleShape DEF Prepared
  <2>5. err' \in [Users -> BOOLEAN]
    BY <2>1, ShapesParts
  <2> HIDE DEF c
  <2> QED BY <2>1, <2>3, <2>4, <2>5, ShapesParts, ControllerTyped
<1>2. ASSUME NEW r \in opening[u], Opened(u, r) PROVE Shapes'
  <2> DEFINE m == [kind |-> "resume", id |-> r.id, from |-> r.from, live |-> TRUE]
  <2>1. /\ opening' = [opening EXCEPT ![u] = @ \ {r}] /\ playing' = [playing EXCEPT ![u] = @ \cup {r}]
        /\ up' = [up EXCEPT ![u] = Append(@, m)]
        /\ UNCHANGED <<link, down, ctl, job, pend, dtls, err, joins>> /\ UNCHANGED serverOnly
    BY <1>2 DEF Opened, serverOnly, routing
  <2>2. r \in Heards /\ up[u] \in Seq(Asks)
    BY ShapesParts
  <2>3. m \in Asks
    BY <2>2 DEF Heards, Asks
  <2> HIDE DEF m
  <2>4. Append(up[u], m) \in Seq(Asks)
    BY <2>2, <2>3, AppendFacts
  <2>5. up' \in [Users -> Seq(Asks)]
    BY <2>1, <2>4, ShapesParts
  <2>6. opening' \in [Users -> SUBSET Heards] /\ playing' \in [Users -> SUBSET Heards]
    BY <2>1, <2>2, ShapesParts
  <2> QED BY <2>1, <2>5, <2>6, ShapesParts, HearingTyped
<1> QED BY <1>1, <1>2

LEMMA InitShapes == Init => Shapes
<1> SUFFICES ASSUME Init PROVE Shapes
  OBVIOUS
<1>1. <<>> \in Seq(Asks) /\ <<>> \in Seq(Messages)
  BY EmptySeq
<1>2. NoPeer \in PeerStates /\ NoConsumer \in Consumers
  BY DEF NoPeer, PeerStates, NoConsumer, Consumers
<1>3. ServerShapes
  BY <1>1, <1>2 DEF Init, ServerInit, ServerShapes
<1>4. Prepared(NoAudio, Idle)
  BY IdleShape DEF Prepared
<1>5. ClientShapes
  BY <1>4, IdleShape DEF Init, ClientShapes
<1> QED BY <1>3, <1>5 DEF Shapes

LEMMA StepShapes == Shapes /\ [Next]_vars => Shapes'
<1> SUFFICES ASSUME Shapes, [Next]_vars PROVE Shapes'
  OBVIOUS
<1>1. CASE ServerNext /\ UNCHANGED clientVars
  <2>1. ServerShapes'
    BY <1>1, ServerTyped DEF Shapes
  <2>2. ClientShapes'
    BY <1>1 DEF Shapes, ClientShapes, clientVars, hearing
  <2> QED BY <2>1, <2>2 DEF Shapes
<1>2. ASSUME NEW u \in Users, ClientStep(u) PROVE Shapes'
  BY <1>2, OperatorTyped, LinkTyped, AnswersTyped, OpenedTyped DEF ClientStep
<1>3. CASE UNCHANGED vars
  BY <1>3 DEF vars, serverVars, wires, routing, clientVars, hearing, Shapes, ServerShapes, ClientShapes
<1> QED BY <1>1, <1>2, <1>3 DEF Next

\* The values keep their shapes: a controller has both transports or none and
\* no producer without them, whatever is answered late, refused or dropped.
THEOREM MediaTypeCorrect == Spec => []MediaTypeOK
<1>1. Init => Shapes
  BY InitShapes
<1>2. Shapes /\ [Next]_vars => Shapes'
  BY StepShapes
<1>3. Shapes => MediaTypeOK
  BY ShapesTyped
<1> QED BY <1>1, <1>2, <1>3, PTL DEF Spec

-----------------------------------------------------------------------------
(* The order of requests and answers through the steps *)

\* The last part of Order
ReceivesFirst(U, producer) ==
  \A i \in DOMAIN U : U[i].kind = "recv" =>
    /\ producer = 0
    /\ \A j \in DOMAIN U : j < i => U[j].kind # "produce"

LEMMA OrderEmpty ==
  ASSUME NEW at, NEW producer
  PROVE  Order(<<>>, <<>>, at, producer)
<1>1. DOMAIN <<>> = {}
  OBVIOUS
<1> QED BY <1>1 DEF Order

LEMMA OrderCleared ==
  ASSUME NEW U, NEW D, NEW at, NEW producer, Order(U, D, at, producer)
  PROVE  Order(U, D, at, 0)
BY DEF Order

LEMMA OrderFree ==
  ASSUME NEW U, NEW D, NEW at, NEW producer, NoneAwaited(U, D), ReceivesFirst(U, producer)
  PROVE  Order(U, D, at, producer)
BY DEF Order, NoneAwaited, ReceivesFirst

\* A start that is not under way waits for nothing.
LEMMA OrderIdle ==
  ASSUME NEW U, NEW D, NEW at, NEW producer, Order(U, D, at, producer), at \notin Requests
  PROVE  NoneAwaited(U, D) /\ ReceivesFirst(U, producer)
BY DEF Order, NoneAwaited, ReceivesFirst, LiveAsk, LiveReply

LEMMA OrderReceived ==
  ASSUME NEW S, NEW U, NEW D \in Seq(S), NEW at, NEW producer,
         Order(U, D, at, producer), D # <<>>
  PROVE  /\ Order(U, Tail(D), at, producer) /\ ReceivesFirst(U, producer)
         /\ LiveReply(Head(D)) =>
              /\ NoneAwaited(U, Tail(D)) /\ \A j \in DOMAIN U : U[j].kind \notin Requests
              /\ Brings(Head(D), "send") => producer = 0
<1> DEFINE F == Tail(D)
<1>1. /\ 1 \in DOMAIN D /\ Head(D) = D[1]
      /\ \A i \in DOMAIN F : i \in Nat /\ i >= 1 /\ i + 1 \in DOMAIN D /\ F[i] = D[i + 1]
  BY TailFacts
<1> HIDE DEF F
<1>2. \A i \in DOMAIN F : i + 1 # 1
  BY <1>1
<1>3. \A i, j \in DOMAIN F : i # j => i + 1 # j + 1
  BY <1>1
<1>4. ASSUME NEW i \in DOMAIN F, LiveReply(F[i])
      PROVE  /\ F[i].to = at /\ \A j \in DOMAIN U : U[j].kind \notin Requests
             /\ \A j \in DOMAIN F : j # i => ~LiveReply(F[j])
             /\ Brings(F[i], "send") => producer = 0
  <2>1. i + 1 \in DOMAIN D /\ F[i] = D[i + 1] /\ LiveReply(D[i + 1])
    BY <1>1, <1>4
  <2>2. /\ D[i + 1].to = at /\ \A j \in DOMAIN U : U[j].kind \notin Requests
        /\ \A j \in DOMAIN D : j # i + 1 => ~LiveReply(D[j])
        /\ Brings(D[i + 1], "send") => producer = 0
    BY <2>1 DEF Order
  <2>3. \A j \in DOMAIN F : j # i => ~LiveReply(F[j])
    BY <1>1, <1>3, <2>2
  <2> QED BY <2>1, <2>2, <2>3
<1>5. ASSUME NEW i \in DOMAIN U, LiveAsk(U[i])
      PROVE  /\ U[i].kind = at
             /\ \A j \in DOMAIN U : j > i => U[j].kind \notin Requests
             /\ \A k \in DOMAIN F : ~LiveReply(F[k])
  BY <1>1, <1>5 DEF Order
<1>6. ReceivesFirst(U, producer)
  BY DEF Order, ReceivesFirst
<1>7. Order(U, F, at, producer)
  BY <1>4, <1>5, <1>6 DEF Order, ReceivesFirst
<1>8. ASSUME LiveReply(D[1])
      PROVE  /\ NoneAwaited(U, F) /\ \A j \in DOMAIN U : U[j].kind \notin Requests
             /\ Brings(D[1], "send") => producer = 0
  <2>1. /\ \A j \in DOMAIN U : U[j].kind \notin Requests
        /\ \A j \in DOMAIN D : j # 1 => ~LiveReply(D[j])
        /\ Brings(D[1], "send") => producer = 0
    BY <1>1, <1>8 DEF Order
  <2>2. \A j \in DOMAIN F : ~LiveReply(F[j])
    BY <1>1, <1>2, <2>1
  <2> QED BY <2>1, <2>2 DEF NoneAwaited, LiveAsk
<1> QED BY <1>1, <1>6, <1>7, <1>8 DEF F

LEMMA OrderAsked ==
  ASSUME NEW S, NEW U \in Seq(S), NEW D, NEW at \in Requests, NEW producer, NEW m \in S,
         NoneAwaited(U, D), ReceivesFirst(U, producer), m.kind = at,
         at = "recv" => producer = 0 /\ \A j \in DOMAIN U : U[j].kind \notin Requests
  PROVE  Order(Append(U, m), D, at, producer)
<1> DEFINE V == Append(U, m)
           n == Len(U) + 1
<1>1. /\ n \in DOMAIN V /\ V[n] = m /\ n \notin DOMAIN U /\ Len(U) \in Nat
      /\ \A i \in DOMAIN U : i \in Nat /\ i < n /\ i \in DOMAIN V /\ V[i] = U[i]
      /\ \A i \in DOMAIN V : i \in DOMAIN U \/ i = n
  BY AppendFacts
<1>0. n \in Nat
  BY <1>1
<1> HIDE DEF V, n
<1>2. \A i \in DOMAIN V : LiveAsk(V[i]) => i = n
  BY <1>1 DEF NoneAwaited
<1>3. \A j \in DOMAIN V : ~(j > n)
  BY <1>0, <1>1
<1>4. ASSUME NEW i \in DOMAIN V, V[i].kind = "recv"
      PROVE  producer = 0 /\ \A j \in DOMAIN V : j < i => V[j].kind # "produce"
  <2>1. CASE i \in DOMAIN U
    <3>1. \A j \in DOMAIN V : j < i => j \in DOMAIN U
      BY <1>0, <1>1, <2>1
    <3> QED BY <1>1, <1>4, <2>1, <3>1 DEF ReceivesFirst
  <2>2. CASE i = n
    <3>1. \A j \in DOMAIN V : j < i => j \in DOMAIN U
      BY <1>0, <1>1, <2>2
    <3>2. at = "recv"
      BY <1>1, <1>4, <2>2
    <3>3. "produce" \in Requests
      BY DEF Requests
    <3> QED BY <1>1, <3>1, <3>2, <3>3
  <2> QED BY <1>1, <2>1, <2>2
<1> QED BY <1>1, <1>2, <1>3, <1>4 DEF Order, NoneAwaited, V

LEMMA OrderAppended ==
  ASSUME NEW S, NEW U \in Seq(S), NEW D, NEW at, NEW producer, NEW m \in S,
         Order(U, D, at, producer), m.kind \notin Requests
  PROVE  Order(Append(U, m), D, at, producer)
<1> DEFINE V == Append(U, m)
           n == Len(U) + 1
<1>1. /\ n \in DOMAIN V /\ V[n] = m /\ n \notin DOMAIN U /\ Len(U) \in Nat
      /\ \A i \in DOMAIN U : i \in Nat /\ i < n /\ i \in DOMAIN V /\ V[i] = U[i]
      /\ \A i \in DOMAIN V : i \in DOMAIN U \/ i = n
  BY AppendFacts
<1> HIDE DEF V, n
<1>2. \A j \in DOMAIN V : V[j].kind \in Requests => j \in DOMAIN U /\ U[j] = V[j]
  BY <1>1
<1>3. "recv" \in Requests /\ "produce" \in Requests
  BY DEF Requests
<1>4. ASSUME NEW i \in DOMAIN V, LiveAsk(V[i])
      PROVE  /\ V[i].kind = at
             /\ \A j \in DOMAIN V : j > i => V[j].kind \notin Requests
             /\ \A k \in DOMAIN D : ~LiveReply(D[k])
  <2>1. i \in DOMAIN U /\ U[i] = V[i] /\ LiveAsk(U[i])
    BY <1>2, <1>4 DEF LiveAsk
  <2>2. /\ U[i].kind = at
        /\ \A j \in DOMAIN U : j > i => U[j].kind \notin Requests
        /\ \A k \in DOMAIN D : ~LiveReply(D[k])
    BY <2>1 DEF Order
  <2>3. \A j \in DOMAIN V : j > i => V[j].kind \notin Requests
    BY <1>2, <2>2
  <2> QED BY <2>1, <2>2, <2>3
<1>5. \A i \in DOMAIN D : LiveReply(D[i]) =>
        /\ D[i].to = at
        /\ \A j \in DOMAIN V : V[j].kind \notin Requests
        /\ \A j \in DOMAIN D : j # i => ~LiveReply(D[j])
        /\ Brings(D[i], "send") => producer = 0
  BY <1>2 DEF Order
<1>6. \A i \in DOMAIN V : V[i].kind = "recv" =>
        /\ producer = 0
        /\ \A j \in DOMAIN V : j < i => V[j].kind # "produce"
  BY <1>2, <1>3 DEF Order
<1> QED BY <1>4, <1>5, <1>6 DEF Order, V

\* Answers and requests of a start are forgotten.
LEMMA OrderForgotten ==
  ASSUME NEW U \in Seq(Asks), NEW D \in Seq(Messages), NEW at, NEW producer,
         Order(U, D, at, producer), NEW kinds \in SUBSET (Requests \cup {"connect"}),
         Requests \subseteq kinds
  PROVE  /\ NoneAwaited(Forgotten(U, kinds), Forgotten(D, kinds))
         /\ ReceivesFirst(Forgotten(U, kinds), producer)
<1> DEFINE V == Forgotten(U, kinds)
           F == Forgotten(D, kinds)
<1>1. /\ DOMAIN V = DOMAIN U
      /\ \A i \in DOMAIN U : V[i].kind = U[i].kind /\ (V[i].live => U[i].kind \notin kinds)
  BY ForgottenAsks
<1>2. /\ DOMAIN F = DOMAIN D
      /\ \A i \in DOMAIN D : F[i].kind = D[i].kind
      /\ \A i \in DOMAIN D : D[i].kind = "answer" =>
           F[i].to = D[i].to /\ (F[i].live => D[i].to \notin kinds)
  BY ForgottenMessages
<1> HIDE DEF V, F
<1>3. NoneAwaited(V, F)
  BY <1>1, <1>2 DEF NoneAwaited, LiveAsk, LiveReply
<1>4. ReceivesFirst(V, producer)
  BY <1>1 DEF Order, ReceivesFirst
<1> QED BY <1>3, <1>4 DEF V, F

\* The order holds for the start of every user.
OrderOf(u) == Order(up[u], down[u], job[u].at, peer[u].producer)
OrderInv == \A u \in Users : OrderOf(u)

LEMMA ToldPlain ==
  ASSUME NEW H \in [Users -> [Users -> Consumers]], NEW A \in [Users -> [Users -> Consumers]],
         NEW u \in Users, NEW i \in DOMAIN Told(u, H, A)
  PROVE  ~LiveReply(Told(u, H, A)[i])
<1>1. Told(u, H, A)[i] \in Notices
  BY ToldShape
<1>2. \A n \in Notices : n.kind # "answer"
  BY DEF Notices
<1> QED BY <1>1, <1>2 DEF LiveReply

LEMMA ToldOrder ==
  ASSUME NEW U \in Seq(Asks), NEW D \in Seq(Messages), NEW at, NEW producer,
         Order(U, D, at, producer), NEW u \in Users,
         NEW H \in [Users -> [Users -> Consumers]], NEW A \in [Users -> [Users -> Consumers]]
  PROVE  Order(U, D \o Told(u, H, A), at, producer)
<1> DEFINE E == Told(u, H, A)
<1>1. E \in Seq(Messages)
  BY ToldShape
<1>2. \A i \in DOMAIN E : ~LiveReply(E[i])
  BY ToldPlain
<1> HIDE DEF E
<1>3. Order(U, D \o E, at, producer)
  BY <1>1, <1>2, OrderTold
<1> QED BY <1>3 DEF E

LEMMA ServedOrder ==
  ASSUME Shapes, OrderInv, NEW u \in Users, up[u] # <<>>, NEW m \in Messages,
         m.to = Head(up[u]).kind, m.live = Head(up[u]).live,
         NEW after, after \in {0, peer[u].producer} \/ Head(up[u]).kind = "produce",
         Brings(m, "send") => after = 0
  PROVE  Order(Tail(up[u]), Append(down[u], m), job[u].at, after)
<1>1. up[u] \in Seq(Asks) /\ down[u] \in Seq(Messages)
  BY ShapesParts
<1>2. Order(up[u], down[u], job[u].at, peer[u].producer)
  BY DEF OrderInv, OrderOf
<1>3. LiveReply(m) => Head(up[u]).live /\ m.to = Head(up[u]).kind
  BY DEF LiveReply
<1> QED BY <1>1, <1>2, <1>3, OrderServed

\* A request of u is served and others are told.
LEMMA AnswerOrder ==
  ASSUME Shapes, OrderInv, NEW u \in Users, up[u] # <<>>, NEW m \in Messages,
         m.to = Head(up[u]).kind, m.live = Head(up[u]).live,
         peer'[u].producer \in {0, peer[u].producer} \/ Head(up[u]).kind = "produce",
         Brings(m, "send") => peer'[u].producer = 0,
         up'[u] = Tail(up[u]), \A v \in Users : v # u => up'[v] = up[v], UNCHANGED job,
         \A v \in Users : v # u => peer'[v].producer = peer[v].producer,
         down'[u] = Append(down[u], m), \A v \in Users : v # u => down'[v] = down[v]
  PROVE  OrderInv'
<1>1. OrderOf(u)'
  BY ServedOrder DEF OrderOf
<1>2. ASSUME NEW v \in Users, v # u PROVE OrderOf(v)'
  BY <1>2 DEF OrderInv, OrderOf
<1> QED BY <1>1, <1>2 DEF OrderInv

LEMMA AnswerToldOrder ==
  ASSUME Shapes, OrderInv, NEW u \in Users, up[u] # <<>>, link[u] = "attached", NEW m \in Messages,
         m.to = Head(up[u]).kind, m.live = Head(up[u]).live,
         NEW P \in [Users -> PeerStates], NEW H \in [Users -> [Users -> Consumers]],
         NEW M \in [Users -> Nat], Reconcile(P, H, M, To(u, m)),
         P[u].producer \in {0, peer[u].producer} \/ Head(up[u]).kind = "produce",
         Brings(m, "send") => P[u].producer = 0,
         up'[u] = Tail(up[u]), \A v \in Users : v # u => up'[v] = up[v], UNCHANGED job,
         \A v \in Users : v # u => P[v].producer = peer[v].producer
  PROVE  OrderInv'
<1>0. ServerShapes
  BY DEF Shapes
<1>1. To(u, m) \in [Users -> Seq(Messages)]
  BY ToShape
<1>2. peer' = P /\ heard' \in [Users -> [Users -> Consumers]]
  BY <1>0, <1>1, ReconcileShape
<1>3. /\ down'[u] = Append(down[u], m) \o Told(u, H, heard')
      /\ \A v \in Users : v # u => /\ link[v] # "attached" => down'[v] = down[v]
                                   /\ link[v] = "attached" => down'[v] = down[v] \o Told(v, H, heard')
  BY <1>0, ReconcileTo
<1>4. \A v \in Users : up[v] \in Seq(Asks) /\ down[v] \in Seq(Messages)
  BY ShapesParts
<1>5. Order(Tail(up[u]), Append(down[u], m), job[u].at, peer'[u].producer)
  BY <1>2, ServedOrder
<1>6. Tail(up[u]) \in Seq(Asks) /\ Append(down[u], m) \in Seq(Messages)
  BY <1>4, TailFacts, AppendFacts
<1>7. Order(Tail(up[u]), Append(down[u], m) \o Told(u, H, heard'), job[u].at, peer'[u].producer)
  BY <1>2, <1>5, <1>6, ToldOrder
<1>8. OrderOf(u)'
  BY <1>3, <1>7 DEF OrderOf
<1>9. ASSUME NEW v \in Users, v # u PROVE OrderOf(v)'
  <2>1. /\ up'[v] = up[v] /\ job'[v] = job[v] /\ peer'[v].producer = peer[v].producer
        /\ Order(up[v], down[v], job[v].at, peer[v].producer)
    BY <1>2, <1>9 DEF OrderInv, OrderOf
  <2>2. CASE link[v] # "attached"
    BY <1>3, <1>9, <2>1, <2>2 DEF OrderOf
  <2>3. CASE link[v] = "attached"
    <3>1. Order(up[v], down[v] \o Told(v, H, heard'), job[v].at, peer[v].producer)
      BY <1>2, <1>4, <2>1, ToldOrder
    <3> QED BY <1>3, <1>9, <2>1, <2>3, <3>1 DEF OrderOf
  <2> QED BY <2>2, <2>3
<1> QED BY <1>8, <1>9 DEF OrderInv

\* The service reconciles for somebody it does not answer.
LEMMA SilentOrder ==
  ASSUME Shapes, OrderInv, NEW P \in [Users -> PeerStates],
         Reconcile(P, heard, made, Silence), UNCHANGED <<up, job>>,
         \A v \in Users : P[v].producer \in {0, peer[v].producer}
  PROVE  OrderInv'
<1>0. ServerShapes /\ heard \in [Users -> [Users -> Consumers]] /\ made \in [Users -> Nat]
  BY DEF Shapes, ServerShapes
<1>2. peer' = P /\ heard' \in [Users -> [Users -> Consumers]]
  BY <1>0, SilenceShape, ReconcileShape
<1>3. \A v \in Users : /\ link[v] # "attached" => down'[v] = down[v]
                       /\ link[v] = "attached" => down'[v] = down[v] \o Told(v, heard, heard')
  BY <1>0, ReconcileSilently
<1>4. ASSUME NEW v \in Users PROVE OrderOf(v)'
  <2>1. Order(up[v], down[v], job[v].at, peer'[v].producer)
    <3>1. Order(up[v], down[v], job[v].at, peer[v].producer)
      BY DEF OrderInv, OrderOf
    <3>2. peer'[v].producer \in {0, peer[v].producer}
      BY <1>2
    <3> QED BY <3>1, <3>2, OrderCleared
  <2>2. CASE link[v] # "attached"
    BY <1>3, <2>1, <2>2 DEF OrderOf
  <2>3. CASE link[v] = "attached"
    <3>1. up[v] \in Seq(Asks) /\ down[v] \in Seq(Messages)
      BY ShapesParts
    <3>2. Order(up[v], down[v] \o Told(v, heard, heard'), job[v].at, peer'[v].producer)
      BY <1>0, <1>2, <2>1, <3>1, ToldOrder
    <3> QED BY <1>3, <2>3, <3>2 DEF OrderOf
  <2> QED BY <2>2, <2>3
<1> QED BY <1>4 DEF OrderInv

\* The server hangs up on u at most.
LEMMA HungOrder ==
  ASSUME Shapes, OrderInv, NEW u \in Users, Hung(u) \/ UNCHANGED <<up, down>>, UNCHANGED job,
         \A v \in Users : peer'[v].producer \in {0, peer[v].producer}
  PROVE  OrderInv'
<1>1. ASSUME NEW v \in Users, UNCHANGED <<up[v], down[v]>> PROVE OrderOf(v)'
  <2>1. Order(up[v], down[v], job[v].at, peer[v].producer)
    BY DEF OrderInv, OrderOf
  <2>2. peer'[v].producer \in {0, peer[v].producer}
    OBVIOUS
  <2>3. Order(up[v], down[v], job[v].at, peer'[v].producer)
    BY <2>1, <2>2, OrderCleared
  <2> QED BY <1>1, <2>3 DEF OrderOf
<1>2. CASE Hung(u)
  <2>1. up'[u] = <<>> /\ down'[u] = <<>>
        /\ \A v \in Users : v # u => up'[v] = up[v] /\ down'[v] = down[v]
    BY <1>2, HungEffects DEF Shapes
  <2>2. OrderOf(u)'
    BY <2>1, OrderEmpty DEF OrderOf
  <2> QED BY <1>1, <2>1, <2>2 DEF OrderInv
<1>3. CASE UNCHANGED <<up, down>>
  BY <1>1, <1>3 DEF OrderInv
<1> QED BY <1>2, <1>3

LEMMA UpsertedKeeps ==
  ASSUME ServerShapes, NEW u \in Users, NEW v \in Users
  PROVE  /\ Upserted(peer, u)[v].send = peer[v].send /\ Upserted(peer, u)[v].recv = peer[v].recv
         /\ Upserted(peer, u)[v].producer = peer[v].producer
<1>1. peer \in [Users -> PeerStates]
  BY DEF ServerShapes
<1>2. CASE v = u
  BY <1>1, <1>2, UpsertedShape
<1>3. CASE v # u
  <2>1. Upserted(peer, u)[v] = peer[v]
    BY <1>1, <1>3, UpsertedShape
  <2> QED BY <2>1
<1> QED BY <1>2, <1>3

LEMMA ServerOrder ==
  ASSUME Shapes, OrderInv, ServerNext, UNCHANGED job
  PROVE  OrderInv'
<1>0. /\ ServerShapes /\ peer \in [Users -> PeerStates] /\ made \in [Users -> Nat]
      /\ heard \in [Users -> [Users -> Consumers]]
  BY DEF Shapes, ServerShapes
<1>1. ASSUME NEW u \in Users, ServeCapabilities(u) PROVE OrderInv'
  <2> DEFINE m == Answer(Head(up[u]), 0, TRUE)
  <2>1. /\ Takes(u, {"capabilities"}) /\ UNCHANGED peer /\ m \in Messages
        /\ Head(up[u]) \in Asks /\ Head(up[u]).kind = "capabilities"
        /\ down'[u] = Append(down[u], m) /\ \A v \in Users : v # u => down'[v] = down[v]
    BY <1>0, <1>1, CapabilitiesEffects
  <2>2. m.to = Head(up[u]).kind /\ m.live = Head(up[u]).live
    BY DEF Answer
  <2>3. up[u] # <<>> /\ up'[u] = Tail(up[u]) /\ \A v \in Users : v # u => up'[v] = up[v]
    BY <1>0, <2>1, TakesShape
  <2>4. ~Brings(m, "send")
    BY <2>1, <2>2 DEF Brings
  <2> HIDE DEF m
  <2> QED BY <2>1, <2>2, <2>3, <2>4, AnswerOrder
<1>2. ASSUME NEW u \in Users, ServeTransport(u) PROVE OrderInv'
  <2> DEFINE m == Answer(Head(up[u]), made[u] + 1, TRUE)
  <2>1. /\ Takes(u, {"send", "recv"}) /\ m \in Messages
        /\ Head(up[u]) \in Asks /\ Head(up[u]).kind \in {"send", "recv"}
        /\ Head(up[u]).kind = "send" => peer'[u].producer = 0
        /\ Head(up[u]).kind = "recv" => peer'[u].producer = peer[u].producer
        /\ \A v \in Users : v # u => peer'[v] = peer[v]
        /\ down'[u] = Append(down[u], m) /\ \A v \in Users : v # u => down'[v] = down[v]
    BY <1>0, <1>2, TransportEffects
  <2>2. m.to = Head(up[u]).kind /\ m.live = Head(up[u]).live
    BY DEF Answer
  <2>3. up[u] # <<>> /\ up'[u] = Tail(up[u]) /\ \A v \in Users : v # u => up'[v] = up[v]
    BY <1>0, <2>1, TakesShape
  <2>4. Brings(m, "send") => Head(up[u]).kind = "send"
    BY <2>2 DEF Brings
  <2> HIDE DEF m
  <2> QED BY <2>1, <2>2, <2>3, <2>4, AnswerOrder
<1>3. ASSUME NEW u \in Users, ServeConnect(u) PROVE OrderInv'
  <2> DEFINE m == Head(up[u])
             P == Upserted(peer, u)
  <2>1. /\ Takes(u, {"connect"}) /\ peer' = P /\ P \in [Users -> PeerStates] /\ m \in Asks
        /\ m.kind = "connect"
    BY <1>0, <1>3, ConnectEffects
  <2>2. up[u] # <<>> /\ up'[u] = Tail(up[u]) /\ (\A v \in Users : v # u => up'[v] = up[v])
        /\ link[u] = "attached"
    BY <1>0, <2>1, TakesShape
  <2>3. P[u].producer = peer[u].producer /\ \A v \in Users : v # u => P[v] = peer[v]
    BY <1>0, UpsertedShape
  <2>4. CASE m.id = peer[u].recv /\ peer[u].recv # 0
    <3> DEFINE a == Answer(m, m.id, TRUE)
    <3>1. a \in Messages /\ Reconcile(P, heard, made, To(u, a))
      BY <1>0, <1>3, <2>4, ConnectEffects
    <3>2. a.to = m.kind /\ a.live = m.live
      BY DEF Answer
    <3>3. ~Brings(a, "send")
      BY <2>1, <3>2 DEF Brings
    <3> HIDE DEF a, P
    <3> QED BY <1>0, <2>1, <2>2, <2>3, <3>1, <3>2, <3>3, AnswerToldOrder
  <2>5. CASE ~(m.id = peer[u].recv /\ peer[u].recv # 0)
    <3>1. /\ down'[u] = Append(down[u], Refusal(u)) /\ \A v \in Users : v # u => down'[v] = down[v]
      BY <1>0, <1>3, <2>5, ConnectEffects
    <3>2. /\ Refusal(u) \in Messages /\ Refusal(u).to = m.kind /\ Refusal(u).live = m.live
          /\ ~Brings(Refusal(u), "send")
      BY <1>0, <2>2, RefusalShape DEF Brings
    <3>3. /\ peer'[u].producer = peer[u].producer
          /\ \A v \in Users : v # u => peer'[v].producer = peer[v].producer
      BY <2>1, <2>3
    <3> QED BY <2>1, <2>2, <3>1, <3>2, <3>3, AnswerOrder
  <2> QED BY <2>4, <2>5
<1>4. ASSUME NEW u \in Users, ServeProducer(u) PROVE OrderInv'
  <2> DEFINE m == Head(up[u])
             P == Upserted(peer, u)
             id == made[u] + 1
  <2>1. /\ Takes(u, {"produce"}) /\ P \in [Users -> PeerStates] /\ m \in Asks
        /\ m.kind = "produce" /\ id \in Nat
    BY <1>0, <1>4, ProducerEffects
  <2>2. up[u] # <<>> /\ up'[u] = Tail(up[u]) /\ (\A v \in Users : v # u => up'[v] = up[v])
        /\ link[u] = "attached"
    BY <1>0, <2>1, TakesShape
  <2>3. P[u].producer = peer[u].producer /\ \A v \in Users : v # u => P[v] = peer[v]
    BY <1>0, UpsertedShape
  <2>4. CASE m.id = peer[u].send /\ peer[u].send # 0
    <3> DEFINE a == Answer(m, id, TRUE)
               Q == Producing(P, u, id)
               H == Unheard(heard, u)
               M == [made EXCEPT ![u] = id]
    <3>1. a \in Messages /\ Reconcile(Q, H, M, To(u, a)) /\ M \in [Users -> Nat]
      BY <1>0, <1>4, <2>4, ProducerEffects
    <3>2. a.to = m.kind /\ a.live = m.live
      BY DEF Answer
    <3>3. ~Brings(a, "send")
      BY <2>1, <3>2 DEF Brings
    <3>4. Q \in [Users -> PeerStates] /\ \A v \in Users : v # u => Q[v] = P[v]
      BY <2>1, PeerProduces
    <3>5. H \in [Users -> [Users -> Consumers]]
      BY <1>0, UnheardShape
    <3>6. \A v \in Users : v # u => Q[v].producer = peer[v].producer
      BY <2>3, <3>4
    <3> HIDE DEF a, P, Q, H, M
    <3> QED BY <1>0, <2>1, <2>2, <3>1, <3>2, <3>3, <3>4, <3>5, <3>6, AnswerToldOrder
  <2>5. CASE ~(m.id = peer[u].send /\ peer[u].send # 0)
    <3>1. /\ down'[u] = Append(down[u], Refusal(u)) /\ \A v \in Users : v # u => down'[v] = down[v]
      BY <1>0, <1>4, <2>5, ProducerEffects
    <3>2. /\ Refusal(u) \in Messages /\ Refusal(u).to = m.kind /\ Refusal(u).live = m.live
          /\ ~Brings(Refusal(u), "send")
      BY <1>0, <2>2, RefusalShape DEF Brings
    <3>3. /\ peer'[u].producer = peer[u].producer
          /\ \A v \in Users : v # u => peer'[v].producer = peer[v].producer
      BY <1>0, <1>4, <2>3, <2>5, ProducerEffects
    <3> QED BY <2>1, <2>2, <3>1, <3>2, <3>3, AnswerOrder
  <2> QED BY <2>4, <2>5
<1>5. ASSUME NEW u \in Users, ServeResume(u) PROVE OrderInv'
  <2>1. PICK ok \in BOOLEAN :
          /\ Takes(u, {"resume"}) /\ peer' = Upserted(peer, u) /\ Head(up[u]).kind = "resume"
          /\ Answer(Head(up[u]), Head(up[u]).id, ok) \in Messages
          /\ down'[u] = Append(down[u], Answer(Head(up[u]), Head(up[u]).id, ok))
          /\ \A v \in Users : v # u => down'[v] = down[v]
    BY <1>0, <1>5, ResumeEffects
  <2> DEFINE m == Answer(Head(up[u]), Head(up[u]).id, ok)
  <2>2. m.to = Head(up[u]).kind /\ m.live = Head(up[u]).live
    BY DEF Answer
  <2>3. up[u] # <<>> /\ up'[u] = Tail(up[u]) /\ \A v \in Users : v # u => up'[v] = up[v]
    BY <1>0, <2>1, TakesShape
  <2>4. ~Brings(m, "send")
    BY <2>1, <2>2 DEF Brings
  <2>5. peer'[u].producer = peer[u].producer /\ \A v \in Users : v # u => peer'[v].producer = peer[v].producer
    BY <1>0, <2>1, UpsertedShape
  <2>6. m \in Messages /\ down'[u] = Append(down[u], m) /\ \A v \in Users : v # u => down'[v] = down[v]
    BY <2>1
  <2> HIDE DEF m
  <2> QED BY <2>2, <2>3, <2>4, <2>5, <2>6, AnswerOrder
<1>6. ASSUME NEW u \in Users, ServeWithoutWorker(u) PROVE OrderInv'
  <2>1. /\ up[u] # <<>> /\ Refusal(u) \in Messages /\ up' = [up EXCEPT ![u] = Tail(@)]
        /\ down'[u] = Append(down[u], Refusal(u)) /\ (\A v \in Users : v # u => down'[v] = down[v])
        /\ UNCHANGED peer
    BY <1>0, <1>6, RefusedEffects
  <2>2. up'[u] = Tail(up[u]) /\ \A v \in Users : v # u => up'[v] = up[v]
    BY <1>0, <2>1, UpDropped
  <2>3. /\ Refusal(u).to = Head(up[u]).kind /\ Refusal(u).live = Head(up[u]).live
        /\ ~Brings(Refusal(u), "send")
    BY <1>0, <2>1, RefusalShape DEF Brings
  <2> QED BY <2>1, <2>2, <2>3, AnswerOrder
<1>7. ASSUME NEW u \in Users, RefuseEarly(u) PROVE OrderInv'
  <2>1. up[u] # <<>> /\ up' = [up EXCEPT ![u] = Tail(@)] /\ UNCHANGED <<down, peer>>
    BY <1>7 DEF RefuseEarly, routing
  <2>2. up'[u] = Tail(up[u]) /\ \A v \in Users : v # u => up'[v] = up[v]
    BY <1>0, <2>1, UpDropped
  <2>3. Order(up[u], down[u], job[u].at, peer[u].producer) /\ up[u] \in Seq(Asks)
    BY ShapesParts DEF OrderInv, OrderOf
  <2>4. Order(Tail(up[u]), down[u], job[u].at, peer[u].producer)
    BY <2>1, <2>3, OrderDropped
  <2> QED BY <2>1, <2>2, <2>4 DEF OrderInv, OrderOf
<1>8. ASSUME NEW u \in Users, Attach(u) PROVE OrderInv'
  <2>1. peer' = Upserted(peer, u) \/ UNCHANGED peer
    BY <1>8 DEF Attach
  <2>2. \A v \in Users : peer'[v].producer = peer[v].producer
    BY <1>0, <2>1, UpsertedKeeps
  <2>3. Hung(u) \/ UNCHANGED <<up, down>>
    BY <1>8 DEF Attach
  <2> QED BY <2>2, <2>3, HungOrder
<1>9. ASSUME NEW u \in Users, NEW cs \in SUBSET Channels, Talk(u, cs) PROVE OrderInv'
  BY <1>9 DEF Talk, wires, routing, OrderInv, OrderOf
<1>10. ASSUME NEW u \in Users, Update(u) PROVE OrderInv'
  <2>1. CASE worker
    <3>1. Upserted(peer, u) \in [Users -> PeerStates] /\ Reconcile(Upserted(peer, u), heard, made, Silence)
          /\ UNCHANGED up
      BY <1>0, <1>10, <2>1, UpdateEffects
    <3>2. \A v \in Users : Upserted(peer, u)[v].producer = peer[v].producer
      BY <1>0, UpsertedKeeps
    <3> QED BY <3>1, <3>2, SilentOrder
  <2>2. CASE ~worker
    <3>1. UNCHANGED peer
      BY <1>10, <2>2 DEF Update
    <3>2. Hung(u) \/ UNCHANGED <<up, down>>
      BY <1>10, <2>2 DEF Update, wires
    <3> QED BY <3>1, <3>2, HungOrder
  <2> QED BY <2>1, <2>2
<1>11. ASSUME NEW u \in Users, Detach(u) PROVE OrderInv'
  <2> DEFINE P == [peer EXCEPT ![u] = NoPeer]
  <2>1. /\ UNCHANGED up /\ P \in [Users -> PeerStates] /\ P[u] = NoPeer
        /\ \A v \in Users : v # u => P[v] = peer[v]
        /\ Reconcile(P, heard, made, Silence) \/ UNCHANGED <<peer, heard, made, down>>
    BY <1>0, <1>11, DetachEffects
  <2>2. NoPeer.producer = 0
    BY DEF NoPeer
  <2>3. \A v \in Users : P[v].producer \in {0, peer[v].producer}
    BY <2>1, <2>2
  <2> HIDE DEF P
  <2>4. CASE Reconcile(P, heard, made, Silence)
    BY <2>1, <2>3, <2>4, SilentOrder
  <2>5. CASE UNCHANGED <<peer, heard, made, down>>
    BY <2>1, <2>5, HungOrder
  <2> QED BY <2>1, <2>4, <2>5
<1>12. ASSUME NEW u \in Users, Evict(u) PROVE OrderInv'
  BY <1>12, HungOrder DEF Evict, routing
<1>13. CASE WorkerDies
  <2>1. UNCHANGED <<up, down>> /\ \A v \in Users : peer'[v].producer = 0
    BY <1>13 DEF WorkerDies, wires, NoPeer
  <2> QED BY <2>1, OrderCleared DEF OrderInv, OrderOf
<1>14. CASE WorkerRestarts
  BY <1>14 DEF WorkerRestarts, wires, OrderInv, OrderOf
<1> QED BY <1>1, <1>2, <1>3, <1>4, <1>5, <1>6, <1>7, <1>8, <1>9, <1>10, <1>11, <1>12, <1>13, <1>14
        DEF ServerNext, ServerStep

\* A step of the client of u changes nothing of another user.
Own(v) == <<link[v], up[v], down[v], ctl[v], job[v], pend[v], opening[v], playing[v], dtls[v],
            joins[v]>>

LEMMA ClientFrame ==
  ASSUME Shapes, NEW u \in Users, ClientStep(u)
  PROVE  UNCHANGED serverOnly /\ \A v \in Users : v # u => UNCHANGED Own(v)
<1>1. CASE Arm(u)
  <2>1. UNCHANGED serverOnly /\ UNCHANGED <<link, down, joins>>
    BY <1>1 DEF Arm, serverOnly, routing
  <2>2. CASE u \notin Mobile
    <3>1. Proceed(u, ctl[u], [Idle EXCEPT !.by = "arm"])
      BY <1>1, <2>2 DEF Arm, Begin
    <3>2. ctl[u] \in Audio /\ Whole(ctl[u]) /\ [Idle EXCEPT !.by = "arm"] \in Jobs
      BY ShapesParts, BeginShape
    <3> QED BY <2>1, <3>1, <3>2, ProceedEffects DEF Own
  <2>3. CASE u \in Mobile /\ ctl[u].armed
    <3>1. UNCHANGED <<ctl, job, pend, opening, playing, dtls, up>>
      BY <1>1, <2>3 DEF Arm, hearing
    <3> QED BY <2>1, <3>1 DEF Own
  <2>4. CASE u \in Mobile /\ ~ctl[u].armed
    <3> DEFINE c == [ctl[u] EXCEPT !.armed = TRUE]
    <3>1. Proceed(u, c, [Idle EXCEPT !.by = "effect"])
      BY <1>1, <2>4 DEF Arm, Begin
    <3>2. ctl[u] \in Audio /\ Whole(ctl[u]) /\ [Idle EXCEPT !.by = "effect"] \in Jobs
      BY ShapesParts, BeginShape
    <3>3. c \in Audio /\ Whole(c)
      BY <3>2 DEF Audio, Whole
    <3> HIDE DEF c
    <3> QED BY <2>1, <3>1, <3>2, <3>3, ProceedEffects DEF Own
  <2> QED BY <2>2, <2>3, <2>4
<1>2. CASE Captured(u)
  <2>1. UNCHANGED serverOnly /\ UNCHANGED <<link, down, joins>>
    BY <1>2 DEF Captured, serverOnly, routing
  <2>2. ctl[u] \in Audio /\ Whole(ctl[u]) /\ job[u] \in Jobs /\ ctl \in [Users -> Audio]
    BY ShapesParts
  <2>3. CASE Connected(u)
    <3> DEFINE c == [ctl[u] EXCEPT !.mic = TRUE]
    <3>1. Proceed(u, c, job[u])
      BY <1>2, <2>3 DEF Captured
    <3>2. c \in Audio /\ Whole(c)
      BY <2>2 DEF Audio, Whole
    <3> HIDE DEF c
    <3> QED BY <2>1, <2>2, <3>1, <3>2, ProceedEffects DEF Own
  <2>4. CASE ~Connected(u)
    <3>1. /\ job' = [job EXCEPT ![u] = Idle]
          /\ ctl' = [ctl EXCEPT ![u] = [ctl[u] EXCEPT !.mic = TRUE, !.device = IF @ = "none" THEN "new" ELSE @]]
          /\ UNCHANGED <<pend, opening, playing, dtls, up>>
      BY <1>2, <2>2, <2>4 DEF Captured, hearing
    <3> QED BY <2>1, <3>1, ShapesParts DEF Own
  <2> QED BY <2>3, <2>4
<1>3. CASE CaptureDenied(u)
  <2>1. /\ Fail(u) /\ UNCHANGED <<link, up, down, joins, pend, opening, playing, dtls>>
        /\ UNCHANGED serverOnly
    BY <1>3 DEF CaptureDenied, serverVars, wires, routing, serverOnly, hearing
  <2>2. \A v \in Users : v # u => ctl'[v] = ctl[v] /\ job'[v] = job[v]
    BY <2>1, ShapesParts DEF Fail
  <2> QED BY <2>1, <2>2, ShapesParts DEF Own
<1>4. CASE Disarm(u)
  BY <1>4, ShapesParts DEF Disarm, serverOnly, routing, Own
<1>5. CASE Connect(u)
  <2>1. /\ UNCHANGED down /\ UNCHANGED serverOnly
        /\ link' = [link EXCEPT ![u] = "open"] /\ joins' = [joins EXCEPT ![u] = @ + 1]
    BY <1>5 DEF Connect, serverOnly, routing
  <2>2. CASE ctl[u].armed /\ job[u] = Idle
    <3>1. Proceed(u, ctl[u], [Idle EXCEPT !.by = "effect"])
      BY <1>5, <2>2 DEF Connect, Begin
    <3>2. ctl[u] \in Audio /\ Whole(ctl[u]) /\ [Idle EXCEPT !.by = "effect"] \in Jobs
      BY ShapesParts, BeginShape
    <3> QED BY <2>1, <3>1, <3>2, ProceedEffects, ShapesParts DEF Own
  <2>3. CASE ~(ctl[u].armed /\ job[u] = Idle)
    <3>1. UNCHANGED <<ctl, job, pend, opening, playing, dtls, up>>
      BY <1>5, <2>3 DEF Connect, hearing
    <3> QED BY <2>1, <3>1, ShapesParts DEF Own
  <2> QED BY <2>2, <2>3
<1>6. CASE Drop(u)
  BY <1>6, ShapesParts DEF Drop, serverOnly, routing, Own
<1>7. CASE TimeOut(u)
  <2>1. /\ Fail(u) /\ UNCHANGED <<link, joins, pend, opening, playing, dtls>>
        /\ UNCHANGED serverOnly
        /\ up' = [up EXCEPT ![u] = Forgotten(@, Requests)]
        /\ down' = [down EXCEPT ![u] = Forgotten(@, Requests)]
    BY <1>7 DEF TimeOut, serverOnly, routing, hearing
  <2>2. \A v \in Users : v # u => ctl'[v] = ctl[v] /\ job'[v] = job[v]
    BY <2>1, ShapesParts DEF Fail
  <2> QED BY <2>1, <2>2, ShapesParts DEF Own
<1>8. CASE JobAnswered(u)
  <2> DEFINE m == Head(down[u])
             c == Stored(u, m)
  <2>1. /\ Receives(u) /\ m \in Messages
        /\ \/ Fail(u) /\ UNCHANGED <<up, hearing>>
           \/ /\ m.ok /\ m.to = "send" /\ m.id # 0
              /\ job' = [job EXCEPT ![u] = [job[u] EXCEPT !.at = "recv", !.send = m.id]]
              /\ Asked(u, "recv", 0) /\ UNCHANGED <<ctl, err, hearing>>
           \/ c \in Audio /\ Whole(c) /\ Proceed(u, c, job[u]) /\ UNCHANGED err
    BY <1>8, JobEffects
  <2>2. /\ UNCHANGED <<link, joins>> /\ UNCHANGED serverOnly /\ \A v \in Users : v # u => down'[v] = down[v]
    BY <2>1, ReceivesShape DEF Shapes, serverOnly
  <2>3. job[u] \in Jobs
    BY ShapesParts
  <2> HIDE DEF m, c
  <2>4. CASE Fail(u) /\ UNCHANGED <<up, hearing>>
    <3>1. UNCHANGED <<up, pend, opening, playing, dtls>>
      BY <2>4 DEF hearing
    <3> QED BY <2>2, <2>4, <3>1, FailEffects, ShapesParts, ZenonT(60) DEF Own
  <2>5. CASE /\ m.ok /\ m.to = "send" /\ m.id # 0
             /\ job' = [job EXCEPT ![u] = [job[u] EXCEPT !.at = "recv", !.send = m.id]]
             /\ Asked(u, "recv", 0) /\ UNCHANGED <<ctl, err, hearing>>
    <3>1. UNCHANGED <<ctl, pend, opening, playing, dtls>> /\ up' = [up EXCEPT ![u] = Append(@, Request("recv", 0))]
      BY <2>5 DEF hearing, Asked
    <3> QED BY <2>2, <2>5, <3>1, ShapesParts DEF Own
  <2>6. CASE c \in Audio /\ Whole(c) /\ Proceed(u, c, job[u]) /\ UNCHANGED err
    BY <2>2, <2>3, <2>6, ProceedEffects DEF Own
  <2> QED BY <2>1, <2>4, <2>5, <2>6
<1>9. CASE AnswerIgnored(u)
  <2>1. Receives(u) /\ UNCHANGED <<up, ctl, job, pend, opening, playing, dtls>>
    BY <1>9 DEF AnswerIgnored, hearing
  <2> QED BY <2>1, ReceivesShape DEF Own, Shapes, serverOnly
<1>10. CASE DtlsAnswered(u)
  <2>1. /\ Receives(u) /\ UNCHANGED <<up, ctl, job, pend, playing>>
        /\ \A v \in Users : v # u => dtls'[v] = dtls[v] /\ opening'[v] = opening[v]
    BY <1>10, ShapesParts DEF DtlsAnswered
  <2> QED BY <2>1, ReceivesShape DEF Own, Shapes, serverOnly
<1>11. CASE ResumeAnswered(u)
  <2>1. Receives(u) /\ UNCHANGED <<up, ctl, job, pend, opening, playing, dtls>>
    BY <1>11 DEF ResumeAnswered, hearing
  <2> QED BY <2>1, ReceivesShape DEF Own, Shapes, serverOnly
<1>12. CASE Available(u)
  <2>1. /\ Receives(u) /\ UNCHANGED <<ctl, job, playing>>
        /\ \A v \in Users : v # u => /\ dtls'[v] = dtls[v] /\ opening'[v] = opening[v]
                                     /\ pend'[v] = pend[v] /\ up'[v] = up[v]
    BY <1>12, ShapesParts DEF Available, Asked
  <2> QED BY <2>1, ReceivesShape DEF Own, Shapes, serverOnly
<1>13. CASE StateOrClosed(u)
  <2>1. /\ Receives(u) /\ UNCHANGED <<up, ctl, job, pend, opening, dtls>>
        /\ \A v \in Users : v # u => playing'[v] = playing[v]
    BY <1>13, ShapesParts DEF StateOrClosed
  <2> QED BY <2>1, ReceivesShape DEF Own, Shapes, serverOnly
<1>14. CASE Ready(u)
  BY <1>14, ShapesParts DEF Ready, serverVars, wires, routing, serverOnly, hearing, Own
<1>15. ASSUME NEW r \in opening[u], Opened(u, r)
       PROVE  UNCHANGED serverOnly /\ \A v \in Users : v # u => UNCHANGED Own(v)
  BY <1>15, ShapesParts DEF Opened, routing, serverOnly, Own
<1> QED BY <1>1, <1>2, <1>3, <1>4, <1>5, <1>6, <1>7, <1>8, <1>9, <1>10, <1>11, <1>12, <1>13, <1>14, <1>15
        DEF ClientStep, Answered

\* A start goes on, with nothing awaited from before.
LEMMA ProceedOrder ==
  ASSUME Shapes, NEW u \in Users, NEW c \in Audio, Whole(c), NEW j \in Jobs, Proceed(u, c, j),
         NoneAwaited(up[u], down'[u]), ReceivesFirst(up[u], peer[u].producer), UNCHANGED peer
  PROVE  OrderOf(u)'
<1> DEFINE at == StageAfter(c)
<1>1. /\ at \in {"capture", "capabilities", "send", "produce", "drain"}
  BY StageShape
<1>2. /\ job'[u].at = at
      /\ at \in {"capabilities", "send"} => up'[u] = Append(up[u], Request(at, 0))
      /\ at = "produce" => up'[u] = Append(up[u], Request(at, c.send))
      /\ at = "capture" => up'[u] = up[u]
      /\ at = "drain" => up'[u] = up[u] \/ up'[u] = Append(up[u], Request("connect", c.recv))
  BY ProceedEffects
<1>3. up[u] \in Seq(Asks) /\ c.send \in Nat /\ c.recv \in Nat /\ 0 \in Nat
  BY ShapesParts DEF Audio
<1>4. \A a : Order(up[u], down'[u], a, peer[u].producer)
  BY OrderFree
<1> HIDE DEF at
<1>5. ASSUME NEW id \in Nat, at \in {"capabilities", "send", "produce"}
      PROVE  Order(Append(up[u], Request(at, id)), down'[u], at, peer[u].producer)
  <2>1. at \in Requests /\ at # "recv"
    BY <1>5 DEF Requests
  <2>2. Request(at, id) \in Asks /\ Request(at, id).kind = at
    BY <2>1, RequestShape
  <2> QED BY <1>3, <2>1, <2>2, OrderAsked
<1>6. CASE at \in {"capabilities", "send", "produce"}
  <2>1. \E id \in Nat : up'[u] = Append(up[u], Request(at, id))
    BY <1>2, <1>3, <1>6
  <2> QED BY <1>2, <1>5, <1>6, <2>1 DEF OrderOf
<1>7. CASE up'[u] = up[u]
  BY <1>4, <1>7 DEF OrderOf
<1>8. CASE at = "drain" /\ up'[u] = Append(up[u], Request("connect", c.recv))
  <2>1. Request("connect", c.recv) \in Asks /\ Request("connect", c.recv).kind = "connect"
    BY <1>3, RequestShape
  <2>2. "connect" \notin Requests
    BY DEF Requests
  <2>3. Order(up[u], down'[u], at, peer[u].producer)
    BY <1>4
  <2>4. Order(Append(up[u], Request("connect", c.recv)), down'[u], at, peer[u].producer)
    BY <1>3, <2>1, <2>2, <2>3, OrderAppended
  <2> QED BY <1>2, <1>8, <2>4 DEF OrderOf
<1> QED BY <1>1, <1>2, <1>6, <1>7, <1>8

LEMMA ClientOrder ==
  ASSUME Shapes, OrderInv, NEW u \in Users, ClientStep(u)
  PROVE  OrderInv'
<1>1. UNCHANGED peer /\ \A v \in Users : v # u => UNCHANGED Own(v)
  BY ClientFrame DEF serverOnly
<1>2. SUFFICES OrderOf(u)'
  BY <1>1 DEF OrderInv, OrderOf, Own
<1>3. /\ Order(up[u], down[u], job[u].at, peer[u].producer)
      /\ up[u] \in Seq(Asks) /\ down[u] \in Seq(Messages)
      /\ ctl[u] \in Audio /\ Whole(ctl[u]) /\ job[u] \in Jobs
  BY ShapesParts DEF OrderInv, OrderOf
<1>4. job[u].at \notin Requests =>
        NoneAwaited(up[u], down[u]) /\ ReceivesFirst(up[u], peer[u].producer)
  BY <1>3, OrderIdle
<1>5. /\ "idle" \notin Requests /\ "capture" \notin Requests /\ "drain" \notin Requests
      /\ "connect" \notin Requests /\ "resume" \notin Requests
  BY DEF Requests
<1>6. job[u] = Idle => job[u].at = "idle"
  BY IdleShape
<1>7. ASSUME Receives(u)
      PROVE  /\ down'[u] = Tail(down[u]) /\ down[u] # <<>>
             /\ Order(up[u], down'[u], job[u].at, peer[u].producer)
             /\ ReceivesFirst(up[u], peer[u].producer)
             /\ LiveReply(Head(down[u])) =>
                  /\ NoneAwaited(up[u], down'[u])
                  /\ \A k \in DOMAIN up[u] : up[u][k].kind \notin Requests
                  /\ Brings(Head(down[u]), "send") => peer[u].producer = 0
  <2>1. down'[u] = Tail(down[u]) /\ down[u] # <<>>
    BY <1>7, ReceivesShape DEF Shapes
  <2> QED BY <1>3, <2>1, OrderReceived
<1>8. CASE Arm(u)
  <2>1. job[u].at \notin Requests /\ UNCHANGED down
    BY <1>5, <1>6, <1>8 DEF Arm
  <2>2. CASE u \notin Mobile
    <3>1. Proceed(u, ctl[u], [Idle EXCEPT !.by = "arm"])
      BY <1>8, <2>2 DEF Arm, Begin
    <3>2. [Idle EXCEPT !.by = "arm"] \in Jobs
      BY BeginShape
    <3> QED BY <1>1, <1>3, <1>4, <2>1, <3>1, <3>2, ProceedOrder
  <2>3. CASE u \in Mobile /\ ctl[u].armed
    <3>1. UNCHANGED <<job, up>>
      BY <1>8, <2>3 DEF Arm
    <3> QED BY <1>1, <1>3, <2>1, <3>1 DEF OrderOf
  <2>4. CASE u \in Mobile /\ ~ctl[u].armed
    <3> DEFINE c == [ctl[u] EXCEPT !.armed = TRUE]
    <3>1. Proceed(u, c, [Idle EXCEPT !.by = "effect"])
      BY <1>8, <2>4 DEF Arm, Begin
    <3>2. [Idle EXCEPT !.by = "effect"] \in Jobs
      BY BeginShape
    <3>3. c \in Audio /\ Whole(c)
      BY <1>3 DEF Audio, Whole
    <3> HIDE DEF c
    <3> QED BY <1>1, <1>4, <2>1, <3>1, <3>2, <3>3, ProceedOrder
  <2> QED BY <2>2, <2>3, <2>4
<1>9. CASE Captured(u)
  <2>1. job[u].at \notin Requests /\ UNCHANGED down
    BY <1>5, <1>9 DEF Captured
  <2>2. CASE Connected(u)
    <3> DEFINE c == [ctl[u] EXCEPT !.mic = TRUE]
    <3>1. Proceed(u, c, job[u])
      BY <1>9, <2>2 DEF Captured
    <3>2. c \in Audio /\ Whole(c)
      BY <1>3 DEF Audio, Whole
    <3> HIDE DEF c
    <3> QED BY <1>1, <1>3, <1>4, <2>1, <3>1, <3>2, ProceedOrder
  <2>3. CASE ~Connected(u)
    <3>1. UNCHANGED up
      BY <1>9, <2>3 DEF Captured
    <3> QED BY <1>1, <1>4, <2>1, <3>1, OrderFree DEF OrderOf
  <2> QED BY <2>2, <2>3
<1>10. CASE CaptureDenied(u)
  <2>1. job[u].at \notin Requests /\ UNCHANGED <<up, down>>
    BY <1>5, <1>10 DEF CaptureDenied, serverVars, wires
  <2> QED BY <1>1, <1>4, <2>1, OrderFree DEF OrderOf
<1>11. CASE Disarm(u)
  <2> DEFINE kinds == Requests \cup {"connect"}
  <2>1. up'[u] = Forgotten(up[u], kinds) /\ down'[u] = Forgotten(down[u], kinds)
    BY <1>11, ShapesParts DEF Disarm
  <2>2. /\ NoneAwaited(Forgotten(up[u], kinds), Forgotten(down[u], kinds))
        /\ ReceivesFirst(Forgotten(up[u], kinds), peer[u].producer)
    BY <1>3, OrderForgotten
  <2> HIDE DEF kinds
  <2> QED BY <1>1, <2>1, <2>2, OrderFree DEF OrderOf
<1>12. CASE Connect(u)
  <2>1. UNCHANGED down
    BY <1>12 DEF Connect
  <2>2. CASE ctl[u].armed /\ job[u] = Idle
    <3>1. Proceed(u, ctl[u], [Idle EXCEPT !.by = "effect"])
      BY <1>12, <2>2 DEF Connect, Begin
    <3>2. [Idle EXCEPT !.by = "effect"] \in Jobs
      BY BeginShape
    <3> QED BY <1>1, <1>3, <1>4, <1>5, <1>6, <2>1, <2>2, <3>1, <3>2, ProceedOrder
  <2>3. CASE ~(ctl[u].armed /\ job[u] = Idle)
    <3>1. UNCHANGED <<job, up>>
      BY <1>12, <2>3 DEF Connect
    <3> QED BY <1>1, <1>3, <2>1, <3>1 DEF OrderOf
  <2> QED BY <2>2, <2>3
<1>13. CASE Drop(u)
  <2>1. up'[u] = <<>> /\ down'[u] = <<>>
    BY <1>13, ShapesParts DEF Drop
  <2> QED BY <2>1, OrderEmpty DEF OrderOf
<1>14. CASE TimeOut(u)
  <2>1. up'[u] = Forgotten(up[u], Requests) /\ down'[u] = Forgotten(down[u], Requests)
    BY <1>14, ShapesParts DEF TimeOut
  <2>2. /\ NoneAwaited(Forgotten(up[u], Requests), Forgotten(down[u], Requests))
        /\ ReceivesFirst(Forgotten(up[u], Requests), peer[u].producer)
    BY <1>3, OrderForgotten
  <2> QED BY <1>1, <2>1, <2>2, OrderFree DEF OrderOf
<1>15. CASE JobAnswered(u)
  <2> DEFINE m == Head(down[u])
             c == Stored(u, m)
  <2>1. /\ Receives(u) /\ LiveReply(m)
        /\ \/ Fail(u) /\ UNCHANGED <<up, hearing>>
           \/ /\ m.ok /\ m.to = "send"
              /\ job' = [job EXCEPT ![u] = [job[u] EXCEPT !.at = "recv", !.send = m.id]]
              /\ Asked(u, "recv", 0)
           \/ c \in Audio /\ Whole(c) /\ Proceed(u, c, job[u])
    BY <1>15, JobEffects
  <2>2. /\ NoneAwaited(up[u], down'[u]) /\ ReceivesFirst(up[u], peer[u].producer)
        /\ \A k \in DOMAIN up[u] : up[u][k].kind \notin Requests
        /\ Brings(m, "send") => peer[u].producer = 0
    BY <1>7, <2>1
  <2> HIDE DEF m, c
  <2>3. CASE UNCHANGED <<up, hearing>>
    BY <1>1, <2>2, <2>3, OrderFree DEF OrderOf
  <2>4. CASE /\ m.ok /\ m.to = "send"
             /\ job' = [job EXCEPT ![u] = [job[u] EXCEPT !.at = "recv", !.send = m.id]]
             /\ Asked(u, "recv", 0)
    <3>1. job'[u].at = "recv" /\ "recv" \in Requests /\ "recv" \in Requests \cup {"connect"} /\ 0 \in Nat
      BY <1>3, <2>4, ShapesParts DEF Jobs, Requests
    <3>2. up'[u] = Append(up[u], Request("recv", 0))
      BY <2>4, <3>1, AskedShape DEF Shapes
    <3>3. Request("recv", 0) \in Asks /\ Request("recv", 0).kind = "recv"
      BY <3>1, RequestShape
    <3>4. peer[u].producer = 0
      BY <2>1, <2>2, <2>4 DEF Brings
    <3>5. Order(Append(up[u], Request("recv", 0)), down'[u], "recv", peer[u].producer)
      BY <1>3, <2>2, <3>1, <3>3, <3>4, OrderAsked
    <3> QED BY <1>1, <3>1, <3>2, <3>5 DEF OrderOf
  <2>5. CASE c \in Audio /\ Whole(c) /\ Proceed(u, c, job[u])
    BY <1>1, <1>3, <2>2, <2>5, ProceedOrder
  <2> QED BY <2>1, <2>3, <2>4, <2>5, SMTT(40)
<1>16. CASE AnswerIgnored(u) \/ DtlsAnswered(u) \/ ResumeAnswered(u) \/ StateOrClosed(u)
  <2>1. Receives(u) /\ UNCHANGED <<up, job>>
    BY <1>16 DEF AnswerIgnored, DtlsAnswered, ResumeAnswered, StateOrClosed
  <2> QED BY <1>1, <1>7, <2>1 DEF OrderOf
<1>17. CASE Available(u)
  <2>1. Receives(u) /\ UNCHANGED job /\ (UNCHANGED up \/ Asked(u, "connect", ctl[u].recv))
    BY <1>17 DEF Available
  <2>2. CASE UNCHANGED up
    BY <1>1, <1>7, <2>1, <2>2 DEF OrderOf
  <2>3. CASE Asked(u, "connect", ctl[u].recv)
    <3>1. ctl[u].recv \in Nat
      BY <1>3 DEF Audio
    <3>2. /\ up'[u] = Append(up[u], Request("connect", ctl[u].recv))
          /\ Request("connect", ctl[u].recv) \in Asks /\ Request("connect", ctl[u].recv).kind = "connect"
      BY <2>3, <3>1, AskedShape, RequestShape DEF Shapes
    <3>3. Order(up[u], down'[u], job[u].at, peer[u].producer)
      BY <1>7, <2>1
    <3>4. Order(Append(up[u], Request("connect", ctl[u].recv)), down'[u], job[u].at, peer[u].producer)
      BY <1>3, <1>5, <3>2, <3>3, OrderAppended
    <3> QED BY <1>1, <2>1, <3>2, <3>4 DEF OrderOf
  <2> QED BY <2>1, <2>2, <2>3
<1>18. CASE Ready(u)
  <2>1. job[u].at \notin Requests /\ UNCHANGED <<up, down>>
    BY <1>5, <1>18 DEF Ready, serverVars, wires
  <2> QED BY <1>1, <1>4, <2>1, OrderFree DEF OrderOf
<1>19. ASSUME NEW r \in opening[u], Opened(u, r) PROVE OrderOf(u)'
  <2> DEFINE m == [kind |-> "resume", id |-> r.id, from |-> r.from, live |-> TRUE]
  <2>1. up'[u] = Append(up[u], m) /\ UNCHANGED <<down, job>>
    BY <1>19, ShapesParts DEF Opened
  <2>2. m \in Asks /\ m.kind = "resume"
    <3>1. r \in Heards
      BY ShapesParts
    <3> QED BY <3>1 DEF Heards, Asks
  <2> HIDE DEF m
  <2>3. Order(Append(up[u], m), down[u], job[u].at, peer[u].producer)
    BY <1>3, <1>5, <2>2, OrderAppended
  <2> QED BY <1>1, <2>1, <2>3 DEF OrderOf
<1> QED BY <1>8, <1>9, <1>10, <1>11, <1>12, <1>13, <1>14, <1>15, <1>16, <1>17, <1>18, <1>19
        DEF ClientStep, Answered

-----------------------------------------------------------------------------
(* Consumers follow the routes *)

\* What the service knows of a user is what the coordination knows, once its
\* changes have arrived; without a worker it knows nobody.
PeersInv ==
  \A u \in Users :
    /\ ~worker \/ ~peer[u].known => peer[u] = NoPeer
    /\ u \notin owed /\ peer[u].known => peer[u].talk = talk[u]

\* Consumers have both ends, belong to a desired route, and none is missing of a
\* listener whose own producer is up: it made its receive transport before.
RoutesInv ==
  /\ \A l, p \in Users : Exists(heard[l][p]) =>
       l # p /\ peer[l].recv # 0 /\ peer[p].producer # 0
  /\ \A l \in Users, p \in Users \ owed :
       /\ heard[l][p].on \subseteq Desired(peer, l, p)
       /\ peer[l].producer # 0 => heard[l][p].on = Desired(peer, l, p)

ServiceInv == PeersInv /\ RoutesInv

LEMMA SettledFollows ==
  ASSUME ServiceInv
  PROVE  SettledRoutes
<1> SUFFICES ASSUME worker, owed = {}, NEW l \in Users, NEW p \in Users
             PROVE  LET want == IF peer[l].known /\ peer[p].known /\ peer[p].producer # 0
                                   /\ peer[l].recv # 0 /\ l # p
                                THEN talk[p] \cap Listens[l] ELSE {}
                    IN IF peer[l].producer # 0 THEN heard[l][p].on = want
                                               ELSE heard[l][p].on \subseteq want
  BY DEF SettledRoutes
<1>1. /\ heard[l][p].on \subseteq Desired(peer, l, p)
      /\ peer[l].producer # 0 => heard[l][p].on = Desired(peer, l, p)
  BY DEF ServiceInv, RoutesInv
<1>2. peer[p].known => peer[p].talk = talk[p]
  BY DEF ServiceInv, PeersInv
<1> QED BY <1>1, <1>2 DEF Desired

\* An upsert changes no route of a talker whose changes have arrived.
LEMMA UpsertedDesired ==
  ASSUME Shapes, PeersInv, NEW u \in Users, NEW l \in Users, NEW p \in Users \ owed
  PROVE  Desired(Upserted(peer, u), l, p) = Desired(peer, l, p)
<1> DEFINE Q == Upserted(peer, u)
<1>1. /\ \A v \in Users : Q[v].recv = peer[v].recv /\ Q[v].producer = peer[v].producer
  BY UpsertedKeeps DEF Shapes
<1>2. Q[u].known /\ Q[u].talk = talk[u] /\ \A v \in Users : v # u => Q[v] = peer[v]
  BY UpsertedShape DEF Shapes, ServerShapes
<1> HIDE DEF Q
<1>3. NoPeer.recv = 0 /\ NoPeer.producer = 0
  BY DEF NoPeer
<1>4. CASE peer[u].known
  <2>1. p = u => Q[p].talk = peer[p].talk
    BY <1>2, <1>4 DEF PeersInv
  <2>2. Q[p].talk = peer[p].talk /\ (Q[l].known = TRUE <=> peer[l].known = TRUE)
        /\ (Q[p].known = TRUE <=> peer[p].known = TRUE)
    BY <1>2, <1>4, <2>1
  <2>3. peer[l].known \in BOOLEAN /\ peer[p].known \in BOOLEAN /\ Q[l].known \in BOOLEAN /\ Q[p].known \in BOOLEAN
    <3>1. peer \in [Users -> PeerStates]
      BY DEF Shapes, ServerShapes
    <3>2. Q \in [Users -> PeerStates]
      BY <3>1, UpsertedShape DEF Shapes, Q
    <3> QED BY <3>1, <3>2 DEF PeerStates
  <2> QED BY <1>1, <2>2, <2>3 DEF Desired, Q
<1>5. CASE ~peer[u].known
  <2>1. peer[u].recv = 0 /\ peer[u].producer = 0
    BY <1>3, <1>5 DEF PeersInv
  <2>2. CASE u = l \/ u = p
    BY <1>1, <2>1, <2>2 DEF Desired, Q
  <2>3. CASE u # l /\ u # p
    <3>1. Q[l] = peer[l] /\ Q[p] = peer[p]
      BY <1>2, <2>3
    <3> QED BY <3>1 DEF Desired, Q
  <2> QED BY <2>2, <2>3
<1> QED BY <1>4, <1>5

LEMMA UpsertedPeers ==
  ASSUME Shapes, PeersInv, NEW u \in Users, worker, worker',
         \A v \in Users : /\ peer'[v].known = Upserted(peer, u)[v].known
                          /\ peer'[v].talk = Upserted(peer, u)[v].talk
                          /\ v # u => peer'[v] = peer[v],
         UNCHANGED talk, owed' = owed \/ owed' = owed \ {u}
  PROVE  PeersInv'
<1>1. Upserted(peer, u)[u].known /\ Upserted(peer, u)[u].talk = talk[u]
  BY UpsertedShape DEF Shapes, ServerShapes
<1>2. ASSUME NEW v \in Users
      PROVE  /\ ~peer'[v].known => peer'[v] = NoPeer
             /\ v \notin owed' /\ peer'[v].known => peer'[v].talk = talk'[v]
  <2>1. CASE v = u
    BY <1>1, <2>1
  <2>2. CASE v # u
    BY <2>2 DEF PeersInv
  <2> QED BY <2>1, <2>2
<1> QED BY <1>2 DEF PeersInv

\* After a reconcile the consumers are those of the routes.
LEMMA ReconciledRoutes ==
  ASSUME Shapes, NEW P \in [Users -> PeerStates], NEW H \in [Users -> [Users -> Consumers]],
         NEW M \in [Users -> Nat], NEW answers \in [Users -> Seq(Messages)],
         Reconcile(P, H, M, answers)
  PROVE  RoutesInv'
<1>1. peer' = P /\ heard' = Reconciled(P, H, M)
  BY ReconcileShape DEF Shapes
<1>2. \A l, p \in Users : heard'[l][p].on = Desired(peer', l, p)
  BY <1>1, ReconciledShape
<1>3. ASSUME NEW l \in Users, NEW p \in Users, Exists(heard'[l][p])
      PROVE  l # p /\ peer'[l].recv # 0 /\ peer'[p].producer # 0
  BY <1>2, <1>3 DEF Exists, Desired
<1>4. ASSUME NEW l \in Users, NEW p \in Users
      PROVE  heard'[l][p].on = Desired(peer, l, p)'
  <2>1. Desired(peer, l, p)' = Desired(peer', l, p)
    BY DEF Desired
  <2> QED BY <1>2, <2>1
<1> QED BY <1>3, <1>4 DEF RoutesInv, Exists

\* Nothing of the routes changes but what an upsert does.
LEMMA UpsertedRoutes ==
  ASSUME Shapes, ServiceInv, NEW u \in Users, peer' = Upserted(peer, u),
         \A l, p \in Users : heard'[l][p].on = heard[l][p].on, UNCHANGED owed
  PROVE  RoutesInv'
<1>1. \A v \in Users : peer'[v].recv = peer[v].recv /\ peer'[v].producer = peer[v].producer
  BY UpsertedKeeps DEF Shapes
<1>2. ASSUME NEW l \in Users, NEW p \in Users, heard'[l][p].on # {}
      PROVE  l # p /\ peer'[l].recv # 0 /\ peer'[p].producer # 0
  BY <1>1, <1>2 DEF ServiceInv, RoutesInv, Exists
<1>3. ASSUME NEW l \in Users, NEW p \in Users \ owed
      PROVE  /\ heard'[l][p].on \subseteq Desired(peer', l, p)
             /\ peer'[l].producer # 0 => heard'[l][p].on = Desired(peer', l, p)
  <2>1. Desired(peer', l, p) = Desired(peer, l, p)
    BY UpsertedDesired DEF ServiceInv
  <2>2. /\ heard[l][p].on \subseteq Desired(peer, l, p)
        /\ peer[l].producer # 0 => heard[l][p].on = Desired(peer, l, p)
    BY DEF ServiceInv, RoutesInv
  <2> QED BY <1>1, <2>1, <2>2
<1>4. \A l, p \in Users : Desired(peer, l, p)' = Desired(peer', l, p)
  BY DEF Desired
<1> QED BY <1>2, <1>3, <1>4 DEF RoutesInv, Exists

\* A transport is made: a receive transport only before the producer.
LEMMA TransportRoutes ==
  ASSUME Shapes, OrderInv, ServiceInv, NEW u \in Users, ServeTransport(u)
  PROVE  ServiceInv'
<1> DEFINE m == Head(up[u])
           Q == Upserted(peer, u)
<1>0. ServerShapes /\ up[u] \in Seq(Asks)
  BY ShapesParts DEF Shapes
<1>1. /\ Takes(u, {"send", "recv"}) /\ m.kind \in {"send", "recv"}
      /\ \A v \in Users : v # u => peer'[v] = peer[v]
      /\ peer'[u].known /\ peer'[u].talk = talk[u]
      /\ m.kind = "send" => /\ peer'[u].recv = peer[u].recv
                            /\ peer'[u].producer = 0 /\ heard' = Unheard(heard, u)
      /\ m.kind = "recv" => /\ peer'[u].recv = made[u] + 1
                            /\ peer'[u].producer = peer[u].producer
                            /\ heard' = Deaf(heard, u)
  BY <1>0, TransportEffects
<1>2. worker /\ UNCHANGED <<worker, owed, talk>> /\ up[u] # <<>>
  BY <1>0, <1>1, TakesShape
<1>3. /\ Q[u].known /\ Q[u].talk = talk[u] /\ \A v \in Users : v # u => Q[v] = peer[v]
  BY <1>0, UpsertedShape DEF ServerShapes
<1>4. \A v \in Users : Q[v].recv = peer[v].recv /\ Q[v].producer = peer[v].producer
  BY <1>0, UpsertedKeeps
<1>5. \A l \in Users, p \in Users \ owed : Desired(Q, l, p) = Desired(peer, l, p)
  BY UpsertedDesired DEF ServiceInv
<1>6. heard \in [Users -> [Users -> Consumers]] /\ made[u] \in Nat
  BY <1>0 DEF ServerShapes
<1>7. m.kind = "recv" => peer[u].producer = 0
  <2>1. 1 \in DOMAIN up[u] /\ m = up[u][1]
    BY <1>0, <1>2, TailFacts
  <2>2. Order(up[u], down[u], job[u].at, peer[u].producer)
    BY DEF OrderInv, OrderOf
  <2> HIDE DEF m
  <2> QED BY <2>1, <2>2 DEF Order
<1> HIDE DEF m, Q
<1>13. ASSUME m.kind = "send", NEW l \in Users
       PROVE  /\ heard'[l][u] = NoConsumer
              /\ \A p \in Users : p # u => heard'[l][p] = heard[l][p]
  <2>1. heard' = Unheard(heard, u)
    BY <1>1, <1>13
  <2>2. /\ Unheard(heard, u)[l][u] = NoConsumer
        /\ \A p \in Users : p # u => Unheard(heard, u)[l][p] = heard[l][p]
    BY <1>6, UnheardShape
  <2> QED BY <2>1, <2>2
<1>14. ASSUME m.kind = "recv"
       PROVE  /\ \A p \in Users : heard'[u][p] = NoConsumer
              /\ \A l \in Users : l # u => heard'[l] = heard[l]
  <2>1. heard' = Deaf(heard, u)
    BY <1>1, <1>14
  <2>2. /\ \A p \in Users : Deaf(heard, u)[u][p] = NoConsumer
        /\ \A l \in Users : l # u => Deaf(heard, u)[l] = heard[l]
    BY <1>6, UnheardShape
  <2> QED BY <2>1, <2>2
<1>8. PeersInv'
  <2>1. \A v \in Users : /\ peer'[v].known = Q[v].known /\ peer'[v].talk = Q[v].talk
                         /\ v # u => peer'[v] = peer[v]
    <3> SUFFICES ASSUME NEW v \in Users
                 PROVE  /\ peer'[v].known = Q[v].known /\ peer'[v].talk = Q[v].talk
                        /\ v # u => peer'[v] = peer[v]
      OBVIOUS
    <3>1. CASE v = u
      <4>1. peer'[u].known = TRUE /\ Q[u].known = TRUE
        <5>1. peer' \in [Users -> PeerStates] /\ Q \in [Users -> PeerStates]
          BY <1>0, TransportEffects, UpsertedShape DEF ServerShapes, Q
        <5> QED BY <1>1, <1>3, <5>1 DEF PeerStates
      <4> QED BY <1>1, <1>3, <3>1, <4>1
    <3>2. CASE v # u
      BY <1>1, <1>3, <3>2
    <3> QED BY <3>1, <3>2
  <2> QED BY <1>2, <2>1, UpsertedPeers DEF ServiceInv, Q
<1>9. ASSUME NEW l \in Users, NEW p \in Users, Exists(heard'[l][p])
      PROVE  l # p /\ peer'[l].recv # 0 /\ peer'[p].producer # 0
  <2>0. ~Exists(NoConsumer)
    BY DEF NoConsumer, Exists
  <2>1. CASE m.kind = "send"
    <3>1. p # u /\ heard'[l][p] = heard[l][p]
      BY <1>9, <1>13, <2>0, <2>1
    <3>2. l # p /\ peer[l].recv # 0 /\ peer[p].producer # 0
      BY <1>9, <3>1 DEF ServiceInv, RoutesInv
    <3> QED BY <1>1, <2>1, <3>1, <3>2
  <2>2. CASE m.kind = "recv"
    <3>1. l # u /\ heard'[l] = heard[l]
      BY <1>9, <1>14, <2>0, <2>2
    <3>2. l # p /\ peer[l].recv # 0 /\ peer[p].producer # 0
      BY <1>9, <3>1 DEF ServiceInv, RoutesInv
    <3> QED BY <1>1, <2>2, <3>1, <3>2
  <2> QED BY <1>1, <2>1, <2>2
<1>10. ASSUME NEW l \in Users, NEW p \in Users \ owed
       PROVE  /\ heard'[l][p].on \subseteq Desired(peer', l, p)
              /\ peer'[l].producer # 0 => heard'[l][p].on = Desired(peer', l, p)
  <2>0. NoConsumer.on = {}
    BY DEF NoConsumer
  <2>1. /\ heard[l][p].on \subseteq Desired(Q, l, p)
        /\ peer[l].producer # 0 => heard[l][p].on = Desired(Q, l, p)
    BY <1>5 DEF ServiceInv, RoutesInv
  <2>2. CASE m.kind = "send" /\ p = u
    <3>1. heard'[l][p].on = {}
      BY <1>13, <2>0, <2>2
    <3>2. Desired(peer', l, p) = {}
      BY <1>1, <2>2 DEF Desired
    <3> QED BY <3>1, <3>2
  <2>3. CASE m.kind = "send" /\ p # u
    <3>1. heard'[l][p] = heard[l][p]
      BY <1>13, <2>3
    <3>2. peer'[p] = Q[p] /\ peer'[l].recv = Q[l].recv /\ (peer'[l].known <=> Q[l].known)
      BY <1>1, <1>3, <1>4, <2>3
    <3>3. Desired(peer', l, p) = Desired(Q, l, p)
      BY <3>2 DEF Desired
    <3>4. peer'[l].producer # 0 => peer[l].producer # 0
      BY <1>1, <2>3
    <3> QED BY <2>1, <3>1, <3>3, <3>4
  <2>4. CASE m.kind = "recv" /\ l = u
    <3>1. heard'[l][p].on = {} /\ peer'[l].producer = 0
      BY <1>1, <1>7, <1>14, <2>0, <2>4
    <3> QED BY <3>1
  <2>5. CASE m.kind = "recv" /\ l # u
    <3>1. heard'[l][p] = heard[l][p]
      BY <1>14, <2>5
    <3>2. /\ peer'[l] = Q[l] /\ peer'[p].producer = Q[p].producer /\ (peer'[p].known <=> Q[p].known)
          /\ peer'[p].talk = Q[p].talk /\ peer'[l] = peer[l]
      BY <1>1, <1>3, <1>4, <2>5
    <3>3. Desired(peer', l, p) = Desired(Q, l, p)
      BY <3>2 DEF Desired
    <3> QED BY <2>1, <3>1, <3>2, <3>3
  <2> QED BY <1>1, <2>2, <2>3, <2>4, <2>5
<1>11. \A l, p \in Users : Desired(peer, l, p)' = Desired(peer', l, p)
  BY DEF Desired
<1>12. RoutesInv'
  BY <1>2, <1>9, <1>10, <1>11 DEF RoutesInv, Exists
<1> QED BY <1>8, <1>12 DEF ServiceInv

LEMMA ServiceSteady ==
  ASSUME ServiceInv, UNCHANGED <<peer, heard, talk>>, worker => worker',
         owed \subseteq owed'
  PROVE  ServiceInv'
<1>1. PeersInv'
  BY DEF ServiceInv, PeersInv
<1>2. \A l, p \in Users : Desired(peer, l, p)' = Desired(peer, l, p)
  BY DEF Desired
<1>3. RoutesInv'
  BY <1>2 DEF ServiceInv, RoutesInv, Exists
<1> QED BY <1>1, <1>3 DEF ServiceInv

LEMMA NobodyServed ==
  ASSUME \A u \in Users : peer'[u] = NoPeer, \A l, p \in Users : heard'[l][p].on = {}
  PROVE  ServiceInv'
<1>1. ~NoPeer.known /\ NoPeer.producer = 0
  BY DEF NoPeer
<1>2. \A l, p \in Users : Desired(peer, l, p)' = {}
  BY <1>1 DEF Desired
<1> QED BY <1>1, <1>2 DEF ServiceInv, PeersInv, RoutesInv, Exists

\* Nobody hears or is heard without a peer.
LEMMA UnheardWithoutPeer ==
  ASSUME ServiceInv, NEW l \in Users, NEW p \in Users, peer[l] = NoPeer \/ peer[p] = NoPeer
  PROVE  heard[l][p].on = {} /\ Desired(peer, l, p) = {}
<1>1. NoPeer.recv = 0 /\ NoPeer.producer = 0
  BY DEF NoPeer
<1> QED BY <1>1 DEF ServiceInv, RoutesInv, Exists, Desired

LEMMA ServerService ==
  ASSUME Shapes, OrderInv, ServiceInv, ServerNext
  PROVE  ServiceInv'
<1>0. /\ ServerShapes /\ peer \in [Users -> PeerStates] /\ made \in [Users -> Nat]
      /\ heard \in [Users -> [Users -> Consumers]]
  BY DEF Shapes, ServerShapes
<1>1. ASSUME NEW u \in Users, ServeCapabilities(u) PROVE ServiceInv'
  <2>1. Takes(u, {"capabilities"}) /\ UNCHANGED <<peer, heard>>
    BY <1>0, <1>1, CapabilitiesEffects
  <2>2. UNCHANGED <<talk, worker, owed>>
    BY <2>1 DEF Takes
  <2> QED BY <2>1, <2>2, ServiceSteady
<1>2. ASSUME NEW u \in Users, ServeTransport(u) PROVE ServiceInv'
  BY <1>2, TransportRoutes
<1>3. ASSUME NEW u \in Users, ServeConnect(u) PROVE ServiceInv'
  <2> DEFINE m == Head(up[u])
             P == Upserted(peer, u)
  <2>1. Takes(u, {"connect"}) /\ peer' = P /\ P \in [Users -> PeerStates]
    BY <1>0, <1>3, ConnectEffects
  <2>2. worker /\ UNCHANGED <<worker, talk, owed>>
    BY <2>1 DEF Takes
  <2>3. \A v \in Users : v # u => P[v] = peer[v]
    BY <1>0, UpsertedShape
  <2>4. PeersInv'
    BY <2>1, <2>2, <2>3, UpsertedPeers DEF ServiceInv
  <2>5. CASE m.id = peer[u].recv /\ peer[u].recv # 0
    <3>1. /\ Answer(m, m.id, TRUE) \in Messages
          /\ Reconcile(P, heard, made, To(u, Answer(m, m.id, TRUE)))
      BY <1>0, <1>3, <2>5, ConnectEffects
    <3>2. To(u, Answer(m, m.id, TRUE)) \in [Users -> Seq(Messages)]
      BY <3>1, ToShape
    <3> HIDE DEF P, m
    <3>3. RoutesInv'
      BY <1>0, <2>1, <3>1, <3>2, ReconciledRoutes
    <3> QED BY <2>4, <3>3 DEF ServiceInv
  <2>6. CASE ~(m.id = peer[u].recv /\ peer[u].recv # 0)
    <3>1. UNCHANGED heard
      BY <1>0, <1>3, <2>6, ConnectEffects
    <3>2. RoutesInv'
      BY <2>1, <2>2, <3>1, UpsertedRoutes
    <3> QED BY <2>4, <3>2 DEF ServiceInv
  <2> QED BY <2>5, <2>6
<1>4. ASSUME NEW u \in Users, ServeProducer(u) PROVE ServiceInv'
  <2> DEFINE m == Head(up[u])
             P == Upserted(peer, u)
             id == made[u] + 1
             M == [made EXCEPT ![u] = id]
             H == Unheard(heard, u)
             R == Producing(P, u, id)
  <2>1. Takes(u, {"produce"}) /\ P \in [Users -> PeerStates] /\ id \in Nat
    BY <1>0, <1>4, ProducerEffects
  <2>2. worker /\ UNCHANGED <<worker, talk, owed>>
    BY <2>1 DEF Takes
  <2>3. \A v \in Users : v # u => P[v] = peer[v]
    BY <1>0, UpsertedShape
  <2>5. CASE m.id = peer[u].send /\ peer[u].send # 0
    <3>1. /\ Answer(m, id, TRUE) \in Messages /\ M \in [Users -> Nat] /\ peer' = R
          /\ Reconcile(R, H, M, To(u, Answer(m, id, TRUE)))
      BY <1>0, <1>4, <2>5, ProducerEffects
    <3>2. To(u, Answer(m, id, TRUE)) \in [Users -> Seq(Messages)]
      BY <3>1, ToShape
    <3>3. H \in [Users -> [Users -> Consumers]]
      BY <1>0, UnheardShape
    <3>4. /\ R \in [Users -> PeerStates] /\ \A v \in Users : v # u => R[v] = P[v]
          /\ R[u].known = P[u].known /\ R[u].talk = P[u].talk
      BY <2>1, PeerProduces
    <3> HIDE DEF M, H, R, id, m
    <3>5. RoutesInv'
      BY <3>1, <3>2, <3>3, <3>4, ReconciledRoutes
    <3>6. \A v \in Users : /\ peer'[v].known = P[v].known /\ peer'[v].talk = P[v].talk
                           /\ v # u => peer'[v] = peer[v]
      BY <2>3, <3>1, <3>4
    <3>7. PeersInv'
      BY <2>2, <3>6, UpsertedPeers DEF ServiceInv
    <3> QED BY <3>5, <3>7 DEF ServiceInv
  <2>6. CASE ~(m.id = peer[u].send /\ peer[u].send # 0)
    <3>1. peer' = P /\ UNCHANGED heard
      BY <1>0, <1>4, <2>6, ProducerEffects
    <3>2. RoutesInv'
      BY <2>2, <3>1, UpsertedRoutes
    <3>3. PeersInv'
      BY <2>2, <2>3, <3>1, UpsertedPeers DEF ServiceInv
    <3> QED BY <3>2, <3>3 DEF ServiceInv
  <2> QED BY <2>5, <2>6
<1>5. ASSUME NEW u \in Users, ServeResume(u) PROVE ServiceInv'
  <2>1. /\ Takes(u, {"resume"}) /\ peer' = Upserted(peer, u)
        /\ \A l, p \in Users : heard'[l][p].on = heard[l][p].on
    BY <1>0, <1>5, ResumeEffects
  <2>2. worker /\ UNCHANGED <<worker, talk, owed>>
    BY <2>1 DEF Takes
  <2>3. \A v \in Users : v # u => Upserted(peer, u)[v] = peer[v]
    BY <1>0, UpsertedShape
  <2>4. PeersInv'
    BY <2>1, <2>2, <2>3, UpsertedPeers DEF ServiceInv
  <2>5. RoutesInv'
    BY <2>1, <2>2, UpsertedRoutes
  <2> QED BY <2>4, <2>5 DEF ServiceInv
<1>6. ASSUME NEW u \in Users, ServeWithoutWorker(u) PROVE ServiceInv'
  BY <1>6, ServiceSteady DEF ServeWithoutWorker, routing
<1>7. ASSUME NEW u \in Users, RefuseEarly(u) PROVE ServiceInv'
  BY <1>7, ServiceSteady DEF RefuseEarly, routing
<1>8. ASSUME NEW u \in Users, Attach(u) PROVE ServiceInv'
  <2>1. UNCHANGED <<talk, owed, worker, heard>>
    BY <1>8 DEF Attach
  <2>2. CASE ~session[u] /\ worker
    <3>1. peer' = Upserted(peer, u)
      BY <1>8, <2>2 DEF Attach
    <3>2. \A v \in Users : v # u => Upserted(peer, u)[v] = peer[v]
      BY <1>0, UpsertedShape
    <3>3. PeersInv'
      BY <2>1, <2>2, <3>1, <3>2, UpsertedPeers DEF ServiceInv
    <3>4. RoutesInv'
      BY <2>1, <3>1, UpsertedRoutes
    <3> QED BY <3>3, <3>4 DEF ServiceInv
  <2>3. CASE ~(~session[u] /\ worker)
    <3>1. UNCHANGED peer
      BY <1>8, <2>3 DEF Attach
    <3> QED BY <2>1, <3>1, ServiceSteady
  <2> QED BY <2>2, <2>3
<1>9. ASSUME NEW u \in Users, NEW cs \in SUBSET Channels, Talk(u, cs) PROVE ServiceInv'
  <2>1. /\ UNCHANGED <<peer, heard, worker>> /\ owed' = owed \cup {u}
        /\ \A v \in Users : v # u => talk'[v] = talk[v]
    BY <1>0, <1>9 DEF Talk, routing, ServerShapes
  <2>2. PeersInv'
    BY <2>1 DEF ServiceInv, PeersInv
  <2>3. \A l, p \in Users : Desired(peer, l, p)' = Desired(peer, l, p)
    BY <2>1 DEF Desired
  <2>4. RoutesInv'
    BY <2>1, <2>3 DEF ServiceInv, RoutesInv, Exists
  <2> QED BY <2>2, <2>4 DEF ServiceInv
<1>10. ASSUME NEW u \in Users, Update(u) PROVE ServiceInv'
  <2>1. CASE worker
    <3> DEFINE P == Upserted(peer, u)
    <3>1. P \in [Users -> PeerStates] /\ Reconcile(P, heard, made, Silence)
          /\ UNCHANGED <<talk, worker>> /\ owed' = owed \ {u}
      BY <1>0, <1>10, <2>1, UpdateEffects
    <3>2. \A v \in Users : v # u => P[v] = peer[v]
      BY <1>0, UpsertedShape
    <3>3. peer' = P
      BY <3>1 DEF Reconcile
    <3>4. PeersInv'
      BY <2>1, <3>1, <3>2, <3>3, UpsertedPeers DEF ServiceInv
    <3>5. Silence \in [Users -> Seq(Messages)]
      BY SilenceShape
    <3> HIDE DEF P
    <3>6. RoutesInv'
      BY <1>0, <3>1, <3>5, ReconciledRoutes
    <3> QED BY <3>4, <3>6 DEF ServiceInv
  <2>2. CASE ~worker
    <3>1. UNCHANGED <<peer, heard>>
      BY <1>10, <2>2 DEF Update
    <3>2. \A v \in Users : peer[v] = NoPeer
      BY <2>2 DEF ServiceInv, PeersInv
    <3>3. \A l, p \in Users : heard[l][p].on = {}
      BY <3>2, UnheardWithoutPeer
    <3> QED BY <3>1, <3>2, <3>3, NobodyServed
  <2> QED BY <2>1, <2>2
<1>11. ASSUME NEW u \in Users, Detach(u) PROVE ServiceInv'
  <2> DEFINE P == [peer EXCEPT ![u] = NoPeer]
  <2>1. /\ owed' = owed \ {u} /\ UNCHANGED worker
        /\ P \in [Users -> PeerStates] /\ P[u] = NoPeer /\ \A v \in Users : v # u => P[v] = peer[v]
        /\ peer[u].known /\ worker => Reconcile(P, heard, made, Silence)
        /\ ~(peer[u].known /\ worker) => UNCHANGED <<peer, heard>>
    BY <1>0, <1>11, DetachEffects
  <2>5. talk' = [talk EXCEPT ![u] = {}]
    BY <1>11 DEF Detach
  <2>6. \A v \in Users : v # u => talk'[v] = talk[v]
    BY <1>0, <2>5 DEF ServerShapes
  <2>2. ~NoPeer.known
    BY DEF NoPeer
  <2> HIDE DEF P
  <2>3. CASE peer[u].known /\ worker
    <3>1. Reconcile(P, heard, made, Silence) /\ Silence \in [Users -> Seq(Messages)]
      BY <2>1, <2>3, SilenceShape
    <3>2. peer' = P
      BY <3>1 DEF Reconcile
    <3>3. PeersInv'
      BY <2>1, <2>2, <2>3, <2>6, <3>2 DEF ServiceInv, PeersInv
    <3>4. RoutesInv'
      BY <1>0, <2>1, <3>1, ReconciledRoutes
    <3> QED BY <3>3, <3>4 DEF ServiceInv
  <2>4. CASE ~(peer[u].known /\ worker)
    <3>1. UNCHANGED <<peer, heard>>
      BY <2>1, <2>4
    <3>2. peer[u] = NoPeer
      BY <2>4 DEF ServiceInv, PeersInv
    <3>3. PeersInv'
      BY <2>1, <2>2, <2>6, <3>1, <3>2 DEF ServiceInv, PeersInv
    <3>4. \A l \in Users : heard[l][u].on = {} /\ Desired(peer, l, u) = {}
      BY <3>2, UnheardWithoutPeer
    <3>5. \A l, p \in Users : Desired(peer, l, p)' = Desired(peer, l, p)
      BY <3>1 DEF Desired
    <3>6. \A l, p \in Users : Exists(heard'[l][p]) => l # p /\ peer'[l].recv # 0 /\ peer'[p].producer # 0
      BY <3>1 DEF ServiceInv, RoutesInv
    <3>7. ASSUME NEW l \in Users, NEW p \in Users \ owed'
          PROVE  /\ heard'[l][p].on \subseteq Desired(peer, l, p)
                 /\ peer'[l].producer # 0 => heard'[l][p].on = Desired(peer, l, p)
      <4>1. CASE p = u
        BY <3>1, <3>4, <4>1
      <4>2. CASE p # u
        BY <2>1, <3>1, <4>2 DEF ServiceInv, RoutesInv
      <4> QED BY <4>1, <4>2
    <3>8. RoutesInv'
      BY <3>5, <3>6, <3>7 DEF RoutesInv, Exists
    <3> QED BY <3>3, <3>8 DEF ServiceInv
  <2> QED BY <2>3, <2>4
<1>12. ASSUME NEW u \in Users, Evict(u) PROVE ServiceInv'
  BY <1>12, ServiceSteady DEF Evict, routing
<1>13. CASE WorkerDies
  <2>1. NoConsumer.on = {}
    BY DEF NoConsumer
  <2> QED BY <1>13, <2>1, NobodyServed DEF WorkerDies
<1>14. CASE WorkerRestarts
  BY <1>14, ServiceSteady DEF WorkerRestarts
<1> QED BY <1>1, <1>2, <1>3, <1>4, <1>5, <1>6, <1>7, <1>8, <1>9, <1>10, <1>11, <1>12, <1>13, <1>14
        DEF ServerNext, ServerStep

LEMMA InitOrder == Init => OrderInv /\ ServiceInv
<1> SUFFICES ASSUME Init PROVE OrderInv /\ ServiceInv
  OBVIOUS
<1>1. OrderInv
  BY OrderEmpty DEF Init, ServerInit, OrderInv, OrderOf
<1>2. ServiceInv
  BY DEF Init, ServerInit, ServiceInv, PeersInv, RoutesInv, Exists, NoPeer, NoConsumer, Desired
<1> QED BY <1>1, <1>2

Serving == Shapes /\ OrderInv /\ ServiceInv

LEMMA StepServing == Serving /\ [Next]_vars => Serving'
<1> SUFFICES ASSUME Serving, [Next]_vars PROVE OrderInv' /\ ServiceInv'
  BY StepShapes DEF Serving
<1>0. Shapes /\ OrderInv /\ ServiceInv
  BY DEF Serving
<1>1. CASE ServerNext /\ UNCHANGED clientVars
  BY <1>0, <1>1, ServerOrder, ServerService DEF clientVars
<1>2. ASSUME NEW u \in Users, ClientStep(u) PROVE OrderInv' /\ ServiceInv'
  <2>1. UNCHANGED serverOnly
    BY <1>0, <1>2, ClientFrame
  <2>2. UNCHANGED <<peer, heard, talk, worker, owed>>
    BY <2>1 DEF serverOnly
  <2> QED BY <1>0, <1>2, <2>2, ClientOrder, ServiceSteady
<1>3. CASE UNCHANGED vars
  <2>1. UNCHANGED <<peer, heard, talk, worker, owed, up, down, job>>
    BY <1>3 DEF vars, serverVars, wires, routing, clientVars
  <2>2. OrderInv'
    BY <1>0, <2>1 DEF OrderInv, OrderOf
  <2> QED BY <1>0, <2>1, <2>2, ServiceSteady
<1> QED BY <1>1, <1>2, <1>3 DEF Next

\* When every change of state has reached the media service, a listener has no
\* consumer but those of its routes, on none but their channels, and once its own
\* audio is up it lacks none: whatever requests are late, refused or repeated,
\* sockets close and the worker dies.
THEOREM RoutesAlwaysSettle == Spec => []SettledRoutes
<1>1. Init => Serving
  BY InitShapes, InitOrder DEF Serving
<1>2. Serving /\ [Next]_vars => Serving'
  BY StepServing
<1>3. Serving => SettledRoutes
  BY SettledFollows DEF Serving
<1> QED BY <1>1, <1>2, <1>3, PTL DEF Spec

-----------------------------------------------------------------------------
(* Audio that is shown as ready *)

\* Nothing comes over a link that is not attached.
LinkOf(u) ==
  /\ link[u] # "attached" => down[u] = <<>>
  /\ link[u] = "attached" => session[u]

\* No request for a transport or a producer is on its way.
NoRequests(U) == \A i \in DOMAIN U : U[i].kind \notin Requests

\* What a start has done at each of its stages.  A controller has a producer
\* from its last stage on, and then it asks the server for nothing more that
\* would replace what it holds.
StartOf(u) ==
  /\ job[u].at \in {"send", "recv"} => ctl[u].send = 0
  /\ job[u].at \in Requests \cup {"drain"} => ctl[u].mic /\ ctl[u].device # "none"
  /\ ctl[u].producer # 0 => job[u].at = "drain" \/ ctl[u].ready
  /\ job[u].at = "drain" \/ ctl[u].ready =>
       /\ ctl[u].producer # 0 /\ link[u] \in {"attached", "closing"}
       /\ NoRequests(up[u])
  /\ ctl[u].ready => job[u].at = "idle" /\ ctl[u].armed
  /\ job[u].at # "idle" /\ job[u].by = "effect" => ctl[u].armed
  /\ ctl[u].send # 0 => \A i \in DOMAIN up[u] : up[u][i].kind \notin {"send", "recv"}
  /\ \A i \in DOMAIN up[u] : LiveAsk(up[u][i]) /\ up[u][i].kind = "produce" => up[u][i].id = ctl[u].send

LinkInv == \A u \in Users : LinkOf(u)
StartInv == \A u \in Users : StartOf(u)

\* What a step of the server does to the link and the requests of v.
LEMMA ServerLinks ==
  ASSUME ServerShapes, ServerNext, NEW v \in Users
  PROVE  /\ up'[v] = up[v] \/ (up[v] # <<>> /\ up'[v] = Tail(up[v])) \/ up'[v] = <<>>
         /\ \/ link'[v] = link[v]
            \/ link[v] = "open" /\ link'[v] \in {"attached", "closing"}
            \/ link[v] = "attached" /\ link'[v] = "closing"
<1> DEFINE Goal == /\ up'[v] = up[v] \/ (up[v] # <<>> /\ up'[v] = Tail(up[v])) \/ up'[v] = <<>>
                   /\ \/ link'[v] = link[v]
                      \/ link[v] = "open" /\ link'[v] \in {"attached", "closing"}
                      \/ link[v] = "attached" /\ link'[v] = "closing"
<1>1. ASSUME NEW u \in Users, NEW kinds, Takes(u, kinds) PROVE Goal
  <2>1. /\ UNCHANGED link /\ up'[u] = Tail(up[u]) /\ up[u] # <<>>
        /\ \A w \in Users : w # u => up'[w] = up[w]
    BY <1>1, TakesShape
  <2> QED BY <2>1
<1>2. ASSUME NEW u \in Users, Hung(u), link[u] \in {"open", "attached"} PROVE Goal
  <2>1. /\ link'[u] = "closing" /\ up'[u] = <<>>
        /\ \A w \in Users : w # u => link'[w] = link[w] /\ up'[w] = up[w]
    BY <1>2, HungEffects
  <2> QED BY <1>2, <2>1
<1>3. ASSUME UNCHANGED <<link, up>> PROVE Goal
  BY <1>3
<1>4. ASSUME NEW u \in Users, UNCHANGED link, up[u] # <<>>, up' = [up EXCEPT ![u] = Tail(@)] PROVE Goal
  <2>1. up'[u] = Tail(up[u]) /\ \A w \in Users : w # u => up'[w] = up[w]
    BY <1>4, UpDropped
  <2> QED BY <1>4, <2>1
<1> HIDE DEF Goal
<1>5. ASSUME NEW u \in Users, ServeCapabilities(u) \/ ServeTransport(u) \/ ServeConnect(u)
                              \/ ServeProducer(u) \/ ServeResume(u)
      PROVE  Goal
  <2>1. \E kinds \in {{"capabilities"}, {"send", "recv"}, {"connect"}, {"produce"}, {"resume"}} : Takes(u, kinds)
    BY <1>5 DEF ServeCapabilities, ServeTransport, ServeConnect, ServeProducer, ServeResume
  <2> QED BY <1>1, <2>1
<1>6. ASSUME NEW u \in Users, ServeWithoutWorker(u) \/ RefuseEarly(u) PROVE Goal
  <2>1. UNCHANGED link /\ up[u] # <<>> /\ up' = [up EXCEPT ![u] = Tail(@)]
    BY <1>6 DEF ServeWithoutWorker, RefuseEarly
  <2> QED BY <1>4, <2>1
<1>7. ASSUME NEW u \in Users, Attach(u) PROVE Goal
  <2>1. CASE session[u] \/ worker
    <3>1. link[u] = "open" /\ link' = [link EXCEPT ![u] = "attached"] /\ UNCHANGED up
      BY <1>7, <2>1 DEF Attach
    <3>2. link'[u] = "attached" /\ \A w \in Users : w # u => link'[w] = link[w]
      BY <3>1 DEF ServerShapes
    <3> QED BY <3>1, <3>2 DEF Goal
  <2>2. CASE ~(session[u] \/ worker)
    <3>1. Hung(u) /\ link[u] = "open"
      BY <1>7, <2>2 DEF Attach
    <3> QED BY <1>2, <3>1
  <2> QED BY <2>1, <2>2
<1>8. ASSUME NEW u \in Users, NEW cs \in SUBSET Channels, Talk(u, cs) PROVE Goal
  BY <1>3, <1>8 DEF Talk, wires
<1>9. ASSUME NEW u \in Users, Update(u) PROVE Goal
  <2>1. UNCHANGED <<link, up>> \/ (Hung(u) /\ link[u] = "attached")
    BY <1>9 DEF Update, wires
  <2> QED BY <1>2, <1>3, <2>1
<1>10. ASSUME NEW u \in Users, Detach(u) PROVE Goal
  BY <1>3, <1>10 DEF Detach
<1>11. ASSUME NEW u \in Users, Evict(u) PROVE Goal
  BY <1>2, <1>11 DEF Evict
<1>12. ASSUME WorkerDies \/ WorkerRestarts PROVE Goal
  BY <1>3, <1>12 DEF WorkerDies, WorkerRestarts, wires
<1>13. ASSUME NEW u \in Users, ServerStep(u) PROVE Goal
  BY <1>5, <1>6, <1>7, <1>9, <1>10, <1>11, <1>13 DEF ServerStep
<1>14. Goal
  BY <1>8, <1>12, <1>13 DEF ServerNext
<1> QED BY <1>14 DEF Goal

\* The requests that are left were there before.
LEMMA UpShrinks ==
  ASSUME ServerShapes, ServerNext, NEW v \in Users, NEW i \in DOMAIN up'[v]
  PROVE  \E j \in DOMAIN up[v] : up'[v][i] = up[v][j]
<1>0. up[v] \in Seq(Asks)
  BY DEF ServerShapes
<1>1. CASE up'[v] = up[v]
  BY <1>1
<1>2. CASE up[v] # <<>> /\ up'[v] = Tail(up[v])
  <2>1. \A k \in DOMAIN Tail(up[v]) : k + 1 \in DOMAIN up[v] /\ Tail(up[v])[k] = up[v][k + 1]
    BY <1>0, <1>2, TailFacts
  <2>2. i + 1 \in DOMAIN up[v] /\ up'[v][i] = up[v][i + 1]
    BY <1>2, <2>1
  <2> QED BY <2>2
<1>3. CASE up'[v] = <<>>
  <2>1. DOMAIN <<>> = {}
    OBVIOUS
  <2> QED BY <1>3, <2>1
<1> QED BY <1>1, <1>2, <1>3, ServerLinks

LEMMA ServerStart ==
  ASSUME Shapes, StartInv, ServerNext, UNCHANGED <<ctl, job>>
  PROVE  StartInv'
<1> SUFFICES ASSUME NEW v \in Users PROVE StartOf(v)'
  BY DEF StartInv
<1>1. /\ up'[v] = up[v] \/ (up[v] # <<>> /\ up'[v] = Tail(up[v])) \/ up'[v] = <<>>
      /\ link[v] \in {"attached", "closing"} => link'[v] \in {"attached", "closing"}
  BY ServerLinks DEF Shapes
<1>3. ASSUME NEW i \in DOMAIN up'[v] PROVE \E j \in DOMAIN up[v] : up'[v][i] = up[v][j]
  BY <1>3, UpShrinks DEF Shapes
<1>4. StartOf(v)
  BY DEF StartInv
<1> QED BY <1>1, <1>3, <1>4 DEF StartOf, NoRequests

\* E is D with messages added, m among them; other additions are no replies to
\* a start.
Extends(D, E, m) ==
  \A i \in DOMAIN E : LiveReply(E[i]) => (i \in DOMAIN D /\ E[i] = D[i]) \/ E[i] = m

LEMMA ExtendsTold ==
  ASSUME NEW D \in Seq(Messages), NEW E \in Seq(Messages), NEW m, Extends(D, E, m), NEW u \in Users,
         NEW H \in [Users -> [Users -> Consumers]], NEW A \in [Users -> [Users -> Consumers]]
  PROVE  Extends(D, E \o Told(u, H, A), m)
<1> DEFINE T == Told(u, H, A)
<1>1. T \in Seq(Messages) /\ \A i \in DOMAIN T : ~LiveReply(T[i])
  BY ToldShape, ToldPlain
<1> HIDE DEF T
<1>2. \A i \in DOMAIN (E \o T) : LiveReply((E \o T)[i]) => i \in DOMAIN E /\ (E \o T)[i] = E[i]
  BY <1>1, ConcatFacts
<1> QED BY <1>2 DEF Extends, T

LEMMA ExtendsAnswer ==
  ASSUME NEW D \in Seq(Messages), NEW m \in Messages
  PROVE  Extends(D, Append(D, m), m)
BY AppendFacts DEF Extends

LEMMA ReconcileExtends ==
  ASSUME ServerShapes, NEW P \in [Users -> PeerStates],
         NEW H \in [Users -> [Users -> Consumers]], NEW M \in [Users -> Nat],
         NEW u \in Users, link[u] = "attached", NEW m \in Messages,
         Reconcile(P, H, M, To(u, m)), NEW v \in Users, NEW x \in Messages, x = m \/ v # u
  PROVE  /\ link[v] # "attached" => down'[v] = down[v]
         /\ Extends(down[v], down'[v], x)
<1>1. To(u, m) \in [Users -> Seq(Messages)] /\ down[v] \in Seq(Messages)
  BY ToShape DEF ServerShapes
<1>2. heard' \in [Users -> [Users -> Consumers]]
  BY <1>1, ReconcileShape
<1>3. /\ down'[u] = Append(down[u], m) \o Told(u, H, heard')
      /\ \A w \in Users : w # u => /\ link[w] # "attached" => down'[w] = down[w]
                                   /\ link[w] = "attached" => down'[w] = down[w] \o Told(w, H, heard')
  BY ReconcileTo
<1>4. CASE v = u
  <2>1. Append(down[v], m) \in Seq(Messages) /\ Extends(down[v], Append(down[v], m), m)
    BY <1>1, AppendFacts, ExtendsAnswer
  <2>2. Extends(down[v], Append(down[v], m) \o Told(v, H, heard'), m)
    BY <1>1, <1>2, <2>1, ExtendsTold
  <2> QED BY <1>3, <1>4, <2>2
<1>5. CASE v # u
  <2>1. Extends(down[v], down[v], x)
    BY DEF Extends
  <2>2. Extends(down[v], down[v] \o Told(v, H, heard'), x)
    BY <1>1, <1>2, <2>1, ExtendsTold
  <2> QED BY <1>3, <1>5, <2>1, <2>2
<1> QED BY <1>4, <1>5

LEMMA SilentExtends ==
  ASSUME ServerShapes, NEW P \in [Users -> PeerStates], Reconcile(P, heard, made, Silence),
         NEW v \in Users, NEW x \in Messages
  PROVE  Extends(down[v], down'[v], x)
<1>0. /\ heard \in [Users -> [Users -> Consumers]] /\ made \in [Users -> Nat]
      /\ down[v] \in Seq(Messages)
  BY DEF ServerShapes
<1>1. heard' \in [Users -> [Users -> Consumers]]
  BY <1>0, SilenceShape, ReconcileShape
<1>2. /\ link[v] # "attached" => down'[v] = down[v]
      /\ link[v] = "attached" => down'[v] = down[v] \o Told(v, heard, heard')
  BY <1>0, ReconcileSilently
<1>3. Extends(down[v], down[v], x)
  BY DEF Extends
<1>4. Extends(down[v], down[v] \o Told(v, heard, heard'), x)
  BY <1>0, <1>1, <1>3, ExtendsTold
<1> QED BY <1>2, <1>3, <1>4

\* m answers the next request of u, and brings what the server made for it.
Answers(u, m) ==
  /\ up[u] # <<>> /\ m.to = Head(up[u]).kind /\ m.live = Head(up[u]).live
  /\ m.ok /\ m.to \in {"send", "recv"} => ServeTransport(u) /\ m.id = made[u] + 1
  /\ m.ok /\ m.to = "produce" =>
       /\ ServeProducer(u) /\ Head(up[u]).id = peer[u].send /\ peer[u].send # 0
       /\ m.id = made[u] + 1

\* What a step of the server adds to the messages to v.
Adds(v) ==
  /\ link'[v] # "attached" => down'[v] = <<>> \/ (link[v] # "attached" /\ down'[v] = down[v])
  /\ \/ \E m \in Messages : Answers(v, m) /\ Extends(down[v], down'[v], m)
     \/ \A x \in Messages : Extends(down[v], down'[v], x)

LEMMA AddsNothing ==
  ASSUME NEW v \in Users, down'[v] = down[v], link'[v] = link[v], link[v] # "attached" => down[v] = <<>>
  PROVE  Adds(v)
BY DEF Adds, Extends

LEMMA AddsAnswer ==
  ASSUME ServerShapes, LinkInv, NEW u \in Users, NEW m \in Messages, Answers(u, m),
         link[u] = "attached", UNCHANGED link,
         down'[u] = Append(down[u], m), \A w \in Users : w # u => down'[w] = down[w],
         NEW v \in Users
  PROVE  Adds(v)
<1>1. CASE v = u
  <2>1. down[u] \in Seq(Messages)
    BY DEF ServerShapes
  <2>2. Extends(down[u], down'[u], m)
    BY <2>1, ExtendsAnswer
  <2> QED BY <1>1, <2>2 DEF Adds
<1>2. CASE v # u
  <2>1. down'[v] = down[v] /\ link'[v] = link[v] /\ (link[v] # "attached" => down[v] = <<>>)
    BY <1>2 DEF LinkInv, LinkOf
  <2> QED BY <2>1, AddsNothing
<1> QED BY <1>1, <1>2

LEMMA AddsReconciled ==
  ASSUME ServerShapes, NEW P \in [Users -> PeerStates],
         NEW H \in [Users -> [Users -> Consumers]], NEW M \in [Users -> Nat],
         NEW u \in Users, link[u] = "attached", NEW m \in Messages, Answers(u, m),
         Reconcile(P, H, M, To(u, m)), UNCHANGED link, NEW v \in Users
  PROVE  Adds(v)
<1>1. link[v] # "attached" => down'[v] = down[v]
  BY ReconcileExtends, SMTT(40)
<1>2. Extends(down[v], down'[v], m)
  BY ReconcileExtends
<1>3. ASSUME NEW x \in Messages, v # u PROVE Extends(down[v], down'[v], x)
  BY <1>3, ReconcileExtends, SMTT(40)
<1> QED BY <1>1, <1>2, <1>3 DEF Adds

LEMMA AddsHung ==
  ASSUME ServerShapes, LinkInv, NEW u \in Users, Hung(u), NEW v \in Users
  PROVE  Adds(v)
<1>1. /\ down'[u] = <<>> /\ \A w \in Users : w # u => link'[w] = link[w] /\ down'[w] = down[w]
  BY HungEffects
<1>2. CASE v = u
  <2>1. DOMAIN <<>> = {}
    OBVIOUS
  <2> QED BY <1>1, <1>2, <2>1 DEF Adds, Extends
<1>3. CASE v # u
  <2>1. down'[v] = down[v] /\ link'[v] = link[v] /\ (link[v] # "attached" => down[v] = <<>>)
    BY <1>1, <1>3 DEF LinkInv, LinkOf
  <2> QED BY <2>1, AddsNothing
<1> QED BY <1>2, <1>3

LEMMA ServerAdds ==
  ASSUME ServerShapes, LinkInv, ServerNext, NEW v \in Users
  PROVE  Adds(v)
<1>0. /\ peer \in [Users -> PeerStates] /\ made \in [Users -> Nat]
      /\ heard \in [Users -> [Users -> Consumers]]
  BY DEF ServerShapes
<1>1. ASSUME NEW u \in Users, ServeCapabilities(u) PROVE Adds(v)
  <2> DEFINE m == Answer(Head(up[u]), 0, TRUE)
  <2>1. /\ Takes(u, {"capabilities"}) /\ m \in Messages /\ Head(up[u]).kind = "capabilities"
        /\ down'[u] = Append(down[u], m) /\ \A w \in Users : w # u => down'[w] = down[w]
    BY <1>1, CapabilitiesEffects
  <2>2. m.to = Head(up[u]).kind /\ m.live = Head(up[u]).live
    BY DEF Answer
  <2>3. up[u] # <<>> /\ link[u] = "attached" /\ UNCHANGED link
    BY <2>1, TakesShape
  <2> HIDE DEF m
  <2>4. Answers(u, m)
    BY <2>1, <2>2, <2>3 DEF Answers
  <2> QED BY <2>1, <2>3, <2>4, AddsAnswer
<1>2. ASSUME NEW u \in Users, ServeTransport(u) PROVE Adds(v)
  <2> DEFINE m == Answer(Head(up[u]), made[u] + 1, TRUE)
  <2>1. /\ Takes(u, {"send", "recv"}) /\ m \in Messages /\ Head(up[u]).kind \in {"send", "recv"}
        /\ down'[u] = Append(down[u], m) /\ \A w \in Users : w # u => down'[w] = down[w]
    BY <1>2, TransportEffects
  <2>2. m.to = Head(up[u]).kind /\ m.live = Head(up[u]).live /\ m.id = made[u] + 1
    BY DEF Answer
  <2>3. up[u] # <<>> /\ link[u] = "attached" /\ UNCHANGED link
    BY <2>1, TakesShape
  <2> HIDE DEF m
  <2>4. Answers(u, m)
    BY <1>2, <2>1, <2>2, <2>3 DEF Answers
  <2> QED BY <2>1, <2>3, <2>4, AddsAnswer
<1>3. ASSUME NEW u \in Users, up[u] # <<>>, link[u] = "attached", UNCHANGED link,
             Refusal(u) \in Messages, down'[u] = Append(down[u], Refusal(u)),
             \A w \in Users : w # u => down'[w] = down[w]
      PROVE  Adds(v)
  <2>1. Refusal(u).to = Head(up[u]).kind /\ Refusal(u).live = Head(up[u]).live /\ Refusal(u).ok = FALSE
    BY <1>3, RefusalShape
  <2>2. Answers(u, Refusal(u))
    BY <1>3, <2>1 DEF Answers
  <2> QED BY <1>3, <2>2, AddsAnswer
<1>4. ASSUME NEW u \in Users, ServeConnect(u) PROVE Adds(v)
  <2> DEFINE r == Head(up[u])
             P == Upserted(peer, u)
             m == Answer(r, r.id, TRUE)
  <2>1. r.kind = "connect" /\ Takes(u, {"connect"}) /\ P \in [Users -> PeerStates]
    BY <1>4, ConnectEffects
  <2>2. up[u] # <<>> /\ link[u] = "attached" /\ UNCHANGED link
    BY <2>1, TakesShape
  <2>3. CASE r.id = peer[u].recv /\ peer[u].recv # 0
    <3>1. m \in Messages /\ Reconcile(P, heard, made, To(u, m))
      BY <1>4, <2>3, ConnectEffects
    <3>2. m.to = r.kind /\ m.live = r.live
      BY DEF Answer
    <3>3. Answers(u, m)
      BY <2>1, <2>2, <3>2 DEF Answers
    <3> HIDE DEF m, P
    <3> QED BY <1>0, <2>1, <2>2, <3>1, <3>3, AddsReconciled
  <2>4. CASE ~(r.id = peer[u].recv /\ peer[u].recv # 0)
    <3>1. /\ Refusal(u) \in Messages /\ down'[u] = Append(down[u], Refusal(u))
          /\ \A w \in Users : w # u => down'[w] = down[w]
      BY <1>4, <2>4, ConnectEffects
    <3> QED BY <1>3, <2>2, <3>1
  <2> QED BY <2>3, <2>4
<1>5. ASSUME NEW u \in Users, ServeProducer(u) PROVE Adds(v)
  <2> DEFINE r == Head(up[u])
             P == Upserted(peer, u)
             id == made[u] + 1
             m == Answer(r, id, TRUE)
             H == Unheard(heard, u)
             M == [made EXCEPT ![u] = id]
  <2>1. r.kind = "produce" /\ Takes(u, {"produce"}) /\ P \in [Users -> PeerStates] /\ id \in Nat
    BY <1>5, ProducerEffects
  <2>2. up[u] # <<>> /\ link[u] = "attached" /\ UNCHANGED link
    BY <2>1, TakesShape
  <2>3. CASE r.id = peer[u].send /\ peer[u].send # 0
    <3>1. m \in Messages /\ M \in [Users -> Nat] /\ Reconcile(Producing(P, u, id), H, M, To(u, m))
      BY <1>5, <2>3, ProducerEffects
    <3>2. m.to = r.kind /\ m.live = r.live /\ m.id = made[u] + 1
      BY DEF Answer
    <3>3. Answers(u, m)
      BY <1>5, <2>1, <2>2, <2>3, <3>2 DEF Answers
    <3>4. Producing(P, u, id) \in [Users -> PeerStates] /\ H \in [Users -> [Users -> Consumers]]
      BY <1>0, <2>1, PeerProduces, UnheardShape
    <3> HIDE DEF m, P, H, M, id
    <3> QED BY <2>2, <3>1, <3>3, <3>4, AddsReconciled
  <2>4. CASE ~(r.id = peer[u].send /\ peer[u].send # 0)
    <3>1. /\ Refusal(u) \in Messages /\ down'[u] = Append(down[u], Refusal(u))
          /\ \A w \in Users : w # u => down'[w] = down[w]
      BY <1>5, <2>4, ProducerEffects
    <3> QED BY <1>3, <2>2, <3>1
  <2> QED BY <2>3, <2>4
<1>6. ASSUME NEW u \in Users, ServeResume(u) PROVE Adds(v)
  <2> DEFINE r == Head(up[u])
  <2>1. PICK ok \in BOOLEAN :
          /\ r.kind = "resume" /\ Takes(u, {"resume"}) /\ Answer(r, r.id, ok) \in Messages
          /\ down'[u] = Append(down[u], Answer(r, r.id, ok)) /\ \A w \in Users : w # u => down'[w] = down[w]
    BY <1>6, ResumeEffects
  <2>2. up[u] # <<>> /\ link[u] = "attached" /\ UNCHANGED link
    BY <2>1, TakesShape
  <2> DEFINE m == Answer(r, r.id, ok)
  <2>3. m.to = r.kind /\ m.live = r.live
    BY DEF Answer
  <2>4. Answers(u, m)
    BY <2>1, <2>2, <2>3 DEF Answers
  <2> HIDE DEF m
  <2> QED BY <2>1, <2>2, <2>4, AddsAnswer DEF m
<1>7. ASSUME NEW u \in Users, ServeWithoutWorker(u) PROVE Adds(v)
  <2>1. /\ up[u] # <<>> /\ link[u] = "attached" /\ UNCHANGED link
        /\ Refusal(u) \in Messages /\ down'[u] = Append(down[u], Refusal(u))
        /\ \A w \in Users : w # u => down'[w] = down[w]
    BY <1>7, RefusedEffects
  <2> QED BY <1>3, <2>1
<1>8. ASSUME down'[v] = down[v], link'[v] = "attached" \/ UNCHANGED link PROVE Adds(v)
  <2>1. CASE link'[v] = "attached"
    BY <1>8, <2>1 DEF Adds, Extends
  <2>2. CASE UNCHANGED link
    BY <1>8, <2>2, AddsNothing DEF LinkInv, LinkOf
  <2> QED BY <1>8, <2>1, <2>2
<1>9. ASSUME NEW u \in Users, RefuseEarly(u) PROVE Adds(v)
  BY <1>8, <1>9 DEF RefuseEarly
<1>10. ASSUME NEW u \in Users, Attach(u) PROVE Adds(v)
  <2>1. CASE session[u] \/ worker
    <3>1. link' = [link EXCEPT ![u] = "attached"] /\ UNCHANGED down
      BY <1>10, <2>1 DEF Attach
    <3>2. link'[u] = "attached" /\ (v # u => link'[v] = link[v])
      BY <3>1 DEF ServerShapes
    <3>3. CASE v = u
      BY <1>8, <3>1, <3>2, <3>3
    <3>4. CASE v # u
      BY <3>1, <3>2, <3>4, AddsNothing DEF LinkInv, LinkOf
    <3> QED BY <3>3, <3>4
  <2>2. CASE ~(session[u] \/ worker)
    <3>1. Hung(u)
      BY <1>10, <2>2 DEF Attach
    <3> QED BY <3>1, AddsHung
  <2> QED BY <2>1, <2>2
<1>11. ASSUME NEW u \in Users, NEW cs \in SUBSET Channels, Talk(u, cs) PROVE Adds(v)
  BY <1>8, <1>11 DEF Talk, wires
<1>12. ASSUME NEW u \in Users, Update(u) PROVE Adds(v)
  <2>1. CASE worker
    <3> DEFINE P == Upserted(peer, u)
    <3>1. P \in [Users -> PeerStates] /\ Reconcile(P, heard, made, Silence) /\ UNCHANGED link
      BY <1>12, <2>1, UpdateEffects
    <3> HIDE DEF P
    <3>2. ASSUME NEW x \in Messages PROVE Extends(down[v], down'[v], x)
      BY <3>1, SilentExtends
    <3>3. link[v] # "attached" => down'[v] = down[v]
      BY <1>0, <3>1, ReconcileSilently
    <3> QED BY <3>1, <3>2, <3>3 DEF Adds
  <2>2. CASE ~worker
    <3>1. Hung(u) \/ UNCHANGED <<link, down>>
      BY <1>12, <2>2 DEF Update, wires
    <3> QED BY <1>8, <3>1, AddsHung
  <2> QED BY <2>1, <2>2
<1>13. ASSUME NEW u \in Users, Detach(u) PROVE Adds(v)
  <2> DEFINE P == [peer EXCEPT ![u] = NoPeer]
  <2>1. /\ UNCHANGED link /\ P \in [Users -> PeerStates]
        /\ Reconcile(P, heard, made, Silence) \/ UNCHANGED down
    BY <1>13, DetachEffects
  <2> HIDE DEF P
  <2>2. CASE Reconcile(P, heard, made, Silence)
    <3>1. ASSUME NEW x \in Messages PROVE Extends(down[v], down'[v], x)
      BY <2>1, <2>2, SilentExtends
    <3>2. link[v] # "attached" => down'[v] = down[v]
      BY <1>0, <2>1, <2>2, ReconcileSilently
    <3> QED BY <2>1, <3>1, <3>2 DEF Adds
  <2>3. CASE UNCHANGED down
    BY <1>8, <2>1, <2>3
  <2> QED BY <2>1, <2>2, <2>3
<1>14. ASSUME NEW u \in Users, Evict(u) PROVE Adds(v)
  BY <1>14, AddsHung DEF Evict
<1>15. ASSUME WorkerDies \/ WorkerRestarts PROVE Adds(v)
  BY <1>8, <1>15 DEF WorkerDies, WorkerRestarts, wires
<1>16. ASSUME NEW u \in Users, ServerStep(u) PROVE Adds(v)
  BY <1>1, <1>2, <1>4, <1>5, <1>6, <1>7, <1>9, <1>10, <1>12, <1>13, <1>14, <1>16 DEF ServerStep
<1> QED BY <1>11, <1>15, <1>16 DEF ServerNext

LEMMA ServerLink ==
  ASSUME Shapes, LinkInv, ServerNext
  PROVE  LinkInv'
<1> SUFFICES ASSUME NEW v \in Users PROVE LinkOf(v)'
  BY DEF LinkInv
<1>0. ServerShapes /\ link \in [Users -> {"down", "open", "attached", "closing"}]
      /\ session \in [Users -> BOOLEAN]
  BY DEF Shapes, ServerShapes
<1>1. Adds(v)
  BY <1>0, ServerAdds
<1>2. link'[v] # "attached" => down'[v] = <<>>
  BY <1>1 DEF Adds, LinkInv, LinkOf
<1>3. ASSUME link'[v] = "attached" PROVE session'[v]
  <2>1. CASE link[v] # "attached"
    <3>0. ASSUME NEW u \in Users, Hung(u) \/ UNCHANGED link PROVE FALSE
      BY <1>0, <1>3, <2>1, <3>0, HungEffects
    <3>1. ASSUME NEW u \in Users, ServerStep(u), ~Attach(u) PROVE FALSE
      <4>1. Hung(u) \/ UNCHANGED link
        BY <3>1 DEF ServerStep, ServeCapabilities, ServeTransport, ServeConnect,
           ServeProducer, ServeResume, ServeWithoutWorker, RefuseEarly, Takes, Update, Detach,
           Evict, wires
      <4> QED BY <3>0, <4>1
    <3>2. PICK u \in Users : Attach(u)
      <4>1. ASSUME NEW u \in Users, NEW cs \in SUBSET Channels, Talk(u, cs) PROVE FALSE
        BY <3>0, <4>1 DEF Talk, wires
      <4>2. ~(WorkerDies \/ WorkerRestarts)
        BY <1>3, <2>1 DEF WorkerDies, WorkerRestarts, wires
      <4> QED BY <3>1, <4>1, <4>2 DEF ServerNext
    <3>3. session' = [session EXCEPT ![u] = TRUE]
      BY <3>2 DEF Attach
    <3>4. v = u
      BY <1>0, <1>3, <2>1, <3>2 DEF Attach, Hung
    <3> QED BY <1>0, <3>3, <3>4
  <2>2. CASE link[v] = "attached"
    <3>1. session[v]
      BY <2>2 DEF LinkInv, LinkOf
    <3>2. CASE UNCHANGED session
      BY <3>1, <3>2
    <3>3. ASSUME NEW u \in Users, Attach(u) PROVE session'[v]
      BY <1>0, <3>1, <3>3 DEF Attach
    <3>4. ASSUME NEW u \in Users, Detach(u) PROVE session'[v]
      <4>1. u # v /\ session' = [session EXCEPT ![u] = FALSE]
        BY <2>2, <3>4 DEF Detach
      <4> QED BY <1>0, <3>1, <4>1
    <3> QED BY <3>2, <3>3, <3>4 DEF ServerNext, ServerStep, ServeCapabilities, ServeTransport,
          ServeConnect, ServeProducer, ServeResume, ServeWithoutWorker, RefuseEarly, Takes, Talk,
          Update, Evict, WorkerDies, WorkerRestarts
  <2> QED BY <2>1, <2>2
<1> QED BY <1>2, <1>3 DEF LinkOf

\* A start goes on while the controller has no producer yet, or gets it now.
LEMMA ProceedStart ==
  ASSUME Shapes, NEW u \in Users, NEW c \in Audio, Whole(c), NEW j \in Jobs, Proceed(u, c, j),
         ~c.ready, j.by = "effect" => c.armed,
         c.producer # 0 => /\ c.mic /\ c.device # "none"
                           /\ link'[u] \in {"attached", "closing"} /\ NoRequests(up[u]),
         c.send # 0 => \A i \in DOMAIN up[u] : up[u][i].kind \notin {"send", "recv"},
         \A i \in DOMAIN up[u] : ~LiveAsk(up[u][i])
  PROVE  StartOf(u)'
<1> DEFINE at == StageAfter(c)
<1>1. /\ at \in {"capture", "capabilities", "send", "produce", "drain"}
      /\ at = "send" => c.send = 0 /\ c.recv = 0 /\ c.producer = 0
      /\ at = "produce" => c.send # 0 /\ c.recv # 0 /\ c.producer = 0
      /\ at = "drain" => c.send # 0 /\ c.recv # 0 /\ c.producer # 0
      /\ c.producer # 0 => at = "drain"
  BY StageShape
<1>2. /\ ctl'[u].armed = c.armed /\ ctl'[u].ready = c.ready /\ ctl'[u].mic = c.mic
      /\ ctl'[u].send = c.send /\ ctl'[u].recv = c.recv /\ ctl'[u].producer = c.producer
      /\ job'[u].at = at /\ job'[u].by = j.by
      /\ at \in {"capabilities", "send"} => up'[u] = Append(up[u], Request(at, 0))
      /\ at = "produce" => up'[u] = Append(up[u], Request(at, c.send))
      /\ at = "capture" => up'[u] = up[u]
      /\ at = "drain" => up'[u] = up[u] \/ up'[u] = Append(up[u], Request("connect", c.recv))
  BY ProceedEffects
<1>3. at # "capture" => ctl'[u].mic /\ ctl'[u].device # "none"
  <2>1. ctl' = [ctl EXCEPT ![u] = IF at = "capabilities" THEN [c EXCEPT !.device = "new"] ELSE c]
    BY DEF Proceed
  <2>2. ctl'[u] = IF at = "capabilities" THEN [c EXCEPT !.device = "new"] ELSE c
    BY <2>1, ShapesParts
  <2>3. CASE at = "capabilities"
    BY <2>2, <2>3 DEF Audio, StageAfter
  <2>4. CASE at # "capabilities"
    BY <2>2, <2>4 DEF StageAfter
  <2> QED BY <2>3, <2>4
<1>4. up[u] \in Seq(Asks) /\ c.send \in Nat /\ c.recv \in Nat /\ 0 \in Nat
  BY ShapesParts DEF Audio
<1> HIDE DEF at
<1>5. ASSUME NEW kind \in Requests \cup {"connect"}, NEW id \in Nat, up'[u] = Append(up[u], Request(kind, id)),
             NEW i \in DOMAIN up'[u]
      PROVE  (i \in DOMAIN up[u] /\ up'[u][i] = up[u][i]) \/ up'[u][i] = Request(kind, id)
  <2>1. Request(kind, id) \in Asks
    BY RequestShape
  <2> QED BY <1>4, <1>5, <2>1, AppendFacts
<1>6. \A kind \in Requests \cup {"connect"}, id \in Nat :
        /\ Request(kind, id).kind = kind /\ Request(kind, id).id = id
  BY RequestShape DEF Request
<1>7. /\ "capabilities" \in Requests /\ "send" \in Requests /\ "produce" \in Requests
      /\ "connect" \notin Requests /\ "capture" \notin Requests /\ "drain" \notin Requests
      /\ "recv" \in Requests
  BY DEF Requests
<1> DEFINE Added(kind, id) ==
      \A i \in DOMAIN up'[u] : (i \in DOMAIN up[u] /\ up'[u][i] = up[u][i])
                               \/ (up'[u][i].kind = kind /\ up'[u][i].id = id)
<1>8. /\ at \in {"capabilities", "send"} => Added(at, 0)
      /\ at = "produce" => Added(at, c.send)
      /\ at = "capture" => up'[u] = up[u]
      /\ at = "drain" => Added("connect", c.recv)
  <2>1. ASSUME NEW kind \in Requests \cup {"connect"}, NEW id \in Nat,
               up'[u] = Append(up[u], Request(kind, id))
        PROVE  Added(kind, id)
    <3> SUFFICES ASSUME NEW i \in DOMAIN up'[u]
                 PROVE  (i \in DOMAIN up[u] /\ up'[u][i] = up[u][i])
                        \/ (up'[u][i].kind = kind /\ up'[u][i].id = id)
      OBVIOUS
    <3>1. (i \in DOMAIN up[u] /\ up'[u][i] = up[u][i]) \/ up'[u][i] = Request(kind, id)
      BY <1>5, <2>1
    <3>2. Request(kind, id).kind = kind /\ Request(kind, id).id = id
      BY <1>6
    <3> QED BY <3>1, <3>2
  <2>2. ASSUME at \in {"capabilities", "send"} PROVE Added(at, 0)
    BY <1>2, <1>4, <1>7, <2>1, <2>2
  <2>3. ASSUME at = "produce" PROVE Added(at, c.send)
    BY <1>2, <1>4, <1>7, <2>1, <2>3
  <2>4. ASSUME at = "drain" PROVE Added("connect", c.recv)
    <3>1. CASE up'[u] = up[u]
      BY <3>1
    <3>2. CASE up'[u] = Append(up[u], Request("connect", c.recv))
      BY <1>4, <2>1, <3>2, ZenonT(60)
    <3> QED BY <1>2, <2>4, <3>1, <3>2
  <2>5. at = "capture" => up'[u] = up[u]
    BY <1>2
  <2> HIDE DEF Added
  <2> QED BY <2>2, <2>3, <2>4, <2>5
<1>9. c.send # 0 => \A i \in DOMAIN up'[u] : up'[u][i].kind \notin {"send", "recv"}
  BY <1>1, <1>8
<1>10. \A i \in DOMAIN up'[u] : LiveAsk(up'[u][i]) /\ up'[u][i].kind = "produce" => up'[u][i].id = c.send
  BY <1>1, <1>8
<1>11. at = "drain" => NoRequests(up'[u])
  BY <1>1, <1>7, <1>8 DEF NoRequests
<1>12. at = "drain" => link'[u] \in {"attached", "closing"}
  BY <1>1
<1> HIDE DEF Added
<1> QED BY <1>1, <1>2, <1>3, <1>7, <1>9, <1>10, <1>11, <1>12 DEF StartOf

LEMMA ClientLink ==
  ASSUME Shapes, LinkInv, NEW u \in Users, ClientStep(u)
  PROVE  LinkInv'
<1>1. UNCHANGED session /\ \A v \in Users : v # u => UNCHANGED Own(v)
  BY ClientFrame DEF serverOnly
<1>2. SUFFICES LinkOf(u)'
  BY <1>1 DEF LinkInv, LinkOf, Own
<1>3. LinkOf(u) /\ down[u] \in Seq(Messages) /\ link \in [Users -> {"down", "open", "attached", "closing"}]
  BY ShapesParts DEF LinkInv
<1>4. ASSUME UNCHANGED link, UNCHANGED down \/ Receives(u)
      PROVE  LinkOf(u)'
  <2>1. CASE UNCHANGED down
    BY <1>1, <1>3, <1>4, <2>1 DEF LinkOf
  <2>2. CASE Receives(u)
    <3>1. down[u] # <<>>
      BY <2>2 DEF Receives
    <3> QED BY <1>1, <1>3, <1>4, <3>1 DEF LinkOf
  <2> QED BY <1>4, <2>1, <2>2
<1>5. ASSUME NEW kinds \in SUBSET (Requests \cup {"connect"}), UNCHANGED link,
             down'[u] = Forgotten(down[u], kinds)
      PROVE  LinkOf(u)'
  <2>1. CASE link[u] = "attached"
    BY <1>1, <1>3, <1>5, <2>1 DEF LinkOf
  <2>2. CASE link[u] # "attached"
    <3>1. down[u] = <<>> /\ DOMAIN down'[u] = DOMAIN down[u] /\ down'[u] \in Seq(Messages)
      BY <1>3, <1>5, <2>2, ForgottenMessages DEF LinkOf
    <3>2. DOMAIN <<>> = {}
      OBVIOUS
    <3>3. down'[u] = <<>>
      <4> SUFFICES ASSUME down'[u] # <<>> PROVE FALSE
        OBVIOUS
      <4>1. 1 \in DOMAIN down'[u]
        BY <3>1, TailFacts
      <4> QED BY <3>1, <3>2, <4>1
    <3> QED BY <1>1, <1>3, <1>5, <2>2, <3>3 DEF LinkOf
  <2> QED BY <2>1, <2>2
<1>6. CASE Arm(u) \/ Captured(u) \/ CaptureDenied(u)
  BY <1>4, <1>6 DEF Arm, Captured, CaptureDenied, serverVars, wires
<1>7. CASE Disarm(u)
  <2> DEFINE kinds == Requests \cup {"connect"}
  <2>1. UNCHANGED link /\ down'[u] = Forgotten(down[u], kinds) /\ kinds \in SUBSET (Requests \cup {"connect"})
    BY <1>7, ShapesParts DEF Disarm
  <2> HIDE DEF kinds
  <2> QED BY <1>5, <2>1
<1>8. CASE Connect(u)
  <2>1. link'[u] = "open" /\ link[u] = "down" /\ UNCHANGED down
    BY <1>3, <1>8 DEF Connect
  <2> QED BY <1>3, <2>1 DEF LinkOf
<1>9. CASE Drop(u)
  <2>1. link'[u] = "down" /\ down'[u] = <<>>
    BY <1>9, ShapesParts DEF Drop
  <2> QED BY <2>1 DEF LinkOf
<1>10. CASE TimeOut(u)
  <2>1. UNCHANGED link /\ down'[u] = Forgotten(down[u], Requests) /\ Requests \in SUBSET (Requests \cup {"connect"})
    BY <1>10, ShapesParts DEF TimeOut
  <2> QED BY <1>5, <2>1
<1>11. CASE Answered(u)
  BY <1>4, <1>11 DEF Answered, JobAnswered, AnswerIgnored, DtlsAnswered, ResumeAnswered, Available,
       StateOrClosed, Receives
<1>12. CASE Ready(u)
  BY <1>4, <1>12 DEF Ready, serverVars, wires
<1>13. ASSUME NEW r \in opening[u], Opened(u, r) PROVE LinkOf(u)'
  BY <1>4, <1>13 DEF Opened
<1> QED BY <1>6, <1>7, <1>8, <1>9, <1>10, <1>11, <1>12, <1>13 DEF ClientStep

\* A start ends without a producer, and nothing is awaited.
LEMMA EndedStart ==
  ASSUME NEW u \in Users, StartOf(u), job'[u] = Idle, ctl'[u].producer = 0, ~ctl'[u].ready,
         ctl'[u].send \in {0, ctl[u].send},
         \A i \in DOMAIN up'[u] : ~LiveAsk(up'[u][i]),
         \A i \in DOMAIN up'[u] : \E j \in DOMAIN up[u] : up'[u][i].kind = up[u][j].kind
  PROVE  StartOf(u)'
<1>1. job'[u].at = "idle" /\ "idle" \notin Requests
  BY IdleShape DEF Requests
<1> QED BY <1>1 DEF StartOf, NoRequests

LEMMA ClientStart ==
  ASSUME Shapes, OrderInv, LinkInv, StartInv, NEW u \in Users, ClientStep(u)
  PROVE  StartInv'
<1>1. \A v \in Users : v # u => UNCHANGED Own(v)
  BY ClientFrame
<1>2. SUFFICES StartOf(u)'
  BY <1>1 DEF StartInv, StartOf, Own
<1>3. /\ StartOf(u) /\ LinkOf(u) /\ Order(up[u], down[u], job[u].at, peer[u].producer)
      /\ up[u] \in Seq(Asks) /\ down[u] \in Seq(Messages)
      /\ ctl \in [Users -> Audio] /\ job \in [Users -> Jobs]
      /\ ctl[u] \in Audio /\ Whole(ctl[u]) /\ job[u] \in Jobs
  BY ShapesParts DEF OrderInv, OrderOf, StartInv, LinkInv
<1>4. job[u].at \notin Requests => \A i \in DOMAIN up[u] : ~LiveAsk(up[u][i])
  BY <1>3, OrderIdle DEF NoneAwaited
<1>5. /\ "idle" \notin Requests /\ "capture" \notin Requests /\ "drain" \notin Requests
      /\ "connect" \notin Requests /\ "resume" \notin Requests
  BY DEF Requests
<1>6. job[u] = Idle => job[u].at = "idle"
  BY IdleShape
<1>7. job[u].at # "drain" /\ ~ctl[u].ready => ctl[u].producer = 0
  BY <1>3 DEF StartOf
<1>8. job[u].at # "idle" => ~ctl[u].ready
  BY <1>3 DEF StartOf
<1>9. ctl[u].send # 0 => \A i \in DOMAIN up[u] : up[u][i].kind \notin {"send", "recv"}
  BY <1>3 DEF StartOf
<1>10. CASE Arm(u)
  <2>1. job[u].at = "idle" /\ ~ctl[u].ready /\ ctl[u].producer = 0 /\ UNCHANGED link
    BY <1>5, <1>6, <1>7, <1>10 DEF Arm
  <2>2. \A i \in DOMAIN up[u] : ~LiveAsk(up[u][i])
    BY <1>4, <1>5, <2>1
  <2>3. CASE u \notin Mobile
    <3>1. Proceed(u, ctl[u], [Idle EXCEPT !.by = "arm"])
      BY <1>10, <2>3 DEF Arm, Begin
    <3>2. [Idle EXCEPT !.by = "arm"] \in Jobs /\ [Idle EXCEPT !.by = "arm"].by # "effect"
      BY BeginShape
    <3> QED BY <1>3, <1>9, <2>1, <2>2, <3>1, <3>2, ProceedStart
  <2>4. CASE u \in Mobile /\ ctl[u].armed
    <3>1. UNCHANGED <<ctl, job, up>>
      BY <1>10, <2>4 DEF Arm
    <3> QED BY <1>3, <2>1, <3>1 DEF StartOf, NoRequests
  <2>5. CASE u \in Mobile /\ ~ctl[u].armed
    <3> DEFINE c == [ctl[u] EXCEPT !.armed = TRUE]
    <3>1. Proceed(u, c, [Idle EXCEPT !.by = "effect"])
      BY <1>10, <2>5 DEF Arm, Begin
    <3>2. [Idle EXCEPT !.by = "effect"] \in Jobs
      BY BeginShape
    <3>3. c \in Audio /\ Whole(c) /\ ~c.ready /\ c.armed /\ c.producer = 0 /\ c.send = ctl[u].send
      BY <1>3, <2>1 DEF Audio, Whole
    <3> HIDE DEF c
    <3> QED BY <1>9, <2>2, <3>1, <3>2, <3>3, ProceedStart
  <2> QED BY <2>3, <2>4, <2>5
<1>11. CASE Captured(u)
  <2>1. job[u].at = "capture" /\ UNCHANGED link
    BY <1>11 DEF Captured
  <2>2. ~ctl[u].ready /\ ctl[u].producer = 0 /\ (job[u].by = "effect" => ctl[u].armed)
    BY <1>3, <1>7, <1>8, <2>1 DEF StartOf
  <2>3. \A i \in DOMAIN up[u] : ~LiveAsk(up[u][i])
    BY <1>4, <1>5, <2>1
  <2>4. CASE Connected(u)
    <3> DEFINE c == [ctl[u] EXCEPT !.mic = TRUE]
    <3>1. Proceed(u, c, job[u])
      BY <1>11, <2>4 DEF Captured
    <3>2. /\ c \in Audio /\ Whole(c) /\ c.ready = ctl[u].ready /\ c.armed = ctl[u].armed
          /\ c.producer = 0 /\ c.send = ctl[u].send
      BY <1>3, <2>2 DEF Audio, Whole
    <3> HIDE DEF c
    <3> QED BY <1>3, <1>9, <2>2, <2>3, <3>1, <3>2, ProceedStart
  <2>5. CASE ~Connected(u)
    <3>1. /\ job' = [job EXCEPT ![u] = Idle] /\ UNCHANGED up
          /\ ctl' = [ctl EXCEPT ![u] = [ctl[u] EXCEPT !.mic = TRUE, !.device = IF @ = "none" THEN "new" ELSE @]]
      BY <1>3, <1>11, <2>5 DEF Captured
    <3>2. /\ ctl'[u].producer = 0 /\ ~ctl'[u].ready /\ ctl'[u].send = ctl[u].send /\ job'[u] = Idle
      BY <1>3, <2>2, <3>1 DEF Audio
    <3> QED BY <1>3, <2>3, <3>1, <3>2, EndedStart
  <2> QED BY <2>4, <2>5
<1>12. ASSUME Fail(u), UNCHANGED up, job[u].at \notin {"idle", "drain"},
              \A i \in DOMAIN up[u] : ~LiveAsk(up[u][i])
       PROVE  StartOf(u)'
  <2>1. ctl'[u] = [ctl[u] EXCEPT !.ready = FALSE] /\ job'[u] = Idle
    BY <1>3, <1>12, FailEffects
  <2>2. ctl'[u].producer = 0 /\ ~ctl'[u].ready /\ ctl'[u].send = ctl[u].send
    BY <1>3, <1>7, <1>8, <1>12, <2>1 DEF Audio
  <2> QED BY <1>3, <1>12, <2>1, <2>2, EndedStart
<1>13. CASE CaptureDenied(u)
  BY <1>4, <1>5, <1>12, <1>13 DEF CaptureDenied, serverVars, wires
<1>14. CASE Disarm(u)
  <2> DEFINE kinds == Requests \cup {"connect"}
  <2>1. /\ job[u] = Idle /\ UNCHANGED job /\ up'[u] = Forgotten(up[u], kinds) /\ ctl'[u] = NoAudio
    BY <1>14, ShapesParts DEF Disarm
  <2>2. /\ DOMAIN up'[u] = DOMAIN up[u]
        /\ \A i \in DOMAIN up[u] : up'[u][i].kind = up[u][i].kind /\ (up'[u][i].live => up[u][i].kind \notin kinds)
    BY <1>3, <2>1, ForgottenAsks
  <2>3. NoAudio.producer = 0 /\ ~NoAudio.ready /\ NoAudio.send = 0
    BY DEF NoAudio
  <2>4. \A i \in DOMAIN up'[u] : ~LiveAsk(up'[u][i])
    BY <2>2 DEF LiveAsk
  <2> QED BY <1>3, <2>1, <2>2, <2>3, <2>4, EndedStart
<1>15. CASE Connect(u)
  <2>1. link[u] = "down"
    BY <1>15 DEF Connect
  <2>2. job[u].at # "drain" /\ ~ctl[u].ready /\ ctl[u].producer = 0
    BY <1>3, <1>7, <2>1 DEF StartOf
  <2>3. CASE ctl[u].armed /\ job[u] = Idle
    <3>1. Proceed(u, ctl[u], [Idle EXCEPT !.by = "effect"])
      BY <1>15, <2>3 DEF Connect, Begin
    <3>2. [Idle EXCEPT !.by = "effect"] \in Jobs
      BY BeginShape
    <3>3. \A i \in DOMAIN up[u] : ~LiveAsk(up[u][i])
      BY <1>4, <1>5, <1>6, <2>3
    <3> QED BY <1>3, <1>9, <2>2, <2>3, <3>1, <3>2, <3>3, ProceedStart
  <2>4. CASE ~(ctl[u].armed /\ job[u] = Idle)
    <3>1. UNCHANGED <<ctl, job, up>>
      BY <1>15, <2>4 DEF Connect
    <3> QED BY <1>3, <2>2, <3>1 DEF StartOf
  <2> QED BY <2>3, <2>4
<1>16. CASE Drop(u)
  <2> DEFINE armed == ctl[u].armed \/ (job[u].at = "drain" /\ job[u].by = "arm")
             c == [ctl[u] EXCEPT !.armed = armed, !.ready = FALSE]
  <2>1. /\ up'[u] = <<>> /\ ctl'[u] = IF armed THEN Reset(c) ELSE c
        /\ job'[u] = IF job[u].at = "capture" THEN job[u] ELSE Idle
    BY <1>16, <1>3, ShapesParts DEF Drop
  <2>2. DOMAIN <<>> = {}
    OBVIOUS
  <2>3. /\ c \in Audio /\ ~c.ready /\ (c.armed <=> armed) /\ c.producer = ctl[u].producer
    BY <1>3 DEF Audio
  <2>4. Reset(c).producer = 0 /\ ~Reset(c).ready /\ (Reset(c).armed <=> armed)
    BY <2>3 DEF Reset, Audio
  <2>5. ctl[u].producer # 0 => armed
    BY <1>3 DEF StartOf, Jobs
  <2>6. job[u].at = "capture" /\ job[u].by = "effect" => armed
    BY <1>3 DEF StartOf
  <2> HIDE DEF armed, c
  <2>7. ctl'[u].producer = 0 /\ ~ctl'[u].ready /\ (ctl'[u].armed <=> armed)
    BY <2>1, <2>3, <2>4, <2>5
  <2>8. job'[u].at \in {"idle", "capture"} /\ (job'[u].at = "capture" /\ job'[u].by = "effect" => armed)
    BY <2>1, <2>6, IdleShape
  <2> QED BY <1>5, <2>1, <2>2, <2>7, <2>8 DEF StartOf, NoRequests
<1>17. CASE TimeOut(u)
  <2>1. Fail(u) /\ up'[u] = Forgotten(up[u], Requests) /\ job[u].at \in Requests
    BY <1>17, ShapesParts DEF TimeOut, Waiting
  <2>2. /\ DOMAIN up'[u] = DOMAIN up[u]
        /\ \A i \in DOMAIN up[u] : up'[u][i].kind = up[u][i].kind /\ (up'[u][i].live => up[u][i].kind \notin Requests)
    BY <1>3, <2>1, ForgottenAsks
  <2>3. \A i \in DOMAIN up'[u] : ~LiveAsk(up'[u][i])
    BY <2>2 DEF LiveAsk
  <2>4. ctl'[u] = [ctl[u] EXCEPT !.ready = FALSE] /\ job'[u] = Idle
    BY <1>3, <2>1, FailEffects
  <2>5. ctl'[u].producer = 0 /\ ~ctl'[u].ready /\ ctl'[u].send = ctl[u].send
    BY <1>3, <1>5, <1>7, <1>8, <2>1, <2>4 DEF Audio
  <2> QED BY <1>3, <2>2, <2>3, <2>4, <2>5, EndedStart
<1>18. CASE JobAnswered(u)
  <2> DEFINE m == Head(down[u])
             c == Stored(u, m)
  <2>1. /\ Receives(u) /\ m \in Messages /\ LiveReply(m) /\ m.to = job[u].at
        /\ \/ Fail(u) /\ UNCHANGED <<up, hearing>>
           \/ /\ m.ok /\ m.to = "send" /\ m.id # 0
              /\ job' = [job EXCEPT ![u] = [job[u] EXCEPT !.at = "recv", !.send = m.id]]
              /\ Asked(u, "recv", 0) /\ UNCHANGED <<ctl, err, hearing>>
           \/ m.ok /\ m.to # "send" /\ c \in Audio /\ Whole(c) /\ Proceed(u, c, job[u])
    BY <1>18, JobEffects
  <2>2. NoRequests(up[u]) /\ \A i \in DOMAIN up[u] : ~LiveAsk(up[u][i])
    <3>1. down[u] # <<>>
      BY <2>1, ReceivesShape DEF Shapes
    <3>2. LiveReply(Head(down[u])) => \A j \in DOMAIN up[u] : up[u][j].kind \notin Requests
      BY <1>3, <3>1, OrderReceived
    <3> QED BY <2>1, <3>2 DEF LiveAsk, NoRequests
  <2>3. link[u] = "attached" /\ UNCHANGED link
    <3>1. down[u] # <<>>
      BY <2>1, ReceivesShape DEF Shapes
    <3> QED BY <1>3, <2>1, <3>1 DEF LinkOf, Receives
  <2>4. /\ job[u].at \in Requests /\ ~ctl[u].ready /\ ctl[u].producer = 0
        /\ ctl[u].mic /\ ctl[u].device # "none" /\ (job[u].by = "effect" => ctl[u].armed)
    <3>1. job[u].at \in Requests
      BY <2>1 DEF LiveReply
    <3> QED BY <1>3, <1>5, <1>7, <1>8, <3>1 DEF StartOf
  <2>5. m.kind = "answer"
    BY <2>1 DEF LiveReply
  <2> HIDE DEF m
  <2>6. CASE Fail(u) /\ UNCHANGED <<up, hearing>>
    BY <1>5, <1>12, <2>2, <2>4, <2>6
  <2>7. CASE /\ m.ok /\ m.to = "send" /\ m.id # 0
             /\ job' = [job EXCEPT ![u] = [job[u] EXCEPT !.at = "recv", !.send = m.id]]
             /\ Asked(u, "recv", 0) /\ UNCHANGED <<ctl, err, hearing>>
    <3>1. ctl[u].send = 0
      BY <1>3, <2>1, <2>7 DEF StartOf
    <3>2. job'[u].at = "recv" /\ job'[u].by = job[u].by
      BY <1>3, <2>7 DEF Jobs
    <3>3. "recv" \in Requests \cup {"connect"} /\ 0 \in Nat
      BY DEF Requests
    <3>4. up'[u] = Append(up[u], Request("recv", 0)) /\ Request("recv", 0) \in Asks
          /\ Request("recv", 0).kind = "recv"
      BY <2>7, <3>3, AskedShape, RequestShape DEF Shapes
    <3>5. \A i \in DOMAIN up'[u] : (i \in DOMAIN up[u] /\ up'[u][i] = up[u][i]) \/ up'[u][i].kind = "recv"
      BY <1>3, <3>4, AppendFacts
    <3>6. \A i \in DOMAIN up'[u] : ~(LiveAsk(up'[u][i]) /\ up'[u][i].kind = "produce")
      BY <2>2, <3>5
    <3> QED BY <2>4, <2>7, <3>1, <3>2, <3>6 DEF StartOf
  <2>8. CASE m.ok /\ m.to # "send" /\ c \in Audio /\ Whole(c) /\ Proceed(u, c, job[u])
    <3>1. /\ c.armed = ctl[u].armed /\ c.ready = ctl[u].ready /\ c.mic = ctl[u].mic
      BY <2>1, <2>5, <2>8, StoredShape
    <3>2. c.device # "none"
      BY <1>3, <2>4, <2>8 DEF Stored, Audio
    <3>3. c.send # 0 => \A i \in DOMAIN up[u] : up[u][i].kind \notin {"send", "recv"}
      BY <2>2 DEF NoRequests, Requests
    <3>4. link'[u] \in {"attached", "closing"}
      BY <2>3
    <3> HIDE DEF c
    <3> QED BY <1>3, <2>2, <2>4, <2>8, <3>1, <3>2, <3>3, <3>4, ProceedStart
  <2> QED BY <2>1, <2>6, <2>7, <2>8, SMTT(40)
<1>19. ASSUME UNCHANGED <<link, ctl, job>>,
              UNCHANGED up \/ \E x \in Asks : x.kind \notin Requests /\ up'[u] = Append(up[u], x)
       PROVE  StartOf(u)'
  <2>1. CASE UNCHANGED up
    BY <1>3, <1>19, <2>1 DEF StartOf, NoRequests
  <2>2. CASE ~UNCHANGED up
    <3>1. PICK x \in Asks : x.kind \notin Requests /\ up'[u] = Append(up[u], x)
      BY <1>19, <2>2
    <3>2. \A i \in DOMAIN up'[u] : (i \in DOMAIN up[u] /\ up'[u][i] = up[u][i])
                                   \/ up'[u][i].kind \notin Requests
      BY <1>3, <3>1, AppendFacts
    <3>3. "send" \in Requests /\ "recv" \in Requests /\ "produce" \in Requests
      BY DEF Requests
    <3> QED BY <1>3, <1>19, <3>2, <3>3 DEF StartOf, NoRequests
  <2> QED BY <2>1, <2>2
<1>20. CASE AnswerIgnored(u) \/ DtlsAnswered(u) \/ ResumeAnswered(u) \/ StateOrClosed(u)
  BY <1>19, <1>20 DEF AnswerIgnored, DtlsAnswered, ResumeAnswered, StateOrClosed, Receives
<1>21. CASE Available(u)
  <2>1. UNCHANGED <<link, ctl, job>> /\ (UNCHANGED up \/ Asked(u, "connect", ctl[u].recv))
    BY <1>21 DEF Available, Receives
  <2>2. CASE UNCHANGED up
    BY <1>19, <2>1, <2>2
  <2>3. CASE Asked(u, "connect", ctl[u].recv)
    <3>1. ctl[u].recv \in Nat
      BY <1>3 DEF Audio
    <3>2. /\ up'[u] = Append(up[u], Request("connect", ctl[u].recv))
          /\ Request("connect", ctl[u].recv) \in Asks /\ Request("connect", ctl[u].recv).kind = "connect"
      BY <2>3, <3>1, AskedShape, RequestShape, ZenonT(60) DEF Shapes
    <3> QED BY <1>5, <1>19, <2>1, <3>2
  <2> QED BY <2>1, <2>2, <2>3
<1>22. CASE Ready(u)
  <2>1. /\ job[u].at = "drain" /\ job'[u] = Idle /\ UNCHANGED <<link, up>>
        /\ ctl'[u] = [ctl[u] EXCEPT !.ready = TRUE, !.armed = TRUE]
    BY <1>3, <1>22 DEF Ready, serverVars, wires
  <2>2. /\ ctl'[u].ready /\ ctl'[u].armed /\ ctl'[u].producer = ctl[u].producer
        /\ ctl'[u].send = ctl[u].send
    BY <1>3, <2>1 DEF Audio
  <2>3. job'[u].at = "idle"
    BY <2>1, IdleShape
  <2> QED BY <1>3, <1>5, <2>1, <2>2, <2>3 DEF StartOf, NoRequests
<1>23. ASSUME NEW r \in opening[u], Opened(u, r) PROVE StartOf(u)'
  <2> DEFINE x == [kind |-> "resume", id |-> r.id, from |-> r.from, live |-> TRUE]
  <2>1. up'[u] = Append(up[u], x) /\ UNCHANGED <<link, ctl, job>>
    BY <1>23, ShapesParts DEF Opened
  <2>2. x \in Asks /\ x.kind = "resume"
    <3>1. r \in Heards
      BY ShapesParts
    <3> QED BY <3>1 DEF Heards, Asks
  <2> HIDE DEF x
  <2> QED BY <1>5, <1>19, <2>1, <2>2
<1> QED BY <1>10, <1>11, <1>13, <1>14, <1>15, <1>16, <1>17, <1>18, <1>20, <1>21, <1>22, <1>23
        DEF ClientStep, Answered

\* What a step of the server does to the transports and the producer of v.
Serves(v) ==
  \/ /\ peer'[v].send = peer[v].send /\ peer'[v].recv = peer[v].recv
     /\ peer'[v].producer = peer[v].producer
  \/ peer'[v] = NoPeer /\ (~worker' \/ link'[v] # "attached")
  \/ ServeTransport(v)
  \/ /\ ServeProducer(v) /\ peer'[v].send = peer[v].send /\ peer'[v].recv = peer[v].recv
     /\ Head(up[v]).id = peer[v].send /\ peer[v].send # 0 => peer'[v].producer = made[v] + 1

LEMMA ServerServes ==
  ASSUME ServerShapes, ServerNext, NEW v \in Users
  PROVE  Serves(v)
<1>0. peer \in [Users -> PeerStates] /\ made \in [Users -> Nat]
  BY DEF ServerShapes
<1>1. ASSUME UNCHANGED peer PROVE Serves(v)
  BY <1>1 DEF Serves
<1>2. ASSUME NEW u \in Users, peer' = Upserted(peer, u) PROVE Serves(v)
  <2>1. /\ Upserted(peer, u)[v].send = peer[v].send /\ Upserted(peer, u)[v].recv = peer[v].recv
        /\ Upserted(peer, u)[v].producer = peer[v].producer
    BY UpsertedKeeps
  <2> QED BY <1>2, <2>1 DEF Serves
<1>3. ASSUME NEW u \in Users, ServeCapabilities(u) PROVE Serves(v)
  BY <1>1, <1>3 DEF ServeCapabilities
<1>4. ASSUME NEW u \in Users, ServeTransport(u) PROVE Serves(v)
  <2>1. \A w \in Users : w # u => peer'[w] = peer[w]
    BY <1>4, TransportEffects, ZenonT(60)
  <2> QED BY <1>4, <2>1 DEF Serves
<1>5. ASSUME NEW u \in Users, ServeConnect(u) PROVE Serves(v)
  <2>1. peer' = Upserted(peer, u)
    BY <1>5, ConnectEffects
  <2> QED BY <1>2, <2>1
<1>6. ASSUME NEW u \in Users, ServeProducer(u) PROVE Serves(v)
  <2> DEFINE P == Upserted(peer, u)
             id == made[u] + 1
  <2>1. P \in [Users -> PeerStates] /\ id \in Nat
    BY <1>6, ProducerEffects
  <2>2. P[v].send = peer[v].send /\ P[v].recv = peer[v].recv /\ P[v].producer = peer[v].producer
    BY UpsertedKeeps
  <2>3. CASE Head(up[u]).id = peer[u].send /\ peer[u].send # 0
    <3>1. peer' = Producing(P, u, id)
      BY <1>6, <2>3, ProducerEffects
    <3>2. /\ \A w \in Users : w # u => Producing(P, u, id)[w] = P[w]
          /\ Producing(P, u, id)[u].send = P[u].send /\ Producing(P, u, id)[u].recv = P[u].recv
          /\ Producing(P, u, id)[u].producer = id
      BY <2>1, PeerProduces
    <3> HIDE DEF P
    <3>3. CASE v = u
      BY <1>6, <2>2, <3>1, <3>2, <3>3 DEF Serves
    <3>4. CASE v # u
      BY <2>2, <3>1, <3>2, <3>4 DEF Serves
    <3> QED BY <3>3, <3>4
  <2>4. CASE ~(Head(up[u]).id = peer[u].send /\ peer[u].send # 0)
    <3>1. peer' = Upserted(peer, u)
      BY <1>6, <2>4, ProducerEffects
    <3> QED BY <1>2, <3>1
  <2> QED BY <2>3, <2>4
<1>7. ASSUME NEW u \in Users, ServeResume(u) PROVE Serves(v)
  BY <1>2, <1>7 DEF ServeResume
<1>8. ASSUME NEW u \in Users, ServeWithoutWorker(u) \/ RefuseEarly(u) \/ Evict(u) PROVE Serves(v)
  BY <1>1, <1>8 DEF ServeWithoutWorker, RefuseEarly, Evict, routing
<1>9. ASSUME NEW u \in Users, Attach(u) PROVE Serves(v)
  BY <1>1, <1>2, <1>9 DEF Attach
<1>10. ASSUME NEW u \in Users, NEW cs \in SUBSET Channels, Talk(u, cs) PROVE Serves(v)
  BY <1>1, <1>10 DEF Talk, routing
<1>11. ASSUME NEW u \in Users, Update(u) PROVE Serves(v)
  <2>1. peer' = Upserted(peer, u) \/ UNCHANGED peer
    BY <1>11 DEF Update, Reconcile
  <2> QED BY <1>1, <1>2, <2>1
<1>12. ASSUME NEW u \in Users, Detach(u) PROVE Serves(v)
  <2>1. /\ UNCHANGED link /\ link[u] # "attached"
        /\ peer' = [peer EXCEPT ![u] = NoPeer] \/ UNCHANGED peer
    BY <1>12 DEF Detach, Reconcile
  <2>2. CASE peer' = [peer EXCEPT ![u] = NoPeer]
    <3>1. peer'[u] = NoPeer /\ \A w \in Users : w # u => peer'[w] = peer[w]
      BY <1>0, <2>2
    <3> QED BY <2>1, <3>1 DEF Serves
  <2> QED BY <1>1, <2>1, <2>2
<1>13. ASSUME WorkerDies PROVE Serves(v)
  BY <1>13 DEF WorkerDies, Serves
<1>14. ASSUME WorkerRestarts PROVE Serves(v)
  BY <1>1, <1>14 DEF WorkerRestarts
<1>15. ASSUME NEW u \in Users, ServerStep(u) PROVE Serves(v)
  BY <1>3, <1>4, <1>5, <1>6, <1>7, <1>8, <1>9, <1>11, <1>12, <1>15 DEF ServerStep
<1> QED BY <1>10, <1>13, <1>14, <1>15 DEF ServerNext

\* A worker comes back when nobody is attached.
LEMMA WorkerReturns ==
  ASSUME ServerShapes, ServerNext, ~worker, worker', NEW v \in Users
  PROVE  link[v] # "attached" /\ link'[v] = link[v]
<1>1. WorkerRestarts
  BY DEF ServerNext, ServerStep, ServeCapabilities, ServeTransport, ServeConnect,
         ServeProducer, ServeResume, ServeWithoutWorker, RefuseEarly, Takes, Attach, Talk, Update,
         Detach, Evict, WorkerDies, routing
<1> QED BY <1>1, SMTT(40) DEF WorkerRestarts, wires

\* What the controller holds and what is on its way to it is what the server has.
Same(u) == peer[u].send = ctl[u].send /\ peer[u].recv = ctl[u].recv

TruthOf(u) ==
  /\ peer[u].send = ctl[u].send /\ ctl[u].send # 0 => peer[u].recv = ctl[u].recv
  /\ \A i \in DOMAIN down[u] : Brings(down[u][i], "recv") /\ peer[u].send = job[u].send =>
       peer[u].recv = down[u][i].id
  /\ worker => \A i \in DOMAIN down[u] : Brings(down[u][i], "produce") =>
       Same(u) /\ peer[u].producer = down[u][i].id
  /\ worker /\ link[u] = "attached" /\ (job[u].at = "drain" \/ ctl[u].ready) =>
       Same(u) /\ peer[u].producer = ctl[u].producer

TruthInv == \A u \in Users : TruthOf(u)

LEMMA AddsReplies ==
  ASSUME NEW v \in Users, Adds(v), NEW i \in DOMAIN down'[v], LiveReply(down'[v][i])
  PROVE  (i \in DOMAIN down[v] /\ down'[v][i] = down[v][i]) \/ Answers(v, down'[v][i])
<1>1. CASE \E m \in Messages : Answers(v, m) /\ Extends(down[v], down'[v], m)
  BY <1>1 DEF Extends
<1>2. CASE \A x \in Messages : Extends(down[v], down'[v], x)
  <2> DEFINE x == [kind |-> "answer", to |-> "connect", id |-> 0, ok |-> FALSE, live |-> FALSE]
  <2>1. x \in Messages /\ ~LiveReply(x)
    BY DEF Messages, Replies, LiveReply
  <2> HIDE DEF x
  <2>2. Extends(down[v], down'[v], x)
    BY <1>2, <2>1
  <2> QED BY <2>1, <2>2 DEF Extends
<1> QED BY <1>1, <1>2 DEF Adds

LEMMA ServerTruth ==
  ASSUME Shapes, OrderInv, OrderInv', LinkInv, LinkInv', StartInv, TruthInv, ServerNext,
         UNCHANGED <<ctl, job>>
  PROVE  TruthInv'
<1> SUFFICES ASSUME NEW v \in Users PROVE TruthOf(v)'
  BY DEF TruthInv
<1>0. ServerShapes /\ up[v] \in Seq(Asks)
  BY ShapesParts DEF Shapes
<1>1. /\ Order(up[v], down[v], job[v].at, peer[v].producer)
      /\ Order(up'[v], down'[v], job[v].at, peer'[v].producer)
      /\ LinkOf(v) /\ (link'[v] # "attached" => down'[v] = <<>>)
      /\ StartOf(v) /\ TruthOf(v) /\ Prepared(ctl[v], job[v])
  BY ShapesParts DEF OrderInv, OrderOf, LinkInv, LinkOf, StartInv, TruthInv
<1>2. Serves(v)
  BY <1>0, ServerServes
<1>3. ASSUME NEW i \in DOMAIN down'[v], LiveReply(down'[v][i])
      PROVE  (i \in DOMAIN down[v] /\ down'[v][i] = down[v][i]) \/ Answers(v, down'[v][i])
  <2>1. Adds(v)
    BY <1>0, ServerAdds
  <2> QED BY <1>3, <2>1, AddsReplies
<1>4. ASSUME NEW i \in DOMAIN down'[v] PROVE link'[v] = "attached"
  <2>1. DOMAIN <<>> = {}
    OBVIOUS
  <2> QED BY <1>1, <1>4, <2>1
<1>5. ASSUME worker', link'[v] = "attached" PROVE worker
  BY <1>0, <1>5, WorkerReturns DEF ServerShapes
<1>6. ASSUME link'[v] = "attached", job[v].at = "drain" \/ ctl[v].ready PROVE link[v] = "attached"
  <2>1. link[v] \in {"attached", "closing"}
    BY <1>1, <1>6 DEF StartOf
  <2> QED BY <1>0, <1>6, <2>1, ServerLinks
<1>7. ASSUME up[v] # <<>>, Head(up[v]).kind \in Requests
      PROVE  /\ \A i \in DOMAIN down[v] : ~LiveReply(down[v][i])
             /\ ~(job[v].at = "drain" \/ ctl[v].ready)
             /\ Head(up[v]).kind \in {"send", "recv"} => ctl[v].send = 0
             /\ Head(up[v]).kind = "produce" /\ Head(up[v]).live => Head(up[v]).id = ctl[v].send
  <2>1. 1 \in DOMAIN up[v] /\ Head(up[v]) = up[v][1]
    BY <1>0, <1>7, TailFacts
  <2>2. \A i \in DOMAIN down[v] : ~LiveReply(down[v][i])
    BY <1>1, <1>7, <2>1 DEF Order
  <2>3. ~(job[v].at = "drain" \/ ctl[v].ready)
    BY <1>1, <1>7, <2>1 DEF StartOf, NoRequests
  <2>4. Head(up[v]).kind \in {"send", "recv"} => ctl[v].send = 0
    BY <1>1, <2>1 DEF StartOf
  <2>5. Head(up[v]).kind = "produce" /\ Head(up[v]).live => Head(up[v]).id = ctl[v].send
    BY <1>1, <1>7, <2>1 DEF StartOf, LiveAsk
  <2> QED BY <2>2, <2>3, <2>4, <2>5
<1>8. CASE ServeTransport(v)
  <2>1. /\ up[v] # <<>> /\ Head(up[v]).kind \in {"send", "recv"} /\ Head(up[v]).kind \in Requests
        /\ Head(up[v]).kind = "recv" => peer'[v].recv = made[v] + 1
    BY <1>0, <1>8, TransportEffects, TakesShape DEF Requests
  <2>2. ctl[v].send = 0 /\ ~(job[v].at = "drain" \/ ctl[v].ready)
    BY <1>7, <2>1
  <2>3. \A i \in DOMAIN down'[v] : LiveReply(down'[v][i]) => Answers(v, down'[v][i])
    BY <1>3, <1>7, <2>1
  <2>4. \A i \in DOMAIN down'[v] : Brings(down'[v][i], "recv") => peer'[v].recv = down'[v][i].id
    BY <2>1, <2>3 DEF Brings, Answers
  <2>5. \A i \in DOMAIN down'[v] : ~Brings(down'[v][i], "produce")
    BY <2>1, <2>3 DEF Brings, Answers
  <2> QED BY <2>2, <2>4, <2>5 DEF TruthOf
<1>9. CASE ServeProducer(v)
  <2>1. up[v] # <<>> /\ Head(up[v]).kind = "produce" /\ Head(up[v]).kind \in Requests
    BY <1>0, <1>9, ProducerEffects, TakesShape DEF Requests
  <2>2. ~(job[v].at = "drain" \/ ctl[v].ready)
    BY <1>7, <2>1
  <2>3. \A i \in DOMAIN down'[v] : LiveReply(down'[v][i]) => Answers(v, down'[v][i])
    BY <1>3, <1>7, <2>1
  <2>4. ~ServeTransport(v)
    BY <1>0, <2>1, TransportEffects
  <2>5. /\ peer'[v].send = peer[v].send /\ peer'[v].recv = peer[v].recv
        /\ Head(up[v]).id = peer[v].send /\ peer[v].send # 0 => peer'[v].producer = made[v] + 1
    <3>1. /\ Upserted(peer, v)[v].send = peer[v].send /\ Upserted(peer, v)[v].recv = peer[v].recv
          /\ Upserted(peer, v) \in [Users -> PeerStates] /\ made[v] + 1 \in Nat
      BY <1>0, <1>9, UpsertedKeeps, ProducerEffects
    <3>2. CASE Head(up[v]).id = peer[v].send /\ peer[v].send # 0
      <4>1. peer' = Producing(Upserted(peer, v), v, made[v] + 1)
        BY <1>0, <1>9, <3>2, ProducerEffects
      <4> QED BY <3>1, <4>1, PeerProduces
    <3>3. CASE ~(Head(up[v]).id = peer[v].send /\ peer[v].send # 0)
      <4>1. peer' = Upserted(peer, v)
        BY <1>0, <1>9, <3>3, ProducerEffects
      <4> QED BY <3>1, <3>3, <4>1
    <3> QED BY <3>2, <3>3
  <2>6. \A i \in DOMAIN down'[v] : ~Brings(down'[v][i], "recv")
    BY <2>1, <2>3 DEF Brings, Answers
  <2>7. ASSUME NEW i \in DOMAIN down'[v], Brings(down'[v][i], "produce")
        PROVE  Same(v)' /\ peer'[v].producer = down'[v][i].id
    <3>1. Answers(v, down'[v][i]) /\ down'[v][i].ok /\ down'[v][i].to = "produce" /\ down'[v][i].live
      BY <2>3, <2>7 DEF Brings, LiveReply
    <3>2. /\ Head(up[v]).id = peer[v].send /\ peer[v].send # 0 /\ down'[v][i].id = made[v] + 1
          /\ Head(up[v]).live
      BY <3>1 DEF Answers
    <3>3. peer[v].send = ctl[v].send
      BY <1>7, <2>1, <3>2
    <3>4. peer[v].recv = ctl[v].recv
      BY <1>1, <3>2, <3>3 DEF TruthOf
    <3> QED BY <2>5, <3>2, <3>3, <3>4 DEF Same
  <2>8. peer'[v].send = ctl[v].send /\ ctl[v].send # 0 => peer'[v].recv = ctl[v].recv
    BY <1>1, <2>5 DEF TruthOf
  <2> QED BY <2>2, <2>6, <2>7, <2>8 DEF TruthOf
<1>10. CASE ~ServeTransport(v) /\ ~ServeProducer(v)
  <2>1. \A i \in DOMAIN down'[v] : Brings(down'[v][i], "recv") \/ Brings(down'[v][i], "produce") =>
          i \in DOMAIN down[v] /\ down'[v][i] = down[v][i]
    BY <1>3, <1>10 DEF Brings, Answers
  <2>2. CASE /\ peer'[v].send = peer[v].send /\ peer'[v].recv = peer[v].recv
             /\ peer'[v].producer = peer[v].producer
    <3>1. peer'[v].send = ctl[v].send /\ ctl[v].send # 0 => peer'[v].recv = ctl[v].recv
      BY <1>1, <2>2 DEF TruthOf
    <3>2. \A i \in DOMAIN down'[v] : Brings(down'[v][i], "recv") /\ peer'[v].send = job[v].send =>
            peer'[v].recv = down'[v][i].id
      BY <1>1, <2>1, <2>2 DEF TruthOf
    <3>3. ASSUME worker', NEW i \in DOMAIN down'[v], Brings(down'[v][i], "produce")
          PROVE  Same(v)' /\ peer'[v].producer = down'[v][i].id
      <4>1. worker /\ i \in DOMAIN down[v] /\ down'[v][i] = down[v][i]
        BY <1>4, <1>5, <2>1, <3>3
      <4> QED BY <1>1, <2>2, <3>3, <4>1 DEF TruthOf, Same
    <3>4. ASSUME worker', link'[v] = "attached", job[v].at = "drain" \/ ctl[v].ready
          PROVE  Same(v)' /\ peer'[v].producer = ctl[v].producer
      <4>1. worker /\ link[v] = "attached"
        BY <1>5, <1>6, <3>4
      <4> QED BY <1>1, <2>2, <3>4, <4>1 DEF TruthOf, Same
    <3> QED BY <3>1, <3>2, <3>3, <3>4 DEF TruthOf
  <2>3. CASE peer'[v] = NoPeer /\ (~worker' \/ link'[v] # "attached")
    <3>1. peer'[v].send = 0
      BY <2>3 DEF NoPeer
    <3>2. ASSUME NEW i \in DOMAIN down'[v], Brings(down'[v][i], "recv") PROVE peer'[v].send # job[v].send
      <4>1. job[v].at = "recv"
        BY <1>1, <3>2 DEF Order, Brings
      <4> QED BY <1>1, <3>1, <4>1 DEF Prepared
    <3>3. \A i \in DOMAIN down'[v] : ~worker'
      BY <1>4, <2>3
    <3> QED BY <2>3, <3>1, <3>2, <3>3 DEF TruthOf
  <2> QED BY <1>2, <1>10, <2>2, <2>3 DEF Serves
<1> QED BY <1>8, <1>9, <1>10

\* The client of u is brought nothing; it keeps its transports or drops them.
LEMMA SteadyTruth ==
  ASSUME NEW u \in Users, TruthOf(u), UNCHANGED <<peer, worker>>,
         ctl'[u].send = 0 \/ (ctl'[u].send = ctl[u].send /\ ctl'[u].recv = ctl[u].recv),
         \A i \in DOMAIN down'[u] : ~LiveReply(down'[u][i]),
         link'[u] = "attached" => ~(job'[u].at = "drain" \/ ctl'[u].ready)
  PROVE  TruthOf(u)'
BY DEF TruthOf, Brings, Same

LEMMA ClientTruth ==
  ASSUME Shapes, OrderInv, OrderInv', LinkInv, StartInv, StartInv', TruthInv,
         NEW u \in Users, ClientStep(u)
  PROVE  TruthInv'
<1>1. UNCHANGED <<peer, worker>> /\ \A v \in Users : v # u => UNCHANGED Own(v)
  BY ClientFrame DEF serverOnly
<1>2. SUFFICES TruthOf(u)'
  BY <1>1 DEF TruthInv, TruthOf, Same, Own
<1>3. /\ StartOf(u) /\ StartOf(u)' /\ LinkOf(u) /\ TruthOf(u)
      /\ Order(up[u], down[u], job[u].at, peer[u].producer)
      /\ up[u] \in Seq(Asks) /\ down[u] \in Seq(Messages)
      /\ ctl \in [Users -> Audio] /\ job \in [Users -> Jobs]
      /\ ctl[u] \in Audio /\ Whole(ctl[u]) /\ job[u] \in Jobs
  BY ShapesParts DEF OrderInv, OrderOf, StartInv, LinkInv, TruthInv
<1>4. job[u].at \notin Requests => \A i \in DOMAIN down[u] : ~LiveReply(down[u][i])
  BY <1>3, OrderIdle DEF NoneAwaited
<1>5. /\ "idle" \notin Requests /\ "capture" \notin Requests /\ "drain" \notin Requests
      /\ "connect" \notin Requests /\ "resume" \notin Requests
  BY DEF Requests
<1>6. job[u] = Idle => job[u].at = "idle"
  BY IdleShape
<1>7. /\ job[u].at # "drain" /\ ~ctl[u].ready => ctl[u].producer = 0
      /\ job[u].at # "idle" => ~ctl[u].ready
      /\ ctl'[u].producer = 0 => ~(job'[u].at = "drain" \/ ctl'[u].ready)
  BY <1>3 DEF StartOf
<1>8. ASSUME job'[u] = Idle, ~ctl'[u].ready PROVE ~(job'[u].at = "drain" \/ ctl'[u].ready)
  BY <1>8, IdleShape
<1>9. ASSUME UNCHANGED down, job[u].at \notin Requests,
             ctl'[u].send = ctl[u].send, ctl'[u].recv = ctl[u].recv, ctl'[u].producer = 0
      PROVE  TruthOf(u)'
  BY <1>1, <1>3, <1>4, <1>7, <1>9, SteadyTruth
<1>10. CASE Arm(u)
  <2>1. job[u].at = "idle" /\ ctl[u].producer = 0 /\ UNCHANGED down
    BY <1>5, <1>6, <1>7, <1>10 DEF Arm
  <2>2. CASE u \notin Mobile
    <3>1. Proceed(u, ctl[u], [Idle EXCEPT !.by = "arm"])
      BY <1>10, <2>2 DEF Arm, Begin
    <3>2. [Idle EXCEPT !.by = "arm"] \in Jobs
      BY BeginShape
    <3>3. /\ ctl'[u].send = ctl[u].send /\ ctl'[u].recv = ctl[u].recv
          /\ ctl'[u].producer = ctl[u].producer
      BY <1>3, <3>1, <3>2, ProceedEffects
    <3> QED BY <1>5, <1>9, <2>1, <3>3
  <2>3. CASE u \in Mobile /\ ctl[u].armed
    <3>1. UNCHANGED ctl
      BY <1>10, <2>3 DEF Arm
    <3> QED BY <1>5, <1>9, <2>1, <3>1
  <2>4. CASE u \in Mobile /\ ~ctl[u].armed
    <3> DEFINE c == [ctl[u] EXCEPT !.armed = TRUE]
    <3>1. Proceed(u, c, [Idle EXCEPT !.by = "effect"])
      BY <1>10, <2>4 DEF Arm, Begin
    <3>2. [Idle EXCEPT !.by = "effect"] \in Jobs
      BY BeginShape
    <3>3. /\ c \in Audio /\ Whole(c) /\ c.producer = ctl[u].producer /\ c.send = ctl[u].send
          /\ c.recv = ctl[u].recv
      BY <1>3, <2>1 DEF Audio, Whole
    <3> HIDE DEF c
    <3>4. ctl'[u].send = c.send /\ ctl'[u].recv = c.recv /\ ctl'[u].producer = c.producer
      BY <3>1, <3>2, <3>3, ProceedEffects
    <3> QED BY <1>5, <1>9, <2>1, <3>3, <3>4
  <2> QED BY <2>2, <2>3, <2>4
<1>11. CASE Captured(u)
  <2>1. job[u].at = "capture" /\ UNCHANGED down
    BY <1>11 DEF Captured
  <2>2. ctl[u].producer = 0
    BY <1>7, <2>1
  <2> DEFINE c == [ctl[u] EXCEPT !.mic = TRUE]
             d == [ctl[u] EXCEPT !.mic = TRUE, !.device = IF @ = "none" THEN "new" ELSE @]
  <2>3. /\ c \in Audio /\ Whole(c) /\ c.producer = 0 /\ c.send = ctl[u].send /\ c.recv = ctl[u].recv
        /\ d.producer = 0 /\ d.send = ctl[u].send /\ d.recv = ctl[u].recv
    BY <1>3, <2>2 DEF Audio, Whole
  <2>4. Proceed(u, c, job[u]) \/ ctl' = [ctl EXCEPT ![u] = d]
    BY <1>3, <1>11 DEF Captured
  <2> HIDE DEF c, d
  <2>5. CASE Proceed(u, c, job[u])
    <3>1. ctl'[u].send = c.send /\ ctl'[u].recv = c.recv /\ ctl'[u].producer = c.producer
      BY <1>3, <2>3, <2>5, ProceedEffects
    <3> QED BY <1>5, <1>9, <2>1, <2>3, <3>1
  <2>6. CASE ctl' = [ctl EXCEPT ![u] = d]
    <3>1. ctl'[u] = d
      BY <1>3, <2>6
    <3> QED BY <1>5, <1>9, <2>1, <2>3, <3>1
  <2> QED BY <2>4, <2>5, <2>6
<1>12. ASSUME Fail(u), \A i \in DOMAIN down'[u] : ~LiveReply(down'[u][i]) PROVE TruthOf(u)'
  <2>1. ctl'[u] = [ctl[u] EXCEPT !.ready = FALSE] /\ job'[u] = Idle
    BY <1>3, <1>12, FailEffects
  <2>2. ~ctl'[u].ready /\ ctl'[u].send = ctl[u].send /\ ctl'[u].recv = ctl[u].recv
    BY <1>3, <2>1 DEF Audio
  <2> QED BY <1>1, <1>3, <1>8, <1>12, <2>1, <2>2, SteadyTruth
<1>13. CASE CaptureDenied(u)
  <2>1. Fail(u) /\ job[u].at = "capture" /\ UNCHANGED down
    BY <1>13 DEF CaptureDenied, serverVars, wires
  <2> QED BY <1>4, <1>5, <1>12, <2>1
<1>14. CASE Disarm(u)
  <2> DEFINE kinds == Requests \cup {"connect"}
  <2>1. /\ job[u] = Idle /\ UNCHANGED job /\ ctl'[u] = NoAudio
        /\ down'[u] = Forgotten(down[u], kinds) /\ kinds \in SUBSET (Requests \cup {"connect"})
        /\ Requests \subseteq kinds
    BY <1>14, ShapesParts DEF Disarm
  <2> HIDE DEF kinds
  <2>2. NoneAwaited(Forgotten(up[u], kinds), Forgotten(down[u], kinds))
    BY <1>3, <2>1, OrderForgotten
  <2>3. NoAudio.send = 0 /\ ~NoAudio.ready
    BY DEF NoAudio
  <2> QED BY <1>1, <1>3, <1>8, <2>1, <2>2, <2>3, SteadyTruth DEF NoneAwaited
<1>15. CASE Connect(u)
  <2>1. link[u] = "down" /\ link'[u] = "open" /\ UNCHANGED down
    BY <1>15, ShapesParts DEF Connect
  <2>2. down'[u] = <<>> /\ DOMAIN <<>> = {}
    BY <1>3, <2>1 DEF LinkOf
  <2>3. ctl'[u].send = ctl[u].send /\ ctl'[u].recv = ctl[u].recv
    <3>1. CASE ctl[u].armed /\ job[u] = Idle
      <4>1. Proceed(u, ctl[u], [Idle EXCEPT !.by = "effect"]) /\ [Idle EXCEPT !.by = "effect"] \in Jobs
        BY <1>15, <3>1, BeginShape DEF Connect, Begin
      <4> QED BY <1>3, <4>1, ProceedEffects
    <3>2. CASE ~(ctl[u].armed /\ job[u] = Idle)
      BY <1>15, <3>2 DEF Connect
    <3> QED BY <3>1, <3>2
  <2>4. \A i \in DOMAIN down'[u] : ~LiveReply(down'[u][i])
    BY <2>2
  <2> QED BY <1>1, <1>3, <2>1, <2>3, <2>4, SteadyTruth
<1>16. CASE Drop(u)
  <2> DEFINE armed == ctl[u].armed \/ (job[u].at = "drain" /\ job[u].by = "arm")
             c == [ctl[u] EXCEPT !.armed = armed, !.ready = FALSE]
  <2>1. /\ down'[u] = <<>> /\ DOMAIN <<>> = {} /\ link'[u] = "down"
        /\ ctl'[u] = IF armed THEN Reset(c) ELSE c
    BY <1>3, <1>16, ShapesParts DEF Drop
  <2>2. c.send = ctl[u].send /\ c.recv = ctl[u].recv /\ Reset(c).send = 0
    BY <1>3 DEF Audio, Reset
  <2> HIDE DEF armed, c
  <2>3. ctl'[u].send = 0 \/ (ctl'[u].send = ctl[u].send /\ ctl'[u].recv = ctl[u].recv)
    BY <2>1, <2>2
  <2>4. \A i \in DOMAIN down'[u] : ~LiveReply(down'[u][i])
    BY <2>1
  <2> QED BY <1>1, <1>3, <2>1, <2>3, <2>4, SteadyTruth
<1>17. CASE TimeOut(u)
  <2>1. Fail(u) /\ down'[u] = Forgotten(down[u], Requests) /\ Requests \in SUBSET (Requests \cup {"connect"})
    BY <1>17, ShapesParts DEF TimeOut
  <2>2. NoneAwaited(Forgotten(up[u], Requests), Forgotten(down[u], Requests))
    BY <1>3, <2>1, OrderForgotten
  <2> QED BY <1>12, <2>1, <2>2 DEF NoneAwaited
<1>18. CASE JobAnswered(u)
  <2> DEFINE m == Head(down[u])
             c == Stored(u, m)
  <2>1. /\ Receives(u) /\ m \in Messages /\ LiveReply(m) /\ m.to = job[u].at
        /\ \/ Fail(u) /\ UNCHANGED <<up, hearing>>
           \/ /\ m.ok /\ m.to = "send" /\ m.id # 0
              /\ job' = [job EXCEPT ![u] = [job[u] EXCEPT !.at = "recv", !.send = m.id]]
              /\ Asked(u, "recv", 0) /\ UNCHANGED <<ctl, err, hearing>>
           \/ m.ok /\ m.to # "send" /\ c \in Audio /\ Whole(c) /\ Proceed(u, c, job[u])
    BY <1>18, JobEffects
  <2>2. /\ down[u] # <<>> /\ down'[u] = Tail(down[u]) /\ 1 \in DOMAIN down[u] /\ m = down[u][1]
        /\ UNCHANGED link
    BY <1>3, <2>1, ReceivesShape, TailFacts DEF Shapes
  <2>3. \A i \in DOMAIN down'[u] : ~LiveReply(down'[u][i])
    <3>1. LiveReply(Head(down[u])) => NoneAwaited(up[u], Tail(down[u]))
      BY <1>3, <2>2, OrderReceived
    <3> QED BY <2>1, <2>2, <3>1 DEF NoneAwaited
  <2>4. ~ctl[u].ready /\ ctl[u].producer = 0 /\ m.kind = "answer" /\ job[u].at \in Requests
        /\ link[u] = "attached"
    <3>1. job[u].at \in Requests /\ m.kind = "answer"
      BY <2>1 DEF LiveReply
    <3>2. link[u] = "attached"
      BY <1>3, <2>2 DEF LinkOf
    <3> QED BY <1>5, <1>7, <3>1, <3>2
  <2> HIDE DEF m
  <2>5. CASE Fail(u) /\ UNCHANGED <<up, hearing>>
    BY <1>12, <2>3, <2>5
  <2>6. CASE /\ m.ok /\ m.to = "send" /\ m.id # 0
             /\ job' = [job EXCEPT ![u] = [job[u] EXCEPT !.at = "recv", !.send = m.id]]
             /\ Asked(u, "recv", 0) /\ UNCHANGED <<ctl, err, hearing>>
    BY <1>1, <1>3, <1>7, <2>3, <2>4, <2>6, SteadyTruth
  <2>7. CASE m.ok /\ m.to # "send" /\ c \in Audio /\ Whole(c) /\ Proceed(u, c, job[u])
    <3>1. /\ c.ready = ctl[u].ready
          /\ m.to # "recv" => c.send = ctl[u].send /\ c.recv = ctl[u].recv
          /\ m.to = "recv" => c.send = job[u].send /\ c.recv = m.id
          /\ m.to # "produce" => c.producer = ctl[u].producer
          /\ m.to = "produce" => c.producer = m.id
      BY <2>1, <2>4, <2>7, StoredShape
    <3> HIDE DEF c
    <3>2. /\ ctl'[u].send = c.send /\ ctl'[u].recv = c.recv /\ ctl'[u].producer = c.producer
          /\ ctl'[u].ready = c.ready
      BY <1>3, <2>7, ProceedEffects
    <3>3. CASE m.to \notin {"recv", "produce"}
      BY <1>1, <1>3, <1>7, <2>3, <2>4, <3>1, <3>2, <3>3, SteadyTruth
    <3>4. CASE m.to = "recv"
      <4>1. Brings(m, "recv")
        BY <2>1, <2>7, <3>4 DEF Brings
      <4>2. peer[u].send = job[u].send => peer[u].recv = m.id
        BY <1>3, <2>2, <4>1 DEF TruthOf
      <4>3. ~(job'[u].at = "drain" \/ ctl'[u].ready)
        BY <1>7, <2>4, <3>1, <3>2, <3>4
      <4> QED BY <1>1, <2>3, <3>1, <3>2, <3>4, <4>2, <4>3 DEF TruthOf, Brings
    <3>5. CASE m.to = "produce"
      <4>1. Brings(m, "produce")
        BY <2>1, <2>7, <3>5 DEF Brings
      <4>2. worker => Same(u) /\ peer[u].producer = m.id
        BY <1>3, <2>2, <4>1 DEF TruthOf
      <4>3. peer[u].send = ctl[u].send /\ ctl[u].send # 0 => peer[u].recv = ctl[u].recv
        BY <1>3 DEF TruthOf
      <4> QED BY <1>1, <2>3, <3>1, <3>2, <3>5, <4>2, <4>3 DEF TruthOf, Brings, Same
    <3> QED BY <3>3, <3>4, <3>5
  <2> QED BY <2>1, <2>5, <2>6, <2>7, SMTT(40)
<1>19. ASSUME UNCHANGED <<link, ctl, job>>, UNCHANGED down \/ Receives(u)
       PROVE  TruthOf(u)'
  <2>1. CASE UNCHANGED down
    BY <1>1, <1>3, <1>19, <2>1 DEF TruthOf, Same
  <2>2. CASE Receives(u)
    <3>1. /\ down'[u] = Tail(down[u]) /\ down[u] # <<>>
          /\ \A i \in DOMAIN Tail(down[u]) : i + 1 \in DOMAIN down[u] /\ Tail(down[u])[i] = down[u][i + 1]
      BY <1>3, <2>2, ReceivesShape, TailFacts DEF Shapes
    <3>2. \A i \in DOMAIN down'[u] : i + 1 \in DOMAIN down[u] /\ down'[u][i] = down[u][i + 1]
      BY <3>1
    <3> QED BY <1>1, <1>3, <1>19, <3>2 DEF TruthOf, Same
  <2> QED BY <1>19, <2>1, <2>2
<1>20. CASE AnswerIgnored(u) \/ DtlsAnswered(u) \/ ResumeAnswered(u) \/ StateOrClosed(u) \/ Available(u)
  BY <1>19, <1>20 DEF AnswerIgnored, DtlsAnswered, ResumeAnswered, StateOrClosed, Available, Receives
<1>21. CASE Ready(u)
  <2>1. /\ job[u].at = "drain" /\ UNCHANGED <<link, down>>
        /\ ctl'[u] = [ctl[u] EXCEPT !.ready = TRUE, !.armed = TRUE]
    BY <1>3, <1>21 DEF Ready, serverVars, wires
  <2>2. /\ ctl'[u].producer = ctl[u].producer
        /\ ctl'[u].send = ctl[u].send /\ ctl'[u].recv = ctl[u].recv
    BY <1>3, <2>1 DEF Audio
  <2>3. \A i \in DOMAIN down'[u] : ~LiveReply(down'[u][i])
    BY <1>4, <1>5, <2>1
  <2> QED BY <1>1, <1>3, <2>1, <2>2, <2>3 DEF TruthOf, Same, Brings
<1>22. ASSUME NEW r \in opening[u], Opened(u, r) PROVE TruthOf(u)'
  BY <1>19, <1>22 DEF Opened
<1> QED BY <1>10, <1>11, <1>13, <1>14, <1>15, <1>16, <1>17, <1>18, <1>20, <1>21, <1>22
        DEF ClientStep, Answered

LEMMA InitTruth == Init => LinkInv /\ StartInv /\ TruthInv
<1> SUFFICES ASSUME Init, NEW u \in Users PROVE LinkOf(u) /\ StartOf(u) /\ TruthOf(u)
  BY DEF LinkInv, StartInv, TruthInv
<1>1. /\ link[u] = "down" /\ up[u] = <<>> /\ down[u] = <<>> /\ peer[u] = NoPeer
      /\ ctl[u] = NoAudio /\ job[u] = Idle
  BY DEF Init, ServerInit
<1>2. DOMAIN <<>> = {}
  OBVIOUS
<1>3. LinkOf(u)
  BY <1>1 DEF LinkOf
<1>4. StartOf(u)
  BY <1>1, <1>2 DEF StartOf, NoRequests, NoAudio, Idle, Requests
<1>5. TruthOf(u)
  BY <1>1, <1>2 DEF TruthOf, NoAudio, Idle
<1> QED BY <1>3, <1>4, <1>5

Truthful == Serving /\ LinkInv /\ StartInv /\ TruthInv

LEMMA StepTruthful == Truthful /\ [Next]_vars => Truthful'
<1> SUFFICES ASSUME Truthful, [Next]_vars PROVE LinkInv' /\ StartInv' /\ TruthInv'
  BY StepServing DEF Truthful
<1>0. /\ Shapes /\ OrderInv /\ LinkInv /\ StartInv /\ TruthInv
      /\ OrderInv'
  BY StepServing DEF Truthful, Serving
<1>1. CASE ServerNext /\ UNCHANGED clientVars
  <2>1. UNCHANGED <<ctl, job>>
    BY <1>1 DEF clientVars
  <2>2. LinkInv'
    BY <1>0, <1>1, ServerLink
  <2>3. StartInv'
    BY <1>0, <1>1, <2>1, ServerStart
  <2>4. TruthInv'
    BY <1>0, <1>1, <2>1, <2>2, ServerTruth
  <2> QED BY <2>2, <2>3, <2>4
<1>2. ASSUME NEW u \in Users, ClientStep(u) PROVE LinkInv' /\ StartInv' /\ TruthInv'
  <2>1. LinkInv'
    BY <1>0, <1>2, ClientLink
  <2>2. StartInv'
    BY <1>0, <1>2, ClientStart
  <2>3. TruthInv'
    BY <1>0, <1>2, <2>2, ClientTruth
  <2> QED BY <2>1, <2>2, <2>3
<1>3. CASE UNCHANGED vars
  <2>1. UNCHANGED <<peer, worker, session, link, up, down, ctl, job>>
    BY <1>3 DEF vars, serverVars, wires, routing, clientVars
  <2>2. LinkInv'
    BY <1>0, <2>1 DEF LinkInv, LinkOf
  <2>3. StartInv'
    BY <1>0, <2>1 DEF StartInv, StartOf, NoRequests
  <2>4. TruthInv'
    BY <1>0, <2>1 DEF TruthInv, TruthOf, Same
  <2> QED BY <2>2, <2>3, <2>4
<1> QED BY <1>1, <1>2, <1>3 DEF Next

\* A screen that shows audio as ready on an attached link holds the transports
\* and the producer that the server has, whatever the order in which answers,
\* time-outs, drops, reconnections, revocations and restarts of the worker come.
THEOREM ReadyAlwaysReal == Spec => []ReadyIsReal
<1>1. Init => Truthful
  BY InitShapes, InitOrder, InitTruth DEF Truthful, Serving
<1>2. Truthful /\ [Next]_vars => Truthful'
  BY StepTruthful
<1>3. Truthful => ReadyIsReal
  <2> SUFFICES ASSUME Truthful, NEW u \in Users,
                      ctl[u].ready, link[u] = "attached", session[u], worker
               PROVE  /\ peer[u].send = ctl[u].send /\ peer[u].recv = ctl[u].recv
                      /\ peer[u].producer = ctl[u].producer /\ ctl[u].producer # 0
    BY DEF ReadyIsReal
  <2>1. StartOf(u) /\ TruthOf(u)
    BY DEF Truthful, StartInv, TruthInv
  <2> QED BY <2>1 DEF StartOf, TruthOf, Same
<1> QED BY <1>1, <1>2, <1>3, PTL DEF Spec
-----------------------------------------------------------------------------
(* Routed talkers are heard *)

\* What a step of the server does to the consumers of v: one that is there was
\* there before, and is not paused again, or it is new.
SameConsumer(v, p) ==
  /\ Exists(heard[v][p]) /\ heard'[v][p].id = heard[v][p].id
  /\ heard'[v][p].paused => heard[v][p].paused
NewConsumer(v, p) == made[v] < heard'[v][p].id /\ heard'[v][p].id <= made'[v]
HeardStep(v) ==
  /\ made[v] <= made'[v]
  /\ \A p \in Users : Exists(heard'[v][p]) => SameConsumer(v, p) \/ NewConsumer(v, p)

\* An answer is that to the next request of v.  It refuses to connect a
\* transport only if that is not the one the server has.
Replied(v, m) ==
  /\ up[v] # <<>> /\ m.to = Head(up[v]).kind /\ m.live = Head(up[v]).live
  /\ m.to = "connect" /\ ~m.ok =>
       ~(worker' /\ Head(up[v]).id = peer'[v].recv /\ peer'[v].recv # 0)
  /\ m.to = "recv" /\ m.ok =>
       m.id = peer'[v].recv /\ \A p \in Users : ~Exists(heard'[v][p])

\* A notice names a consumer of before or after the step.
Noted(v, m) ==
  /\ m.from \in Users
  /\ \/ m.id = heard'[v][m.from].id /\ Exists(heard'[v][m.from])
     \/ m.id = heard[v][m.from].id /\ Exists(heard[v][m.from])
  /\ m.kind = "closed" => ~Exists(heard'[v][m.from])

Comes(m, p, n) == m.kind = "available" /\ m.from = p /\ m.id = n

\* New messages come after those that are on their way, and announce what is new.
DownStep(v) ==
  /\ \A i \in DOMAIN down[v] : i \in DOMAIN down'[v] /\ down'[v][i] = down[v][i]
  /\ \A p \in Users : Exists(heard'[v][p]) =>
       \/ SameConsumer(v, p)
       \/ \E i \in DOMAIN down'[v] : /\ i \notin DOMAIN down[v]
                                     /\ Comes(down'[v][i], p, heard'[v][p].id)
  /\ \A i \in DOMAIN down'[v] : i \notin DOMAIN down[v] =>
       IF down'[v][i].kind = "answer" THEN Replied(v, down'[v][i]) ELSE Noted(v, down'[v][i])

Tells(v) == HeardStep(v) /\ (link'[v] = "attached" => DownStep(v))

\* A step that makes no consumer and answers at most one request.
LEMMA AnswerTells ==
  ASSUME ServerShapes, NEW v \in Users, made[v] <= made'[v],
         \A p \in Users : Exists(heard'[v][p]) => SameConsumer(v, p),
         \/ link'[v] # "attached"
         \/ down'[v] = down[v]
         \/ \E m \in Messages : m.kind = "answer" /\ Replied(v, m) /\ down'[v] = Append(down[v], m)
  PROVE  Tells(v)
<1>1. HeardStep(v)
  BY DEF HeardStep
<1>2. CASE link'[v] # "attached"
  BY <1>1, <1>2 DEF Tells
<1>3. CASE down'[v] = down[v]
  BY <1>1, <1>3 DEF Tells, DownStep
<1>4. ASSUME NEW m \in Messages, m.kind = "answer", Replied(v, m), down'[v] = Append(down[v], m)
      PROVE  Tells(v)
  <2>1. down[v] \in Seq(Messages)
    BY DEF ServerShapes
  <2>2. /\ \A i \in DOMAIN down[v] : i \in DOMAIN down'[v] /\ down'[v][i] = down[v][i]
        /\ \A i \in DOMAIN down'[v] : i \in DOMAIN down[v] \/ down'[v][i] = m
    BY <1>4, <2>1, AppendFacts
  <2>3. DownStep(v)
    BY <1>4, <2>2 DEF DownStep
  <2> QED BY <1>1, <2>3 DEF Tells
<1> QED BY <1>2, <1>3, <1>4

\* A notice of a reconcile names the consumer that changed.
LEMMA NoticeNamed ==
  ASSUME NEW H \in [Users -> [Users -> Consumers]], NEW A \in [Users -> [Users -> Consumers]],
         NEW l \in Users, NEW m \in NoticesTo(l, H, A)
  PROVE  /\ m.from \in Users /\ m.kind # "answer"
         /\ \/ m.id = A[l][m.from].id /\ Exists(A[l][m.from])
            \/ m.id = H[l][m.from].id /\ Exists(H[l][m.from])
         /\ m.kind = "closed" => ~Exists(A[l][m.from])
<1>1. PICK p \in Users :
        \/ m = Notice("closed", p, H[l][p]) /\ Exists(H[l][p]) /\ ~Exists(A[l][p])
        \/ m = Notice("state", p, A[l][p]) /\ Exists(A[l][p])
        \/ m = Notice("available", p, A[l][p]) /\ Exists(A[l][p])
  BY DEF NoticesTo
<1>2. H[l][p] \in Consumers /\ A[l][p] \in Consumers
  OBVIOUS
<1> QED BY <1>1, <1>2 DEF Notice

\* Reconciling, from consumers some of which may just have been closed, keeps
\* those that are left and tells v what it made and closed.
LEMMA ReconcileTells ==
  ASSUME ServerShapes, NEW P \in [Users -> PeerStates],
         NEW H \in [Users -> [Users -> Consumers]], NEW M \in [Users -> Nat],
         NEW answers \in [Users -> Seq(Messages)], Reconcile(P, H, M, answers),
         NEW v \in Users, made[v] <= M[v], UNCHANGED link,
         \A p \in Users : Exists(H[v][p]) => H[v][p] = heard[v][p],
         \A i \in DOMAIN answers[v] : answers[v][i].kind = "answer" /\ Replied(v, answers[v][i])
  PROVE  Tells(v)
<1> DEFINE A == heard'
           T == Told(v, H, heard')
           S == answers[v] \o T
<1>1. /\ A = Reconciled(P, H, M) /\ A \in [Users -> [Users -> Consumers]]
      /\ made' \in [Users -> Nat] /\ made'[v] \in {M[v], M[v] + 1}
      /\ (\E p \in Users : ~Exists(H[v][p]) /\ Exists(A[v][p])) => made'[v] = M[v] + 1
      /\ link[v] = "attached" => down'[v] = down[v] \o S
  BY ReconcileShape, ZenonT(60)
<1>2. made[v] \in Nat /\ M[v] \in Nat /\ down[v] \in Seq(Messages) /\ answers[v] \in Seq(Messages)
  BY DEF ServerShapes
<1>3. ASSUME NEW p \in Users, Exists(A[v][p])
      PROVE  /\ Exists(H[v][p]) => SameConsumer(v, p)
             /\ ~Exists(H[v][p]) => NewConsumer(v, p)
  <2>1. /\ Exists(H[v][p]) => A[v][p].id = H[v][p].id /\ A[v][p].paused = H[v][p].paused
        /\ ~Exists(H[v][p]) => A[v][p].id = M[v] + 1
    <3> DEFINE R == Reconciled(P, H, M)
    <3>1. /\ Exists(H[v][p]) /\ Exists(R[v][p]) => R[v][p].id = H[v][p].id /\ R[v][p].paused = H[v][p].paused
          /\ ~Exists(H[v][p]) /\ Exists(R[v][p]) => R[v][p].id = M[v] + 1
      BY ReconciledShape
    <3> HIDE DEF R
    <3>2. A = R
      BY <1>1 DEF R
    <3> QED BY <1>3, <3>1, <3>2
  <2>2. ASSUME Exists(H[v][p]) PROVE SameConsumer(v, p)
    <3>1. H[v][p] = heard[v][p]
      BY <2>2
    <3> QED BY <2>1, <2>2, <3>1 DEF SameConsumer
  <2>3. ASSUME ~Exists(H[v][p]) PROVE NewConsumer(v, p)
    <3>1. made'[v] = M[v] + 1
      BY <1>1, <1>3, <2>3
    <3> QED BY <1>2, <2>1, <2>3, <3>1 DEF NewConsumer
  <2> QED BY <2>2, <2>3
<1>4. HeardStep(v)
  BY <1>1, <1>2, <1>3 DEF HeardStep
<1>5. /\ T \in Seq(Messages)
      /\ \A i \in DOMAIN T : T[i] \in NoticesTo(v, H, A) /\ T[i].kind # "answer"
      /\ \A n \in NoticesTo(v, H, A) : \E i \in DOMAIN T : T[i] = n
  BY <1>1, ToldShape, ZenonT(60)
<1> HIDE DEF T
<1>6. /\ S \in Seq(Messages)
      /\ \A i \in DOMAIN S : \/ i \in DOMAIN answers[v] /\ S[i] = answers[v][i]
                             \/ \E j \in DOMAIN T : S[i] = T[j]
      /\ \A j \in DOMAIN T : \E i \in DOMAIN S : S[i] = T[j]
  <2>1. /\ S \in Seq(Messages)
        /\ \A i \in DOMAIN answers[v] : i \in DOMAIN S /\ S[i] = answers[v][i]
        /\ \A j \in DOMAIN T : /\ Len(answers[v]) + j \in DOMAIN S
                               /\ S[Len(answers[v]) + j] = T[j]
        /\ \A i \in DOMAIN S : i \in DOMAIN answers[v] \/ \E j \in DOMAIN T : i = Len(answers[v]) + j
    BY <1>2, <1>5, ConcatFacts, SMTT(40)
  <2> QED BY <2>1
<1> HIDE DEF S
<1>7. ASSUME link'[v] = "attached" PROVE DownStep(v)
  <2>1. /\ down'[v] = down[v] \o S
        /\ \A i \in DOMAIN down[v] : i \in DOMAIN down'[v] /\ down'[v][i] = down[v][i]
        /\ \A j \in DOMAIN S : \E i \in DOMAIN down'[v] : i \notin DOMAIN down[v] /\ down'[v][i] = S[j]
        /\ \A i \in DOMAIN down'[v] : i \in DOMAIN down[v] \/ \E j \in DOMAIN S : down'[v][i] = S[j]
    <3>1. down'[v] = down[v] \o S
      BY <1>1, <1>7
    <3>2. down[v] \in Seq(Messages) /\ S \in Seq(Messages)
      BY <1>2, <1>6
    <3>3. Prolongs(down[v] \o S, down[v], S)
      BY <3>2, LongerFacts
    <3>4. Prolongs(down'[v], down[v], S)
      BY <3>1, <3>3
    <3> QED BY <3>1, <3>4 DEF Prolongs
  <2>2. ASSUME NEW p \in Users, Exists(A[v][p]), ~SameConsumer(v, p)
        PROVE  \E i \in DOMAIN down'[v] : i \notin DOMAIN down[v] /\ Comes(down'[v][i], p, A[v][p].id)
    <3> DEFINE n == Notice("available", p, A[v][p])
    <3>1. n \in NoticesTo(v, H, A)
      BY <1>3, <2>2 DEF NoticesTo
    <3>2. Comes(n, p, A[v][p].id)
      BY <1>1, NoticeShape DEF Comes
    <3> HIDE DEF n
    <3>3. PICK j \in DOMAIN T : T[j] = n
      BY <1>5, <3>1
    <3>4. PICK i \in DOMAIN S : S[i] = n
      BY <1>6, <3>3
    <3> QED BY <2>1, <3>2, <3>4
  <2>3. ASSUME NEW m \in NoticesTo(v, H, A) PROVE m.kind # "answer" /\ Noted(v, m)
    <3>1. /\ m.from \in Users /\ m.kind # "answer"
          /\ \/ m.id = A[v][m.from].id /\ Exists(A[v][m.from])
             \/ m.id = H[v][m.from].id /\ Exists(H[v][m.from])
          /\ m.kind = "closed" => ~Exists(A[v][m.from])
      <4>1. A \in [Users -> [Users -> Consumers]]
        BY <1>1
      <4> HIDE DEF A
      <4> QED BY <2>3, <4>1, NoticeNamed
    <3>2. Exists(H[v][m.from]) => H[v][m.from] = heard[v][m.from]
      BY <3>1
    <3> QED BY <3>1, <3>2 DEF Noted
  <2>4. ASSUME NEW i \in DOMAIN down'[v], i \notin DOMAIN down[v]
        PROVE  IF down'[v][i].kind = "answer" THEN Replied(v, down'[v][i]) ELSE Noted(v, down'[v][i])
    <3>1. PICK j \in DOMAIN S : down'[v][i] = S[j]
      BY <2>1, <2>4
    <3>2. CASE j \in DOMAIN answers[v] /\ S[j] = answers[v][j]
      BY <3>1, <3>2
    <3>3. ASSUME NEW k \in DOMAIN T, S[j] = T[k] PROVE Noted(v, S[j]) /\ S[j].kind # "answer"
      <4>1. T[k] \in NoticesTo(v, H, A)
        BY <1>5
      <4> QED BY <2>3, <3>3, <4>1
    <3> QED BY <1>6, <3>1, <3>2, <3>3
  <2> QED BY <2>1, <2>2, <2>4 DEF DownStep
<1> QED BY <1>4, <1>7 DEF Tells
\* Every step of the server tells v what it does to the consumers of v.
LEMMA ServerTells ==
  ASSUME ServerShapes, ServerNext, NEW v \in Users
  PROVE  Tells(v)
<1>0. /\ peer \in [Users -> PeerStates] /\ made \in [Users -> Nat]
      /\ heard \in [Users -> [Users -> Consumers]] /\ worker \in BOOLEAN
      /\ up \in [Users -> Seq(Asks)] /\ down \in [Users -> Seq(Messages)]
  BY DEF ServerShapes
<1>1. ASSUME UNCHANGED heard PROVE \A p \in Users : Exists(heard'[v][p]) => SameConsumer(v, p)
  BY <1>1 DEF SameConsumer
<1>2. ASSUME UNCHANGED <<heard, made>>, link'[v] # "attached" \/ down'[v] = down[v] PROVE Tells(v)
  <2>1. made[v] <= made'[v]
    BY <1>0, <1>2
  <2>2. \A p \in Users : Exists(heard'[v][p]) => SameConsumer(v, p)
    BY <1>1, <1>2
  <2> QED BY <1>2, <2>1, <2>2, AnswerTells
<1>3. ASSUME NEW u \in Users, Hung(u), UNCHANGED <<heard, made>> PROVE Tells(v)
  <2>1. link'[u] = "closing" /\ \A w \in Users : w # u => down'[w] = down[w]
    BY <1>3, HungEffects
  <2> QED BY <1>2, <1>3, <2>1
\* u is answered, and nobody gets a new consumer.
<1>4. ASSUME NEW u \in Users, NEW m \in Messages, m.kind = "answer", Replied(u, m),
             down'[u] = Append(down[u], m), \A w \in Users : w # u => down'[w] = down[w],
             made[v] <= made'[v], \A p \in Users : Exists(heard'[v][p]) => SameConsumer(v, p)
      PROVE  Tells(v)
  <2>1. CASE v = u
    BY <1>4, <2>1, AnswerTells
  <2>2. CASE v # u
    BY <1>4, <2>2, AnswerTells
  <2> QED BY <2>1, <2>2
<1>5. ASSUME NEW u \in Users, NEW m \in Messages, m.kind = "answer", Replied(u, m)
      PROVE  \A i \in DOMAIN To(u, m)[v] : To(u, m)[v][i].kind = "answer" /\ Replied(v, To(u, m)[v][i])
  <2>1. To(u, m)[u] = <<m>> /\ \A w \in Users : w # u => To(u, m)[w] = <<>>
    BY ToShape
  <2>2. DOMAIN <<m>> = {1} /\ <<m>>[1] = m /\ DOMAIN <<>> = {}
    OBVIOUS
  <2>3. CASE v = u
    BY <1>5, <2>1, <2>2, <2>3
  <2>4. CASE v # u
    BY <2>1, <2>2, <2>4
  <2> QED BY <2>3, <2>4
<1>6. ASSUME NEW P \in [Users -> PeerStates], Reconcile(P, heard, made, Silence), UNCHANGED link
      PROVE  Tells(v)
  <2>1. Silence \in [Users -> Seq(Messages)] /\ Silence[v] = <<>>
    BY SilenceShape
  <2>2. DOMAIN <<>> = {} /\ made[v] <= made[v]
    BY <1>0
  <2>3. \A i \in DOMAIN Silence[v] : Silence[v][i].kind = "answer" /\ Replied(v, Silence[v][i])
    BY <2>1, <2>2
  <2> QED BY <1>0, <1>6, <2>1, <2>2, <2>3, ReconcileTells
<1>7. ASSUME NEW u \in Users, up[u] # <<>>, Refusal(u) \in Messages,
             down'[u] = Append(down[u], Refusal(u)), \A w \in Users : w # u => down'[w] = down[w],
             UNCHANGED <<heard, made>>,
             Head(up[u]).kind = "connect" =>
               ~(worker' /\ Head(up[u]).id = peer'[u].recv /\ peer'[u].recv # 0)
      PROVE  Tells(v)
  <2>1. /\ Refusal(u).kind = "answer" /\ Refusal(u).to = Head(up[u]).kind
        /\ Refusal(u).live = Head(up[u]).live /\ Refusal(u).ok = FALSE
    BY <1>7, RefusalShape
  <2>2. Replied(u, Refusal(u))
    BY <1>7, <2>1 DEF Replied
  <2>3. made[v] <= made'[v]
    BY <1>0, <1>7
  <2> QED BY <1>1, <1>4, <1>7, <2>1, <2>2, <2>3
<1>8. ASSUME NEW u \in Users, ServeCapabilities(u) PROVE Tells(v)
  <2> DEFINE m == Answer(Head(up[u]), 0, TRUE)
  <2>1. /\ Takes(u, {"capabilities"}) /\ m \in Messages /\ Head(up[u]).kind = "capabilities"
        /\ down'[u] = Append(down[u], m) /\ \A w \in Users : w # u => down'[w] = down[w]
        /\ UNCHANGED <<heard, made>>
    BY <1>8, CapabilitiesEffects
  <2>2. m.kind = "answer" /\ m.to = Head(up[u]).kind /\ m.live = Head(up[u]).live
    BY DEF Answer
  <2>3. up[u] # <<>>
    BY <2>1, TakesShape
  <2> HIDE DEF m
  <2>4. Replied(u, m) /\ made[v] <= made'[v]
    BY <1>0, <2>1, <2>2, <2>3 DEF Replied
  <2> QED BY <1>1, <1>4, <2>1, <2>2, <2>4
<1>9. ASSUME NEW u \in Users, ServeTransport(u) PROVE Tells(v)
  <2> DEFINE m == Answer(Head(up[u]), made[u] + 1, TRUE)
  <2>1. /\ Takes(u, {"send", "recv"}) /\ m \in Messages /\ Head(up[u]).kind \in {"send", "recv"}
        /\ down'[u] = Append(down[u], m) /\ \A w \in Users : w # u => down'[w] = down[w]
        /\ made'[u] = made[u] + 1 /\ \A w \in Users : w # u => made'[w] = made[w]
        /\ Head(up[u]).kind = "send" => heard' = Unheard(heard, u)
        /\ Head(up[u]).kind = "recv" => heard' = Deaf(heard, u) /\ peer'[u].recv = made[u] + 1
    BY <1>9, TransportEffects
  <2>2. /\ m.kind = "answer" /\ m.to = Head(up[u]).kind /\ m.live = Head(up[u]).live
        /\ m.id = made[u] + 1 /\ m.ok
    BY DEF Answer
  <2>3. up[u] # <<>>
    BY <2>1, TakesShape
  <2> HIDE DEF m
  <2>4. /\ \A l \in Users : /\ Unheard(heard, u)[l][u] = NoConsumer
                            /\ \A p \in Users : p # u => Unheard(heard, u)[l][p] = heard[l][p]
        /\ \A p \in Users : Deaf(heard, u)[u][p] = NoConsumer
        /\ \A l \in Users : l # u => Deaf(heard, u)[l] = heard[l]
    BY <1>0, UnheardShape
  <2>5. ~Exists(NoConsumer)
    BY DEF Exists, NoConsumer
  <2>6. Replied(u, m)
    BY <2>1, <2>2, <2>3, <2>4, <2>5 DEF Replied
  <2>7. ASSUME NEW p \in Users, Exists(heard'[v][p]) PROVE heard'[v][p] = heard[v][p]
    <3>1. CASE Head(up[u]).kind = "send"
      BY <2>1, <2>4, <2>5, <2>7, <3>1
    <3>2. CASE Head(up[u]).kind = "recv"
      BY <2>1, <2>4, <2>5, <2>7, <3>2
    <3> QED BY <2>1, <3>1, <3>2
  <2>8. made[v] <= made'[v]
    <3>1. made[v] \in Nat /\ made'[v] \in {made[v], made[v] + 1}
      BY <1>0, <2>1
    <3> QED BY <3>1
  <2>9. \A p \in Users : Exists(heard'[v][p]) => SameConsumer(v, p)
    BY <2>7 DEF SameConsumer
  <2> QED BY <1>4, <2>1, <2>2, <2>6, <2>8, <2>9
<1>10. ASSUME NEW u \in Users, ServeConnect(u) PROVE Tells(v)
  <2> DEFINE r == Head(up[u])
             P == Upserted(peer, u)
             m == Answer(r, r.id, TRUE)
  <2>1. /\ r.kind = "connect" /\ Takes(u, {"connect"}) /\ P \in [Users -> PeerStates]
        /\ peer' = P /\ P[u].recv = peer[u].recv
    BY <1>0, <1>10, ConnectEffects, UpsertedShape
  <2>2. up[u] # <<>> /\ UNCHANGED link
    BY <2>1, TakesShape
  <2>3. CASE r.id = peer[u].recv /\ peer[u].recv # 0
    <3>1. m \in Messages /\ Reconcile(P, heard, made, To(u, m))
      BY <1>10, <2>3, ConnectEffects
    <3>2. m.kind = "answer" /\ m.to = r.kind /\ m.live = r.live /\ m.ok
      BY DEF Answer
    <3> HIDE DEF m, P
    <3>3. Replied(u, m)
      BY <2>1, <2>2, <3>2 DEF Replied
    <3>4. To(u, m) \in [Users -> Seq(Messages)] /\ made[v] <= made[v]
      BY <1>0, <3>1, ToShape
    <3>5. \A i \in DOMAIN To(u, m)[v] : To(u, m)[v][i].kind = "answer" /\ Replied(v, To(u, m)[v][i])
      BY <1>5, <3>1, <3>2, <3>3
    <3> QED BY <1>0, <2>1, <2>2, <3>1, <3>4, <3>5, ReconcileTells
  <2>4. CASE ~(r.id = peer[u].recv /\ peer[u].recv # 0)
    <3>1. /\ Refusal(u) \in Messages /\ down'[u] = Append(down[u], Refusal(u))
          /\ \A w \in Users : w # u => down'[w] = down[w]
          /\ UNCHANGED <<heard, made>>
      BY <1>10, <2>4, ConnectEffects
    <3> QED BY <1>7, <2>1, <2>2, <2>4, <3>1
  <2> QED BY <2>3, <2>4
<1>11. ASSUME NEW u \in Users, ServeProducer(u) PROVE Tells(v)
  <2> DEFINE r == Head(up[u])
             P == Upserted(peer, u)
             id == made[u] + 1
             m == Answer(r, id, TRUE)
             H == Unheard(heard, u)
             M == [made EXCEPT ![u] = id]
  <2>1. r.kind = "produce" /\ Takes(u, {"produce"}) /\ P \in [Users -> PeerStates] /\ id \in Nat
    BY <1>11, ProducerEffects
  <2>2. up[u] # <<>> /\ UNCHANGED link
    BY <2>1, TakesShape
  <2>3. CASE r.id = peer[u].send /\ peer[u].send # 0
    <3>1. m \in Messages /\ M \in [Users -> Nat] /\ Reconcile(Producing(P, u, id), H, M, To(u, m))
      BY <1>11, <2>3, ProducerEffects
    <3>2. m.kind = "answer" /\ m.to = r.kind /\ m.live = r.live /\ m.ok
      BY DEF Answer
    <3>9. H[v][u] = NoConsumer /\ \A p \in Users : p # u => H[v][p] = heard[v][p]
      <4>1. \A l \in Users : /\ Unheard(heard, u)[l][u] = NoConsumer
                             /\ \A p \in Users : p # u => Unheard(heard, u)[l][p] = heard[l][p]
        BY <1>0, UnheardShape
      <4> QED BY <4>1
    <3>3. Producing(P, u, id) \in [Users -> PeerStates] /\ H \in [Users -> [Users -> Consumers]]
      BY <1>0, <2>1, PeerProduces, UnheardShape
    <3>4. made[v] <= M[v]
      BY <1>0
    <3>5. \A p \in Users : Exists(H[v][p]) => H[v][p] = heard[v][p]
      BY <3>9 DEF Exists, NoConsumer
    <3> HIDE DEF m, P, H, M, id
    <3>6. Replied(u, m)
      BY <2>1, <2>2, <3>2 DEF Replied
    <3>7. To(u, m) \in [Users -> Seq(Messages)]
      BY <3>1, ToShape
    <3>8. \A i \in DOMAIN To(u, m)[v] : To(u, m)[v][i].kind = "answer" /\ Replied(v, To(u, m)[v][i])
      BY <1>5, <3>1, <3>2, <3>6
    <3> QED BY <2>2, <3>1, <3>3, <3>4, <3>5, <3>7, <3>8, ReconcileTells
  <2>4. CASE ~(r.id = peer[u].send /\ peer[u].send # 0)
    <3>1. /\ Refusal(u) \in Messages /\ down'[u] = Append(down[u], Refusal(u))
          /\ \A w \in Users : w # u => down'[w] = down[w]
          /\ UNCHANGED <<heard, made>>
      BY <1>11, <2>4, ProducerEffects
    <3> QED BY <1>7, <2>1, <2>2, <3>1
  <2> QED BY <2>3, <2>4
<1>12. ASSUME NEW u \in Users, ServeResume(u) PROVE Tells(v)
  <2> DEFINE r == Head(up[u])
  <2>0. \E ok \in BOOLEAN :
          /\ r.kind = "resume" /\ Takes(u, {"resume"}) /\ Answer(r, r.id, ok) \in Messages
          /\ down'[u] = Append(down[u], Answer(r, r.id, ok)) /\ \A w \in Users : w # u => down'[w] = down[w]
          /\ UNCHANGED made
    BY <1>12, ResumeEffects
  <2>1. PICK ok \in BOOLEAN :
          /\ r.kind = "resume" /\ Takes(u, {"resume"}) /\ Answer(r, r.id, ok) \in Messages
          /\ down'[u] = Append(down[u], Answer(r, r.id, ok)) /\ \A w \in Users : w # u => down'[w] = down[w]
          /\ UNCHANGED made
    BY <2>0
  <2>7. \A l, p \in Users :
          /\ heard'[l][p].id = heard[l][p].id /\ heard'[l][p].on = heard[l][p].on
          /\ heard'[l][p].paused => heard[l][p].paused
    BY <1>12, ResumeEffects
  <2>2. up[u] # <<>>
    BY <2>1, TakesShape
  <2> DEFINE m == Answer(r, r.id, ok)
  <2>3. m.kind = "answer" /\ m.to = r.kind /\ m.live = r.live
    BY DEF Answer
  <2>4. m \in Messages /\ down'[u] = Append(down[u], m)
    BY <2>1
  <2> HIDE DEF m
  <2>5. Replied(u, m) /\ made[v] <= made'[v]
    BY <1>0, <2>1, <2>2, <2>3 DEF Replied
  <2>6. ASSUME NEW p \in Users, Exists(heard'[v][p]) PROVE SameConsumer(v, p)
    <3>1. /\ heard'[v][p].id = heard[v][p].id /\ heard'[v][p].on = heard[v][p].on
          /\ heard'[v][p].paused => heard[v][p].paused
      BY <2>7
    <3>2. Exists(heard[v][p])
      BY <2>6, <3>1 DEF Exists
    <3> QED BY <3>1, <3>2 DEF SameConsumer
  <2> QED BY <1>4, <2>1, <2>3, <2>4, <2>5, <2>6
<1>13. ASSUME NEW u \in Users, ServeWithoutWorker(u) PROVE Tells(v)
  <2>1. /\ up[u] # <<>> /\ ~worker' /\ Refusal(u) \in Messages /\ down'[u] = Append(down[u], Refusal(u))
        /\ \A w \in Users : w # u => down'[w] = down[w]
        /\ UNCHANGED <<heard, made>>
    BY <1>13, RefusedEffects
  <2> QED BY <1>7, <2>1
<1>14. ASSUME NEW u \in Users, RefuseEarly(u) PROVE Tells(v)
  BY <1>2, <1>14 DEF RefuseEarly, routing
<1>15. ASSUME NEW u \in Users, Attach(u) PROVE Tells(v)
  <2>1. UNCHANGED <<heard, made>> /\ (UNCHANGED down \/ Hung(u))
    BY <1>15 DEF Attach
  <2> QED BY <1>2, <1>3, <2>1
<1>16. ASSUME NEW u \in Users, NEW cs \in SUBSET Channels, Talk(u, cs) PROVE Tells(v)
  BY <1>2, <1>16 DEF Talk, wires, routing
<1>17. ASSUME NEW u \in Users, Update(u) PROVE Tells(v)
  <2>1. CASE worker
    <3> DEFINE P == Upserted(peer, u)
    <3>1. P \in [Users -> PeerStates] /\ Reconcile(P, heard, made, Silence) /\ UNCHANGED link
      BY <1>17, <2>1, UpdateEffects
    <3> HIDE DEF P
    <3> QED BY <1>6, <3>1
  <2>2. CASE ~worker
    <3>1. UNCHANGED <<heard, made>> /\ (Hung(u) \/ UNCHANGED down)
      BY <1>17, <2>2 DEF Update, wires
    <3> QED BY <1>2, <1>3, <3>1
  <2> QED BY <2>1, <2>2
<1>18. ASSUME NEW u \in Users, Detach(u) PROVE Tells(v)
  <2> DEFINE P == [peer EXCEPT ![u] = NoPeer]
  <2>1. /\ UNCHANGED link /\ P \in [Users -> PeerStates]
        /\ Reconcile(P, heard, made, Silence) \/ UNCHANGED <<heard, made, down>>
    BY <1>18, DetachEffects
  <2> HIDE DEF P
  <2> QED BY <1>2, <1>6, <2>1
<1>19. ASSUME NEW u \in Users, Evict(u) PROVE Tells(v)
  BY <1>3, <1>19 DEF Evict, routing
<1>20. ASSUME WorkerDies PROVE Tells(v)
  <2>1. ~Exists(NoConsumer) /\ \A p \in Users : heard'[v][p] = NoConsumer
    BY <1>20 DEF WorkerDies, Exists, NoConsumer
  <2>2. made[v] <= made'[v] /\ down'[v] = down[v]
    BY <1>0, <1>20 DEF WorkerDies, wires
  <2> QED BY <2>1, <2>2, AnswerTells
<1>21. ASSUME WorkerRestarts PROVE Tells(v)
  BY <1>2, <1>21 DEF WorkerRestarts, wires
<1>22. ASSUME NEW u \in Users, ServerStep(u) PROVE Tells(v)
  BY <1>8, <1>9, <1>10, <1>11, <1>12, <1>13, <1>14, <1>15, <1>17, <1>18, <1>19, <1>22 DEF ServerStep
<1> QED BY <1>16, <1>20, <1>21, <1>22 DEF ServerNext
\* A request to resume stays on its way until the consumer it names plays.
Resumes(m, p, n) == m.kind = "resume" /\ m.from = p /\ m.id = n
ResumeKept(v) ==
  worker' /\ link'[v] = "attached" =>
    \A p \in Users : \A j \in DOMAIN up[v] :
      Resumes(up[v][j], p, heard[v][p].id) /\ SameConsumer(v, p) =>
        \/ ~heard'[v][p].paused
        \/ \E i \in DOMAIN up'[v] : up'[v][i] = up[v][j]

LEMMA ServerResumes ==
  ASSUME ServerShapes, ServerNext, NEW v \in Users
  PROVE  ResumeKept(v)
<1>0. up[v] \in Seq(Asks) /\ up \in [Users -> Seq(Asks)] /\ link \in [Users -> {"down", "open", "attached", "closing"}]
  BY DEF ServerShapes
<1>1. ASSUME up'[v] = up[v] PROVE ResumeKept(v)
  BY <1>1 DEF ResumeKept
<1>2. ASSUME NEW u \in Users, up[u] # <<>>, up'[u] = Tail(up[u]), \A w \in Users : w # u => up'[w] = up[w],
             \/ Head(up[u]).kind # "resume" \/ ~worker' \/ link'[u] # "attached"
             \/ \A p \in Users : Resumes(Head(up[u]), p, heard[u][p].id) /\ Exists(heard[u][p]) => ~heard'[u][p].paused
      PROVE  ResumeKept(v)
  <2>1. CASE v # u
    BY <1>1, <1>2, <2>1
  <2>2. CASE v = u
    <3>1. /\ Head(up[v]) = up[v][1]
          /\ \A i \in DOMAIN up[v] : i # 1 => i - 1 \in DOMAIN Tail(up[v]) /\ Tail(up[v])[i - 1] = up[v][i]
      BY <1>0, <1>2, <2>2, TailFacts
    <3>2. SUFFICES ASSUME worker', link'[v] = "attached", NEW p \in Users, NEW j \in DOMAIN up[v],
                          Resumes(up[v][j], p, heard[v][p].id), SameConsumer(v, p)
                   PROVE  \/ ~heard'[v][p].paused
                          \/ \E i \in DOMAIN up'[v] : up'[v][i] = up[v][j]
      BY DEF ResumeKept
    <3>3. CASE j = 1
      <4>1. Head(up[u]) = up[v][j]
        BY <2>2, <3>1, <3>3
      <4> QED BY <1>2, <2>2, <3>2, <4>1 DEF Resumes, SameConsumer
    <3>4. CASE j # 1
      <4>1. up'[v] = Tail(up[v])
        BY <1>2, <2>2
      <4>2. j - 1 \in DOMAIN up'[v] /\ up'[v][j - 1] = up[v][j]
        BY <3>1, <3>4, <4>1
      <4> QED BY <4>2
    <3> QED BY <3>3, <3>4
  <2> QED BY <2>1, <2>2
<1>3. ASSUME NEW u \in Users, NEW kinds, Takes(u, kinds), "resume" \notin kinds PROVE ResumeKept(v)
  <2>1. /\ up[u] # <<>> /\ up'[u] = Tail(up[u]) /\ \A w \in Users : w # u => up'[w] = up[w]
        /\ Head(up[u]).kind \in kinds
    BY <1>3, TakesShape
  <2>2. Head(up[u]).kind # "resume"
    BY <1>3, <2>1
  <2> QED BY <1>2, <2>1, <2>2
<1>4. ASSUME NEW u \in Users, ServeResume(u) PROVE ResumeKept(v)
  <2>1. /\ Takes(u, {"resume"})
        /\ \A l, p \in Users : heard'[l][p].paused =>
             ~(l = u /\ Exists(heard[l][p]) /\ p = Head(up[u]).from /\ heard[l][p].id = Head(up[u]).id)
    BY <1>4, ResumeEffects
  <2>2. /\ up[u] # <<>> /\ up'[u] = Tail(up[u]) /\ \A w \in Users : w # u => up'[w] = up[w]
    BY <2>1, TakesShape
  <2>3. \A p \in Users : Resumes(Head(up[u]), p, heard[u][p].id) /\ Exists(heard[u][p]) => ~heard'[u][p].paused
    BY <2>1 DEF Resumes
  <2> QED BY <1>2, <2>2, <2>3
<1>5. ASSUME NEW u \in Users, up[u] # <<>>, up' = [up EXCEPT ![u] = Tail(@)], ~worker' \/ link'[u] # "attached"
      PROVE  ResumeKept(v)
  <2>1. up'[u] = Tail(up[u]) /\ \A w \in Users : w # u => up'[w] = up[w]
    BY <1>5, UpDropped
  <2> QED BY <1>2, <1>5, <2>1
<1>6. ASSUME NEW u \in Users, Hung(u) PROVE ResumeKept(v)
  <2>1. link'[u] = "closing" /\ \A w \in Users : w # u => up'[w] = up[w]
    BY <1>6, HungEffects
  <2>2. CASE v = u
    BY <2>1, <2>2 DEF ResumeKept
  <2>3. CASE v # u
    BY <1>1, <2>1, <2>3
  <2> QED BY <2>2, <2>3
<1>7. ASSUME NEW u \in Users,
             ServeCapabilities(u) \/ ServeTransport(u) \/ ServeConnect(u) \/ ServeProducer(u)
      PROVE  ResumeKept(v)
  <2>1. \E kinds : Takes(u, kinds) /\ "resume" \notin kinds
    <3>1. /\ "resume" \notin {"capabilities"} /\ "resume" \notin {"send", "recv"}
          /\ "resume" \notin {"connect"} /\ "resume" \notin {"produce"}
      OBVIOUS
    <3> QED BY <1>7, <3>1 DEF ServeCapabilities, ServeTransport, ServeConnect, ServeProducer
  <2> QED BY <1>3, <2>1
<1>8. ASSUME NEW u \in Users, ServeWithoutWorker(u) PROVE ResumeKept(v)
  <2>1. ~worker' /\ up[u] # <<>> /\ up' = [up EXCEPT ![u] = Tail(@)]
    BY <1>8, RefusedEffects
  <2> QED BY <1>5, <2>1
<1>9. ASSUME NEW u \in Users, RefuseEarly(u) PROVE ResumeKept(v)
  BY <1>5, <1>9 DEF RefuseEarly
<1>10. ASSUME NEW u \in Users, Attach(u) PROVE ResumeKept(v)
  <2>1. UNCHANGED up \/ Hung(u)
    BY <1>10 DEF Attach
  <2> QED BY <1>1, <1>6, <2>1
<1>11. ASSUME NEW u \in Users, Update(u) PROVE ResumeKept(v)
  <2>1. UNCHANGED up \/ Hung(u)
    BY <1>11 DEF Update, wires
  <2> QED BY <1>1, <1>6, <2>1
<1>12. ASSUME NEW u \in Users, Detach(u) PROVE ResumeKept(v)
  BY <1>1, <1>12 DEF Detach
<1>13. ASSUME NEW u \in Users, Evict(u) PROVE ResumeKept(v)
  BY <1>6, <1>13 DEF Evict
<1>14. ASSUME NEW u \in Users, NEW cs \in SUBSET Channels, Talk(u, cs) PROVE ResumeKept(v)
  BY <1>1, <1>14 DEF Talk, wires
<1>15. ASSUME WorkerDies \/ WorkerRestarts PROVE ResumeKept(v)
  BY <1>1, <1>15 DEF WorkerDies, WorkerRestarts, wires
<1>16. ASSUME NEW u \in Users, ServerStep(u) PROVE ResumeKept(v)
  BY <1>4, <1>7, <1>8, <1>9, <1>10, <1>11, <1>12, <1>13, <1>16 DEF ServerStep
<1> QED BY <1>14, <1>15, <1>16 DEF ServerNext

\* The identifiers of consumers are those of what the service made, a new
\* consumer gets a new one, and no consumer that is there is reported closed.
IdOf(u) ==
  /\ \A p \in Users : Exists(heard[u][p]) => heard[u][p].id <= made[u]
  /\ \A i \in DOMAIN down[u] : down[u][i].kind # "answer" => down[u][i].id <= made[u]
  /\ \A i \in DOMAIN down[u] : down[u][i].kind = "closed" =>
       ~(Exists(heard[u][down[u][i].from]) /\ heard[u][down[u][i].from].id = down[u][i].id)

\* The controller connects the receive transport it holds, which is refused only
\* if the server has another.
ConnectAsk(m) == m.kind = "connect" /\ m.live
ConnectReply(m) == m.kind = "answer" /\ m.live /\ m.to = "connect"
DtlsOf(u) ==
  /\ \A i \in DOMAIN up[u] : ConnectAsk(up[u][i]) => up[u][i].id = ctl[u].recv /\ ctl[u].recv # 0
  /\ \A i \in DOMAIN down[u] : ConnectReply(down[u][i]) =>
       /\ ctl[u].recv # 0
       /\ ~down[u][i].ok => ~(worker /\ peer[u].recv = ctl[u].recv)

\* Consumer n of talker p is announced to u, being opened, or plays and is not
\* paused, or is about to be resumed.
Holds(records, p, n) == \E r \in records : r.from = p /\ r.id = n
Tracked(u, p, n) ==
  \/ \E k \in DOMAIN down[u] : Comes(down[u][k], p, n)
  \/ Holds(opening[u], p, n)
  \/ /\ Holds(playing[u], p, n)
     /\ ~heard[u][p].paused \/ \E j \in DOMAIN up[u] : Resumes(up[u][j], p, n)

\* On the connection on which the controller made its transports it loses track
\* of no consumer; those made after the receive transport are announced after
\* the answer that brings it.
OnSameLink(u) ==
  link[u] = "attached" /\ worker /\ ctl[u].recv # 0 /\ ctl[u].since = joins[u]
HearOf(u) ==
  /\ ctl[u].since <= joins[u]
  /\ ctl[u].recv # 0 /\ ctl[u].since = joins[u] => link[u] # "open"
  /\ OnSameLink(u) =>
       /\ peer[u].recv = ctl[u].recv
       /\ \A p \in Users : Exists(heard[u][p]) => Tracked(u, p, heard[u][p].id)
  /\ worker => \A i \in DOMAIN down[u] : Brings(down[u][i], "recv") =>
       /\ peer[u].recv = down[u][i].id
       /\ \A p \in Users : Exists(heard[u][p]) =>
            \E k \in DOMAIN down[u] : k > i /\ Comes(down[u][k], p, heard[u][p].id)

HeardOf(u) == IdOf(u) /\ DtlsOf(u) /\ HearOf(u)
HeardInv == \A u \in Users : HeardOf(u)
\* The server was at work before a step after which it is and v is attached.
LEMMA StillAtWork ==
  ASSUME ServerShapes, ServerNext, NEW v \in Users, worker', link'[v] = "attached"
  PROVE  worker
BY WorkerReturns

\* A new message comes after an old one.
LEMMA NewIsLater ==
  ASSUME NEW S, NEW D \in Seq(S), NEW E \in Seq(S), NEW i \in DOMAIN D, NEW k \in DOMAIN E, k \notin DOMAIN D
  PROVE  k > i
<1>1. Len(D) \in Nat /\ DOMAIN D = 1..Len(D) /\ Len(E) \in Nat /\ DOMAIN E = 1..Len(E)
  BY LenProperties
<1> QED BY <1>1

LEMMA ServerIds ==
  ASSUME ServerShapes, ServerShapes', LinkInv', ServerNext, NEW v \in Users, IdOf(v)
  PROVE  IdOf(v)'
<1>1. HeardStep(v) /\ (link'[v] = "attached" => DownStep(v))
  BY ServerTells DEF Tells
<1>2. link'[v] # "attached" => down'[v] = <<>>
  BY DEF LinkInv, LinkOf
<1>3. /\ made[v] \in Nat /\ made'[v] \in Nat /\ made[v] <= made'[v]
      /\ \A p \in Users : heard[v][p].id \in Nat /\ heard'[v][p].id \in Nat
      /\ down[v] \in Seq(Messages) /\ down'[v] \in Seq(Messages)
  BY <1>1 DEF ServerShapes, HeardStep, Consumers
<1>4. \A i \in DOMAIN down[v] : down[v][i] \in Messages /\ down[v][i].id \in Nat
  BY <1>3, ElementOfSeq, MessageParts
<1>5. ASSUME NEW p \in Users, Exists(heard'[v][p]) PROVE heard'[v][p].id <= made'[v]
  <2>1. CASE SameConsumer(v, p)
    <3>1. heard'[v][p].id = heard[v][p].id /\ heard[v][p].id <= made[v]
      BY <2>1 DEF SameConsumer, IdOf
    <3> QED BY <1>3, <3>1
  <2>2. CASE NewConsumer(v, p)
    BY <2>2 DEF NewConsumer
  <2> QED BY <1>1, <1>5, <2>1, <2>2 DEF HeardStep
<1>6. ASSUME NEW i \in DOMAIN down'[v], down'[v][i].kind # "answer"
      PROVE  /\ down'[v][i].id <= made'[v]
             /\ down'[v][i].kind = "closed" =>
                  ~(Exists(heard'[v][down'[v][i].from]) /\ heard'[v][down'[v][i].from].id = down'[v][i].id)
  <2>0. DOMAIN <<>> = {}
    OBVIOUS
  <2>1. DownStep(v)
    BY <1>1, <1>2, <1>6, <2>0
  <2>2. CASE i \in DOMAIN down[v]
    <3>1. down'[v][i] = down[v][i]
      BY <2>1, <2>2 DEF DownStep
    <3>2. /\ down[v][i].id <= made[v] /\ down[v][i].id \in Nat
          /\ down[v][i].kind = "closed" =>
               ~(Exists(heard[v][down[v][i].from]) /\ heard[v][down[v][i].from].id = down[v][i].id)
      BY <1>4, <1>6, <2>2, <3>1 DEF IdOf
    <3>3. down[v][i].from \in Users
      BY <1>4, <1>6, <2>2, <3>1, MessageParts
    <3>4. ASSUME down[v][i].kind = "closed", Exists(heard'[v][down[v][i].from])
          PROVE  heard'[v][down[v][i].from].id # down[v][i].id
      <4> DEFINE p == down[v][i].from
      <4>1. SameConsumer(v, p) \/ NewConsumer(v, p)
        BY <1>1, <3>3, <3>4 DEF HeardStep
      <4>2. CASE SameConsumer(v, p)
        BY <3>2, <3>4, <4>2 DEF SameConsumer
      <4>3. CASE NewConsumer(v, p)
        <5>1. made[v] < heard'[v][p].id /\ heard'[v][p].id \in Nat
          BY <1>3, <3>3, <4>3 DEF NewConsumer
        <5> HIDE DEF p
        <5> QED BY <1>3, <3>2, <5>1 DEF p
      <4> QED BY <4>1, <4>2, <4>3
    <3>5. down[v][i].id <= made'[v]
      BY <1>3, <3>2
    <3> QED BY <3>1, <3>2, <3>4, <3>5
  <2>3. CASE i \notin DOMAIN down[v]
    <3> DEFINE m == down'[v][i]
    <3>1. Noted(v, m)
      BY <1>6, <2>1, <2>3 DEF DownStep
    <3> HIDE DEF m
    <3>2. /\ m.from \in Users /\ m.kind = "closed" => ~Exists(heard'[v][m.from])
          /\ \/ m.id = heard'[v][m.from].id /\ Exists(heard'[v][m.from])
             \/ m.id = heard[v][m.from].id /\ Exists(heard[v][m.from])
      BY <3>1 DEF Noted
    <3>3. m.from \in Users
      BY <3>1 DEF Noted
    <3>4. m.id <= made'[v]
      <4>1. CASE m.id = heard'[v][m.from].id /\ Exists(heard'[v][m.from])
        BY <1>5, <3>3, <4>1
      <4>2. CASE m.id = heard[v][m.from].id /\ Exists(heard[v][m.from])
        <5>1. heard[v][m.from].id <= made[v] /\ heard[v][m.from].id \in Nat
          BY <1>3, <3>3, <4>2 DEF IdOf
        <5> QED BY <1>3, <4>2, <5>1
      <4> QED BY <3>1, <4>1, <4>2 DEF Noted
    <3>5. m.kind = "closed" => ~Exists(heard'[v][m.from])
      BY <3>1 DEF Noted
    <3> QED BY <3>4, <3>5 DEF m
  <2> QED BY <2>2, <2>3
<1> QED BY <1>5, <1>6 DEF IdOf

\* The receive transport that v holds is not replaced.
LEMMA RecvKept ==
  ASSUME Shapes, LinkInv', StartInv, ServerNext, NEW v \in Users, worker', link'[v] = "attached",
         ctl[v].recv # 0 \/ NoRequests(up[v])
  PROVE  peer'[v].recv = peer[v].recv
<1>0. ServerShapes /\ Whole(ctl[v]) /\ StartOf(v) /\ up[v] \in Seq(Asks)
  BY ShapesParts DEF Shapes, StartInv
<1>1. Serves(v)
  BY <1>0, ServerServes
<1>2. ~ServeTransport(v)
  <2> SUFFICES ASSUME ServeTransport(v) PROVE FALSE
    OBVIOUS
  <2>1. Head(up[v]).kind \in {"send", "recv"} /\ up[v] # <<>>
    BY <1>0, TransportEffects, TakesShape
  <2>2. Head(up[v]) = up[v][1] /\ 1 \in DOMAIN up[v]
    BY <1>0, <2>1, TailFacts
  <2>3. CASE ctl[v].recv # 0
    BY <1>0, <2>1, <2>2, <2>3 DEF Whole, StartOf
  <2>4. CASE NoRequests(up[v])
    BY <2>1, <2>2, <2>4 DEF NoRequests, Requests
  <2> QED BY <2>3, <2>4
<1> QED BY <1>1, <1>2 DEF Serves

LEMMA ServerDtls ==
  ASSUME Shapes, ServerShapes', LinkInv, LinkInv', StartInv, ServerNext, UNCHANGED ctl, NEW v \in Users, DtlsOf(v)
  PROVE  DtlsOf(v)'
<1>0. ServerShapes /\ up[v] \in Seq(Asks) /\ down[v] \in Seq(Messages)
  BY ShapesParts DEF Shapes
<1>1. \A i \in DOMAIN up'[v] : ConnectAsk(up'[v][i]) => up'[v][i].id = ctl'[v].recv /\ ctl'[v].recv # 0
  <2> SUFFICES ASSUME NEW i \in DOMAIN up'[v], ConnectAsk(up'[v][i])
               PROVE  up'[v][i].id = ctl'[v].recv /\ ctl'[v].recv # 0
    OBVIOUS
  <2>1. PICK j \in DOMAIN up[v] : up'[v][i] = up[v][j]
    BY <1>0, UpShrinks
  <2> QED BY <2>1 DEF DtlsOf
<1>2. ASSUME NEW i \in DOMAIN down'[v], ConnectReply(down'[v][i])
      PROVE  ctl[v].recv # 0 /\ (~down'[v][i].ok => ~(worker' /\ peer'[v].recv = ctl[v].recv))
  <2>0. DOMAIN <<>> = {}
    OBVIOUS
  <2>1. link'[v] = "attached"
    BY <1>2, <2>0 DEF LinkInv, LinkOf
  <2>2. DownStep(v)
    BY <1>0, <2>1, ServerTells DEF Tells
  <2>3. CASE i \in DOMAIN down[v]
    <3>1. down'[v][i] = down[v][i]
      BY <2>2, <2>3 DEF DownStep
    <3>2. ctl[v].recv # 0 /\ (~down[v][i].ok => ~(worker /\ peer[v].recv = ctl[v].recv))
      BY <1>2, <2>3, <3>1 DEF DtlsOf
    <3>3. worker' => worker /\ peer'[v].recv = peer[v].recv
      BY <1>0, <2>1, <3>2, StillAtWork, RecvKept
    <3> QED BY <3>1, <3>2, <3>3
  <2>4. CASE i \notin DOMAIN down[v]
    <3> DEFINE m == down'[v][i]
    <3>1. Replied(v, m)
      BY <1>2, <2>2, <2>4 DEF DownStep, ConnectReply
    <3>2. ConnectReply(m)
      BY <1>2
    <3> HIDE DEF m
    <3>3. up[v] # <<>> /\ ConnectAsk(Head(up[v]))
      BY <3>1, <3>2 DEF Replied, ConnectReply, ConnectAsk
    <3>4. Head(up[v]) = up[v][1] /\ 1 \in DOMAIN up[v]
      BY <1>0, <3>3, TailFacts
    <3>5. Head(up[v]).id = ctl[v].recv /\ ctl[v].recv # 0
      BY <3>3, <3>4 DEF DtlsOf
    <3>6. ~m.ok => ~(worker' /\ peer'[v].recv = ctl[v].recv)
      BY <3>1, <3>2, <3>5 DEF Replied, ConnectReply
    <3> QED BY <3>5, <3>6 DEF m
  <2> QED BY <2>3, <2>4
<1> QED BY <1>1, <1>2 DEF DtlsOf
\* A consumer stays tracked: its notice until that is received, the request to
\* resume it until it is served; a new one is announced.
LEMMA ServerTracks ==
  ASSUME ServerShapes, ServerNext, UNCHANGED <<opening, playing>>, NEW v \in Users,
         worker', link'[v] = "attached",
         \A p \in Users : Exists(heard[v][p]) => Tracked(v, p, heard[v][p].id),
         NEW p \in Users, Exists(heard'[v][p]), NEW n, n = heard'[v][p].id
  PROVE  Tracked(v, p, n)'
<1>1. DownStep(v) /\ ResumeKept(v)
  BY ServerTells, ServerResumes DEF Tells
<1>2. CASE \E i \in DOMAIN down'[v] : Comes(down'[v][i], p, n)
  BY <1>2 DEF Tracked, Comes
<1>3. CASE SameConsumer(v, p)
  <2>1. Tracked(v, p, heard[v][p].id) /\ n = heard[v][p].id /\ (heard'[v][p].paused => heard[v][p].paused)
    BY <1>3 DEF SameConsumer
  <2>2. ASSUME NEW k \in DOMAIN down[v], Comes(down[v][k], p, n) PROVE Tracked(v, p, n)'
    <3>1. k \in DOMAIN down'[v] /\ down'[v][k] = down[v][k]
      BY <1>1 DEF DownStep
    <3> QED BY <1>2, <2>2, <3>1
  <2>3. CASE Holds(opening[v], p, n)
    BY <2>3 DEF Tracked, Holds
  <2>4. CASE Holds(playing[v], p, n) /\ ~heard[v][p].paused
    BY <2>1, <2>4 DEF Tracked, Holds
  <2>5. ASSUME Holds(playing[v], p, n), NEW j \in DOMAIN up[v], Resumes(up[v][j], p, n)
        PROVE  Tracked(v, p, n)'
    <3>1. ~heard'[v][p].paused \/ \E i \in DOMAIN up'[v] : up'[v][i] = up[v][j]
      BY <1>1, <1>3, <2>1, <2>5 DEF ResumeKept
    <3>2. CASE ~heard'[v][p].paused
      BY <2>5, <3>2 DEF Tracked, Holds
    <3>3. ASSUME NEW i \in DOMAIN up'[v], up'[v][i] = up[v][j] PROVE Tracked(v, p, n)'
      <4>1. Resumes(up'[v][i], p, n)
        BY <2>5, <3>3
      <4> QED BY <2>5, <4>1 DEF Tracked, Holds, Resumes
    <3> QED BY <3>1, <3>2, <3>3
  <2> QED BY <2>1, <2>2, <2>3, <2>4, <2>5 DEF Tracked
<1> QED BY <1>1, <1>2, <1>3 DEF DownStep

LEMMA ServerHear ==
  ASSUME Shapes, ServerShapes', OrderInv, LinkInv, LinkInv', StartInv, ServerNext,
         UNCHANGED clientVars, NEW v \in Users, HearOf(v)
  PROVE  HearOf(v)'
<1>0. /\ ServerShapes /\ up[v] \in Seq(Asks) /\ down[v] \in Seq(Messages) /\ down'[v] \in Seq(Messages)
      /\ DOMAIN <<>> = {}
  BY ShapesParts DEF Shapes, ServerShapes
<1>1. UNCHANGED <<ctl, joins, opening, playing>>
  BY DEF clientVars, hearing
<1>2. link'[v] = "open" => link[v] = "open"
  BY <1>0, ServerLinks
<1>3. ASSUME worker', link'[v] = "attached", ctl[v].recv # 0, ctl[v].since = joins[v]
      PROVE  /\ peer'[v].recv = ctl[v].recv
             /\ \A p \in Users : Exists(heard'[v][p]) => Tracked(v, p, heard[v][p].id)'
  <2>1. worker
    BY <1>0, <1>3, StillAtWork
  <2>2. link[v] = "attached"
    <3>1. link[v] # "open"
      BY <1>3 DEF HearOf
    <3> QED BY <1>0, <1>3, <3>1, ServerLinks
  <2>3. /\ peer[v].recv = ctl[v].recv
        /\ \A p \in Users : Exists(heard[v][p]) => Tracked(v, p, heard[v][p].id)
    BY <1>3, <2>1, <2>2 DEF HearOf, OnSameLink
  <2>4. peer'[v].recv = peer[v].recv
    BY <1>3, RecvKept
  <2>5. ASSUME NEW p \in Users, Exists(heard'[v][p]) PROVE Tracked(v, p, heard[v][p].id)'
    <3>1. PICK n : n = heard'[v][p].id
      OBVIOUS
    <3>2. Tracked(v, p, n)'
      BY <1>0, <1>1, <1>3, <2>3, <2>5, <3>1, ServerTracks
    <3> QED BY <3>1, <3>2 DEF Tracked
  <2> QED BY <2>3, <2>4, <2>5
<1>4. ASSUME worker', NEW i \in DOMAIN down'[v], Brings(down'[v][i], "recv")
      PROVE  /\ peer'[v].recv = down'[v][i].id
             /\ \A p \in Users : Exists(heard'[v][p]) =>
                  \E k \in DOMAIN down'[v] : k > i /\ Comes(down'[v][k], p, heard'[v][p].id)
  <2>1. link'[v] = "attached"
    BY <1>0, <1>4 DEF LinkInv, LinkOf
  <2>2. worker /\ DownStep(v)
    BY <1>0, <1>4, <2>1, StillAtWork, ServerTells DEF Tells
  <2>3. CASE i \in DOMAIN down[v]
    <3>1. down'[v][i] = down[v][i]
      BY <2>2, <2>3 DEF DownStep
    <3>2. /\ peer[v].recv = down[v][i].id
          /\ \A p \in Users : Exists(heard[v][p]) =>
               \E k \in DOMAIN down[v] : k > i /\ Comes(down[v][k], p, heard[v][p].id)
      BY <1>4, <2>2, <2>3, <3>1 DEF HearOf
    <3>3. NoRequests(up[v])
      BY <1>4, <2>3, <3>1 DEF OrderInv, OrderOf, Order, Brings, NoRequests
    <3>4. peer'[v].recv = peer[v].recv
      BY <1>4, <2>1, <3>3, RecvKept
    <3>5. ASSUME NEW p \in Users, Exists(heard'[v][p])
          PROVE  \E k \in DOMAIN down'[v] : k > i /\ Comes(down'[v][k], p, heard'[v][p].id)
      <4>1. CASE SameConsumer(v, p)
        <5>1. heard'[v][p].id = heard[v][p].id /\ Exists(heard[v][p])
          BY <4>1 DEF SameConsumer
        <5>2. PICK k \in DOMAIN down[v] : k > i /\ Comes(down[v][k], p, heard[v][p].id)
          BY <3>2, <5>1
        <5>3. k \in DOMAIN down'[v] /\ down'[v][k] = down[v][k]
          BY <2>2 DEF DownStep
        <5> QED BY <5>1, <5>2, <5>3
      <4>2. ASSUME NEW k \in DOMAIN down'[v], k \notin DOMAIN down[v], Comes(down'[v][k], p, heard'[v][p].id)
            PROVE  \E j \in DOMAIN down'[v] : j > i /\ Comes(down'[v][j], p, heard'[v][p].id)
        <5>1. k > i
          BY <1>0, <2>3, <4>2, NewIsLater
        <5> QED BY <4>2, <5>1
      <4> QED BY <2>2, <3>5, <4>1, <4>2 DEF DownStep
    <3> QED BY <3>1, <3>2, <3>4, <3>5
  <2>4. CASE i \notin DOMAIN down[v]
    <3>1. down'[v][i].kind = "answer" /\ down'[v][i].to = "recv" /\ down'[v][i].ok
      BY <1>4 DEF Brings, LiveReply
    <3>2. Replied(v, down'[v][i])
      BY <2>2, <2>4, <3>1 DEF DownStep
    <3> QED BY <3>1, <3>2 DEF Replied
  <2> QED BY <2>3, <2>4
<1> QED BY <1>1, <1>2, <1>3, <1>4 DEF HearOf, OnSameLink
\* What a step of the client of u does to the messages that are on their way.
ReadsOn(u) ==
  \/ down'[u] = down[u]
  \/ down[u] # <<>> /\ down'[u] = Tail(down[u])
  \/ \E kinds \in SUBSET (Requests \cup {"connect"}) : down'[u] = Forgotten(down[u], kinds)
  \/ down'[u] = <<>>

LEMMA ClientReads ==
  ASSUME Shapes, NEW u \in Users, ClientStep(u)
  PROVE  ReadsOn(u)
<1>0. ServerShapes /\ down \in [Users -> Seq(Messages)]
  BY ShapesParts DEF Shapes
<1>1. CASE Arm(u) \/ Captured(u) \/ CaptureDenied(u) \/ Connect(u) \/ Ready(u) \/ \E r \in opening[u] : Opened(u, r)
  <2>1. UNCHANGED down
    BY <1>1 DEF Arm, Captured, CaptureDenied, Connect, Ready, Opened, serverVars, wires
  <2> QED BY <2>1 DEF ReadsOn
<1>2. CASE Disarm(u)
  <2>1. down'[u] = Forgotten(down[u], Requests \cup {"connect"})
    BY <1>0, <1>2 DEF Disarm
  <2> QED BY <2>1 DEF ReadsOn
<1>3. CASE Drop(u)
  <2>1. down'[u] = <<>>
    BY <1>0, <1>3 DEF Drop
  <2> QED BY <2>1 DEF ReadsOn
<1>4. CASE TimeOut(u)
  <2>1. down'[u] = Forgotten(down[u], Requests) /\ Requests \in SUBSET (Requests \cup {"connect"})
    BY <1>0, <1>4 DEF TimeOut
  <2> QED BY <2>1 DEF ReadsOn
<1>5. CASE Answered(u)
  <2>1. Receives(u)
    BY <1>5 DEF Answered, JobAnswered, AnswerIgnored, DtlsAnswered, ResumeAnswered, Available, StateOrClosed
  <2>2. down[u] # <<>> /\ down'[u] = Tail(down[u])
    BY <1>0, <2>1, ReceivesShape
  <2> QED BY <2>2 DEF ReadsOn
<1> QED BY <1>1, <1>2, <1>3, <1>4, <1>5 DEF ClientStep

\* What is on its way to u was before, an answer perhaps not yet forgotten, and
\* in the same order.
LEMMA ReadsOnFacts ==
  ASSUME Shapes, NEW u \in Users, ReadsOn(u)
  PROVE  /\ \A i \in DOMAIN down'[u] : down'[u][i].kind # "answer" =>
              \E j \in DOMAIN down[u] : down'[u][i] = down[u][j]
         /\ \A i \in DOMAIN down'[u] : ConnectReply(down'[u][i]) =>
              \E j \in DOMAIN down[u] : ConnectReply(down[u][j]) /\ down[u][j].ok = down'[u][i].ok
         /\ \A i \in DOMAIN down'[u] : Brings(down'[u][i], "recv") =>
              \E j \in DOMAIN down[u] :
                /\ Brings(down[u][j], "recv") /\ down[u][j].id = down'[u][i].id
                /\ \A k \in DOMAIN down[u] : \A p, n : k > j /\ Comes(down[u][k], p, n) =>
                     \E l \in DOMAIN down'[u] : l > i /\ Comes(down'[u][l], p, n)
<1>0. down[u] \in Seq(Messages) /\ DOMAIN <<>> = {}
  BY ShapesParts
<1>1. CASE down'[u] = down[u]
  BY <1>1
<1>2. CASE down'[u] = <<>>
  BY <1>0, <1>2
<1>3. CASE down[u] # <<>> /\ down'[u] = Tail(down[u])
  <2>1. /\ \A i \in DOMAIN down'[u] : /\ i \in Nat /\ i >= 1 /\ i + 1 \in DOMAIN down[u]
                                      /\ down'[u][i] = down[u][i + 1]
        /\ \A i \in DOMAIN down[u] : i # 1 => i - 1 \in DOMAIN down'[u] /\ down'[u][i - 1] = down[u][i]
    BY <1>0, <1>3, TailFacts
  <2>2. ASSUME NEW i \in DOMAIN down'[u], NEW k \in DOMAIN down[u], k > i + 1, NEW p, NEW n,
               Comes(down[u][k], p, n)
        PROVE  \E l \in DOMAIN down'[u] : l > i /\ Comes(down'[u][l], p, n)
    <3>1. k \in Nat /\ i \in Nat
      <4>1. DOMAIN down[u] = 1..Len(down[u]) /\ Len(down[u]) \in Nat
        BY <1>0, LenProperties
      <4> QED BY <2>1, <4>1
    <3>2. k # 1 /\ k - 1 > i
      BY <2>1, <2>2, <3>1
    <3> QED BY <2>1, <2>2, <3>2
  <2> QED BY <2>1, <2>2
<1>4. CASE \E kinds \in SUBSET (Requests \cup {"connect"}) : down'[u] = Forgotten(down[u], kinds)
  <2>1. PICK kinds \in SUBSET (Requests \cup {"connect"}) : down'[u] = Forgotten(down[u], kinds)
    BY <1>4
  <2>2. /\ DOMAIN down'[u] = DOMAIN down[u]
        /\ \A i \in DOMAIN down[u] :
             /\ down[u][i].kind # "answer" => down'[u][i] = down[u][i]
             /\ down'[u][i].kind = down[u][i].kind
             /\ down[u][i].kind = "answer" =>
                  /\ down'[u][i].to = down[u][i].to /\ down'[u][i].ok = down[u][i].ok
                  /\ down'[u][i].id = down[u][i].id
                  /\ down'[u][i].live => down[u][i].live
    BY <1>0, <2>1, ForgottenMessages
  <2>3. \A i \in DOMAIN down[u] : \A p, n : Comes(down[u][i], p, n) => Comes(down'[u][i], p, n)
    <3> SUFFICES ASSUME NEW i \in DOMAIN down[u], NEW p, NEW n, Comes(down[u][i], p, n)
                 PROVE  Comes(down'[u][i], p, n)
      OBVIOUS
    <3>1. down[u][i].kind # "answer"
      BY DEF Comes
    <3>2. down'[u][i] = down[u][i]
      BY <2>2, <3>1
    <3> QED BY <3>2
  <2>4. ASSUME NEW i \in DOMAIN down'[u], ConnectReply(down'[u][i])
        PROVE  ConnectReply(down[u][i]) /\ down[u][i].ok = down'[u][i].ok
    BY <2>2, <2>4 DEF ConnectReply
  <2>5. ASSUME NEW i \in DOMAIN down'[u], Brings(down'[u][i], "recv")
        PROVE  Brings(down[u][i], "recv") /\ down[u][i].id = down'[u][i].id
    BY <2>2, <2>5 DEF Brings, LiveReply
  <2> QED BY <2>2, <2>3, <2>4, <2>5
<1> QED BY <1>1, <1>2, <1>3, <1>4 DEF ReadsOn

LEMMA ClientIds ==
  ASSUME Shapes, NEW u \in Users, ClientStep(u), IdOf(u)
  PROVE  IdOf(u)'
<1>1. /\ UNCHANGED <<heard, made>>
      /\ \A i \in DOMAIN down'[u] : down'[u][i].kind # "answer" =>
              \E j \in DOMAIN down[u] : down'[u][i] = down[u][j]
  BY ClientFrame, ClientReads, ReadsOnFacts DEF serverOnly
<1>2. ASSUME NEW i \in DOMAIN down'[u], down'[u][i].kind # "answer"
      PROVE  /\ down'[u][i].id <= made[u]
             /\ down'[u][i].kind = "closed" =>
                  ~(Exists(heard[u][down'[u][i].from]) /\ heard[u][down'[u][i].from].id = down'[u][i].id)
  <2>1. PICK j \in DOMAIN down[u] : down'[u][i] = down[u][j]
    BY <1>1, <1>2
  <2> QED BY <1>2, <2>1 DEF IdOf
<1>3. \A p \in Users : Exists(heard'[u][p]) => heard'[u][p].id <= made'[u]
  BY <1>1 DEF IdOf
<1> QED BY <1>1, <1>2, <1>3 DEF IdOf
\* What a step of the client of u adds to its requests: to connect, only the
\* receive transport it holds; no request to resume is lost.
AsksOn(u) ==
  /\ \A i \in DOMAIN up'[u] : ConnectAsk(up'[u][i]) =>
       \/ up'[u][i].id = ctl'[u].recv /\ ctl'[u].recv # 0
       \/ \E j \in DOMAIN up[u] : ConnectAsk(up[u][j]) /\ up[u][j].id = up'[u][i].id
  /\ \A j \in DOMAIN up[u] : \A p, n : Resumes(up[u][j], p, n) =>
       \E i \in DOMAIN up'[u] : Resumes(up'[u][i], p, n)

LEMMA AsksSame == ASSUME NEW u \in Users, up'[u] = up[u] PROVE AsksOn(u)
BY DEF AsksOn

LEMMA AsksAppended ==
  ASSUME NEW u \in Users, up[u] \in Seq(Asks), NEW m \in Asks, up'[u] = Append(up[u], m),
         m.kind = "connect" => m.id = ctl'[u].recv /\ ctl'[u].recv # 0
  PROVE  AsksOn(u)
<1>1. /\ \A i \in DOMAIN up[u] : i \in DOMAIN up'[u] /\ up'[u][i] = up[u][i]
      /\ \A i \in DOMAIN up'[u] : i \in DOMAIN up[u] \/ up'[u][i] = m
  BY AppendFacts
<1> QED BY <1>1 DEF AsksOn, ConnectAsk

LEMMA AsksForgotten ==
  ASSUME NEW u \in Users, up[u] \in Seq(Asks), NEW kinds, "resume" \notin kinds,
         up'[u] = Forgotten(up[u], kinds)
  PROVE  /\ AsksOn(u)
         /\ \A i \in DOMAIN up'[u] : ConnectAsk(up'[u][i]) => "connect" \notin kinds
<1>1. /\ DOMAIN up'[u] = DOMAIN up[u]
      /\ \A i \in DOMAIN up[u] :
           /\ up'[u][i].kind = up[u][i].kind /\ up'[u][i].id = up[u][i].id
           /\ up[u][i].kind = "resume" => up'[u][i].from = up[u][i].from
           /\ up'[u][i].live => up[u][i].live /\ up[u][i].kind \notin kinds
  BY ForgottenAsks
<1>2. \A i \in DOMAIN up[u] : \A p, n : Resumes(up[u][i], p, n) => Resumes(up'[u][i], p, n)
  BY <1>1 DEF Resumes
<1>3. \A i \in DOMAIN up[u] : ConnectAsk(up'[u][i]) => ConnectAsk(up[u][i]) /\ "connect" \notin kinds
  BY <1>1 DEF ConnectAsk
<1> QED BY <1>1, <1>2, <1>3 DEF AsksOn

\* A step keeps the transports, what is being opened and what plays.
Steady(u) ==
  /\ link'[u] = link[u] /\ joins'[u] = joins[u]
  /\ ctl'[u].recv = ctl[u].recv /\ ctl'[u].since = ctl[u].since
  /\ opening[u] \subseteq opening'[u] /\ playing'[u] = playing[u]
  /\ AsksOn(u)

\* A start goes on with controller c.
LEMMA ProceedAsks ==
  ASSUME Shapes, NEW u \in Users, NEW c \in Audio, Whole(c), NEW j \in Jobs, Proceed(u, c, j)
  PROVE  /\ ctl'[u].recv = c.recv /\ ctl'[u].since = c.since
         /\ opening[u] \subseteq opening'[u] /\ playing'[u] = playing[u]
         /\ AsksOn(u)
<1> DEFINE at == StageAfter(c)
<1>0. up[u] \in Seq(Asks) /\ up \in [Users -> Seq(Asks)]
  BY ShapesParts
<1>1. /\ at \in {"capture", "capabilities", "send", "produce", "drain"}
      /\ at = "drain" => c.recv # 0
  BY StageShape
<1>2. /\ ctl'[u].recv = c.recv /\ ctl'[u].since = c.since /\ UNCHANGED playing
      /\ at \in {"capabilities", "send"} => up'[u] = Append(up[u], Request(at, 0)) /\ UNCHANGED opening
      /\ at = "produce" => up'[u] = Append(up[u], Request(at, c.send)) /\ UNCHANGED opening
      /\ at = "capture" => UNCHANGED <<up, opening>>
      /\ at = "drain" =>
           /\ opening'[u] = opening[u] \cup pend[u]
           /\ pend[u] # {} /\ dtls[u] = "new" => up'[u] = Append(up[u], Request("connect", c.recv))
           /\ ~(pend[u] # {} /\ dtls[u] = "new") => UNCHANGED up
  BY ProceedEffects
<1> HIDE DEF at
<1>3. opening[u] \subseteq opening'[u] /\ playing'[u] = playing[u]
  BY <1>1, <1>2
<1>4. ASSUME NEW kind \in Requests, NEW id \in Nat, up'[u] = Append(up[u], Request(kind, id)) PROVE AsksOn(u)
  <2>1. Request(kind, id) \in Asks /\ Request(kind, id).kind = kind
    BY RequestShape
  <2>2. kind # "connect"
    BY DEF Requests
  <2> QED BY <1>0, <1>4, <2>1, <2>2, AsksAppended
<1>5. c.recv \in Nat /\ c.send \in Nat
  BY DEF Audio
<1>6. CASE at \in {"capabilities", "send"}
  <2>1. at \in Requests
    BY <1>6 DEF Requests
  <2> QED BY <1>2, <1>3, <1>4, <1>6, <2>1
<1>7. CASE at = "produce"
  <2>1. at \in Requests
    BY <1>7 DEF Requests
  <2> QED BY <1>2, <1>3, <1>4, <1>5, <1>7, <2>1
<1>8. CASE at = "capture"
  BY <1>2, <1>3, <1>8, AsksSame
<1>9. CASE at = "drain"
  <2>1. /\ Request("connect", c.recv) \in Asks /\ Request("connect", c.recv).kind = "connect"
        /\ Request("connect", c.recv).id = c.recv
    BY <1>5, RequestShape DEF Request
  <2>2. up'[u] = Append(up[u], Request("connect", c.recv)) \/ up'[u] = up[u]
    BY <1>2, <1>9
  <2>3. CASE up'[u] = Append(up[u], Request("connect", c.recv))
    BY <1>0, <1>1, <1>2, <1>3, <1>9, <2>1, <2>3, AsksAppended
  <2>4. CASE up'[u] = up[u]
    BY <1>2, <1>3, <2>4, AsksSame
  <2> QED BY <2>2, <2>3, <2>4
<1> QED BY <1>1, <1>6, <1>7, <1>8, <1>9

LEMMA FailSteady ==
  ASSUME Shapes, NEW u \in Users, Fail(u), AsksOn(u), UNCHANGED <<link, joins, hearing>>
  PROVE  Steady(u)
<1>1. ctl \in [Users -> Audio] /\ ctl[u] \in Audio
  BY ShapesParts
<1>2. ctl'[u] = [ctl[u] EXCEPT !.ready = FALSE]
  BY <1>1, FailEffects
<1>3. ctl'[u].recv = ctl[u].recv /\ ctl'[u].since = ctl[u].since
  BY <1>1, <1>2 DEF Audio
<1> QED BY <1>3 DEF Steady, hearing

\* The steps of the operator and of time but for a disarm
LEMMA OperatorSteady ==
  ASSUME Shapes, StartInv, NEW u \in Users,
         Arm(u) \/ Captured(u) \/ CaptureDenied(u) \/ TimeOut(u) \/ Ready(u)
  PROVE  Steady(u)
<1>0. /\ ctl \in [Users -> Audio] /\ ctl[u] \in Audio /\ Whole(ctl[u]) /\ job[u] \in Jobs
      /\ up \in [Users -> Seq(Asks)] /\ up[u] \in Seq(Asks) /\ StartOf(u)
  BY ShapesParts DEF StartInv
<1>1. ASSUME NEW c \in Audio, Whole(c), NEW j \in Jobs, Proceed(u, c, j), UNCHANGED <<link, joins>>,
             c.recv = ctl[u].recv, c.since = ctl[u].since
      PROVE  Steady(u)
  <2>1. /\ ctl'[u].recv = c.recv /\ ctl'[u].since = c.since
        /\ opening[u] \subseteq opening'[u] /\ playing'[u] = playing[u] /\ AsksOn(u)
    BY <1>1, ProceedAsks
  <2> QED BY <1>1, <2>1 DEF Steady
<1>2. ASSUME UNCHANGED <<link, joins, up, hearing>>, ctl'[u].recv = ctl[u].recv, ctl'[u].since = ctl[u].since
      PROVE  Steady(u)
  <2>1. AsksOn(u)
    BY <1>2, AsksSame
  <2> QED BY <1>2, <2>1 DEF Steady, hearing
<1>3. CASE Arm(u)
  <2>1. CASE u \notin Mobile
    <3>1. Proceed(u, ctl[u], [Idle EXCEPT !.by = "arm"]) /\ UNCHANGED <<link, joins>>
      BY <1>3, <2>1 DEF Arm, Begin
    <3>2. [Idle EXCEPT !.by = "arm"] \in Jobs
      BY BeginShape
    <3> QED BY <1>0, <1>1, <3>1, <3>2
  <2>2. CASE u \in Mobile /\ ctl[u].armed
    BY <1>2, <1>3, <2>2 DEF Arm
  <2>3. CASE u \in Mobile /\ ~ctl[u].armed
    <3> DEFINE c == [ctl[u] EXCEPT !.armed = TRUE]
    <3>1. Proceed(u, c, [Idle EXCEPT !.by = "effect"]) /\ UNCHANGED <<link, joins>>
      BY <1>3, <2>3 DEF Arm, Begin
    <3>2. [Idle EXCEPT !.by = "effect"] \in Jobs
      BY BeginShape
    <3>3. /\ c \in Audio /\ Whole(c) /\ c.recv = ctl[u].recv /\ c.since = ctl[u].since
      BY <1>0 DEF Audio, Whole
    <3> HIDE DEF c
    <3> QED BY <1>1, <3>1, <3>2, <3>3
  <2> QED BY <2>1, <2>2, <2>3
<1>4. CASE Captured(u)
  <2> DEFINE c == [ctl[u] EXCEPT !.mic = TRUE]
             d == [ctl[u] EXCEPT !.mic = TRUE, !.device = IF @ = "none" THEN "new" ELSE @]
  <2>1. /\ c \in Audio /\ Whole(c) /\ c.recv = ctl[u].recv /\ c.since = ctl[u].since
        /\ d.recv = ctl[u].recv /\ d.since = ctl[u].since
    BY <1>0 DEF Audio, Whole
  <2>2. /\ UNCHANGED <<link, joins>>
        /\ Proceed(u, c, job[u]) \/ (ctl' = [ctl EXCEPT ![u] = d] /\ UNCHANGED <<hearing, up>>)
    BY <1>0, <1>4 DEF Captured
  <2> HIDE DEF c, d
  <2>3. CASE ctl' = [ctl EXCEPT ![u] = d] /\ UNCHANGED <<hearing, up>>
    <3>1. ctl'[u] = d
      BY <1>0, <2>3
    <3> QED BY <1>2, <2>1, <2>2, <2>3, <3>1
  <2> QED BY <1>0, <1>1, <2>1, <2>2, <2>3
<1>5. CASE CaptureDenied(u)
  <2>1. Fail(u) /\ UNCHANGED <<link, joins, hearing, up>>
    BY <1>5 DEF CaptureDenied, serverVars, wires
  <2> QED BY <2>1, AsksSame, FailSteady
<1>6. CASE TimeOut(u)
  <2>1. Fail(u) /\ UNCHANGED <<link, joins, hearing>> /\ up'[u] = Forgotten(up[u], Requests)
    BY <1>0, <1>6 DEF TimeOut
  <2>2. "resume" \notin Requests
    BY DEF Requests
  <2>3. AsksOn(u)
    BY <1>0, <2>1, <2>2, AsksForgotten
  <2> QED BY <2>1, <2>3, FailSteady
<1>7. CASE Ready(u)
  <2>1. /\ UNCHANGED <<link, up, joins, hearing>>
        /\ ctl'[u] = [ctl[u] EXCEPT !.ready = TRUE, !.armed = TRUE]
    BY <1>0, <1>7 DEF Ready, serverVars, wires
  <2>2. ctl'[u].recv = ctl[u].recv /\ ctl'[u].since = ctl[u].since
    BY <1>0, <2>1 DEF Audio
  <2> QED BY <1>2, <2>1, <2>2
<1> QED BY <1>3, <1>4, <1>5, <1>6, <1>7
\* An answer to a start, which may bring the receive transport
LEMMA JobHears ==
  ASSUME Shapes, StartInv, NEW u \in Users, JobAnswered(u)
  PROVE  /\ UNCHANGED <<link, joins>> /\ AsksOn(u)
         /\ opening[u] \subseteq opening'[u] /\ playing'[u] = playing[u]
         /\ Head(down[u]).kind = "answer"
         /\ \/ ctl'[u].recv = ctl[u].recv /\ ctl'[u].since = ctl[u].since
            \/ /\ Brings(Head(down[u]), "recv") /\ ctl[u].recv = 0
               /\ ctl'[u].recv = Head(down[u]).id /\ ctl'[u].since = joins[u]
<1> DEFINE m == Head(down[u])
           c == Stored(u, m)
<1>0. /\ ctl[u] \in Audio /\ Whole(ctl[u]) /\ job[u] \in Jobs /\ up \in [Users -> Seq(Asks)]
      /\ up[u] \in Seq(Asks) /\ StartOf(u) /\ ServerShapes
  BY ShapesParts, SMTT(40) DEF StartInv, Shapes
<1>1. /\ Receives(u) /\ m \in Messages /\ LiveReply(m) /\ m.to = job[u].at
      /\ \/ Fail(u) /\ UNCHANGED <<up, hearing>>
         \/ /\ m.ok /\ m.to = "send" /\ m.id # 0
            /\ Asked(u, "recv", 0) /\ UNCHANGED <<ctl, hearing>>
         \/ m.ok /\ m.to # "send" /\ c \in Audio /\ Whole(c) /\ Proceed(u, c, job[u])
  BY JobEffects
<1>2. m.kind = "answer" /\ UNCHANGED <<link, joins>>
  BY <1>0, <1>1, ReceivesShape DEF LiveReply
<1>3. c \in Audio /\ m.ok => /\ m.to # "recv" => c.recv = ctl[u].recv /\ c.since = ctl[u].since
                             /\ m.to = "recv" => c.recv = m.id /\ c.since = joins[u]
  BY <1>1, <1>2, StoredShape
<1> HIDE DEF m, c
<1>4. CASE Fail(u) /\ UNCHANGED <<up, hearing>>
  <2>1. AsksOn(u)
    BY <1>4, AsksSame
  <2>2. Steady(u)
    BY <1>2, <1>4, <2>1, FailSteady
  <2> QED BY <1>2, <2>2 DEF Steady, m
<1>5. CASE m.ok /\ Asked(u, "recv", 0) /\ UNCHANGED <<ctl, hearing>>
  <2>1. "recv" \in Requests /\ "recv" # "connect" /\ 0 \in Nat
    BY DEF Requests
  <2>2. up'[u] = Append(up[u], Request("recv", 0))
    BY <1>0, <1>5, <2>1, AskedShape
  <2>3. Request("recv", 0) \in Asks /\ Request("recv", 0).kind = "recv"
    BY <2>1, RequestShape
  <2>4. AsksOn(u)
    BY <1>0, <2>1, <2>2, <2>3, AsksAppended
  <2> QED BY <1>2, <1>5, <2>4 DEF m, hearing
<1>6. CASE m.ok /\ m.to # "send" /\ c \in Audio /\ Whole(c) /\ Proceed(u, c, job[u])
  <2>1. /\ ctl'[u].recv = c.recv /\ ctl'[u].since = c.since
        /\ opening[u] \subseteq opening'[u] /\ playing'[u] = playing[u] /\ AsksOn(u)
    BY <1>0, <1>6, ProceedAsks
  <2>2. CASE m.to # "recv"
    BY <1>2, <1>3, <1>6, <2>1, <2>2 DEF m
  <2>3. CASE m.to = "recv"
    <3>1. Brings(m, "recv")
      BY <1>1, <1>6, <2>3 DEF Brings
    <3>2. ctl[u].recv = 0
      BY <1>0, <1>1, <2>3 DEF StartOf, Whole
    <3> QED BY <1>2, <1>3, <1>6, <2>1, <2>3, <3>1, <3>2 DEF m
  <2> QED BY <2>2, <2>3
<1> QED BY <1>1, <1>4, <1>5, <1>6

LEMMA ConnectHears ==
  ASSUME Shapes, NEW u \in Users, Connect(u)
  PROVE  /\ ctl'[u].recv = ctl[u].recv /\ ctl'[u].since = ctl[u].since /\ AsksOn(u)
         /\ link'[u] = "open" /\ joins'[u] = joins[u] + 1
<1>0. /\ ctl[u] \in Audio /\ Whole(ctl[u]) /\ link \in [Users -> {"down", "open", "attached", "closing"}]
      /\ joins \in [Users -> Nat]
  BY ShapesParts
<1>1. link'[u] = "open" /\ joins'[u] = joins[u] + 1
  BY <1>0 DEF Connect
<1>2. CASE ctl[u].armed /\ job[u] = Idle
  <2>1. Proceed(u, ctl[u], [Idle EXCEPT !.by = "effect"]) /\ [Idle EXCEPT !.by = "effect"] \in Jobs
    BY <1>2, BeginShape DEF Connect, Begin
  <2> QED BY <1>0, <1>1, <2>1, ProceedAsks
<1>3. CASE ~(ctl[u].armed /\ job[u] = Idle)
  <2>1. UNCHANGED <<ctl, up>>
    BY <1>3 DEF Connect
  <2> QED BY <1>1, <2>1, AsksSame
<1> QED BY <1>2, <1>3

\* The other messages, and a consumer that opens
LEMMA MessageHears ==
  ASSUME Shapes, NEW u \in Users,
         \/ AnswerIgnored(u) \/ DtlsAnswered(u) \/ ResumeAnswered(u) \/ Available(u) \/ StateOrClosed(u)
         \/ \E r \in opening[u] : Opened(u, r)
  PROVE  UNCHANGED <<link, ctl, joins>> /\ AsksOn(u)
<1>0. /\ ctl[u] \in Audio /\ up \in [Users -> Seq(Asks)] /\ up[u] \in Seq(Asks) /\ opening[u] \in SUBSET Heards
      /\ ServerShapes
  BY ShapesParts DEF Shapes
<1>1. UNCHANGED <<link, ctl, joins>>
  BY DEF AnswerIgnored, DtlsAnswered, ResumeAnswered, Available, StateOrClosed, Opened, Receives
<1>2. CASE AnswerIgnored(u) \/ DtlsAnswered(u) \/ ResumeAnswered(u) \/ StateOrClosed(u)
  <2>1. UNCHANGED up
    BY <1>2 DEF AnswerIgnored, DtlsAnswered, ResumeAnswered, StateOrClosed
  <2> QED BY <1>1, <2>1, AsksSame
<1>3. CASE Available(u)
  <2>1. UNCHANGED up \/ (ctl[u].recv # 0 /\ Asked(u, "connect", ctl[u].recv))
    BY <1>3 DEF Available
  <2>2. CASE ctl[u].recv # 0 /\ Asked(u, "connect", ctl[u].recv)
    <3>1. ctl[u].recv \in Nat
      BY <1>0 DEF Audio
    <3>2. up'[u] = Append(up[u], Request("connect", ctl[u].recv))
      BY <1>0, <2>2, <3>1, AskedShape
    <3>3. /\ Request("connect", ctl[u].recv) \in Asks
          /\ Request("connect", ctl[u].recv).id = ctl'[u].recv
      BY <1>1, <3>1, RequestShape DEF Request
    <3>4. AsksOn(u)
      BY <1>0, <1>1, <2>2, <3>2, <3>3, AsksAppended
    <3> QED BY <1>1, <3>4
  <2>3. CASE UNCHANGED up
    BY <1>1, <2>3, AsksSame
  <2> QED BY <2>1, <2>2, <2>3
<1>4. ASSUME NEW r \in opening[u], Opened(u, r) PROVE AsksOn(u)
  <2> DEFINE m == [kind |-> "resume", id |-> r.id, from |-> r.from, live |-> TRUE]
  <2>1. r \in Heards
    BY <1>0
  <2>2. m \in Asks /\ m.kind = "resume"
    BY <2>1 DEF Heards, Asks
  <2>3. up'[u] = Append(up[u], m)
    BY <1>0, <1>4 DEF Opened
  <2> HIDE DEF m
  <2> QED BY <1>0, <2>2, <2>3, AsksAppended
<1> QED BY <1>1, <1>2, <1>3, <1>4

LEMMA ClientDtls ==
  ASSUME Shapes, StartInv, NEW u \in Users, ClientStep(u), DtlsOf(u)
  PROVE  DtlsOf(u)'
<1>0. /\ up[u] \in Seq(Asks) /\ down[u] \in Seq(Messages) /\ ServerShapes
      /\ up \in [Users -> Seq(Asks)] /\ down \in [Users -> Seq(Messages)]
  BY ShapesParts DEF Shapes
<1>1. /\ UNCHANGED <<peer, worker>>
      /\ \A i \in DOMAIN down'[u] : ConnectReply(down'[u][i]) =>
              \E j \in DOMAIN down[u] : ConnectReply(down[u][j]) /\ down[u][j].ok = down'[u][i].ok
  BY ClientFrame, ClientReads, ReadsOnFacts DEF serverOnly
<1>2. ASSUME AsksOn(u), ctl'[u].recv = ctl[u].recv \/ ctl[u].recv = 0 PROVE DtlsOf(u)'
  <2>1. ASSUME NEW i \in DOMAIN up'[u], ConnectAsk(up'[u][i])
        PROVE  up'[u][i].id = ctl'[u].recv /\ ctl'[u].recv # 0
    BY <1>2, <2>1 DEF AsksOn, DtlsOf
  <2>2. ASSUME NEW i \in DOMAIN down'[u], ConnectReply(down'[u][i])
        PROVE  ctl'[u].recv # 0 /\ (~down'[u][i].ok => ~(worker' /\ peer'[u].recv = ctl'[u].recv))
    <3>1. PICK j \in DOMAIN down[u] : ConnectReply(down[u][j]) /\ down[u][j].ok = down'[u][i].ok
      BY <1>1, <2>2
    <3>2. ctl[u].recv # 0 /\ (~down[u][j].ok => ~(worker /\ peer[u].recv = ctl[u].recv))
      BY <3>1 DEF DtlsOf
    <3> QED BY <1>1, <1>2, <3>1, <3>2
  <2> QED BY <2>1, <2>2 DEF DtlsOf
<1>3. ASSUME \A i \in DOMAIN up'[u] : ~ConnectAsk(up'[u][i]),
             \A i \in DOMAIN down'[u] : ~ConnectReply(down'[u][i])
      PROVE  DtlsOf(u)'
  BY <1>3 DEF DtlsOf
<1>4. CASE Arm(u) \/ Captured(u) \/ CaptureDenied(u) \/ TimeOut(u) \/ Ready(u)
  BY <1>2, <1>4, OperatorSteady DEF Steady
<1>5. CASE Disarm(u)
  <2> DEFINE kinds == Requests \cup {"connect"}
  <2>1. /\ up'[u] = Forgotten(up[u], kinds) /\ down'[u] = Forgotten(down[u], kinds)
        /\ "resume" \notin kinds /\ "connect" \in kinds /\ kinds \in SUBSET (Requests \cup {"connect"})
    BY <1>0, <1>5 DEF Disarm, Requests
  <2> HIDE DEF kinds
  <2>2. \A i \in DOMAIN up'[u] : ~ConnectAsk(up'[u][i])
    BY <1>0, <2>1, AsksForgotten
  <2>3. ASSUME NEW i \in DOMAIN down'[u] PROVE ~ConnectReply(down'[u][i])
    <3>1. /\ i \in DOMAIN down[u] /\ down'[u][i].kind = down[u][i].kind
          /\ down[u][i].kind = "answer" => /\ down'[u][i].to = down[u][i].to
                                           /\ down'[u][i].live => down[u][i].to \notin kinds
      BY <1>0, <2>1, ForgottenMessages
    <3> QED BY <2>1, <3>1 DEF ConnectReply
  <2> QED BY <1>3, <2>2, <2>3
<1>6. CASE Connect(u)
  BY <1>2, <1>6, ConnectHears
<1>7. CASE Drop(u)
  <2>1. up'[u] = <<>> /\ down'[u] = <<>> /\ DOMAIN <<>> = {}
    BY <1>0, <1>7 DEF Drop
  <2> QED BY <1>3, <2>1
<1>8. CASE JobAnswered(u)
  <2>1. AsksOn(u) /\ (ctl'[u].recv = ctl[u].recv \/ ctl[u].recv = 0)
    BY <1>8, JobHears
  <2> QED BY <1>2, <2>1
<1>9. CASE \/ AnswerIgnored(u) \/ DtlsAnswered(u) \/ ResumeAnswered(u) \/ Available(u) \/ StateOrClosed(u)
           \/ \E r \in opening[u] : Opened(u, r)
  <2>1. AsksOn(u) /\ UNCHANGED ctl
    BY <1>9, MessageHears
  <2> QED BY <1>2, <2>1
<1> QED BY <1>4, <1>5, <1>6, <1>7, <1>8, <1>9 DEF ClientStep, Answered
\* A consumer stays tracked if its notice, its record and the request to resume
\* it are only replaced by what follows them.
LEMMA TracksOn ==
  ASSUME NEW u \in Users, NEW p \in Users, NEW n, UNCHANGED heard, AsksOn(u), Tracked(u, p, n),
         (\E k \in DOMAIN down[u] : Comes(down[u][k], p, n)) =>
           (\E k \in DOMAIN down'[u] : Comes(down'[u][k], p, n)) \/ Holds(opening'[u], p, n),
         Holds(opening[u], p, n) =>
           \/ Holds(opening'[u], p, n)
           \/ Holds(playing'[u], p, n) /\ \E j \in DOMAIN up'[u] : Resumes(up'[u][j], p, n),
         Holds(playing[u], p, n) => Holds(playing'[u], p, n)
  PROVE  Tracked(u, p, n)'
<1>1. (\E j \in DOMAIN up[u] : Resumes(up[u][j], p, n)) => \E j \in DOMAIN up'[u] : Resumes(up'[u][j], p, n)
  BY DEF AsksOn
<1>2. \/ \E k \in DOMAIN down'[u] : Comes(down'[u][k], p, n)
      \/ Holds(opening'[u], p, n)
      \/ /\ Holds(playing'[u], p, n)
         /\ ~heard'[u][p].paused \/ \E j \in DOMAIN up'[u] : Resumes(up'[u][j], p, n)
  BY <1>1 DEF Tracked
<1> QED BY <1>2 DEF Tracked, Holds, Comes, Resumes

LEMMA TailNotices ==
  ASSUME ServerShapes, NEW u \in Users, Receives(u), NEW k \in DOMAIN down[u], NEW p, NEW n,
         Comes(down[u][k], p, n)
  PROVE  \/ k = 1 /\ Comes(Head(down[u]), p, n)
         \/ \E i \in DOMAIN down'[u] : Comes(down'[u][i], p, n)
<1>1. /\ down[u] # <<>> /\ down'[u] = Tail(down[u]) /\ down[u] \in Seq(Messages)
  BY ReceivesShape DEF ServerShapes
<1>2. /\ Head(down[u]) = down[u][1]
      /\ \A i \in DOMAIN down[u] : i # 1 => i - 1 \in DOMAIN down'[u] /\ down'[u][i - 1] = down[u][i]
  BY <1>1, TailFacts
<1> QED BY <1>2

LEMMA SteadyTracks ==
  ASSUME NEW u \in Users, NEW p \in Users, NEW n, UNCHANGED heard, AsksOn(u), Tracked(u, p, n),
         opening[u] \subseteq opening'[u], playing'[u] = playing[u],
         (\E k \in DOMAIN down[u] : Comes(down[u][k], p, n)) => \E k \in DOMAIN down'[u] : Comes(down'[u][k], p, n)
  PROVE  Tracked(u, p, n)'
<1>1. Holds(opening[u], p, n) => Holds(opening'[u], p, n)
  BY DEF Holds
<1> QED BY <1>1, TracksOn

LEMMA ClientTracks ==
  ASSUME Shapes, StartInv, NEW u \in Users, ClientStep(u), HeardOf(u), OnSameLink(u),
         peer[u].recv = ctl[u].recv, link'[u] = "attached", ctl'[u].recv # 0,
         NEW p \in Users, NEW n, Exists(heard[u][p]), heard[u][p].id = n, Tracked(u, p, n)
  PROVE  Tracked(u, p, n)'
<1>0. /\ ServerShapes /\ down \in [Users -> Seq(Messages)] /\ down[u] \in Seq(Messages)
      /\ link \in [Users -> {"down", "open", "attached", "closing"}] /\ ctl \in [Users -> Audio]
      /\ opening \in [Users -> SUBSET Heards] /\ playing \in [Users -> SUBSET Heards]
      /\ pend \in [Users -> SUBSET Heards] /\ dtls \in [Users -> {"new", "asked", "up"}]
  BY ShapesParts DEF Shapes
<1>1. UNCHANGED <<heard, worker>>
  BY ClientFrame DEF serverOnly
<1>2. ASSUME Receives(u), ~Comes(Head(down[u]), p, n)
      PROVE  (\E k \in DOMAIN down[u] : Comes(down[u][k], p, n)) => \E k \in DOMAIN down'[u] : Comes(down'[u][k], p, n)
  BY <1>0, <1>2, TailNotices
<1>3. CASE Arm(u) \/ Captured(u) \/ CaptureDenied(u) \/ TimeOut(u) \/ Ready(u)
  <2>1. Steady(u)
    BY <1>3, OperatorSteady
  <2>2. (\E k \in DOMAIN down[u] : Comes(down[u][k], p, n)) => \E k \in DOMAIN down'[u] : Comes(down'[u][k], p, n)
    <3>1. CASE TimeOut(u)
      <4>1. down'[u] = Forgotten(down[u], Requests) /\ Requests \in SUBSET (Requests \cup {"connect"})
        BY <1>0, <3>1 DEF TimeOut
      <4>2. /\ DOMAIN down'[u] = DOMAIN down[u]
            /\ \A i \in DOMAIN down[u] : down[u][i].kind # "answer" => down'[u][i] = down[u][i]
        BY <1>0, <4>1, ForgottenMessages
      <4>3. \A i \in DOMAIN down[u] : Comes(down[u][i], p, n) => down[u][i].kind # "answer"
        BY DEF Comes
      <4> QED BY <4>2, <4>3
    <3>2. CASE Arm(u) \/ Captured(u) \/ CaptureDenied(u) \/ Ready(u)
      <4>1. UNCHANGED down
        BY <3>2 DEF Arm, Captured, CaptureDenied, Ready, serverVars, wires
      <4> QED BY <4>1
    <3> QED BY <1>3, <3>1, <3>2
  <2> QED BY <1>1, <2>1, <2>2, SteadyTracks DEF Steady
<1>4. CASE Disarm(u)
  <2>1. ctl'[u].recv = 0
    BY <1>0, <1>4 DEF Disarm, NoAudio
  <2> QED BY <2>1
<1>5. CASE Connect(u)
  BY <1>5, ConnectHears
<1>6. CASE Drop(u)
  <2>1. link'[u] = "down"
    BY <1>0, <1>6 DEF Drop
  <2> QED BY <2>1
<1>7. CASE JobAnswered(u)
  <2>1. /\ AsksOn(u) /\ opening[u] \subseteq opening'[u] /\ playing'[u] = playing[u]
        /\ Head(down[u]).kind = "answer"
    BY <1>7, JobHears
  <2>2. Receives(u) /\ ~Comes(Head(down[u]), p, n)
    BY <1>7, <2>1 DEF JobAnswered, Comes
  <2> QED BY <1>1, <1>2, <2>1, <2>2, SteadyTracks
<1>8. CASE AnswerIgnored(u) \/ ResumeAnswered(u)
  <2>1. Receives(u) /\ ~Comes(Head(down[u]), p, n) /\ UNCHANGED <<opening, playing>>
    BY <1>8 DEF AnswerIgnored, ResumeAnswered, Comes, hearing
  <2>2. AsksOn(u)
    BY <1>8, MessageHears
  <2> QED BY <1>1, <1>2, <2>1, <2>2, SteadyTracks
<1>9. CASE DtlsAnswered(u)
  <2>1. /\ Receives(u) /\ ConnectReply(Head(down[u])) /\ UNCHANGED playing
        /\ opening'[u] = IF Head(down[u]).ok THEN opening[u] ELSE {}
    BY <1>0, <1>9 DEF DtlsAnswered, ConnectReply
  <2>2. Head(down[u]) = down[u][1] /\ 1 \in DOMAIN down[u]
    BY <1>0, <2>1, ReceivesShape, TailFacts
  <2>3. Head(down[u]).ok
    BY <2>1, <2>2 DEF HeardOf, DtlsOf, OnSameLink
  <2>4. AsksOn(u) /\ ~Comes(Head(down[u]), p, n)
    BY <1>9, <2>1, MessageHears DEF ConnectReply, Comes
  <2> QED BY <1>1, <1>2, <2>1, <2>3, <2>4, SteadyTracks
<1>10. CASE Available(u)
  <2> DEFINE m == Head(down[u])
             r == [id |-> m.id, from |-> m.from, on |-> m.on]
  <2>1. /\ Receives(u) /\ ctl[u].recv # 0 /\ UNCHANGED playing
        /\ opening'[u] = opening[u] \cup {r}
    BY <1>0, <1>10 DEF Available, OnSameLink
  <2>2. AsksOn(u)
    BY <1>10, MessageHears
  <2>3. ASSUME Comes(m, p, n) PROVE Holds(opening'[u], p, n)
    <3>1. r.from = m.from /\ r.id = m.id /\ r \in opening'[u]
      BY <2>1
    <3> HIDE DEF m, r
    <3> QED BY <2>3, <3>1 DEF Comes, Holds
  <2>4. Holds(opening[u], p, n) => Holds(opening'[u], p, n)
    BY <2>1 DEF Holds
  <2> HIDE DEF m
  <2>5. (\E k \in DOMAIN down[u] : Comes(down[u][k], p, n)) =>
           (\E k \in DOMAIN down'[u] : Comes(down'[u][k], p, n)) \/ Holds(opening'[u], p, n)
    BY <1>2, <2>1, <2>3 DEF m
  <2>6. Holds(playing[u], p, n) => Holds(playing'[u], p, n)
    BY <2>1
  <2> QED BY <1>1, <2>2, <2>4, <2>5, <2>6, TracksOn
<1>11. CASE StateOrClosed(u)
  <2> DEFINE m == Head(down[u])
             same(r) == r.id = m.id /\ r.from = m.from
  <2>1. /\ Receives(u) /\ m.kind \in {"state", "closed"} /\ UNCHANGED opening
        /\ playing'[u] = IF m.kind = "closed" THEN {r \in playing[u] : ~same(r)}
                         ELSE {IF same(r) THEN [r EXCEPT !.on = m.on] ELSE r : r \in playing[u]}
    BY <1>0, <1>11 DEF StateOrClosed
  <2>2. m = down[u][1] /\ 1 \in DOMAIN down[u]
    BY <1>0, <2>1, ReceivesShape, TailFacts
  <2>3. m.kind = "closed" => ~(m.from = p /\ m.id = n)
    BY <2>2 DEF HeardOf, IdOf
  <2>4. ASSUME NEW r \in playing[u], r.from = p, r.id = n PROVE Holds(playing'[u], p, n)
    <3>1. CASE m.kind = "closed"
      <4>1. r \in playing'[u]
        BY <2>1, <2>3, <2>4, <3>1
      <4> QED BY <2>4, <4>1 DEF Holds
    <3>2. CASE m.kind # "closed"
      <4> DEFINE s == IF same(r) THEN [r EXCEPT !.on = m.on] ELSE r
      <4>1. r \in Heards
        BY <1>0
      <4>2. s.from = r.from /\ s.id = r.id
        BY <4>1 DEF Heards
      <4>3. s \in playing'[u]
        BY <2>1, <3>2
      <4> QED BY <2>4, <4>2, <4>3 DEF Holds
    <3> QED BY <3>1, <3>2
  <2>5. Holds(playing[u], p, n) => Holds(playing'[u], p, n)
    BY <2>4 DEF Holds
  <2>6. AsksOn(u) /\ ~Comes(Head(down[u]), p, n)
    BY <1>11, <2>1, MessageHears DEF Comes
  <2> HIDE DEF m, same
  <2>7. (\E k \in DOMAIN down[u] : Comes(down[u][k], p, n)) => \E k \in DOMAIN down'[u] : Comes(down'[u][k], p, n)
    BY <1>2, <2>1, <2>6
  <2>8. Holds(opening[u], p, n) => Holds(opening'[u], p, n)
    BY <2>1
  <2> QED BY <1>1, <2>5, <2>6, <2>7, <2>8, TracksOn
<1>12. ASSUME NEW r \in opening[u], Opened(u, r) PROVE Tracked(u, p, n)'
  <2> DEFINE m == [kind |-> "resume", id |-> r.id, from |-> r.from, live |-> TRUE]
  <2>1. /\ opening'[u] = opening[u] \ {r} /\ playing'[u] = playing[u] \cup {r}
        /\ up'[u] = Append(up[u], m) /\ UNCHANGED down
    BY <1>0, <1>12 DEF Opened, ServerShapes
  <2>2. AsksOn(u) /\ up[u] \in Seq(Asks) /\ r \in Heards
    BY <1>0, <1>12, MessageHears DEF ServerShapes
  <2>3. m \in Asks
    BY <2>2 DEF Heards, Asks
  <2>4. r.from = p /\ r.id = n => Resumes(m, p, n)
    BY DEF Resumes
  <2> HIDE DEF m
  <2>5. r.from = p /\ r.id = n => \E j \in DOMAIN up'[u] : Resumes(up'[u][j], p, n)
    <3>1. Len(up[u]) + 1 \in DOMAIN up'[u] /\ up'[u][Len(up[u]) + 1] = m
      BY <2>1, <2>2, <2>3, AppendFacts
    <3> QED BY <2>4, <3>1
  <2>6. Holds(opening[u], p, n) =>
           \/ Holds(opening'[u], p, n)
           \/ Holds(playing'[u], p, n) /\ \E j \in DOMAIN up'[u] : Resumes(up'[u][j], p, n)
    BY <2>1, <2>5 DEF Holds
  <2>7. Holds(playing[u], p, n) => Holds(playing'[u], p, n)
    BY <2>1 DEF Holds
  <2> QED BY <1>1, <2>1, <2>2, <2>6, <2>7, TracksOn
<1> QED BY <1>3, <1>4, <1>5, <1>6, <1>7, <1>8, <1>9, <1>10, <1>11, <1>12 DEF ClientStep, Answered
\* The step by which the controller gets its receive transport
LEMMA RecvTracks ==
  ASSUME Shapes, NEW u \in Users, ClientStep(u), JobAnswered(u), HearOf(u), worker,
         Brings(Head(down[u]), "recv"), ctl'[u].recv = Head(down[u]).id
  PROVE  /\ peer'[u].recv = ctl'[u].recv
         /\ \A p \in Users : Exists(heard'[u][p]) => Tracked(u, p, heard[u][p].id)'
<1>0. ServerShapes /\ down[u] \in Seq(Messages) /\ UNCHANGED <<peer, heard>>
  BY ShapesParts, ClientFrame DEF Shapes, serverOnly
<1>1. Receives(u)
  BY DEF JobAnswered
<1>2. /\ Head(down[u]) = down[u][1] /\ 1 \in DOMAIN down[u] /\ down'[u] = Tail(down[u])
      /\ \A i \in DOMAIN down[u] : i # 1 => i - 1 \in DOMAIN Tail(down[u]) /\ Tail(down[u])[i - 1] = down[u][i]
  BY <1>0, <1>1, ReceivesShape, TailFacts
<1>3. /\ peer[u].recv = Head(down[u]).id
      /\ \A p \in Users : Exists(heard[u][p]) =>
           \E k \in DOMAIN down[u] : k > 1 /\ Comes(down[u][k], p, heard[u][p].id)
  BY <1>2 DEF HearOf
<1>4. ASSUME NEW p \in Users, Exists(heard'[u][p]) PROVE Tracked(u, p, heard[u][p].id)'
  <2>1. PICK k \in DOMAIN down[u] : k > 1 /\ Comes(down[u][k], p, heard[u][p].id)
    BY <1>0, <1>3, <1>4
  <2>2. k # 1
    BY <2>1
  <2>3. k - 1 \in DOMAIN down'[u] /\ Comes(down'[u][k - 1], p, heard'[u][p].id)
    BY <1>0, <1>2, <2>1, <2>2
  <2> QED BY <2>3 DEF Tracked, Comes
<1> QED BY <1>0, <1>3, <1>4

LEMMA ClientHear ==
  ASSUME Shapes, LinkInv, StartInv, NEW u \in Users, ClientStep(u), HeardOf(u)
  PROVE  HearOf(u)'
<1>0. /\ ServerShapes /\ ctl \in [Users -> Audio] /\ joins[u] \in Nat /\ ctl[u].since \in Nat
      /\ link \in [Users -> {"down", "open", "attached", "closing"}]
  BY ShapesParts DEF Shapes, Audio
<1>1. UNCHANGED <<heard, worker, peer>> /\ HearOf(u) /\ ReadsOn(u)
  BY ClientFrame, ClientReads DEF serverOnly, HeardOf
\* The answers and notices on their way
<1>2. ASSUME worker', NEW i \in DOMAIN down'[u], Brings(down'[u][i], "recv")
      PROVE  /\ peer'[u].recv = down'[u][i].id
             /\ \A p \in Users : Exists(heard'[u][p]) =>
                  \E k \in DOMAIN down'[u] : k > i /\ Comes(down'[u][k], p, heard'[u][p].id)
  <2>1. PICK j \in DOMAIN down[u] :
          /\ Brings(down[u][j], "recv") /\ down[u][j].id = down'[u][i].id
          /\ \A k \in DOMAIN down[u] : \A p, n : k > j /\ Comes(down[u][k], p, n) =>
               \E l \in DOMAIN down'[u] : l > i /\ Comes(down'[u][l], p, n)
    BY <1>1, <1>2, ReadsOnFacts
  <2>2. /\ peer[u].recv = down[u][j].id
        /\ \A p \in Users : Exists(heard[u][p]) =>
             \E k \in DOMAIN down[u] : k > j /\ Comes(down[u][k], p, heard[u][p].id)
    BY <1>1, <1>2, <2>1 DEF HearOf
  <2> QED BY <1>1, <2>1, <2>2
\* The connection goes on, and the controller keeps its receive transport.
<1>3. ASSUME link'[u] = link[u], joins'[u] = joins[u],
             ctl'[u].recv = ctl[u].recv, ctl'[u].since = ctl[u].since
      PROVE  HearOf(u)'
  <2>1. ASSUME OnSameLink(u)'
        PROVE  /\ peer'[u].recv = ctl'[u].recv
               /\ \A p \in Users : Exists(heard'[u][p]) => Tracked(u, p, heard[u][p].id)'
    <3>1. OnSameLink(u) /\ link'[u] = "attached" /\ ctl'[u].recv # 0
      BY <1>1, <1>3, <2>1 DEF OnSameLink
    <3>2. /\ peer[u].recv = ctl[u].recv
          /\ \A p \in Users : Exists(heard[u][p]) => Tracked(u, p, heard[u][p].id)
      BY <1>1, <3>1 DEF HearOf
    <3>3. ASSUME NEW p \in Users, Exists(heard'[u][p]) PROVE Tracked(u, p, heard[u][p].id)'
      <4>1. PICK n : n = heard[u][p].id
        OBVIOUS
      <4>2. Tracked(u, p, n)'
        BY <1>1, <3>1, <3>2, <3>3, <4>1, ClientTracks
      <4> QED BY <1>1, <4>1, <4>2 DEF Tracked
    <3> QED BY <1>1, <1>3, <3>2, <3>3
  <2>2. ctl'[u].since <= joins'[u]
    BY <1>1, <1>3 DEF HearOf
  <2>3. ctl'[u].recv # 0 /\ ctl'[u].since = joins'[u] => link'[u] # "open"
    BY <1>1, <1>3 DEF HearOf
  <2> QED BY <1>2, <2>1, <2>2, <2>3 DEF HearOf
<1>4. CASE Arm(u) \/ Captured(u) \/ CaptureDenied(u) \/ TimeOut(u) \/ Ready(u)
  BY <1>3, <1>4, OperatorSteady DEF Steady
<1>5. CASE Disarm(u)
  <2>1. ctl'[u].recv = 0 /\ ctl'[u].since = 0 /\ joins'[u] = joins[u]
    BY <1>0, <1>5 DEF Disarm, NoAudio
  <2>2. ctl'[u].since <= joins'[u]
    BY <1>0, <2>1
  <2> QED BY <1>2, <2>1, <2>2 DEF HearOf, OnSameLink
<1>6. CASE Connect(u)
  <2>1. ctl'[u].since = ctl[u].since /\ joins'[u] = joins[u] + 1 /\ ctl[u].since <= joins[u] /\ link'[u] = "open"
    BY <1>1, <1>6, ConnectHears DEF HearOf
  <2>2. ctl'[u].since <= joins'[u] /\ ctl'[u].since # joins'[u]
    BY <1>0, <2>1
  <2> QED BY <1>2, <2>1, <2>2 DEF HearOf, OnSameLink
<1>7. CASE Drop(u)
  <2> DEFINE armed == ctl[u].armed \/ (job[u].at = "drain" /\ job[u].by = "arm")
             c == [ctl[u] EXCEPT !.armed = armed, !.ready = FALSE]
  <2>1. link'[u] = "down" /\ joins'[u] = joins[u] /\ ctl'[u] = IF armed THEN Reset(c) ELSE c
    BY <1>0, <1>7 DEF Drop
  <2>2. c.since = ctl[u].since /\ Reset(c).since = ctl[u].since
    BY <1>0 DEF Audio, Reset
  <2> HIDE DEF armed, c
  <2>3. ctl'[u].since <= joins'[u]
    BY <1>1, <2>1, <2>2 DEF HearOf
  <2> QED BY <1>2, <2>1, <2>3 DEF HearOf, OnSameLink
<1>8. CASE JobAnswered(u)
  <2>1. UNCHANGED <<link, joins>>
    BY <1>8, JobHears
  <2>2. CASE ctl'[u].recv = ctl[u].recv /\ ctl'[u].since = ctl[u].since
    BY <1>3, <2>1, <2>2
  <2>3. CASE Brings(Head(down[u]), "recv") /\ ctl'[u].recv = Head(down[u]).id /\ ctl'[u].since = joins[u]
    <3>1. link[u] # "open"
      <4>1. down[u] # <<>>
        BY <1>8 DEF JobAnswered, Receives
      <4> QED BY <4>1 DEF LinkInv, LinkOf
    <3>2. ctl'[u].since <= joins'[u]
      BY <1>0, <2>1, <2>3
    <3>3. worker' => /\ peer'[u].recv = ctl'[u].recv
                     /\ \A p \in Users : Exists(heard'[u][p]) => Tracked(u, p, heard[u][p].id)'
      BY <1>1, <1>8, <2>3, RecvTracks
    <3> QED BY <1>2, <2>1, <3>1, <3>2, <3>3 DEF HearOf, OnSameLink
  <2> QED BY <1>8, <2>2, <2>3, JobHears
<1>9. CASE \/ AnswerIgnored(u) \/ DtlsAnswered(u) \/ ResumeAnswered(u) \/ Available(u) \/ StateOrClosed(u)
           \/ \E r \in opening[u] : Opened(u, r)
  BY <1>3, <1>9, MessageHears
<1> QED BY <1>4, <1>5, <1>6, <1>7, <1>8, <1>9 DEF ClientStep, Answered
LEMMA InitHeard == Init => HeardInv
<1> SUFFICES ASSUME Init, NEW u \in Users PROVE HeardOf(u)
  BY DEF HeardInv
<1>1. /\ link[u] = "down" /\ up[u] = <<>> /\ down[u] = <<>> /\ ctl[u] = NoAudio /\ joins[u] = 0
      /\ \A p \in Users : heard[u][p] = NoConsumer
  BY DEF Init, ServerInit
<1>2. /\ DOMAIN <<>> = {} /\ ~Exists(NoConsumer) /\ NoAudio.recv = 0 /\ NoAudio.since = 0 /\ 0 <= 0
  BY DEF Exists, NoConsumer, NoAudio
<1> QED BY <1>1, <1>2 DEF HeardOf, IdOf, DtlsOf, HearOf, OnSameLink

LEMMA StepHeard == Truthful /\ HeardInv /\ [Next]_vars => HeardInv'
<1> SUFFICES ASSUME Truthful, HeardInv, [Next]_vars, NEW v \in Users PROVE HeardOf(v)'
  BY DEF HeardInv
<1>0. /\ Shapes /\ OrderInv /\ LinkInv /\ StartInv /\ Shapes' /\ LinkInv'
      /\ ServerShapes /\ ServerShapes' /\ HeardOf(v)
      /\ IdOf(v) /\ DtlsOf(v) /\ HearOf(v)
  BY StepTruthful DEF Truthful, Serving, Shapes, HeardInv, HeardOf
<1>1. CASE ServerNext /\ UNCHANGED clientVars
  <2>1. UNCHANGED ctl
    BY <1>1 DEF clientVars
  <2>2. IdOf(v)'
    BY <1>0, <1>1, ServerIds
  <2>3. DtlsOf(v)'
    BY <1>0, <1>1, <2>1, ServerDtls
  <2>4. HearOf(v)'
    BY <1>0, <1>1, ServerHear
  <2> QED BY <2>2, <2>3, <2>4 DEF HeardOf
\* Nothing of v changes.
<1>2. ASSUME UNCHANGED serverOnly, UNCHANGED Own(v) PROVE HeardOf(v)'
  <2>1. /\ UNCHANGED <<worker, peer, heard, made>>
        /\ UNCHANGED <<link[v], up[v], down[v], ctl[v], opening[v], playing[v], joins[v]>>
    BY <1>2 DEF serverOnly, Own
  <2>2. IdOf(v)'
    BY <1>0, <2>1 DEF IdOf
  <2>3. DtlsOf(v)'
    BY <1>0, <2>1 DEF DtlsOf
  <2>4. \A p \in Users : Tracked(v, p, heard[v][p].id) => Tracked(v, p, heard[v][p].id)'
    BY <2>1 DEF Tracked
  <2>5. HearOf(v)'
    BY <1>0, <2>1, <2>4 DEF HearOf, OnSameLink
  <2> QED BY <2>2, <2>3, <2>5 DEF HeardOf
<1>3. ASSUME NEW u \in Users, ClientStep(u) PROVE HeardOf(v)'
  <2>1. CASE v = u
    <3>1. IdOf(v)' /\ DtlsOf(v)' /\ HearOf(v)'
      BY <1>0, <1>3, <2>1, ClientIds, ClientDtls, ClientHear
    <3> QED BY <3>1 DEF HeardOf
  <2>2. CASE v # u
    BY <1>0, <1>2, <1>3, <2>2, ClientFrame
  <2> QED BY <2>1, <2>2
<1>4. CASE UNCHANGED vars
  <2>1. UNCHANGED serverOnly /\ UNCHANGED Own(v)
    BY <1>4 DEF vars, serverVars, wires, routing, clientVars, hearing, serverOnly, Own
  <2> QED BY <1>2, <2>1
<1> QED BY <1>1, <1>3, <1>4 DEF Next

\* A listener with audio ready and nothing under way hears every talker the
\* server routes to it, on the connection on which it made its transports: no
\* consumer is lost between its notice, its opening and its resume, whatever
\* requests are refused, late or repeated and whatever other clients do.
THEOREM RoutedAlwaysHeard == Spec => []RoutedAreHeard
<1>1. Init => Truthful /\ HeardInv
  BY InitShapes, InitOrder, InitTruth, InitHeard DEF Truthful, Serving
<1>2. Truthful /\ HeardInv /\ [Next]_vars => Truthful' /\ HeardInv'
  BY StepTruthful, StepHeard
<1>3. Truthful /\ HeardInv => RoutedAreHeard
  <2> SUFFICES ASSUME Truthful, HeardInv, NEW l \in Users, Quiet(l), ctl[l].ready,
                      ctl[l].since = joins[l], NEW p \in Users, Exists(heard[l][p])
               PROVE  ~heard[l][p].paused /\ \E r \in playing[l] : r.from = p /\ r.id = heard[l][p].id
    BY DEF RoutedAreHeard, HearsRouted
  <2>1. ctl[l].recv # 0
    <3>1. StartOf(l) /\ Whole(ctl[l])
      BY ShapesParts DEF Truthful, Serving, StartInv
    <3> QED BY <3>1 DEF StartOf, Whole
  <2>2. link[l] = "attached" /\ worker /\ up[l] = <<>> /\ down[l] = <<>> /\ opening[l] = {} /\ DOMAIN <<>> = {}
    BY DEF Quiet
  <2>3. Tracked(l, p, heard[l][p].id)
    BY <2>1, <2>2 DEF HeardInv, HeardOf, HearOf, OnSameLink
  <2> QED BY <2>2, <2>3 DEF Tracked, Holds
<1> QED BY <1>1, <1>2, <1>3, PTL DEF Spec
=============================================================================
