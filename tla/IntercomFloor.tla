---------------------------- MODULE IntercomFloor ----------------------------
(***************************************************************************)
(* What the coordination promises about microphones and the all-page       *)
(* floor, without permissions, reconnects or refreshes: desks come and go, *)
(* a desk opens its own microphones only while nobody else has the floor,  *)
(* and taking the floor closes everybody else's.                           *)
(***************************************************************************)
CONSTANTS Desks, Channels, Nobody

VARIABLES
  online,
  mics,     \* desk -> channels its microphone is open on
  floor     \* the desk that pages everybody, or Nobody

vars == <<online, mics, floor>>

\* No desk of S opens a microphone it did not have open.
Quiet(S) == \A d \in S : mics'[d] \subseteq mics[d]

Init ==
  /\ online = {}
  /\ mics = [d \in Desks |-> {}]
  /\ floor = Nobody

Join(d) ==
  /\ d \notin online
  /\ online' = online \cup {d}
  /\ UNCHANGED <<mics, floor>>

\* The holder of the floor takes it along.
Leave(d) ==
  /\ d \in online
  /\ online' = online \ {d}
  /\ mics'[d] = {}
  /\ Quiet(Desks)
  /\ IF floor = d THEN floor' = Nobody
                  ELSE floor' = floor /\ \A e \in Desks \ {d} : mics'[e] = mics[e]

Speak(d, C) ==
  /\ d \in online
  /\ floor \in {d, Nobody}
  /\ mics' = [mics EXCEPT ![d] = @ \cup C]
  /\ UNCHANGED <<online, floor>>

\* Released keys, mutes and revoked permissions.
Hush ==
  /\ Quiet(Desks)
  /\ UNCHANGED <<online, floor>>

Take(d) ==
  /\ d \in online
  /\ floor = Nobody
  /\ floor' = d
  /\ \A e \in Desks \ {d} : mics'[e] = {}
  /\ UNCHANGED online

Yield ==
  /\ floor # Nobody
  /\ floor' = Nobody
  /\ mics'[floor] = {}
  /\ Quiet(Desks)
  /\ UNCHANGED online

Next ==
  \/ \E d \in Desks : Join(d) \/ Leave(d) \/ Take(d)
  \/ \E d \in Desks, C \in SUBSET Channels : Speak(d, C)
  \/ Hush \/ Yield

Spec == Init /\ [][Next]_vars
=============================================================================
