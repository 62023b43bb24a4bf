------------------------------ MODULE AudioPath ------------------------------
(***************************************************************************)
(* Who hears whom.  The media service turns the routing contexts it was    *)
(* given into consumers (buildDesiredMediaRoutes), and a client plays a    *)
(* consumer only on the channels its last operator state says it listens   *)
(* to (getRemoteConsumerVolume).  Every session is taken to have armed its *)
(* audio: it has a producer and a receive transport.                       *)
(***************************************************************************)
EXTENDS Coordination

CONSTANTS DirectCall, Ifb   \* the channel ids of the two private routes

\* Ids that no database channel has.
ASSUME AudioPathAssumption == DirectCall # Ifb /\ {DirectCall, Ifb} \cap Channels = {}

-----------------------------------------------------------------------------
\* The activeChannelIds of the consumer that brings session s to listener l;
\* there is no consumer when there are none.
Carried(l, s) ==
  IF {l, s} \subseteq attached /\ Owner[l] # Owner[s]
    THEN (routed[s].talk \cap routed[l].listen)
         \cup (IF routed[l].line = s THEN {DirectCall} ELSE {})
         \cup (IF routed[l].cue = s THEN {Ifb} ELSE {})
    ELSE {}

\* The channels on which the client of l plays the consumer: none is volume 0.
Audible(l, s) == Carried(l, s) \cap told[l].listen

-----------------------------------------------------------------------------
(* What the routes promise *)

\* A direct call is carried in both directions and to nobody else, and an IFB
\* feed from the director to its target only: hang-ups, drops and timeouts on
\* the way leave no half of a private line behind.
PrivateLinesPrivate ==
  \A l, s \in Tokens :
    /\ DirectCall \in Carried(l, s) <=>
         \E k \in CallIds : call[k].phase = "active" /\ {call[k].from, call[k].to} = {l, s}
    /\ Ifb \in Carried(l, s) <=> ifb = [director |-> s, target |-> l]

\* A channel's audio reaches only sessions that may listen to it, from sessions
\* that may talk on it, and during an all-page from its holder alone.
ChannelAudioPermitted ==
  \A l, s \in attached : \A c \in Carried(l, s) \cap Channels :
    /\ c \in grant[l].listen
    /\ c \in grant[s].talk
    /\ page \in {None, s}

-----------------------------------------------------------------------------
(* What the product documents promise of the sound itself *)

\* 03-POST-MVP-FEATURES.md: a direct call is "a temporary point-to-point audio
\* link that only those two users can hear", and of an IFB feed the "Director's
\* audio is routed as a priority stream to the target user": the parties of an
\* answered call hear each other, and the target of a feed hears the director.
PrivateLinesHeard ==
  /\ \A k \in CallIds : call[k].phase = "active" =>
       /\ Audible(call[k].from, call[k].to) # {}
       /\ Audible(call[k].to, call[k].from) # {}
  /\ ifb # NoIfb => Audible(ifb.target, ifb.director) # {}

\* 03-POST-MVP-FEATURES.md the page reaches "ALL listening users": whoever
\* may listen to a channel the holder talks on hears the page.
PageHeardByAll ==
  \A t \in attached :
    (page # None /\ Owner[page] # Owner[t] /\ talk[page] \cap grant[t].listen # {}) =>
      Audible(t, page) # {}
=============================================================================
