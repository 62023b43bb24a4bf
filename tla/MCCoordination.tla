---------------------------- MODULE MCCoordination ----------------------------
(* Small instances of Coordination and AudioPath for TLC. *)
EXTENDS AudioPath, TLC

CONSTANTS u1, u2, t1, t2, t3, c1, c2

TwoOwners == t1 :> u1 @@ t2 :> u2
OneOwner == t1 :> u1
ThreeOwners == t1 :> u1 @@ t2 :> u2 @@ t3 :> u2

Full(role) == [role |-> role, talk |-> Channels, listen |-> Channels]
ListenOnly == [role |-> "user", talk |-> {}, listen |-> Channels]

\* Two admins: everybody may page.
AdminGrants == {Full("admin")}
\* Permissions that an admin can take away and give back.
EditedGrants == {Full("admin"), ListenOnly}

\* Channels are interchangeable, and so are the users with their tokens when
\* each has one and both have the same grants to choose from.
ChannelSymmetry == Permutations(Channels)
SwapUsers == u1 :> u2 @@ u2 :> u1 @@ t1 :> t2 @@ t2 :> t1
DeskSymmetry ==
  ChannelSymmetry \cup {SwapUsers} \cup {p @@ SwapUsers : p \in ChannelSymmetry}

\* Call ids are interchangeable; so are the two tokens of u2.
LineSymmetry ==
  {p @@ q : p \in Permutations(CallIds), q \in Permutations({t2, t3})}

\* The two tokens of u2.
TokenSymmetry == Permutations({t2, t3})

AnyoneTalks == {Anyone}
\* u1 or u2 is the source of the program channels.
ProgramFeeds == {Anyone, u1}
RemoteFeed == {Anyone, u2}
=============================================================================
