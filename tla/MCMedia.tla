------------------------------- MODULE MCMedia -------------------------------
(* Small instances of MediaClient for TLC. *)
EXTENDS MediaClient, TLC

CONSTANTS web, mobile, c1, c2

\* Everybody listens to all channels.
ListensMC == [u \in Users |-> Channels]

Both(w, m) == web :> w @@ mobile :> m
Talks == Both(1, 0)
Starts == Both(1, 2)
Links == Both(1, 2)

\* For the web client alone
NoTalks == Both(0, 0)
WebOnce == Both(1, 0)
WebTwice == Both(2, 0)

\* For a start that the link cuts off
WebAgain == Both(2, 1)
MobileTalks == Both(0, 1)
=============================================================================
